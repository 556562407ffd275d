--------------------------- MODULE ServingProofs ----------------------------
(***************************************************************************)
(* Theorems about Prediction and about Lifecycle, for every set of         *)
(* predictions, of inputs and of trainings, and every number of iterations *)
(* and of starts of the API process.                                       *)
(*                                                                         *)
(* Predict works on a copy of the model taken long before and shares Redis *)
(* with every other prediction, so no single variable says which model a   *)
(* version stands for.  The invariant is about all the uses of a model     *)
(* there are, and that no two of them disagree on a version.               *)
(***************************************************************************)
EXTENDS Lifecycle, SequenceTheorems, TLAPS

(***************************************************************************)
(* Type correctness.                                                       *)
(***************************************************************************)

Answered == {"storing", "logging", "done"}
Answer == [result : Result, hit : BOOLEAN]

TypeInv ==
  /\ PredictionTypeOK
  /\ model \in Model
  /\ version \in Nat \ {0}
  /\ DOMAIN local = Predictions
  /\ \A p \in Predictions : stage[p] \in Answered => answer[p] \in Answer

\* A whole training makes a model of a model.
LEMMA TrainedType ==
  ASSUME NEW base \in Model, NEW r \in Requests, NEW k \in Nat, NEW numbers \in Numbers
  PROVE  Trained(base, r, k, numbers) \in Model
<1>1. base.steps \in Seq(Requests)
  BY DEF Model
<1>2. Times(r, k) \in Seq(Requests)
  BY DEF Times
<1>3. base.steps \o Times(r, k) \in Seq(Requests)
  BY <1>1, <1>2, ConcatProperties
<1> QED
  BY <1>3 DEF Trained, Model

LEMMA StoreTypes ==
  ASSUME model \in Model, version \in Nat \ {0},
         Restart \/ \E r \in Requests : Train(r)
  PROVE  model' \in Model /\ version' \in Nat \ {0}
<1>1. Phase1 \in Model /\ Zero \in Model
  BY DEF Phase1, Zero, Model, Numbers
<1>2. ASSUME NEW r \in Requests, Train(r)
      PROVE  model' \in Model
  <2>1. lastTraining'.iterations \in Nat
    BY <1>2 DEF Train, Report
  <2>2. PICK base \in {model, Zero}, numbers \in Numbers :
          model' = Trained(base, r, lastTraining'.iterations, numbers)
    BY <1>2 DEF Train
  <2>3. base \in Model
    BY <1>1
  <2> QED
    BY <2>1, <2>2, <2>3, TrainedType
<1> QED
  BY <1>1, <1>2 DEF Restart, Train

LEMMA InitTypes == PredictionInit => TypeInv
<1> SUFFICES ASSUME PredictionInit
             PROVE  TypeInv
  OBVIOUS
<1>1. Phase1 \in Model
  BY DEF Phase1, Model, Numbers
<1> QED
  BY <1>1 DEF PredictionInit, Init, TypeInv, PredictionTypeOK, Stages, Answered

\* Type correctness of each step of a prediction, also used by Lifecycle.
LEMMA BeginTypes ==
  ASSUME TypeInv, NEW p \in Predictions, Begin(p)
  PROVE  TypeInv'
<1>1. CASE \E input \in Inputs :
             /\ local' = [local EXCEPT ![p] =
                            [input |-> input, model |-> model, version |-> version]]
             /\ Goto(p, "looking")
  <2>1. PICK input \in Inputs :
          /\ local' = [local EXCEPT ![p] =
                         [input |-> input, model |-> model, version |-> version]]
          /\ stage' = [stage EXCEPT ![p] = "looking"]
    BY <1>1 DEF Goto
  <2>2. [input |-> input, model |-> model, version |-> version] \in Local
    BY DEF TypeInv, Local
  <2>3. local'[p] \in Local /\ \A q \in Predictions \ {p} : local'[q] = local[q]
    BY <2>1, <2>2 DEF TypeInv
  <2> QED
    BY <2>1, <2>3 DEF Begin, TypeInv, PredictionTypeOK, Stages, Answered, storeVars,
                      backendVars
<1>2. CASE Goto(p, "refused") /\ UNCHANGED local
  BY <1>2 DEF Begin, Goto, TypeInv, PredictionTypeOK, Stages, Answered, storeVars,
              backendVars
<1> QED
  BY <1>1, <1>2 DEF Begin

LEMMA ResultType ==
  ASSUME TypeInv, NEW p \in Predictions, stage[p] \in Answered \cup {"looking"}
  PROVE  local[p] \in Local /\ ResultOf(p) \in Result
BY DEF TypeInv, PredictionTypeOK, Answered, Local, ResultOf, Result

\* The prediction p gets an answer.
LEMMA AnswerTypes ==
  ASSUME TypeInv, NEW p \in Predictions, Hit(p) \/ Miss(p)
  PROVE  TypeInv'
<1>1. stage[p] = "looking"
  BY DEF Hit, Miss
<1>2. PICK a \in Answer, to \in Answered :
        answer' = [answer EXCEPT ![p] = a] /\ stage' = [stage EXCEPT ![p] = to]
  <2>1. CASE Hit(p)
    <3>1. PICK entry \in cache :
            answer' = [answer EXCEPT ![p] = [result |-> entry.value, hit |-> TRUE]]
      BY <2>1 DEF Hit
    <3>2. [result |-> entry.value, hit |-> TRUE] \in Answer
      BY DEF TypeInv, PredictionTypeOK, Answer
    <3> QED
      BY <2>1, <3>1, <3>2 DEF Hit, Goto, Answered
  <2>2. CASE Miss(p)
    <3>1. [result |-> ResultOf(p), hit |-> FALSE] \in Answer
      BY <1>1, ResultType DEF Answer
    <3> QED
      BY <2>2, <3>1 DEF Miss, Goto, Answered
  <2> QED
    BY <2>1, <2>2
<1>3. UNCHANGED <<model, version, local, cache, redisUp, logs>>
  BY DEF Hit, Miss, storeVars, backendVars
<1>4. answer \in [Predictions -> {NoAnswer} \cup Answer] /\ stage \in [Predictions -> Stages]
  BY DEF TypeInv, PredictionTypeOK, Answer
<1>5. /\ answer' \in [Predictions -> {NoAnswer} \cup Answer]
      /\ stage' \in [Predictions -> Stages]
      /\ \A q \in Predictions : stage'[q] \in Answered => answer'[q] \in Answer
      /\ \A q \in Predictions : stage'[q] \notin {"idle", "refused"} => local'[q] \in Local
  BY <1>1, <1>2, <1>3, <1>4 DEF TypeInv, PredictionTypeOK, Answered, Stages
<1> QED
  BY <1>3, <1>5 DEF TypeInv, PredictionTypeOK, Answer

LEMMA StoreStepTypes ==
  ASSUME TypeInv, NEW p \in Predictions, Store(p)
  PROVE  TypeInv'
<1>1. answer[p] \in Answer
  BY DEF Store, TypeInv, Answered
<1>2. \A entry \in cache' : entry.value \in Result
  BY <1>1 DEF Store, TypeInv, PredictionTypeOK, Answer
<1> QED
  BY <1>1, <1>2 DEF Store, Goto, TypeInv, PredictionTypeOK, Stages, Answered, storeVars

LEMMA LogTypes ==
  ASSUME TypeInv, NEW p \in Predictions, Log(p)
  PROVE  TypeInv'
<1>1. answer[p] \in Answer /\ local[p] \in Local
  BY DEF Log, TypeInv, PredictionTypeOK, Answered
<1>2. [version |-> local[p].version, input |-> local[p].input, answer |-> answer[p]]
        \in [version : Nat, input : Inputs, answer : Answer]
  BY <1>1 DEF Local
<1>3. logs' \subseteq [version : Nat, input : Inputs, answer : Answer]
  BY <1>2 DEF Log, TypeInv, PredictionTypeOK, Answer
<1> QED
  BY <1>1, <1>3 DEF Log, Goto, TypeInv, PredictionTypeOK, Stages, Answered, Answer,
                    storeVars

LEMMA OtherTypes ==
  ASSUME TypeInv, Expire \/ RedisChanges \/ \E r \in Requests : Retrain(r)
  PROVE  TypeInv'
<1>1. CASE Expire \/ RedisChanges
  BY <1>1 DEF Expire, RedisChanges, TypeInv, PredictionTypeOK, storeVars, predictVars
<1>2. ASSUME NEW r \in Requests, Retrain(r)
      PROVE  TypeInv'
  <2>1. model' \in Model /\ version' \in Nat \ {0}
    BY <1>2, StoreTypes DEF Retrain, TypeInv
  <2> QED
    BY <1>2, <2>1 DEF Retrain, TypeInv, PredictionTypeOK, predictVars, backendVars
<1> QED
  BY <1>1, <1>2

LEMMA NextTypes == TypeInv /\ [PredictionNext]_vars => TypeInv'
<1> SUFFICES ASSUME TypeInv, [PredictionNext]_vars
             PROVE  TypeInv'
  OBVIOUS
<1>1. CASE UNCHANGED vars
  BY <1>1 DEF vars, storeVars, predictVars, backendVars, TypeInv, PredictionTypeOK
<1> QED
  BY <1>1, BeginTypes, AnswerTypes, StoreStepTypes, LogTypes, OtherTypes
     DEF PredictionNext, Predict

\* Every variable keeps its type in every behaviour of the predictions,
\* whatever the trainings and Redis do.
THEOREM PredictionTypes == PredictionSpec => []PredictionTypeOK
<1>1. TypeInv => PredictionTypeOK
  BY DEF TypeInv
<1> QED
  BY <1>1, InitTypes, NextTypes, PTL DEF PredictionSpec

-----------------------------------------------------------------------------
(***************************************************************************)
(* One model per version.                                                  *)
(***************************************************************************)

InUse(v, m) == [version |-> v, model |-> m]

\* The models there are and the versions they are known by: the served one,
\* the copies of the predictions, the values in Redis.
Uses ==
  {InUse(version, model)}
    \cup {InUse(local[p].version, local[p].model) :
            p \in {q \in Predictions : stage[q] \in Answered \cup {"looking"}}}
    \cup {InUse(entry.value.version, entry.value.model) : entry \in cache}

OneModelPerVersion ==
  /\ \A u, w \in Uses : u.version = w.version => u.model = w.model
  /\ \A u \in Uses : u.version <= version

\* The key of an entry is that of the result it holds.
KeysFit ==
  \A entry \in cache : entry.key = Key(entry.value.version, entry.value.input)

\* An answer is for the copy of the model, and for an input that prints like
\* the one that was sent.
AnswerFits(p) ==
  /\ answer[p].result.model = local[p].model
  /\ answer[p].result.version = local[p].version
  /\ Printed[answer[p].result.input] = Printed[local[p].input]

AnswersFit ==
  \A p \in Predictions :
    /\ stage[p] # "lost"
    /\ stage[p] \in Answered => AnswerFits(p)
    /\ stage[p] \notin Answered => answer[p] = NoAnswer

\* So is the answer of each line of the log.
LinesFit ==
  \A line \in logs :
    /\ line.answer.result.version = line.version
    /\ Printed[line.answer.result.input] = Printed[line.input]

CacheInv == TypeInv /\ OneModelPerVersion /\ KeysFit /\ AnswersFit /\ LinesFit

LEMMA CacheInvInit == PredictionInit => CacheInv
<1> SUFFICES ASSUME PredictionInit
             PROVE  CacheInv
  OBVIOUS
<1>1. Uses = {InUse(1, Phase1)}
  BY DEF PredictionInit, Init, Uses, Answered
<1>2. OneModelPerVersion
  BY <1>1 DEF PredictionInit, Init, OneModelPerVersion, InUse
<1> QED
  BY <1>2, InitTypes
     DEF CacheInv, PredictionInit, KeysFit, AnswersFit, LinesFit, Answered

\* No step but a training brings in a model under a version that was not in
\* use: what is copied, stored or expires was there before.
LEMMA UsesKept ==
  ASSUME CacheInv, NEW p \in Predictions, Begin(p) \/ Predict(p)
  PROVE  Uses' \subseteq Uses /\ UNCHANGED <<model, version>>
<1>0. TypeInv /\ AnswersFit /\ UNCHANGED <<model, version>>
  BY DEF CacheInv, Begin, Predict, Hit, Miss, Store, Log, storeVars
<1>1. ASSUME NEW q \in Predictions, stage'[q] \in Answered \cup {"looking"}
      PROVE  InUse(local'[q].version, local'[q].model) \in Uses
  <2>1. CASE local'[q] = local[q] /\ stage[q] \in Answered \cup {"looking"}
    BY <2>1 DEF Uses
  <2>2. CASE local'[q].version = version /\ local'[q].model = model
    BY <2>2 DEF Uses
  <2>3. CASE Predict(p)
    <3>1. local' = local /\ stage[p] \in Answered \cup {"looking"}
      BY <2>3 DEF Predict, Hit, Miss, Store, Log, Answered
    <3>2. q # p => stage'[q] = stage[q]
      BY <1>0, <2>3 DEF Predict, Hit, Miss, Store, Log, Goto, TypeInv, PredictionTypeOK
    <3> QED
      BY <1>1, <2>1, <3>1, <3>2
  <2>4. CASE Begin(p) /\ q # p
    <3>1. stage'[q] = stage[q] /\ local'[q] = local[q]
      BY <1>0, <2>4 DEF Begin, Goto, TypeInv, PredictionTypeOK
    <3> QED
      BY <1>1, <2>1, <3>1
  <2>5. CASE Begin(p) /\ q = p
    <3>1. stage'[p] # "refused"
      BY <1>1, <2>5 DEF Answered
    <3>2. PICK input \in Inputs :
            local' = [local EXCEPT ![p] =
                        [input |-> input, model |-> model, version |-> version]]
      BY <1>0, <2>5, <3>1 DEF Begin, Goto, TypeInv, PredictionTypeOK
    <3> QED
      BY <1>0, <2>2, <2>5, <3>2 DEF TypeInv
  <2> QED
    BY <2>3, <2>4, <2>5
<1>2. ASSUME NEW entry \in cache'
      PROVE  InUse(entry.value.version, entry.value.model) \in Uses
  <2>1. CASE entry \in cache
    BY <2>1 DEF Uses
  <2>2. CASE entry \notin cache
    <3>1. Store(p) /\ entry = [key |-> KeyOf(p), value |-> answer[p].result]
      BY <1>2, <2>2 DEF Begin, Predict, Hit, Miss, Store, Log, backendVars
    <3>2. stage[p] \in Answered
      BY <3>1 DEF Store, Answered
    <3>3. AnswerFits(p)
      BY <1>0, <3>2 DEF AnswersFit
    <3> QED
      BY <3>1, <3>2, <3>3 DEF AnswerFits, Uses
  <2> QED
    BY <2>1, <2>2
<1> QED
  BY <1>0, <1>1, <1>2 DEF Uses

LEMMA OneModelNext ==
  CacheInv /\ [PredictionNext]_vars => OneModelPerVersion'
<1> SUFFICES ASSUME CacheInv, [PredictionNext]_vars
             PROVE  OneModelPerVersion'
  OBVIOUS
<1>a. ASSUME Uses' \subseteq Uses, UNCHANGED version
      PROVE  OneModelPerVersion'
  BY <1>a DEF CacheInv, OneModelPerVersion
<1>1. ASSUME NEW p \in Predictions, Begin(p) \/ Predict(p)
      PROVE  OneModelPerVersion'
  BY <1>a, <1>1, UsesKept
<1>2. CASE Expire \/ RedisChanges \/ UNCHANGED vars
  <2>1. cache' \subseteq cache /\ UNCHANGED <<version, model, stage, local>>
    BY <1>2 DEF Expire, RedisChanges, vars, storeVars, predictVars, backendVars
  <2>2. Uses' \subseteq Uses
    BY <2>1 DEF Uses
  <2> QED
    BY <1>a, <2>1, <2>2
<1>3. ASSUME NEW r \in Requests, Retrain(r)
      PROVE  OneModelPerVersion'
  <2>1. version' = version + 1 /\ UNCHANGED <<cache, stage, local>> /\ version \in Nat
    BY <1>3 DEF Retrain, Train, predictVars, backendVars, CacheInv, TypeInv
  <2>2. Uses' \subseteq Uses \cup {InUse(version', model')}
    BY <2>1 DEF Uses
  <2>3. \A u \in Uses : u.version <= version /\ u.version \in Nat
    <3>1. \A u \in Uses : u.version \in Nat
      BY <2>1 DEF CacheInv, TypeInv, PredictionTypeOK, Uses, InUse, Local, Result, Answered
    <3> QED
      BY <3>1 DEF CacheInv, OneModelPerVersion
  <2>4. \A u \in Uses : u.version # version' /\ u.version <= version'
    BY <2>1, <2>3
  <2> QED
    BY <2>1, <2>2, <2>4 DEF CacheInv, OneModelPerVersion, InUse
<1> QED
  BY <1>1, <1>2, <1>3 DEF PredictionNext

LEMMA KeysFitNext ==
  CacheInv /\ [PredictionNext]_vars => KeysFit'
<1> SUFFICES ASSUME CacheInv, [PredictionNext]_vars, NEW entry \in cache'
             PROVE  entry.key = Key(entry.value.version, entry.value.input)
  BY DEF KeysFit, Key
<1>1. CASE entry \in cache
  BY <1>1 DEF CacheInv, KeysFit
<1>2. CASE entry \notin cache
  <2>1. PICK p \in Predictions :
          Store(p) /\ entry = [key |-> KeyOf(p), value |-> answer[p].result]
    BY <1>2 DEF PredictionNext, Begin, Predict, Hit, Miss, Store, Log, Expire,
                RedisChanges, Retrain, vars, backendVars
  <2>2. AnswerFits(p)
    BY <2>1 DEF CacheInv, AnswersFit, Store, Answered
  <2> QED
    BY <2>1, <2>2 DEF AnswerFits, KeyOf, Key
<1> QED
  BY <1>1, <1>2

\* A hit is on a value of the model and of the input looked up.
LEMMA HitFits ==
  ASSUME CacheInv, NEW p \in Predictions, stage[p] = "looking",
         NEW entry \in cache, entry.key = KeyOf(p)
  PROVE  /\ entry.value.model = local[p].model
         /\ entry.value.version = local[p].version
         /\ Printed[entry.value.input] = Printed[local[p].input]
<1>1. Key(entry.value.version, entry.value.input) = KeyOf(p)
  BY DEF CacheInv, KeysFit
<1>2. /\ entry.value.version = local[p].version
      /\ Printed[entry.value.input] = Printed[local[p].input]
  BY <1>1 DEF Key, KeyOf
<1>3. InUse(entry.value.version, entry.value.model) \in Uses
      /\ InUse(local[p].version, local[p].model) \in Uses
  BY DEF Uses
<1>4. entry.value.model = local[p].model
  BY <1>2, <1>3 DEF CacheInv, OneModelPerVersion, InUse
<1> QED
  BY <1>2, <1>4

LEMMA AnswersFitNext ==
  CacheInv /\ [PredictionNext]_vars => AnswersFit'
<1> SUFFICES ASSUME CacheInv, [PredictionNext]_vars
             PROVE  AnswersFit'
  OBVIOUS
<1>0. TypeInv /\ AnswersFit /\ DOMAIN local = Predictions
      /\ stage \in [Predictions -> Stages]
      /\ answer \in [Predictions -> {NoAnswer} \cup Answer]
  BY DEF CacheInv, TypeInv, PredictionTypeOK, Answer
<1>1. ASSUME NEW p \in Predictions, Begin(p)
      PROVE  AnswersFit'
  <2>1. /\ stage[p] = "idle" /\ answer' = answer
        /\ \A q \in Predictions \ {p} : local'[q] = local[q] /\ stage'[q] = stage[q]
        /\ stage'[p] \in {"looking", "refused"}
    BY <1>0, <1>1 DEF Begin, Goto
  <2> QED
    BY <1>0, <2>1 DEF AnswersFit, AnswerFits, Answered
<1>2. ASSUME NEW p \in Predictions, Hit(p)
      PROVE  AnswersFit'
  <2>1. PICK entry \in cache :
          /\ entry.key = KeyOf(p)
          /\ answer' = [answer EXCEPT ![p] = [result |-> entry.value, hit |-> TRUE]]
    BY <1>2 DEF Hit
  <2>2. stage[p] = "looking" /\ stage' = [stage EXCEPT ![p] = "logging"] /\ local' = local
    BY <1>2 DEF Hit, Goto
  <2>3. /\ entry.value.model = local[p].model
        /\ entry.value.version = local[p].version
        /\ Printed[entry.value.input] = Printed[local[p].input]
    BY <2>1, <2>2, HitFits
  <2>4. answer'[p].result = entry.value
    BY <1>0, <2>1
  <2>5. \A q \in Predictions \ {p} : answer'[q] = answer[q] /\ stage'[q] = stage[q]
    BY <1>0, <2>1, <2>2
  <2> QED
    BY <1>0, <2>2, <2>3, <2>4, <2>5 DEF AnswersFit, AnswerFits, Answered
<1>3. ASSUME NEW p \in Predictions, Miss(p)
      PROVE  AnswersFit'
  <2>1. /\ answer' = [answer EXCEPT ![p] = [result |-> ResultOf(p), hit |-> FALSE]]
        /\ stage' = [stage EXCEPT ![p] = "storing"] /\ local' = local
    BY <1>3 DEF Miss, Goto
  <2>2. answer'[p].result = ResultOf(p) /\ stage'[p] = "storing"
    BY <1>0, <2>1
  <2>3. \A q \in Predictions \ {p} : answer'[q] = answer[q] /\ stage'[q] = stage[q]
    BY <1>0, <2>1
  <2> QED
    BY <1>0, <2>1, <2>2, <2>3 DEF AnswersFit, AnswerFits, Answered, ResultOf
<1>4. ASSUME NEW p \in Predictions, Store(p) \/ Log(p)
      PROVE  AnswersFit'
  <2>1. /\ stage[p] \in Answered /\ UNCHANGED <<local, answer>>
        /\ stage' = [stage EXCEPT ![p] = "logging"] \/ stage' = [stage EXCEPT ![p] = "done"]
    BY <1>4 DEF Store, Log, Goto, Answered
  <2> QED
    BY <1>0, <2>1 DEF AnswersFit, AnswerFits, Answered
<1>5. ASSUME UNCHANGED predictVars
      PROVE  AnswersFit'
  BY <1>0, <1>5 DEF predictVars, AnswersFit, AnswerFits
<1> QED
  BY <1>1, <1>2, <1>3, <1>4, <1>5
     DEF PredictionNext, Predict, Expire, RedisChanges, Retrain, vars

LEMMA LinesFitNext ==
  CacheInv /\ [PredictionNext]_vars => LinesFit'
<1> SUFFICES ASSUME CacheInv, [PredictionNext]_vars, NEW line \in logs'
             PROVE  /\ line.answer.result.version = line.version
                    /\ Printed[line.answer.result.input] = Printed[line.input]
  BY DEF LinesFit
<1>1. CASE line \in logs
  BY <1>1 DEF CacheInv, LinesFit
<1>2. CASE line \notin logs
  <2>1. PICK p \in Predictions :
          /\ Log(p)
          /\ line = [version |-> local[p].version, input |-> local[p].input,
                     answer |-> answer[p]]
    BY <1>2 DEF PredictionNext, Begin, Predict, Hit, Miss, Store, Log, Expire,
                RedisChanges, Retrain, vars, backendVars
  <2>2. AnswerFits(p)
    BY <2>1 DEF CacheInv, AnswersFit, Log, Answered
  <2> QED
    BY <2>1, <2>2 DEF AnswerFits
<1> QED
  BY <1>1, <1>2

LEMMA CacheInvariant == PredictionSpec => []CacheInv
<1>1. CacheInv /\ [PredictionNext]_vars => CacheInv'
  BY NextTypes, OneModelNext, KeysFitNext, AnswersFitNext, LinesFitNext DEF CacheInv
<1> QED
  BY <1>1, CacheInvInit, PTL DEF PredictionSpec

\* Whatever trainings are published between the copy of the model, the lookup
\* and the answer, a prediction answers, hit or miss, with what the model it
\* copied makes of the input, and with that model's version.
THEOREM AnswersOfTheirModel == PredictionSpec => []AnswerIsOfItsModel
<1>1. CacheInv => AnswerIsOfItsModel
  BY DEF CacheInv, AnswersFit, AnswerFits, AnswerIsOfItsModel
<1> QED
  BY <1>1, CacheInvariant, PTL

\* Within the life of one API process no version in Redis stands for two
\* models, nor for another than the served one.
THEOREM CacheOfServedModels == PredictionSpec => []CacheIsOfServedModels
<1>1. CacheInv => CacheIsOfServedModels
  <2> SUFFICES ASSUME CacheInv, NEW entry \in cache
               PROVE  LET value == entry.value IN
                        /\ value.version = version => value.model = model
                        /\ \A other \in cache :
                             other.value.version = value.version =>
                               other.value.model = value.model
    BY DEF CacheIsOfServedModels
  <2>1. /\ InUse(version, model) \in Uses
        /\ \A e \in cache : InUse(e.value.version, e.value.model) \in Uses
    BY DEF Uses
  <2>2. \A u, w \in Uses : u.version = w.version => u.model = w.model
    BY DEF CacheInv, OneModelPerVersion
  <2> QED
    BY <2>1, <2>2 DEF InUse
<1> QED
  BY <1>1, CacheInvariant, PTL

\* "%.12g" prints the inputs that clients send differently.  It does not in
\* general (AnswerIsOfItsInput fails without it).
PrintedApart == \A i, j \in Inputs : Printed[i] = Printed[j] => i = j

\* As long as no two inputs agree in their first twelve digits, a cached answer
\* was computed for the very input that was sent.
THEOREM AnswersOfTheirInput ==
  ASSUME PrintedApart
  PROVE  PredictionSpec => []AnswerIsOfItsInput
<1>1. CacheInv => AnswerIsOfItsInput
  <2> SUFFICES ASSUME CacheInv, NEW p \in Predictions, answer[p] # NoAnswer
               PROVE  answer[p].result.input = local[p].input
    BY DEF AnswerIsOfItsInput
  <2>1. stage[p] \in Answered
    BY DEF CacheInv, AnswersFit
  <2>2. AnswerFits(p)
    BY <2>1 DEF CacheInv, AnswersFit
  <2>3. answer[p].result.input \in Inputs /\ local[p].input \in Inputs
    BY <2>1 DEF CacheInv, TypeInv, PredictionTypeOK, Answered, Answer, Result, Local
  <2> QED
    BY <2>2, <2>3, PrintedApart DEF AnswerFits, PrintedApart
<1> QED
  BY <1>1, CacheInvariant, PTL

\* Under the same condition every line of prediction_logs pairs an input and a
\* version with the answer that was given for them.
THEOREM FaithfulLogs ==
  ASSUME PrintedApart
  PROVE  PredictionSpec => []LogsAreFaithful
<1>1. CacheInv => LogsAreFaithful
  <2> SUFFICES ASSUME CacheInv, NEW line \in logs
               PROVE  /\ line.answer.result.version = line.version
                      /\ line.answer.result.input = line.input
    BY DEF LogsAreFaithful
  <2>1. line.answer.result.input \in Inputs /\ line.input \in Inputs
    BY DEF CacheInv, TypeInv, PredictionTypeOK, Result
  <2> QED
    BY <2>1, PrintedApart DEF CacheInv, LinesFit, PrintedApart
<1> QED
  BY <1>1, CacheInvariant, PTL

-----------------------------------------------------------------------------
(***************************************************************************)
(* The API process: type correctness.                                      *)
(***************************************************************************)

LifeTypeInv == TypeInv /\ LifecycleTypeOK

\* What main does among its clients and connections, without touching a
\* prediction or the model.
Bookkeeping ==
  \/ ConnectMongo \/ PingRedis \/ Listen \/ Fatal \/ Signal
  \/ Drained \/ DrainTimesOut \/ Close \/ Disconnect
  \/ \E p \in Predictions : Accept(p)

LEMMA TypesKept ==
  ASSUME TypeInv, UNCHANGED vars
  PROVE  TypeInv'
BY DEF vars, storeVars, predictVars, backendVars, TypeInv, PredictionTypeOK

LEMMA LifeInitTypes == LifecycleInit => LifeTypeInv
BY InitTypes, LifecycleAssumption
   DEF LifecycleInit, LifeTypeInv, LifecycleTypeOK, TypeInv, Server, Client

LEMMA GoneTypes ==
  ASSUME LifeTypeInv, Gone
  PROVE  LifeTypeInv'
<1>1. PredictionTypeOK'
  BY DEF LifeTypeInv, TypeInv, PredictionTypeOK, Gone, InHandler, Stages, backendVars
<1>2. TypeInv'
  BY <1>1 DEF LifeTypeInv, TypeInv, Gone, InHandler, Answered, storeVars
<1> QED
  BY <1>1, <1>2 DEF LifeTypeInv, LifecycleTypeOK, Gone, Server

LEMMA LifeNextTypes == LifeTypeInv /\ [LifecycleNext]_lifeVars => LifeTypeInv'
<1> SUFFICES ASSUME LifeTypeInv, [LifecycleNext]_lifeVars
             PROVE  LifeTypeInv'
  OBVIOUS
<1>0. TypeInv /\ LifecycleTypeOK
  BY DEF LifeTypeInv
<1>1. CASE Bookkeeping
  <2>1. UNCHANGED vars
    BY <1>1 DEF Bookkeeping, ConnectMongo, PingRedis, Listen, Fatal, Signal, Drained,
                DrainTimesOut, Close, Disconnect, Accept
  <2>2. TypeInv'
    BY <1>0, <2>1, TypesKept
  <2>3. /\ server' \in Server /\ mongo' \in Client /\ redis' \in Client
        /\ connected' \subseteq Predictions
        /\ shutdownErr' \in {"nil", "deadline exceeded"}
        /\ starts' = starts
    BY <1>0, <1>1
       DEF Bookkeeping, ConnectMongo, PingRedis, Abandon, Listen, Fatal, Signal, Drained,
           DrainTimesOut, Close, Disconnect, Accept, LifecycleTypeOK, Server, Client
  <2> QED
    BY <1>0, <2>2, <2>3 DEF LifeTypeInv, LifecycleTypeOK, TypeInv
<1>2. CASE Start
  <2>1. model' \in Model /\ version' \in Nat \ {0}
    BY <1>0, <1>2, StoreTypes DEF Start, TypeInv
  <2>2. TypeInv'
    BY <1>0, <1>2, <2>1 DEF Start, TypeInv, PredictionTypeOK, predictVars, backendVars
  <2>3. /\ server' \in Server /\ mongo' \in Client /\ redis' \in Client
        /\ connected' = connected
        /\ shutdownErr' = "nil"
    BY <1>2 DEF Start, Server, Client
  <2>4. starts' \in 0..MaxStarts
    <3>1. starts \in 0..MaxStarts
      BY <1>0 DEF LifecycleTypeOK
    <3>2. starts < MaxStarts /\ starts' = starts + 1
      BY <1>2 DEF Start
    <3> QED
      BY <3>1, <3>2, LifecycleAssumption
  <2> QED
    BY <1>0, <2>2, <2>3, <2>4 DEF LifeTypeInv, LifecycleTypeOK, TypeInv
<1>3. CASE Exit \/ Crash
  BY <1>3, GoneTypes DEF Exit, Crash
<1>4. CASE \/ \E p \in Predictions : Arrive(p) \/ Handle(p)
           \/ \E r \in Requests : Publish(r)
           \/ Backends
  <2>1. TypeInv'
    BY <1>0, <1>4, BeginTypes, AnswerTypes, StoreStepTypes, LogTypes, OtherTypes
       DEF Arrive, Handle, Publish, Backends
  <2>2. UNCHANGED processVars
    BY <1>4 DEF Arrive, Handle, Publish, Backends
  <2> QED
    BY <1>0, <2>1, <2>2 DEF processVars, LifeTypeInv, LifecycleTypeOK, TypeInv
<1>5. CASE UNCHANGED lifeVars
  <2>1. TypeInv'
    BY <1>0, <1>5, TypesKept DEF lifeVars
  <2> QED
    BY <1>0, <1>5, <2>1 DEF lifeVars, processVars, LifeTypeInv, LifecycleTypeOK, TypeInv
<1> QED
  BY <1>1, <1>2, <1>3, <1>4, <1>5 DEF LifecycleNext, Main, Bookkeeping

\* Every variable of the API process keeps its type, across every start, stop
\* and crash.
THEOREM LifecycleTypes == LifecycleSpec => []LifecycleTypeOK
<1>1. LifeTypeInv => LifecycleTypeOK
  BY DEF LifeTypeInv
<1> QED
  BY <1>1, LifeInitTypes, LifeNextTypes, PTL DEF LifecycleSpec

-----------------------------------------------------------------------------
(***************************************************************************)
(* The start.                                                              *)
(***************************************************************************)

\* No client is open before its turn comes to be connected.
OpenedInTurn ==
  /\ server = "connecting" => mongo # "open"
  /\ server \in {"connecting", "pinging", "abandoning"} => redis # "open"
  /\ server = "failed" => mongo # "open" /\ redis # "open"

LEMMA OpenedInTurnNext ==
  OpenedInTurn /\ [LifecycleNext]_lifeVars => OpenedInTurn'
<1> SUFFICES ASSUME OpenedInTurn, [LifecycleNext]_lifeVars
             PROVE  OpenedInTurn'
  OBVIOUS
<1> USE DEF OpenedInTurn
<1>1. CASE Start
  BY <1>1 DEF Start
<1>2. CASE ConnectMongo
  BY <1>2 DEF ConnectMongo
<1>3. CASE PingRedis
  BY <1>3 DEF PingRedis, Abandon
<1>4. CASE Listen \/ Fatal \/ Signal \/ Drained \/ DrainTimesOut \/ Close
           \/ Disconnect \/ Exit \/ Crash
  BY <1>4 DEF Listen, Fatal, Signal, Drained, DrainTimesOut, Close, Disconnect,
              Disconnecting, Exit, Crash, Gone
<1>5. CASE \/ \E p \in Predictions : Accept(p) \/ Arrive(p) \/ Handle(p)
           \/ \E r \in Requests : Publish(r)
           \/ Backends \/ UNCHANGED lifeVars
  BY <1>5 DEF Accept, Arrive, Handle, Publish, Backends, lifeVars, processVars
<1> QED
  BY <1>1, <1>2, <1>3, <1>4, <1>5 DEF LifecycleNext, Main

\* A start that fails on MongoDB or on Redis leaves neither client open,
\* whichever of the two it had already connected.
THEOREM NoClientLeft == LifecycleSpec => []FailedStartClosesClients
<1>1. LifecycleInit => OpenedInTurn
  BY DEF LifecycleInit, OpenedInTurn
<1>2. OpenedInTurn => FailedStartClosesClients
  BY DEF OpenedInTurn, FailedStartClosesClients
<1> QED
  BY <1>1, <1>2, OpenedInTurnNext, PTL DEF LifecycleSpec

-----------------------------------------------------------------------------
(***************************************************************************)
(* The stop.                                                               *)
(***************************************************************************)

\* After a Shutdown that returned nil no client is connected any more, so
\* that no request can arrive, and no handler is left.
Quiet ==
  Stopped /\ shutdownErr = "nil" =>
    connected = {} /\ \A p \in Predictions : ~InHandler(p)

LEMMA QuietNext == PredictionTypeOK /\ Quiet /\ [LifecycleNext]_lifeVars => Quiet'
<1> SUFFICES ASSUME PredictionTypeOK, Quiet, [LifecycleNext]_lifeVars
             PROVE  Quiet'
  OBVIOUS
<1> USE DEF Quiet, Stopped
<1>0. stage \in [Predictions -> Stages]
  BY DEF PredictionTypeOK
<1>1. CASE Start
  BY <1>1 DEF Start
<1>2. CASE ConnectMongo \/ PingRedis \/ Listen \/ Fatal \/ Signal \/ DrainTimesOut
  BY <1>2 DEF ConnectMongo, PingRedis, Abandon, Listen, Fatal, Signal, DrainTimesOut
<1>3. CASE Drained
  BY <1>3 DEF Drained, InHandler, vars, predictVars
<1>4. CASE Close \/ Disconnect
  BY <1>4 DEF Close, Disconnect, Disconnecting, InHandler, vars, predictVars
<1>5. CASE Exit \/ Crash
  BY <1>5 DEF Exit, Crash, Gone
<1>6. ASSUME NEW p \in Predictions, Accept(p)
      PROVE  Quiet'
  BY <1>6 DEF Accept
\* Who arrives is connected; who is handled is in a handler.
<1>7. ASSUME NEW p \in Predictions, Arrive(p) \/ Handle(p)
      PROVE  Quiet'
  <2>1. UNCHANGED <<server, connected, shutdownErr>>
    BY <1>7 DEF Arrive, Handle, processVars
  <2>2. p \in connected \/ InHandler(p)
    BY <1>7 DEF Arrive, Handle, Hit, Miss, Store, Log, InHandler
  <2> QED
    BY <2>1, <2>2
<1>8. CASE \/ \E r \in Requests : Publish(r)
           \/ Backends \/ UNCHANGED lifeVars
  BY <1>8 DEF Publish, Retrain, Backends, Expire, RedisChanges, lifeVars, vars,
              processVars, predictVars, InHandler
<1> QED
  BY <1>1, <1>2, <1>3, <1>4, <1>5, <1>6, <1>7, <1>8 DEF LifecycleNext, Main

\* A stop whose Shutdown did not time out leaves no handler behind that would
\* find the repository closed, although a client that connected before the
\* signal may send its request after it.
THEOREM NobodyLost == LifecycleSpec => []DrainLosesNobody
<1>1. LifecycleInit => Quiet
  BY DEF LifecycleInit, Quiet, Stopped
<1>2. Quiet => DrainLosesNobody
  BY DEF Quiet, DrainLosesNobody
<1>3. LifecycleTypeOK => PredictionTypeOK
  BY DEF LifecycleTypeOK
<1> QED
  BY <1>1, <1>2, <1>3, QuietNext, LifecycleTypes, PTL DEF LifecycleSpec

=============================================================================
