----------------------------- MODULE Prediction -----------------------------
(***************************************************************************)
(* POST /v1/predict: Service.Predict and the Redis cache, beside the       *)
(* trainings that replace the model, which are those of ModelStore.        *)
(*                                                                         *)
(* A prediction copies the model and its version under modelMu, then works *)
(* without any lock: it looks its key up in Redis, and on a miss computes  *)
(* the result, stores it under the key and logs it in MongoDB.  Redis and  *)
(* MongoDB outlive the API process; its starts and stops are in Lifecycle. *)
(***************************************************************************)
EXTENDS ModelStore, FiniteSets

CONSTANTS
  Predictions,     \* the requests a behaviour may contain
  Inputs,          \* the feature vectors clients send
  Printed,         \* input -> what "%.12g" prints of it
  NoAnswer         \* the answer not known yet

ASSUME PredictionAssumption == \A i \in Inputs : i \in DOMAIN Printed

VARIABLES
  stage,           \* where each request is in Predict
  local,           \* its input and its copy of the model and the version
  answer,          \* what it returns
  cache,           \* Redis: the keys that are set, with their values
  redisUp,         \* whether Redis answers
  logs             \* MongoDB's prediction_logs

predictVars == <<stage, local, answer>>
backendVars == <<cache, redisUp, logs>>
vars == <<storeVars, predictVars, backendVars>>

Stages == {"idle", "looking", "storing", "logging",
           "done", "refused", "lost"}

Local == [input : Inputs, model : Model, version : Nat]

\* A probability and a label are what a model makes of an input.
Result == [version : Nat, model : Model, input : Inputs]

\* Mutation: the version is not part of the key.
KeyWithoutVersion(version_, input) == <<Printed[input]>>

\* Mutation: the features are not part of the key.
KeyWithoutInput(version_, input) == <<version_>>

\* The key is the SHA-256 of the version and of the printed features.
Key(version_, input) == <<version_, Printed[input]>>

PredictionTypeOK ==
  /\ stage \in [Predictions -> Stages]
  /\ \A p \in Predictions : stage[p] \notin {"idle", "refused"} => local[p] \in Local
  /\ answer \in [Predictions ->
                   {NoAnswer} \cup [result : Result, hit : BOOLEAN]]
  /\ \A entry \in cache : entry.value \in Result
  /\ redisUp \in BOOLEAN
  /\ logs \subseteq [version : Nat, input : Inputs, answer : [result : Result, hit : BOOLEAN]]

PredictionInit ==
  /\ Init
  /\ stage = [p \in Predictions |-> "idle"]
  /\ local = [p \in Predictions |-> NoAnswer]
  /\ answer = [p \in Predictions |-> NoAnswer]
  /\ cache = {}
  /\ redisUp = TRUE
  /\ logs = {}

-----------------------------------------------------------------------------

Goto(p, to) == stage' = [stage EXCEPT ![p] = to]

\* Decode, copy the model under modelMu, check the features against it.
Begin(p) ==
  /\ stage[p] = "idle"
  /\ \/ /\ \E input \in Inputs :
             local' = [local EXCEPT ![p] =
                         [input |-> input, model |-> model, version |-> version]]
        /\ Goto(p, "looking")
     \/ /\ Goto(p, "refused")         \* a feature is missing, unknown or not finite
        /\ UNCHANGED local
  /\ UNCHANGED <<storeVars, answer, backendVars>>

KeyOf(p) == Key(local[p].version, local[p].input)

\* Mutation: s.modelVersion is read again when the result is put together.
ResultReadingVersionAgain(p) ==
  [version |-> version, model |-> local[p].model, input |-> local[p].input]

ResultOf(p) ==
  [version |-> local[p].version, model |-> local[p].model, input |-> local[p].input]

\* Mutation: a value that does not decode is taken for a hit.
HitUndecoded(p) ==
  /\ stage[p] = "looking"
  /\ redisUp
  /\ \E entry \in cache : entry.key = KeyOf(p)
  /\ answer' = [answer EXCEPT ![p] = [result |-> NoAnswer, hit |-> TRUE]]
  /\ Goto(p, "logging")
  /\ UNCHANGED <<storeVars, local, backendVars>>

\* LoadCachedPrediction finds the key.
Hit(p) ==
  /\ stage[p] = "looking"
  /\ redisUp
  /\ \E entry \in cache :
       /\ entry.key = KeyOf(p)
       /\ answer' = [answer EXCEPT ![p] = [result |-> entry.value, hit |-> TRUE]]
  /\ Goto(p, "logging")
  /\ UNCHANGED <<storeVars, local, backendVars>>

\* Mutation: only a missing key is a miss; an unreachable Redis is not.
MissOnlyIfAbsent(p) ==
  /\ stage[p] = "looking"
  /\ redisUp
  /\ answer' = [answer EXCEPT ![p] = [result |-> ResultOf(p), hit |-> FALSE]]
  /\ Goto(p, "storing")
  /\ UNCHANGED <<storeVars, local, backendVars>>

\* LoadCachedPrediction does not find the key, or fails, by its timeout at the
\* latest: PredictRaw.
Miss(p) ==
  /\ stage[p] = "looking"
  /\ answer' = [answer EXCEPT ![p] = [result |-> ResultOf(p), hit |-> FALSE]]
  /\ Goto(p, "storing")
  /\ UNCHANGED <<storeVars, local, backendVars>>

\* CachePrediction: SET replaces what the key holds.  Whether Redis took the
\* value is not known when the call fails.
Store(p) ==
  /\ stage[p] = "storing"
  /\ \/ /\ redisUp
        /\ cache' = {entry \in cache : entry.key # KeyOf(p)}
                      \cup {[key |-> KeyOf(p), value |-> answer[p].result]}
     \/ UNCHANGED cache
  /\ Goto(p, "logging")
  /\ UNCHANGED <<storeVars, local, answer, redisUp, logs>>

\* Mutation: s.modelVersion is read again for the log.
LogReadingVersionAgain(p) ==
  /\ stage[p] = "logging"
  /\ \/ logs' = logs \cup {[version |-> version, input |-> local[p].input,
                            answer |-> answer[p]]}
     \/ UNCHANGED logs
  /\ Goto(p, "done")
  /\ UNCHANGED <<storeVars, local, answer, cache, redisUp>>

\* SavePrediction, which may fail, and the answer.
Log(p) ==
  /\ stage[p] = "logging"
  /\ \/ logs' = logs \cup {[version |-> local[p].version, input |-> local[p].input,
                            answer |-> answer[p]]}
     \/ UNCHANGED logs
  /\ Goto(p, "done")
  /\ UNCHANGED <<storeVars, local, answer, cache, redisUp>>

-----------------------------------------------------------------------------

\* A key reaches its time to live.
Expire ==
  /\ redisUp
  /\ \E entry \in cache : cache' = cache \ {entry}
  /\ UNCHANGED <<storeVars, predictVars, redisUp, logs>>

RedisChanges ==
  /\ redisUp' = ~redisUp
  /\ UNCHANGED <<storeVars, predictVars, cache, logs>>

Retrain(r) == Train(r) /\ UNCHANGED <<predictVars, backendVars>>

Predict(p) == Hit(p) \/ Miss(p) \/ Store(p) \/ Log(p)

PredictionNext ==
  \/ \E p \in Predictions : Begin(p) \/ Predict(p)
  \/ Expire \/ RedisChanges
  \/ \E r \in Requests : Retrain(r)

PredictionSpec == PredictionInit /\ [][PredictionNext]_vars

-----------------------------------------------------------------------------
(***************************************************************************)
(* What the cache must not do to the answers.                              *)
(***************************************************************************)

\* "Versiones distintas del modelo no deben compartir clave Redis": whatever
\* trainings are published between the copy of the model, the lookup and the
\* answer, hit or miss, the answer is what that copy makes of the input.
AnswerIsOfItsModel ==
  \A p \in Predictions : answer[p] # NoAnswer =>
    /\ answer[p].result.model = local[p].model
    /\ answer[p].result.version = local[p].version

\* "Entradas distintas no deben compartir clave Redis": a cached answer was
\* computed for this very input.
AnswerIsOfItsInput ==
  \A p \in Predictions : answer[p] # NoAnswer =>
    answer[p].result.input = local[p].input

\* While the API process lives, no entry of the cache pairs a version with a
\* model that is not that version's, although predictions that began before a
\* training store their results long after it was published.
CacheIsOfServedModels ==
  \A entry \in cache :
    LET value == entry.value IN
      /\ value.version = version => value.model = model
      /\ \A other \in cache :
           other.value.version = value.version => other.value.model = value.model

\* Each line of prediction_logs pairs an input and a version with the answer
\* that was given for them, hits included.
LogsAreFaithful ==
  \A line \in logs :
    /\ line.answer.result.version = line.version
    /\ line.answer.result.input = line.input

=============================================================================
