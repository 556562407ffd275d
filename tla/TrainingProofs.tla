--------------------------- MODULE TrainingProofs ---------------------------
(***************************************************************************)
(* Theorems about Training, for every set of requests and of nodes, every  *)
(* number of rounds, of crashes and of restarts.                           *)
(***************************************************************************)
EXTENDS Training, SequenceTheorems, TLAPS

\* One update keeps a model a model.
LEMMA StepType ==
  ASSUME NEW m \in Model, NEW r \in Requests, NEW numbers \in Numbers
  PROVE  Step(m, r, numbers) \in Model
<1>1. m.steps \in Seq(Requests)
  BY DEF Model
<1>2. Append(m.steps, r) \in Seq(Requests)
  BY <1>1
<1> QED
  BY <1>2 DEF Model, Step

\* The two starting points are models.
LEMMA OriginTypes == Phase1 \in Model /\ Zero \in Model
BY DEF Model, Numbers, Phase1, Zero

\* A node's handler answers with a response of the protocol.
LEMMA HandleType ==
  ASSUME NEW p \in Process, NEW request \in Message
  PROVE  Handle(p, request) \in Response
BY DEF Handle, Process, Message, Response

\* What the cluster does between two steps of the coordinator.
ClusterNext ==
  \/ \E r \in Requests, n \in Nodes : CallStep(r, n)
  \/ \E n \in Nodes : NodeCrash(n) \/ NodeStart(n)
  \/ \E r \in Requests : Abandon(r)

LEMMA ClusterTypes ==
  ASSUME ClusterTypeOK, ClusterNext
  PROVE  ClusterTypeOK'
<1>1. ASSUME NEW r \in Requests, NEW n \in Nodes, CallStep(r, n)
      PROVE  ClusterTypeOK'
  <2>0. call[r][n] \in Call
    BY DEF ClusterTypeOK
  <2>1. CASE Connect(r, n)
    <3>1. [call[r][n] EXCEPT !.st = "open"] \in Call
      BY <2>0, <2>1 DEF Connect, Call
    <3> QED
      BY <2>1, <3>1 DEF Connect, SetCall, ClusterTypeOK
  <2>2. CASE CallFails(r, n)
    <3>1. [st |-> "err"] \in Call
      BY DEF Call
    <3> QED
      BY <2>2, <3>1 DEF CallFails, SetCall, ClusterTypeOK
  <2>3. CASE NodeReply(r, n, ModelFeatures)
    <3>1. process[n] \in Process
      BY <2>3 DEF NodeReply, ClusterTypeOK
    <3>2. call[r][n].request \in Message
      BY <2>0, <2>3 DEF NodeReply, Call
    <3>3. [st |-> "ok", response |-> Handle(process[n], call[r][n].request)] \in Call
      BY <3>1, <3>2, HandleType DEF Call
    <3>4. [st |-> "err"] \in Call
      BY DEF Call
    <3> QED
      BY <2>3, <3>3, <3>4 DEF NodeReply, SetCall, ClusterTypeOK
  <2> QED
    BY <1>1, <2>1, <2>2, <2>3 DEF CallStep
<1>2. ASSUME NEW n \in Nodes, NodeCrash(n)
      PROVE  ClusterTypeOK'
  <2>1. ASSUME NEW c \in Call
        PROVE  (IF c.st = "open" THEN [c EXCEPT !.st = "lost"] ELSE c) \in Call
    BY <2>1 DEF Call
  <2>2. \A r \in Requests :
          [call[r] EXCEPT ![n] =
             IF @.st = "open" THEN [@ EXCEPT !.st = "lost"] ELSE @]
            \in [Nodes -> Call]
    BY <2>1 DEF ClusterTypeOK
  <2>3. call' \in [Requests -> [Nodes -> Call]]
    BY <1>2, <2>2 DEF NodeCrash
  <2>4. crashes' \in 0..MaxCrashes
    BY <1>2, ClusterAssumption DEF NodeCrash, ClusterTypeOK
  <2> QED
    BY <1>2, <2>3, <2>4 DEF NodeCrash, ClusterTypeOK
<1>3. ASSUME NEW n \in Nodes, NodeStart(n)
      PROVE  ClusterTypeOK'
  BY <1>3, ClusterAssumption DEF NodeStart, ClusterTypeOK
<1>4. ASSUME NEW r \in Requests, Abandon(r)
      PROVE  ClusterTypeOK'
  BY <1>4 DEF Abandon, Cancel, ClusterTypeOK
<1> QED
  BY <1>1, <1>2, <1>3, <1>4 DEF ClusterNext

-----------------------------------------------------------------------------
(***************************************************************************)
(* Type correctness.  A report holds the number of rounds of a training,   *)
(* so the invariant must say that a request in flight passed validation.   *)
(***************************************************************************)

AcceptedRounds ==
  \A r \in Requests : pc[r] \in InFlight =>
    /\ job[r].iterations \in 1..MaxIterations
    /\ pc[r] = "training" => job[r].iteration \in 1..job[r].iterations

TypeInv == TypeOK /\ AcceptedRounds

LEMMA ReportType ==
  ASSUME TypeInv, NEW r \in Requests, pc[r] \in InFlight
  PROVE  ReportOf(r) \in Report
<1>1. job[r] \in Job /\ job[r].iterations \in 1..MaxIterations
  BY DEF TypeInv, TypeOK, AcceptedRounds
<1> QED
  BY <1>1 DEF ReportOf, Report, Store!Report, Job

LEMMA SnapshotType ==
  ASSUME TypeOK
  PROVE  ModelSnapshot \in Snapshot
BY DEF TypeOK, ModelSnapshot, Snapshot

LEMMA InitTypes == Init => TypeInv
<1> SUFFICES ASSUME Init
             PROVE  TypeInv
  OBVIOUS
<1>1. ClusterTypeOK
  BY ClusterAssumption DEF Init, ClusterInit, ClusterTypeOK, Idle, Call
<1>2. NoJob \in Job
  BY OriginTypes, TrainingAssumption DEF NoJob, Job
<1>3. TypeOK
  BY <1>1, <1>2, OriginTypes, TrainingAssumption
     DEF Init, TypeOK, Locations, File, Absent
<1>4. AcceptedRounds
  BY DEF Init, AcceptedRounds, InFlight, Locations, Ended
<1> QED
  BY <1>3, <1>4 DEF TypeInv

\* The calls of r are all idle, or all dial with one message.
LEMMA CallsType ==
  ASSUME ClusterTypeOK, NEW r \in Requests,
         \/ \E message \in Message : StartCalls(r, message)
         \/ call' = [call EXCEPT ![r] = [n \in Nodes |-> Idle]],
         UNCHANGED <<process, crashes, cancelled>>
  PROVE  ClusterTypeOK'
<1>1. Idle \in Call
  BY DEF Idle, Call
<1>2. \A message \in Message : [st |-> "dialing", request |-> message] \in Call
  BY DEF Call
<1> QED
  BY <1>1, <1>2 DEF StartCalls, ClusterTypeOK

LEMMA GradientsType ==
  ASSUME NEW m \in Model, NEW i \in Nat
  PROVE  Gradients(m, i) \in Message
BY DEF Gradients, Message

LEMMA NextTypes == TypeInv /\ [Next]_vars => TypeInv'
<1> SUFFICES ASSUME TypeInv, [Next]_vars
             PROVE  TypeInv'
  OBVIOUS
<1> USE DEF TypeInv
<1>1. ASSUME NEW r \in Requests, Receive(r)
      PROVE  TypeInv'
  <2>1. PICK asked \in IterationsAsked, reset \in BOOLEAN, ok \in BOOLEAN :
          LET iterations == IF asked = 0 THEN DefaultIterations ELSE asked IN
            IF Accepted(iterations, ok)
            THEN /\ job' = [job EXCEPT ![r].iterations = iterations,
                                       ![r].reset = reset]
                 /\ Goto(r, "waiting")
            ELSE /\ Goto(r, "failed")
                 /\ UNCHANGED job
    BY <1>1 DEF Receive
  <2> DEFINE iterations == IF asked = 0 THEN DefaultIterations ELSE asked
  <2>2. iterations \in Nat \ {0}
    BY TrainingAssumption
  <2>3. CASE Accepted(iterations, ok)
    <3>1. iterations \in 1..MaxIterations
      BY <2>2, <2>3, TrainingAssumption DEF Accepted
    <3>2. job' \in [Requests -> Job] /\ pc' \in [Requests -> Locations]
      <4>1. [job[r] EXCEPT !.iterations = iterations, !.reset = reset] \in Job
        <5> HIDE DEF iterations
        <5>1. iterations \in 0..MaxIterations
          BY <2>2, <3>1, TrainingAssumption
        <5>2. job[r] \in Job
          BY DEF TypeOK
        <5> QED
          BY <5>1, <5>2 DEF Job
      <4>2. job' = [job EXCEPT ![r] =
                      [@ EXCEPT !.iterations = iterations, !.reset = reset]]
        BY <2>1, <2>3
      <4>3. job' \in [Requests -> Job]
        BY <4>1, <4>2 DEF TypeOK
      <4> QED
        BY <2>1, <2>3, <4>3 DEF Goto, TypeOK, Locations
    <3>3. AcceptedRounds'
      BY <2>1, <2>3, <3>1 DEF Goto, TypeOK, AcceptedRounds, Job, Locations
    <3> QED
      BY <1>1, <3>2, <3>3
         DEF Receive, clusterVars, serviceVars, storedVars, TypeOK, ClusterTypeOK
  <2>4. CASE ~Accepted(iterations, ok)
    <3>1. pc' \in [Requests -> Locations] /\ job' = job
      BY <2>1, <2>4 DEF Goto, TypeOK, Locations
    <3>2. AcceptedRounds'
      BY <2>1, <2>4 DEF Goto, TypeOK, AcceptedRounds, InFlight, Ended
    <3> QED
      BY <1>1, <3>1, <3>2
         DEF Receive, clusterVars, serviceVars, storedVars, TypeOK, ClusterTypeOK
  <2> QED
    BY <2>3, <2>4
<1>2. ASSUME NEW r \in Requests, Lock(r)
      PROVE  TypeInv'
  <2>1. ClusterTypeOK'
    <3>1. [type |-> "health", iteration |-> 0, model |-> NoModel] \in Message
      BY DEF Message
    <3> QED
      BY <1>2, <3>1, CallsType DEF Lock, TypeOK
  <2>2. AcceptedRounds'
    BY <1>2 DEF Lock, Goto, TypeOK, AcceptedRounds, InFlight, Locations, Ended
  <2> QED
    BY <1>2, <2>1, <2>2 DEF Lock, Goto, storedVars, TypeOK, Locations
<1>3. ASSUME NEW r \in Requests, Checked(r)
      PROVE  TypeInv'
  <2>1. CASE StartRounds(r)
    <3> DEFINE base == IF job[r].reset THEN Zero ELSE model
    <3>1. base \in Model
      BY OriginTypes DEF TypeOK
    <3>2. SamplesByNode(r) \in [Nodes -> Nat]
      <4>1. \A n \in Nodes : Available(r, n) => call[r][n].response.samples \in Nat
        BY DEF Available, TypeOK, ClusterTypeOK, Call, Response
      <4> QED
        BY <4>1 DEF SamplesByNode
    <3>3. ClusterTypeOK'
      BY <1>3, <2>1, <3>1, GradientsType, CallsType DEF Checked, StartRounds, TypeOK
    <3>4. job' \in [Requests -> Job] /\ pc' \in [Requests -> Locations]
      <4>1. [job[r] EXCEPT !.iteration = 1, !.model = base,
                           !.samples = SamplesByNode(r)] \in Job
        BY <3>1, <3>2 DEF TypeOK, Job
      <4>2. job' = [job EXCEPT ![r] =
                      [@ EXCEPT !.iteration = 1, !.model = base,
                                !.samples = SamplesByNode(r)]]
        BY <2>1 DEF StartRounds
      <4>3. job' \in [Requests -> Job]
        BY <4>1, <4>2 DEF TypeOK
      <4> QED
        BY <2>1, <4>3 DEF StartRounds, Goto, TypeOK, Locations
    <3>5. AcceptedRounds'
      BY <1>3, <2>1 DEF Checked, StartRounds, Goto, TypeOK, AcceptedRounds,
                        InFlight, Locations, Ended, Job
    <3> QED
      BY <1>3, <2>1, <3>3, <3>4, <3>5
         DEF Checked, StartRounds, storedVars, TypeOK
  <2>2. CASE Fail(r) /\ UNCHANGED job
    <3>1. ClusterTypeOK'
      BY <1>3, <2>2, CallsType DEF Checked, Fail, TypeOK
    <3>2. AcceptedRounds'
      BY <2>2 DEF Fail, Goto, TypeOK, AcceptedRounds, InFlight, Ended
    <3> QED
      BY <1>3, <2>2, <3>1, <3>2
         DEF Checked, Fail, Goto, storedVars, TypeOK, Locations
  <2> QED
    BY <1>3, <2>1, <2>2 DEF Checked
<1>4. ASSUME NEW r \in Requests, Reduce(r)
      PROVE  TypeInv'
  <2>1. CASE Update(r)
    <3>1. PICK numbers \in Numbers :
            LET m == Step(job[r].model, r, numbers)
                i == job[r].iteration IN
              IF MoreRounds(r)
              THEN /\ job' = [job EXCEPT ![r].model = m, ![r].iteration = i + 1]
                   /\ StartCalls(r, Gradients(m, i + 1))
                   /\ UNCHANGED <<pc, trainMu>>
              ELSE /\ job' = [job EXCEPT ![r].model = m]
                   /\ call' = [call EXCEPT ![r] = [n \in Nodes |-> Idle]]
                   /\ Goto(r, "publishing")
                   /\ UNCHANGED trainMu
      BY <2>1 DEF Update, Numbers
    <3> DEFINE m == Step(job[r].model, r, numbers)
    <3>2. m \in Model
      BY StepType DEF TypeOK, Job
    <3> HIDE DEF m
    <3>3. CASE MoreRounds(r)
      <4>1. job[r].iteration + 1 \in Nat
        BY DEF TypeOK, Job
      <4>2. /\ job' = [job EXCEPT ![r].model = m, ![r].iteration = job[r].iteration + 1]
            /\ StartCalls(r, Gradients(m, job[r].iteration + 1))
            /\ UNCHANGED <<pc, trainMu>>
        BY <3>1, <3>3 DEF m
      <4>3. ClusterTypeOK'
        BY <1>4, <3>2, <4>1, <4>2, GradientsType, CallsType DEF Reduce, TypeOK
      <4>4. job' \in [Requests -> Job]
        BY <3>2, <4>1, <4>2 DEF TypeOK, Job
      <4>5. AcceptedRounds'
        BY <1>4, <3>3, <4>2 DEF Reduce, TypeOK, AcceptedRounds, MoreRounds, Job,
                                InFlight, Locations, Ended
      <4> QED
        BY <1>4, <4>2, <4>3, <4>4, <4>5 DEF Reduce, storedVars, TypeOK
    <3>4. CASE ~MoreRounds(r)
      <4>1. /\ job' = [job EXCEPT ![r].model = m]
            /\ call' = [call EXCEPT ![r] = [n \in Nodes |-> Idle]]
            /\ Goto(r, "publishing")
            /\ UNCHANGED trainMu
        BY <3>1, <3>4 DEF m
      <4>2. ClusterTypeOK'
        BY <1>4, <4>1, CallsType DEF Reduce, TypeOK
      <4>3. job' \in [Requests -> Job] /\ pc' \in [Requests -> Locations]
        BY <3>2, <4>1 DEF TypeOK, Job, Goto, Locations
      <4>4. AcceptedRounds'
        BY <1>4, <4>1 DEF Reduce, TypeOK, AcceptedRounds, Job, Goto,
                          InFlight, Locations, Ended
      <4> QED
        BY <1>4, <4>1, <4>2, <4>3, <4>4 DEF Reduce, storedVars, TypeOK
    <3> QED
      BY <3>3, <3>4
  <2>2. CASE Fail(r) /\ UNCHANGED job
    <3>1. ClusterTypeOK'
      BY <1>4, <2>2, CallsType DEF Reduce, Fail, TypeOK
    <3>2. AcceptedRounds'
      BY <2>2 DEF Fail, Goto, TypeOK, AcceptedRounds, InFlight, Ended
    <3> QED
      BY <1>4, <2>2, <3>1, <3>2
         DEF Reduce, Fail, Goto, storedVars, TypeOK, Locations
  <2> QED
    BY <1>4, <2>1, <2>2 DEF Reduce
<1>5. ASSUME NEW r \in Requests, Publish(r)
      PROVE  TypeInv'
  <2>1. ReportOf(r) \in Report
    BY <1>5, ReportType DEF Publish, InFlight, Locations, Ended
  <2>2. job[r].model \in Model /\ version + 1 \in Nat \ {0}
    BY DEF TypeOK, Job
  <2>3. AcceptedRounds'
    BY <1>5 DEF Publish, Goto, TypeOK, AcceptedRounds, InFlight, Locations, Ended
  <2>4. pc' \in [Requests -> Locations] /\ publishedAs' \in [Requests -> Nat]
    BY <1>5, <2>2 DEF Publish, Goto, TypeOK, Locations
  <2> QED
    BY <1>5, <2>1, <2>2, <2>3, <2>4
       DEF Publish, clusterVars, storedVars, TypeOK, ClusterTypeOK
<1>6. ASSUME NEW r \in Requests, Truncate(r)
      PROVE  TypeInv'
  <2>1. AcceptedRounds'
    BY <1>6 DEF Truncate, Goto, TypeOK, AcceptedRounds, InFlight, Locations, Ended
  <2> QED
    BY <1>6, <2>1 DEF Truncate, Goto, clusterVars, serviceVars, TypeOK,
                      ClusterTypeOK, Locations, File
<1>7. ASSUME NEW r \in Requests, Write(r)
      PROVE  TypeInv'
  <2>1. ReportOf(r) \in Report
    BY <1>7, ReportType DEF Write, InFlight, Locations, Ended
  <2>2. file' \in File
    BY <1>7, <2>1 DEF Write, File, TypeOK, Job
  <2>3. AcceptedRounds'
    BY <1>7 DEF Write, Goto, TypeOK, AcceptedRounds, InFlight, Locations, Ended
  <2> QED
    BY <1>7, <2>2, <2>3 DEF Write, Goto, clusterVars, serviceVars, TypeOK,
                            ClusterTypeOK, Locations
<1>8. ASSUME NEW r \in Requests, SaveFails(r)
      PROVE  TypeInv'
  <2>1. ClusterTypeOK'
    BY <1>8, CallsType DEF SaveFails, Fail, TypeOK
  <2>2. AcceptedRounds'
    BY <1>8 DEF SaveFails, Fail, Goto, TypeOK, AcceptedRounds, InFlight, Ended
  <2> QED
    BY <1>8, <2>1, <2>2 DEF SaveFails, Fail, Goto, storedVars, TypeOK, Locations
<1>9. ASSUME NEW r \in Requests, Record(r)
      PROVE  TypeInv'
  <2>1. [report |-> ReportOf(r), snapshot |-> ModelSnapshot]
          \in [report : Report, snapshot : Snapshot]
    BY <1>9, ReportType, SnapshotType DEF Record, InFlight, Locations, Ended
  <2>2. runs' \in SUBSET [report : Report, snapshot : Snapshot]
    BY <1>9, <2>1 DEF Record, TypeOK
  <2>3. AcceptedRounds'
    BY <1>9 DEF Record, Goto, TypeOK, AcceptedRounds, InFlight, Locations, Ended
  <2> QED
    BY <1>9, <2>2, <2>3 DEF Record, Goto, clusterVars, TypeOK, ClusterTypeOK,
                            Locations
<1>10. ASSUME NEW r \in Requests, Respond(r)
       PROVE  TypeInv'
  <2>1. reply' \in [Requests -> Snapshot \cup {NoReply}]
    BY <1>10, SnapshotType DEF Respond, TypeOK
  <2>2. AcceptedRounds'
    BY <1>10 DEF Respond, Goto, TypeOK, AcceptedRounds, InFlight, Ended
  <2> QED
    BY <1>10, <2>1, <2>2 DEF Respond, Goto, clusterVars, serviceVars, storedVars,
                             TypeOK, ClusterTypeOK, Locations
<1>11. CASE Environment
  <2>1. ClusterTypeOK'
    BY <1>11, ClusterTypes DEF Environment, ClusterNext, TypeOK
  <2> QED
    BY <1>11, <2>1 DEF Environment, TrainingUnchanged, localVars, serviceVars,
                       storedVars, TypeOK, AcceptedRounds
<1>12. CASE ApiRestart
  <2>1. call' \in [Requests -> [Nodes -> Call]]
    BY <1>12 DEF ApiRestart, Idle, Call
  <2>2. restarts' \in 0..MaxRestarts
    BY <1>12, TrainingAssumption DEF ApiRestart, TypeOK
  <2>3. pc' \in [Requests -> Locations]
    BY <1>12 DEF ApiRestart, TypeOK, Locations
  <2>4. AcceptedRounds'
    BY <1>12 DEF ApiRestart, AcceptedRounds, InFlight, Ended, TypeOK
  <2> QED
    BY <1>12, <2>1, <2>2, <2>3, <2>4, OriginTypes
       DEF ApiRestart, storedVars, TypeOK, ClusterTypeOK
<1>13. CASE UNCHANGED vars
  BY <1>13 DEF vars, clusterVars, localVars, serviceVars, storedVars, TypeOK,
               ClusterTypeOK, AcceptedRounds
<1> QED
  BY <1>1, <1>2, <1>3, <1>4, <1>5, <1>6, <1>7, <1>8, <1>9, <1>10, <1>11, <1>12,
     <1>13 DEF Next, Coordinator

\* Every variable keeps its type in every behaviour of the training service,
\* whatever the nodes, the clients, the disk and the crashes do.
THEOREM TypeCorrect == Spec => []TypeOK
<1>1. Init => TypeInv
  BY InitTypes
<1>2. TypeInv /\ [Next]_vars => TypeInv'
  BY NextTypes
<1>3. TypeInv => TypeOK
  BY DEF TypeInv
<1> QED
  BY <1>1, <1>2, <1>3, PTL DEF Spec

-----------------------------------------------------------------------------
(***************************************************************************)
(* Mutual exclusion.  OneTrainingAtATime is an equivalence, which makes it *)
(* inductive: a training leaves the critical section exactly when it       *)
(* releases trainMu.                                                       *)
(***************************************************************************)

LEMMA MutexInit == Init => OneTrainingAtATime
BY TrainingAssumption DEF Init, OneTrainingAtATime, Critical

LEMMA MutexNext ==
  TypeOK /\ OneTrainingAtATime /\ [Next]_vars => OneTrainingAtATime'
<1> SUFFICES ASSUME TypeOK, OneTrainingAtATime, [Next]_vars
             PROVE  OneTrainingAtATime'
  OBVIOUS
<1>0. /\ \A r \in Requests : pc[r] \in Critical <=> trainMu = r
      /\ pc \in [Requests -> Locations]
      /\ Free \notin Requests
  BY TrainingAssumption DEF OneTrainingAtATime, TypeOK
<1> USE DEF Goto, Critical, OneTrainingAtATime
<1>1. ASSUME NEW r \in Requests, Receive(r)
      PROVE  OneTrainingAtATime'
  <2>1. trainMu' = trainMu /\ pc[r] = "idle"
    BY <1>1 DEF Receive, serviceVars
  <2>2. pc' = [pc EXCEPT ![r] = "waiting"] \/ pc' = [pc EXCEPT ![r] = "failed"]
    BY <1>1 DEF Receive
  <2> QED
    BY <1>0, <2>1, <2>2
<1>2. ASSUME NEW r \in Requests, Lock(r)
      PROVE  OneTrainingAtATime'
  BY <1>0, <1>2 DEF Lock
<1>3. ASSUME NEW r \in Requests, Checked(r) \/ Reduce(r)
      PROVE  OneTrainingAtATime'
  <2>1. pc[r] \in {"checking", "training"}
    BY <1>3 DEF Checked, Reduce
  <2>2. \/ trainMu' = trainMu /\ pc' = pc
        \/ trainMu' = trainMu /\ pc' = [pc EXCEPT ![r] = "training"]
        \/ trainMu' = trainMu /\ pc' = [pc EXCEPT ![r] = "publishing"]
        \/ trainMu' = Free /\ pc' = [pc EXCEPT ![r] = "failed"]
    BY <1>3 DEF Checked, Reduce, StartRounds, Update, Fail
  <2> QED
    BY <1>0, <2>1, <2>2
<1>4. ASSUME NEW r \in Requests, Publish(r) \/ Truncate(r) \/ Write(r)
      PROVE  OneTrainingAtATime'
  BY <1>0, <1>4 DEF Publish, Truncate, Write, serviceVars
<1>5. ASSUME NEW r \in Requests, SaveFails(r) \/ Record(r)
      PROVE  OneTrainingAtATime'
  BY <1>0, <1>5 DEF SaveFails, Fail, Record
<1>6. ASSUME NEW r \in Requests, Respond(r)
      PROVE  OneTrainingAtATime'
  BY <1>0, <1>6 DEF Respond, serviceVars
<1>7. CASE ApiRestart
  BY <1>0, <1>7 DEF ApiRestart, InFlight, Ended, Locations
<1>8. CASE Environment \/ UNCHANGED vars
  BY <1>0, <1>8 DEF Environment, TrainingUnchanged, vars, localVars, serviceVars
<1> QED
  BY <1>1, <1>2, <1>3, <1>4, <1>5, <1>6, <1>7, <1>8 DEF Next, Coordinator

\* The trainings are serialised: between its health check and its record, a
\* training holds trainMu and no other is past the mutex.
THEOREM MutualExclusion == Spec => []OneTrainingAtATime
<1>1. Init => OneTrainingAtATime
  BY MutexInit
<1>2. TypeOK /\ OneTrainingAtATime /\ [Next]_vars => OneTrainingAtATime'
  BY MutexNext
<1> QED
  BY <1>1, <1>2, TypeCorrect, PTL DEF Spec

-----------------------------------------------------------------------------
(***************************************************************************)
(* No lost update.  The private copy of a training stays the served model  *)
(* plus the rounds done: mutual exclusion keeps any other training from    *)
(* publishing meanwhile, and a restart of the API ends the training.       *)
(***************************************************************************)

\* k rounds and one more are k + 1 rounds.
LEMMA TimesNext ==
  ASSUME NEW s \in Seq(Requests), NEW r \in Requests, NEW k \in Nat
  PROVE  /\ s \o Times(r, 0) = s
         /\ s \o Times(r, k) \in Seq(Requests)
         /\ Append(s \o Times(r, k), r) = s \o Times(r, k + 1)
<1>1. \A j \in Nat : Times(r, j) \in Seq(Requests) /\ Len(Times(r, j)) = j
  BY DEF Times
<1>2. \A j \in Nat : \A i \in 1..j : Times(r, j)[i] = r
  BY DEF Times
<1>3. s \o Times(r, 0) = s
  <2>1. Len(s \o Times(r, 0)) = Len(s) /\ s \o Times(r, 0) \in Seq(Requests)
    BY <1>1
  <2>2. \A i \in 1..Len(s) : (s \o Times(r, 0))[i] = s[i]
    BY <1>1
  <2> QED
    BY <2>1, <2>2, SeqEqual
<1>4. Append(s \o Times(r, k), r) = s \o Times(r, k + 1)
  <2> DEFINE a == Append(s \o Times(r, k), r)
             b == s \o Times(r, k + 1)
  <2>0. /\ s \o Times(r, k) \in Seq(Requests)
        /\ Len(s \o Times(r, k)) = Len(s) + k
    BY <1>1, ConcatProperties
  <2>1. a \in Seq(Requests) /\ Len(a) = Len(s) + k + 1
    BY <2>0
  <2>2. b \in Seq(Requests) /\ Len(b) = Len(s) + k + 1
    <3>1. Times(r, k + 1) \in Seq(Requests) /\ Len(Times(r, k + 1)) = k + 1
      BY <1>1
    <3> QED
      BY <3>1, ConcatProperties, LenProperties
  <2>3. \A i \in 1..(Len(s) + k + 1) : a[i] = b[i]
    BY <1>1, <1>2
  <2> QED
    BY <2>1, <2>2, <2>3, SeqEqual
<1> QED
  BY <1>1, <1>3, <1>4, ConcatProperties

LEMMA TrainedNext ==
  ASSUME NEW base \in Model, NEW r \in Requests, NEW k \in Nat,
         NEW numbers \in Numbers, NEW m,
         m = Trained(base, r, k, m.numbers)
  PROVE  /\ base = Trained(base, r, 0, base.numbers)
         /\ Step(m, r, numbers) = Trained(base, r, k + 1, numbers)
<1>1. base.steps \in Seq(Requests)
  BY DEF Model
<1>2. base.steps \o Times(r, 0) = base.steps
  BY <1>1, TimesNext
<1>3. Append(base.steps \o Times(r, k), r) = base.steps \o Times(r, k + 1)
  BY <1>1, TimesNext
<1>4. base = Trained(base, r, 0, base.numbers)
  BY <1>2 DEF Trained, Model
<1>5. m.origin = base.origin /\ m.steps = base.steps \o Times(r, k)
  BY DEF Trained
<1> QED
  BY <1>3, <1>4, <1>5 DEF Step, Trained

\* What TrainsOnServedModel says of request r.
Base(r) == IF job[r].reset THEN Zero ELSE model

OnServed(r) ==
  /\ pc[r] = "training" =>
       job[r].model = Trained(Base(r), r, job[r].iteration - 1, job[r].model.numbers)
  /\ pc[r] = "publishing" =>
       job[r].model = Trained(Base(r), r, job[r].iterations, job[r].model.numbers)

LEMMA OnServedAll == TrainsOnServedModel <=> \A r \in Requests : OnServed(r)
BY DEF TrainsOnServedModel, OnServed, Base

LEMMA ServedInit == Init => \A r \in Requests : OnServed(r)
BY DEF Init, OnServed

LEMMA ServedNext ==
  /\ TypeInv /\ OneTrainingAtATime /\ (\A r \in Requests : OnServed(r))
  /\ [Next]_vars
  => (\A r \in Requests : OnServed(r))'
<1> SUFFICES ASSUME TypeInv, OneTrainingAtATime, \A s \in Requests : OnServed(s),
                    [Next]_vars, NEW t \in Requests
             PROVE  OnServed(t)'
  OBVIOUS
<1>0. /\ pc \in [Requests -> Locations]
      /\ job \in [Requests -> Job]
      /\ model \in Model
      /\ OnServed(t)
  BY DEF TypeInv, TypeOK
\* A step that leaves alone the model and the copy of t, and does not bring t
\* into the rounds.
<1>a. ASSUME UNCHANGED model, job'[t] = job[t],
             pc'[t] = pc[t] \/ pc'[t] \notin {"training", "publishing"}
      PROVE  OnServed(t)'
  BY <1>0, <1>a DEF OnServed, Base
<1>1. ASSUME NEW r \in Requests, Receive(r)
      PROVE  OnServed(t)'
  <2>1. UNCHANGED model /\ pc[r] = "idle"
    BY <1>1 DEF Receive, serviceVars
  <2>2. \/ pc' = [pc EXCEPT ![r] = "failed"]
        \/ pc' = [pc EXCEPT ![r] = "waiting"]
    BY <1>1 DEF Receive, Goto
  <2>3. t # r => job'[t] = job[t]
    BY <1>0, <1>1 DEF Receive
  <2> QED
    BY <1>0, <1>a, <2>1, <2>2, <2>3 DEF OnServed
<1>2. ASSUME NEW r \in Requests, Lock(r)
      PROVE  OnServed(t)'
  BY <1>0, <1>a, <1>2 DEF Lock, Goto
<1>3. ASSUME NEW r \in Requests, Checked(r)
      PROVE  OnServed(t)'
  <2>1. CASE StartRounds(r) /\ t = r
    <3>1. Base(r) \in Model
      BY <1>0, OriginTypes DEF Base
    <3>2. /\ pc'[r] = "training" /\ job'[r].reset = job[r].reset
          /\ job'[r].iteration = 1 /\ job'[r].model = Base(r)
          /\ UNCHANGED model
      BY <1>0, <1>3, <2>1 DEF Checked, StartRounds, Goto, Base, Job
    <3>3. Base(r)' = Base(r)
      BY <3>2 DEF Base
    <3>4. Base(r) = Trained(Base(r), r, 0, Base(r).numbers)
      <4>1. Base(r).steps \in Seq(Requests)
        BY <3>1 DEF Model
      <4>2. Base(r).steps \o Times(r, 0) = Base(r).steps
        BY <4>1, TimesNext
      <4> QED
        BY <3>1, <4>2 DEF Trained, Model
    <3> QED
      BY <2>1, <3>2, <3>3, <3>4 DEF OnServed
  <2>2. CASE StartRounds(r) /\ t # r
    BY <1>0, <1>a, <1>3, <2>2 DEF Checked, StartRounds, Goto
  <2>3. CASE Fail(r) /\ UNCHANGED job
    BY <1>0, <1>a, <1>3, <2>3 DEF Checked, Fail, Goto
  <2> QED
    BY <1>3, <2>1, <2>2, <2>3 DEF Checked
<1>4. ASSUME NEW r \in Requests, Reduce(r)
      PROVE  OnServed(t)'
  <2>1. CASE Update(r) /\ t = r
    <3>1. Base(r) \in Model /\ job[r] \in Job
      BY <1>0, OriginTypes DEF Base
    <3> DEFINE k == job[r].iteration - 1
    <3>2. k \in Nat /\ job[r].iteration \in 1..job[r].iterations
               /\ job[r].iterations \in Nat
      BY <1>4 DEF Reduce, TypeInv, AcceptedRounds, InFlight, Locations, Ended
    <3>3. job[r].model = Trained(Base(r), r, k, job[r].model.numbers)
      BY <1>0, <1>4, <2>1 DEF Reduce, OnServed
    <3>4. PICK numbers \in Numbers :
            LET m == Step(job[r].model, r, numbers)
                i == job[r].iteration IN
              IF MoreRounds(r)
              THEN /\ job' = [job EXCEPT ![r].model = m, ![r].iteration = i + 1]
                   /\ StartCalls(r, Gradients(m, i + 1))
                   /\ UNCHANGED <<pc, trainMu>>
              ELSE /\ job' = [job EXCEPT ![r].model = m]
                   /\ call' = [call EXCEPT ![r] = [n \in Nodes |-> Idle]]
                   /\ Goto(r, "publishing")
                   /\ UNCHANGED trainMu
      BY <2>1 DEF Update, Numbers
    <3> DEFINE m == Step(job[r].model, r, numbers)
    <3>5. m = Trained(Base(r), r, k + 1, numbers) /\ m.numbers = numbers
      <4>1. m = Trained(Base(r), r, k + 1, numbers)
        BY <3>1, <3>2, <3>3, TrainedNext
      <4> QED
        BY <4>1 DEF Trained
    <3>6. k + 1 = job[r].iteration
      BY <3>2
    <3> HIDE DEF m
    <3>7. /\ job'[r].model = m /\ job'[r].reset = job[r].reset
          /\ job'[r].iterations = job[r].iterations
          /\ UNCHANGED model
      BY <1>0, <1>4, <3>4 DEF Reduce, Job, m
    <3>8. Base(r)' = Base(r)
      BY <3>7 DEF Base
    <3>9. CASE MoreRounds(r)
      <4>1. pc'[r] = "training" /\ job'[r].iteration - 1 = job[r].iteration
        BY <1>0, <1>4, <3>2, <3>4, <3>9 DEF Reduce, Job
      <4> QED
        BY <2>1, <3>5, <3>6, <3>7, <3>8, <4>1 DEF OnServed
    <3>10. CASE ~MoreRounds(r)
      <4>1. pc'[r] = "publishing"
        BY <1>0, <3>4, <3>10 DEF Goto
      <4>2. job'[r].iterations = job[r].iteration
        BY <3>2, <3>7, <3>10 DEF MoreRounds
      <4> QED
        BY <2>1, <3>5, <3>6, <3>7, <3>8, <4>1, <4>2 DEF OnServed
    <3> QED
      BY <3>9, <3>10
  <2>2. CASE Update(r) /\ t # r
    <3>1. UNCHANGED model /\ job'[t] = job[t] /\ pc'[t] = pc[t]
      BY <1>0, <1>4, <2>2 DEF Reduce, Update, Goto
    <3> QED
      BY <1>a, <3>1
  <2>3. CASE Fail(r) /\ UNCHANGED job
    BY <1>0, <1>a, <1>4, <2>3 DEF Reduce, Fail, Goto
  <2> QED
    BY <1>4, <2>1, <2>2, <2>3 DEF Reduce
<1>5. ASSUME NEW r \in Requests, Publish(r)
      PROVE  OnServed(t)'
  <2>1. pc[t] \in {"training", "publishing"} => t = r
    BY <1>5 DEF Publish, OneTrainingAtATime, Critical
  <2>2. pc' = [pc EXCEPT ![r] = "saving"]
    BY <1>5 DEF Publish, Goto
  <2>3. pc'[t] \notin {"training", "publishing"}
    BY <1>0, <2>1, <2>2
  <2> QED
    BY <2>3 DEF OnServed
<1>6. ASSUME NEW r \in Requests,
             Truncate(r) \/ Write(r) \/ SaveFails(r) \/ Record(r) \/ Respond(r)
      PROVE  OnServed(t)'
  BY <1>0, <1>a, <1>6 DEF Truncate, Write, SaveFails, Fail, Record, Respond, Goto,
                          serviceVars
<1>7. CASE ApiRestart
  BY <1>0, <1>7 DEF ApiRestart, OnServed, InFlight, Ended, Locations
<1>8. CASE Environment \/ UNCHANGED vars
  BY <1>a, <1>8 DEF Environment, TrainingUnchanged, vars, localVars, serviceVars
<1> QED
  BY <1>1, <1>2, <1>3, <1>4, <1>5, <1>6, <1>7, <1>8 DEF Next, Coordinator

\* No training computes on a model that another has replaced meanwhile: the
\* copy made before the rounds is the served model plus the rounds done.
THEOREM NoLostUpdate == Spec => []TrainsOnServedModel
<1> DEFINE Served == \A r \in Requests : OnServed(r)
<1>1. Init => TypeInv /\ OneTrainingAtATime /\ Served
  BY InitTypes, MutexInit, ServedInit
<1>2. TypeInv /\ OneTrainingAtATime /\ Served /\ [Next]_vars
        => (TypeInv /\ OneTrainingAtATime /\ Served)'
  BY NextTypes, MutexNext, ServedNext DEF TypeInv
<1>3. Served => TrainsOnServedModel
  BY OnServedAll
<1> QED
  BY <1>1, <1>2, <1>3, PTL DEF Spec

-----------------------------------------------------------------------------
(***************************************************************************)
(* Refinement.  Publish is the only step of a training that the abstract   *)
(* store sees; a request has published nothing before it.                  *)
(***************************************************************************)

Before == {"idle", "waiting", "checking", "training", "publishing"}

Unpublished ==
  \A r \in Requests : pc[r] \in Before => publishedAs[r] = 0

LEMMA UnpublishedNext ==
  TypeOK /\ Unpublished /\ [Next]_vars => Unpublished'
<1> SUFFICES ASSUME TypeOK, Unpublished, [Next]_vars
             PROVE  Unpublished'
  OBVIOUS
<1>0. /\ pc \in [Requests -> Locations]
      /\ publishedAs \in [Requests -> Nat]
  BY DEF TypeOK
<1> USE DEF Unpublished, Before
<1>1. ASSUME NEW r \in Requests, Receive(r)
      PROVE  Unpublished'
  <2>1. \/ pc' = [pc EXCEPT ![r] = "failed"]
        \/ pc' = [pc EXCEPT ![r] = "waiting"]
    BY <1>1 DEF Receive, Goto
  <2> QED
    BY <1>0, <1>1, <2>1 DEF Receive, serviceVars
<1>2. ASSUME NEW r \in Requests, Lock(r)
      PROVE  Unpublished'
  BY <1>0, <1>2 DEF Lock, Goto
<1>3. ASSUME NEW r \in Requests, Checked(r) \/ Reduce(r)
      PROVE  Unpublished'
  <2>1. pc[r] \in {"checking", "training"} /\ UNCHANGED publishedAs
    BY <1>3 DEF Checked, Reduce
  <2>2. \/ pc' = pc
        \/ \E to \in Locations : pc' = [pc EXCEPT ![r] = to]
    BY <1>3 DEF Checked, Reduce, StartRounds, Update, Fail, Goto, Locations
  <2> QED
    BY <1>0, <2>1, <2>2
<1>4. ASSUME NEW r \in Requests, Publish(r)
      PROVE  Unpublished'
  BY <1>0, <1>4 DEF Publish, Goto
<1>5. ASSUME NEW r \in Requests,
             Truncate(r) \/ Write(r) \/ SaveFails(r) \/ Record(r) \/ Respond(r)
      PROVE  Unpublished'
  BY <1>0, <1>5 DEF Truncate, Write, SaveFails, Fail, Record, Respond, Goto,
                    serviceVars
<1>6. CASE ApiRestart
  BY <1>0, <1>6 DEF ApiRestart
<1>7. CASE Environment \/ UNCHANGED vars
  BY <1>7 DEF Environment, TrainingUnchanged, vars, localVars, serviceVars
<1> QED
  BY <1>1, <1>2, <1>3, <1>4, <1>5, <1>6, <1>7 DEF Next, Coordinator

LEMMA RefinementNext ==
  /\ TypeInv /\ (\A r \in Requests : OnServed(r)) /\ Unpublished
  /\ [Next]_vars
  => [Store!Next]_(Store!storeVars)
<1> SUFFICES ASSUME TypeInv, \A r \in Requests : OnServed(r), Unpublished,
                    [Next]_vars
             PROVE  Store!Next \/ UNCHANGED Store!storeVars
  OBVIOUS
<1> USE DEF Store!storeVars
<1>1. ASSUME NEW r \in Requests, Publish(r)
      PROVE  Store!Train(r)
  <2>1. pc[r] = "publishing" /\ publishedAs[r] = 0
    BY <1>1 DEF Publish, Unpublished, Before
  <2>2. ReportOf(r) \in Report
    BY <2>1, ReportType DEF InFlight, Locations, Ended
  <2>3. lastTraining' = ReportOf(r) /\ lastTraining'.by = r
        /\ lastTraining'.iterations = job[r].iterations
    BY <1>1 DEF Publish, ReportOf
  <2>4. Base(r) \in {model, Zero} /\ job[r].model.numbers \in Numbers
    BY DEF Base, TypeInv, TypeOK, Job, Model
  <2>5. model' = Trained(Base(r), r, job[r].iterations, job[r].model.numbers)
    BY <1>1, <2>1 DEF Publish, OnServed
  <2>6. \E base \in {model, Zero}, numbers \in Numbers :
          model' = Trained(base, r, lastTraining'.iterations, numbers)
    BY <2>3, <2>4, <2>5
  <2> QED
    BY <1>1, <2>1, <2>2, <2>3, <2>6
       DEF Publish, Store!Train, Report, Store!Trained, Store!Zero, Store!Numbers,
           Trained, Zero, Numbers, Store!Times, Times
<1>2. ASSUME NEW r \in Requests, Receive(r) \/ Lock(r) \/ Checked(r) \/ Reduce(r)
      PROVE  UNCHANGED Store!storeVars
  BY <1>2 DEF Receive, Lock, Checked, Reduce, serviceVars
<1>3. ASSUME NEW r \in Requests,
             Truncate(r) \/ Write(r) \/ SaveFails(r) \/ Record(r) \/ Respond(r)
      PROVE  UNCHANGED Store!storeVars
  BY <1>3 DEF Truncate, Write, SaveFails, Record, Respond, serviceVars
<1>4. CASE ApiRestart
  BY <1>4 DEF ApiRestart, Store!Next, Store!Restart, Store!Phase1, Phase1
<1>5. CASE Environment \/ UNCHANGED vars
  BY <1>5 DEF Environment, TrainingUnchanged, vars, serviceVars
<1> QED
  BY <1>1, <1>2, <1>3, <1>4, <1>5 DEF Next, Coordinator, Store!Next

\* The training service implements the abstract store of models: what is
\* served changes only by whole trainings, each made on the model served at
\* that moment, each once and under the next version; or by a restart.
THEOREM Refinement == Spec => ImplementsModelStore
<1> DEFINE Served == \A r \in Requests : OnServed(r)
           Inv == TypeInv /\ OneTrainingAtATime /\ Served /\ Unpublished
<1>1. Init => Inv
  <2>1. Init => Unpublished
    BY DEF Init, Unpublished
  <2> QED
    BY <2>1, InitTypes, MutexInit, ServedInit
<1>2. Inv /\ [Next]_vars => Inv'
  BY NextTypes, MutexNext, ServedNext, UnpublishedNext DEF TypeInv
<1>3. Init => Store!Init
  BY DEF Init, Store!Init, Store!Phase1, Phase1
<1>4. Inv /\ [Next]_vars => [Store!Next]_(Store!storeVars)
  BY RefinementNext
<1> HIDE DEF Inv
<1> QED
  BY <1>1, <1>2, <1>3, <1>4, PTL DEF Spec, ImplementsModelStore, Store!Spec

-----------------------------------------------------------------------------
(***************************************************************************)
(* No stale gradient.  Every call of a round carries the weights and the   *)
(* number of that round, and so does every answer to it.                   *)
(***************************************************************************)

RoundCall(r, n) ==
  pc[r] = "training" =>
    /\ call[r][n].st \in {"dialing", "open", "lost"} =>
         call[r][n].request = Gradients(job[r].model, job[r].iteration)
    /\ call[r][n].st = "ok" =>
         /\ call[r][n].response.type = "gradient_response"
         /\ call[r][n].response.model = job[r].model
         /\ call[r][n].response.iteration = job[r].iteration

RoundCalls == \A r \in Requests, n \in Nodes : RoundCall(r, n)

\* Within a round the calls only advance, and keep their request.
LEMMA RoundCallSteps ==
  ASSUME ClusterTypeOK, RoundCalls, Environment
  PROVE  RoundCalls'
<1> SUFFICES ASSUME NEW s \in Requests, NEW m \in Nodes
             PROVE  RoundCall(s, m)'
  BY DEF RoundCalls
<1>0. RoundCall(s, m) /\ call \in [Requests -> [Nodes -> Call]] /\ UNCHANGED <<pc, job>>
  BY DEF RoundCalls, ClusterTypeOK, Environment, TrainingUnchanged, localVars
<1>a. ASSUME call'[s][m] = call[s][m]
      PROVE  RoundCall(s, m)'
  BY <1>0, <1>a DEF RoundCall
<1>1. ASSUME NEW r \in Requests, NEW n \in Nodes, CallStep(r, n)
      PROVE  RoundCall(s, m)'
  <2>0. call[r][n] \in Call
    BY <1>0
  <2>1. CASE r # s \/ n # m
    <3>1. \E value : call' = [call EXCEPT ![r][n] = value]
      BY <1>1 DEF CallStep, Connect, CallFails, NodeReply, SetCall
    <3> QED
      BY <1>0, <1>a, <2>1, <3>1
  <2>2. CASE r = s /\ n = m /\ Connect(r, n)
    <3>1. /\ call'[r][n] = [call[r][n] EXCEPT !.st = "open"]
          /\ call[r][n].st = "dialing"
      BY <1>0, <2>2 DEF Connect, SetCall
    <3>2. call'[r][n].st = "open" /\ call'[r][n].request = call[r][n].request
      BY <2>0, <3>1 DEF Call
    <3> QED
      BY <1>0, <2>2, <3>1, <3>2 DEF RoundCall
  <2>3. CASE r = s /\ n = m /\ CallFails(r, n)
    <3>1. call'[r][n].st = "err"
      BY <1>0, <2>3 DEF CallFails, SetCall
    <3> QED
      BY <1>0, <2>3, <3>1 DEF RoundCall
  <2>4. CASE r = s /\ n = m /\ NodeReply(r, n, ModelFeatures)
    <3>1. \/ call'[r][n] = [st |-> "ok",
                            response |-> Handle(process[n], call[r][n].request)]
          \/ call'[r][n] = [st |-> "err"]
      BY <1>0, <2>4 DEF NodeReply, SetCall
    <3>2. call[r][n].st = "open"
      BY <2>4 DEF NodeReply
    <3> QED
      BY <1>0, <2>4, <3>1, <3>2 DEF RoundCall, Handle, Gradients
  <2> QED
    BY <1>1, <2>1, <2>2, <2>3, <2>4 DEF CallStep
<1>2. ASSUME NEW n \in Nodes, NodeCrash(n)
      PROVE  RoundCall(s, m)'
  <2>0. call[s][m] \in Call
    BY <1>0
  <2>1. \/ call'[s][m] = call[s][m]
        \/ call[s][m].st = "open" /\ call'[s][m] = [call[s][m] EXCEPT !.st = "lost"]
    BY <1>0, <1>2 DEF NodeCrash
  <2>2. CASE call[s][m].st = "open" /\ call'[s][m] = [call[s][m] EXCEPT !.st = "lost"]
    <3>1. call'[s][m].st = "lost" /\ call'[s][m].request = call[s][m].request
      BY <2>0, <2>2 DEF Call
    <3> QED
      BY <1>0, <2>2, <3>1 DEF RoundCall
  <2> QED
    BY <1>a, <2>1, <2>2
<1>3. ASSUME NEW n \in Nodes, NodeStart(n)
      PROVE  RoundCall(s, m)'
  BY <1>3, <1>a DEF NodeStart
<1>4. ASSUME NEW r \in Requests, Abandon(r)
      PROVE  RoundCall(s, m)'
  BY <1>4, <1>a DEF Abandon, Cancel
<1> QED
  BY <1>1, <1>2, <1>3, <1>4 DEF Environment

LEMMA RoundCallsNext == TypeOK /\ RoundCalls /\ [Next]_vars => RoundCalls'
<1> SUFFICES ASSUME TypeOK, RoundCalls, [Next]_vars
             PROVE  RoundCalls'
  OBVIOUS
<1>0. /\ pc \in [Requests -> Locations]
      /\ job \in [Requests -> Job]
      /\ call \in [Requests -> [Nodes -> Call]]
      /\ \A s \in Requests, m \in Nodes : RoundCall(s, m)
  BY DEF TypeOK, ClusterTypeOK, RoundCalls
\* A step of r that leaves the other requests alone and keeps r out of the
\* rounds.
<1>a. ASSUME NEW r \in Requests, pc'[r] # "training",
             \A s \in Requests \ {r} :
               pc'[s] = pc[s] /\ job'[s] = job[s] /\ call'[s] = call[s]
      PROVE  RoundCalls'
  BY <1>0, <1>a DEF RoundCalls, RoundCall
\* A step of r that starts a round.
<1>b. ASSUME NEW r \in Requests, NEW m, NEW i,
             StartCalls(r, Gradients(m, i)),
             job'[r].model = m, job'[r].iteration = i,
             \A s \in Requests \ {r} : pc'[s] = pc[s] /\ job'[s] = job[s]
      PROVE  RoundCalls'
  <2>1. \A n \in Nodes : call'[r][n] = [st |-> "dialing", request |-> Gradients(m, i)]
    BY <1>0, <1>b DEF StartCalls
  <2>2. \A s \in Requests \ {r} : call'[s] = call[s]
    BY <1>0, <1>b DEF StartCalls
  <2>3. \A n \in Nodes : RoundCall(r, n)'
    BY <1>b, <2>1 DEF RoundCall, Gradients
  <2>4. \A s \in Requests \ {r}, n \in Nodes : RoundCall(s, n)'
    BY <1>0, <1>b, <2>2 DEF RoundCall
  <2> QED
    BY <2>3, <2>4 DEF RoundCalls
<1>1. ASSUME NEW r \in Requests, Receive(r)
      PROVE  RoundCalls'
  <2>1. /\ pc'[r] # "training" /\ call' = call
        /\ \A s \in Requests \ {r} : pc'[s] = pc[s] /\ job'[s] = job[s]
    BY <1>0, <1>1 DEF Receive, Goto, clusterVars
  <2> QED
    BY <1>a, <2>1
<1>2. ASSUME NEW r \in Requests, Lock(r)
      PROVE  RoundCalls'
  BY <1>0, <1>a, <1>2 DEF Lock, Goto, StartCalls
<1>3. ASSUME NEW r \in Requests, Fail(r), UNCHANGED job
      PROVE  RoundCalls'
  BY <1>0, <1>a, <1>3 DEF Fail, Goto
<1>4. ASSUME NEW r \in Requests, Checked(r)
      PROVE  RoundCalls'
  <2>1. CASE StartRounds(r)
    <3> DEFINE base == IF job[r].reset THEN Zero ELSE model
    <3>1. job'[r].model = base /\ job'[r].iteration = 1
      BY <1>0, <2>1 DEF StartRounds, Job
    <3>2. \A s \in Requests \ {r} : pc'[s] = pc[s] /\ job'[s] = job[s]
      BY <1>0, <2>1 DEF StartRounds, Goto
    <3>3. StartCalls(r, Gradients(base, 1))
      BY <2>1 DEF StartRounds
    <3> QED
      BY <1>b, <3>1, <3>2, <3>3
  <2> QED
    BY <1>3, <1>4, <2>1 DEF Checked
<1>5. ASSUME NEW r \in Requests, Reduce(r)
      PROVE  RoundCalls'
  <2>1. CASE Update(r)
    <3>1. PICK numbers \in Numbers :
            LET m == Step(job[r].model, r, numbers)
                i == job[r].iteration IN
              IF MoreRounds(r)
              THEN /\ job' = [job EXCEPT ![r].model = m, ![r].iteration = i + 1]
                   /\ StartCalls(r, Gradients(m, i + 1))
                   /\ UNCHANGED <<pc, trainMu>>
              ELSE /\ job' = [job EXCEPT ![r].model = m]
                   /\ call' = [call EXCEPT ![r] = [n \in Nodes |-> Idle]]
                   /\ Goto(r, "publishing")
                   /\ UNCHANGED trainMu
      BY <2>1 DEF Update, Numbers
    <3> DEFINE m == Step(job[r].model, r, numbers)
               i == job[r].iteration + 1
    <3>2. CASE MoreRounds(r)
      <4> HIDE DEF m
      <4>1. job' = [job EXCEPT ![r].model = m, ![r].iteration = i]
        BY <3>1, <3>2 DEF m
      <4>2. job'[r].model = m /\ job'[r].iteration = i
        BY <1>0, <4>1 DEF Job
      <4>3. \A s \in Requests \ {r} : pc'[s] = pc[s] /\ job'[s] = job[s]
        BY <1>0, <3>1, <3>2, <4>1
      <4>4. StartCalls(r, Gradients(m, i))
        BY <3>1, <3>2 DEF m
      <4> QED
        BY <1>b, <4>2, <4>3, <4>4
    <3>3. CASE ~MoreRounds(r)
      BY <1>0, <1>a, <3>1, <3>3 DEF Goto
    <3> QED
      BY <3>2, <3>3
  <2> QED
    BY <1>3, <1>5, <2>1 DEF Reduce
<1>6. ASSUME NEW r \in Requests,
             \/ Publish(r) \/ Truncate(r) \/ Write(r) \/ SaveFails(r)
             \/ Record(r) \/ Respond(r)
      PROVE  RoundCalls'
  <2>1. CASE SaveFails(r)
    BY <1>3, <2>1 DEF SaveFails
  <2>2. CASE ~SaveFails(r)
    <3>1. UNCHANGED <<job, call>>
      BY <1>6, <2>2 DEF Publish, Truncate, Write, Record, Respond, clusterVars
    <3>2. \E to \in {"saving", "writing", "recording", "responding", "done"} :
            pc' = [pc EXCEPT ![r] = to]
      BY <1>6, <2>2 DEF Publish, Truncate, Write, Record, Respond, Goto
    <3> QED
      BY <1>0, <1>a, <3>1, <3>2
  <2> QED
    BY <2>1, <2>2
<1>7. CASE Environment
  BY <1>7, RoundCallSteps DEF TypeOK
<1>8. CASE ApiRestart
  BY <1>0, <1>8 DEF ApiRestart, InFlight, Ended, Locations, RoundCalls, RoundCall
<1>9. CASE UNCHANGED vars
  BY <1>9 DEF vars, clusterVars, localVars, RoundCalls, RoundCall
<1> QED
  BY <1>1, <1>2, <1>4, <1>5, <1>6, <1>7, <1>8, <1>9 DEF Next, Coordinator

\* A copy in its rounds changes only by an update over complete answers.
LEMMA UpdateIsComplete ==
  ASSUME TypeOK, RoundCalls, [Next]_vars, NEW r \in Requests,
         pc[r] = "training", job'[r].model # job[r].model, NEW n \in Nodes
  PROVE  /\ call[r][n].st = "ok"
         /\ LET answer == call[r][n].response IN
              /\ answer.type = "gradient_response"
              /\ answer.id = n
              /\ answer.model = job[r].model
              /\ answer.iteration = job[r].iteration
<1>0. job \in [Requests -> Job] /\ RoundCall(r, n)
  BY DEF TypeOK, RoundCalls
<1>1. Reduce(r)
  <2>1. ASSUME NEW s \in Requests, Receive(s)
        PROVE  FALSE
    <3>1. s # r /\ (job' = job \/ \E value : job' = [job EXCEPT ![s] = value])
      BY <2>1, <1>0 DEF Receive
    <3> QED
      BY <1>0, <3>1
  <2>2. ASSUME NEW s \in Requests, Checked(s)
        PROVE  FALSE
    <3>1. s # r
      BY <2>2 DEF Checked
    <3> QED
      BY <1>0, <2>2, <3>1 DEF Checked, StartRounds
  <2>3. ASSUME NEW s \in Requests, Reduce(s), s # r
        PROVE  FALSE
    BY <1>0, <2>3 DEF Reduce, Update
  <2>4. ASSUME NEW s \in Requests,
               \/ Lock(s) \/ Publish(s) \/ Truncate(s) \/ Write(s)
               \/ SaveFails(s) \/ Record(s) \/ Respond(s)
        PROVE  FALSE
    BY <2>4 DEF Lock, Publish, Truncate, Write, SaveFails, Record, Respond
  <2>5. CASE Environment \/ ApiRestart \/ UNCHANGED vars
    BY <2>5 DEF Environment, TrainingUnchanged, ApiRestart, vars, localVars
  <2> QED
    BY <2>1, <2>2, <2>3, <2>4, <2>5 DEF Next, Coordinator
<1>2. \A m \in Nodes : Summed(r, m)
  BY <1>1 DEF Reduce
<1> QED
  BY <1>0, <1>2 DEF Summed, RoundCall

\* Every update of the weights sums one gradient of every configured node,
\* each computed on exactly these weights and in this round.
THEOREM CompleteUpdates == Spec => EveryUpdateIsComplete
<1>1. Init => RoundCalls
  BY DEF Init, RoundCalls, RoundCall
<1>2. TypeOK /\ RoundCalls /\ [Next]_vars => RoundCalls'
  BY RoundCallsNext
<1>3. TypeOK /\ RoundCalls /\ [Next]_vars =>
        [\A r \in Requests :
           pc[r] = "training" /\ job'[r].model # job[r].model =>
             \A n \in Nodes :
               /\ call[r][n].st = "ok"
               /\ LET answer == call[r][n].response IN
                    /\ answer.type = "gradient_response"
                    /\ answer.id = n
                    /\ answer.model = job[r].model
                    /\ answer.iteration = job[r].iteration]_vars
  BY UpdateIsComplete
<1> QED
  BY <1>1, <1>2, <1>3, TypeCorrect, PTL DEF Spec, EveryUpdateIsComplete

=============================================================================
