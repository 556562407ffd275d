------------------------ MODULE TrainingStoreProofs -------------------------
(***************************************************************************)
(* Theorems about what the trainings leave behind: the records of MongoDB, *)
(* the answers, the artefact on disk, and the models in all of them.       *)
(*                                                                         *)
(* None of these is written under modelMu, and the answer not even under   *)
(* trainMu.  What they rest on is that a request publishes once, and that  *)
(* nobody publishes between its publication and the release of trainMu.    *)
(***************************************************************************)
EXTENDS TrainingProofs, FiniteSetTheorems

(***************************************************************************)
(* What any step may do to each part of the state.                         *)
(***************************************************************************)

\* The served model changes in Publish and in a restart only.
LEMMA ServedChanges ==
  ASSUME [Next]_vars
  PROVE  \/ UNCHANGED <<model, version, lastTraining, publishedAs>>
         \/ \E r \in Requests : Publish(r)
         \/ ApiRestart
<1>1. ASSUME NEW r \in Requests, Receive(r) \/ Coordinator(r), ~Publish(r)
      PROVE  UNCHANGED <<model, version, lastTraining, publishedAs>>
  BY <1>1 DEF Receive, Coordinator, Lock, Checked, Reduce, Truncate, Write,
              SaveFails, Record, Respond, serviceVars
<1>2. CASE Environment \/ UNCHANGED vars
  BY <1>2 DEF Environment, TrainingUnchanged, vars, serviceVars
<1> QED
  BY <1>1, <1>2 DEF Next

\* Each of the places where a training leaves something has one action that
\* writes there.
LEMMA StoredChanges ==
  ASSUME [Next]_vars
  PROVE  /\ runs' = runs \/ \E r \in Requests : Record(r)
         /\ reply' = reply \/ \E r \in Requests : Respond(r)
         /\ file' = file \/ \E r \in Requests : Truncate(r) \/ Write(r)
<1>1. ASSUME NEW r \in Requests,
             \/ Receive(r) \/ Lock(r) \/ Checked(r) \/ Reduce(r) \/ Publish(r)
             \/ SaveFails(r)
      PROVE  UNCHANGED <<runs, reply, file>>
  BY <1>1 DEF Receive, Lock, Checked, Reduce, Publish, SaveFails, storedVars
<1>2. ASSUME NEW r \in Requests, Truncate(r) \/ Write(r)
      PROVE  UNCHANGED <<runs, reply>>
  BY <1>2 DEF Truncate, Write
<1>3. ASSUME NEW r \in Requests, Record(r)
      PROVE  UNCHANGED <<file, reply>>
  BY <1>3 DEF Record
<1>4. ASSUME NEW r \in Requests, Respond(r)
      PROVE  UNCHANGED <<file, runs>>
  BY <1>4 DEF Respond, storedVars
<1>5. CASE Environment \/ ApiRestart \/ UNCHANGED vars
  BY <1>5 DEF Environment, TrainingUnchanged, ApiRestart, vars, localVars, storedVars
<1> QED
  BY <1>1, <1>2, <1>3, <1>4, <1>5 DEF Next, Coordinator

\* The way of a request from its publication to its answer, which nothing but
\* a restart cuts short; its job does not change any more.
LEMMA WayToTheAnswer ==
  ASSUME TypeOK, [Next]_vars, NEW r \in Requests
  PROVE  /\ pc'[r] = "saving" => pc[r] = "saving" \/ Publish(r)
         /\ pc'[r] = "writing" => pc[r] = "writing" \/ Truncate(r)
         /\ pc'[r] = "recording" => pc[r] = "recording" \/ Write(r)
         /\ pc'[r] = "responding" => pc[r] = "responding" \/ Record(r)
         /\ pc'[r] = "done" => pc[r] = "done" \/ Respond(r)
<1>0. pc \in [Requests -> Locations]
  BY DEF TypeOK
<1>1. ASSUME NEW s \in Requests, Receive(s) \/ Lock(s) \/ Checked(s) \/ Reduce(s)
             \/ SaveFails(s)
      PROVE  \/ pc' = pc
             \/ \E to \in {"waiting", "checking", "training", "publishing", "failed"} :
                  pc' = [pc EXCEPT ![s] = to]
  BY <1>1 DEF Receive, Lock, Checked, StartRounds, Reduce, Update, Fail, SaveFails,
              Goto
<1>2. ASSUME NEW s \in Requests,
             \/ Publish(s) \/ Truncate(s) \/ Write(s) \/ Record(s) \/ Respond(s)
      PROVE  \/ Publish(s) /\ pc' = [pc EXCEPT ![s] = "saving"]
             \/ Truncate(s) /\ pc' = [pc EXCEPT ![s] = "writing"]
             \/ Write(s) /\ pc' = [pc EXCEPT ![s] = "recording"]
             \/ Record(s) /\ pc' = [pc EXCEPT ![s] = "responding"]
             \/ Respond(s) /\ pc' = [pc EXCEPT ![s] = "done"]
  BY <1>2 DEF Publish, Truncate, Write, Record, Respond, Goto
<1>3. CASE Environment \/ UNCHANGED vars
  BY <1>3 DEF Environment, TrainingUnchanged, vars, localVars
<1>4. CASE ApiRestart
  BY <1>0, <1>4 DEF ApiRestart, InFlight, Ended
<1> QED
  BY <1>0, <1>1, <1>2, <1>3, <1>4 DEF Next, Coordinator

\* Receive decides how many iterations a training has; once its rounds are
\* over nothing of its job changes.
LEMMA JobKept ==
  ASSUME TypeOK, [Next]_vars, NEW r \in Requests
  PROVE  /\ pc[r] # "idle" => job'[r].iterations = job[r].iterations
         /\ pc[r] \notin {"idle", "checking", "training"} => job'[r] = job[r]
<1>0. job \in [Requests -> Job]
  BY DEF TypeOK
<1>1. ASSUME NEW s \in Requests, Receive(s)
      PROVE  pc[s] = "idle" /\ \A t \in Requests \ {s} : job'[t] = job[t]
  BY <1>0, <1>1 DEF Receive
<1>2. ASSUME NEW s \in Requests, Checked(s)
      PROVE  /\ pc[s] = "checking"
             /\ \A t \in Requests : job'[t].iterations = job[t].iterations
             /\ \A t \in Requests \ {s} : job'[t] = job[t]
  <2>1. CASE StartRounds(s)
    <3> DEFINE base == IF job[s].reset THEN Zero ELSE model
    <3> HIDE DEF base
    <3>1. job' = [job EXCEPT ![s].iteration = 1, ![s].model = base,
                             ![s].samples = SamplesByNode(s)]
      BY <2>1 DEF StartRounds, base
    <3> QED
      BY <1>0, <1>2, <3>1 DEF Checked, Job
  <2> QED
    BY <1>2, <2>1 DEF Checked
<1>3. ASSUME NEW s \in Requests, Reduce(s)
      PROVE  /\ pc[s] = "training"
             /\ \A t \in Requests : job'[t].iterations = job[t].iterations
             /\ \A t \in Requests \ {s} : job'[t] = job[t]
  <2>1. CASE Update(s)
    <3>1. PICK numbers \in Numbers :
            \/ job' = [job EXCEPT ![s].model = Step(job[s].model, s, numbers),
                                  ![s].iteration = job[s].iteration + 1]
            \/ job' = [job EXCEPT ![s].model = Step(job[s].model, s, numbers)]
      BY <2>1 DEF Update, Numbers
    <3> DEFINE m == Step(job[s].model, s, numbers)
    <3> HIDE DEF m
    <3>2. \/ job' = [job EXCEPT ![s].model = m, ![s].iteration = job[s].iteration + 1]
          \/ job' = [job EXCEPT ![s].model = m]
      BY <3>1 DEF m
    <3> QED
      BY <1>0, <1>3, <3>2 DEF Reduce, Job
  <2> QED
    BY <1>3, <2>1 DEF Reduce
<1>4. ASSUME NEW s \in Requests,
             \/ Lock(s) \/ Publish(s) \/ Truncate(s) \/ Write(s) \/ SaveFails(s)
             \/ Record(s) \/ Respond(s)
      PROVE  job' = job
  BY <1>4 DEF Lock, Publish, Truncate, Write, SaveFails, Record, Respond
<1>5. CASE Environment \/ ApiRestart \/ UNCHANGED vars
  BY <1>5 DEF Environment, TrainingUnchanged, ApiRestart, vars, localVars
<1> QED
  BY <1>1, <1>2, <1>3, <1>4, <1>5 DEF Next, Coordinator

-----------------------------------------------------------------------------
(***************************************************************************)
(* What is served and who published it.                                    *)
(***************************************************************************)

Saving == {"saving", "writing", "recording"}

\* The report that is served is that of the training that published last.
LatestReport ==
  lastTraining # NoReport => publishedAs[lastTraining.by] = version

\* Until it releases trainMu, a training that has published is the one whose
\* model and report are served.
OwnModelServed(r) ==
  pc[r] \in Saving =>
    /\ publishedAs[r] = version
    /\ lastTraining = ReportOf(r)
    /\ model = job[r].model

\* Afterwards another may have published, under a greater version.
AnswerReady(r) ==
  pc[r] = "responding" =>
    lastTraining # NoReport /\ publishedAs[r] \in 1..version

PublishInv ==
  /\ LatestReport
  /\ \A r \in Requests : OwnModelServed(r) /\ AnswerReady(r)

\* What the proofs below need of the proofs before them.
CoreInv == TypeInv /\ OneTrainingAtATime /\ Unpublished

LEMMA CoreInit == Init => CoreInv
<1>1. Init => Unpublished
  BY DEF Init, Unpublished
<1> QED
  BY <1>1, InitTypes, MutexInit DEF CoreInv

LEMMA CoreNext == CoreInv /\ [Next]_vars => CoreInv'
BY NextTypes, MutexNext, UnpublishedNext DEF CoreInv, TypeInv

\* A publication is made by the holder of trainMu, of a report, once.
LEMMA PublishStep ==
  ASSUME CoreInv, NEW r \in Requests, Publish(r)
  PROVE  /\ publishedAs[r] = 0
         /\ \A s \in Requests \ {r} : pc[s] \notin Critical
         /\ lastTraining' = ReportOf(r) /\ lastTraining'.by = r
         /\ lastTraining' \in Report /\ lastTraining' # NoReport
         /\ model' = job[r].model
         /\ version' = version + 1 /\ version \in Nat \ {0}
         /\ publishedAs' = [publishedAs EXCEPT ![r] = version + 1]
         /\ publishedAs \in [Requests -> Nat]
         /\ pc'[r] = "saving" /\ UNCHANGED job
<1>1. pc[r] = "publishing" /\ TypeOK
  BY DEF Publish, CoreInv, TypeInv
<1>2. publishedAs[r] = 0
  BY <1>1 DEF CoreInv, Unpublished, Before
<1>3. \A s \in Requests \ {r} : pc[s] \notin Critical
  BY <1>1 DEF CoreInv, OneTrainingAtATime, Critical
<1>4. ReportOf(r) \in Report /\ ReportOf(r).by = r
  BY <1>1, ReportType DEF CoreInv, InFlight, Locations, Ended, ReportOf
<1>5. pc'[r] = "saving"
  BY <1>1 DEF Publish, Goto, TypeOK
<1> QED
  BY <1>1, <1>2, <1>3, <1>4, <1>5, NoReportAssumption DEF Publish, TypeOK

\* What a training that has published is about to write is its own report.
LEMMA OwnReport ==
  ASSUME CoreInv, NEW r \in Requests, pc[r] \in Saving, OwnModelServed(r)
  PROVE  lastTraining # NoReport /\ lastTraining.by = r
<1>1. ReportOf(r) \in Report /\ ReportOf(r).by = r
  BY ReportType DEF CoreInv, Saving, InFlight, Locations, Ended, ReportOf
<1> QED
  BY <1>1, NoReportAssumption DEF OwnModelServed

LEMMA PublishInvNext == CoreInv /\ PublishInv /\ [Next]_vars => PublishInv'
<1> SUFFICES ASSUME CoreInv, PublishInv, [Next]_vars
             PROVE  PublishInv'
  OBVIOUS
<1>0. TypeOK
  BY DEF CoreInv, TypeInv
<1>1. CASE UNCHANGED <<model, version, lastTraining, publishedAs>>
  <2>1. LatestReport'
    BY <1>1 DEF PublishInv, LatestReport
  <2>2. ASSUME NEW r \in Requests
        PROVE  OwnModelServed(r)'
    <3> SUFFICES ASSUME pc'[r] \in Saving
                 PROVE  OwnModelServed(r)'
      BY DEF OwnModelServed
    <3>1. pc[r] \in Saving
      <4>1. ~Publish(r)
        BY <1>0, <1>1 DEF Publish, TypeOK
      <4> QED
        BY <1>0, <4>1, WayToTheAnswer DEF Saving, Truncate, Write
    <3>2. job'[r] = job[r]
      BY <1>0, <3>1, JobKept DEF Saving
    <3> QED
      BY <1>1, <3>1, <3>2 DEF PublishInv, OwnModelServed, ReportOf
  <2>3. ASSUME NEW r \in Requests
        PROVE  AnswerReady(r)'
    <3> SUFFICES ASSUME pc'[r] = "responding"
                 PROVE  AnswerReady(r)'
      BY DEF AnswerReady
    <3>1. pc[r] = "responding" \/ pc[r] = "recording"
      BY <1>0, WayToTheAnswer DEF Record
    <3>2. CASE pc[r] = "responding"
      BY <1>1, <3>2 DEF PublishInv, AnswerReady
    <3>3. CASE pc[r] = "recording"
      <4>1. OwnModelServed(r) /\ pc[r] \in Saving
        BY <3>3 DEF PublishInv, Saving
      <4>2. lastTraining # NoReport
        BY <4>1, OwnReport
      <4> QED
        BY <1>0, <1>1, <4>1, <4>2 DEF OwnModelServed, AnswerReady, TypeOK
    <3> QED
      BY <3>1, <3>2, <3>3
  <2> QED
    BY <2>1, <2>2, <2>3 DEF PublishInv
<1>2. ASSUME NEW s \in Requests, Publish(s)
      PROVE  PublishInv'
  <2>1. LatestReport'
    BY <1>2, PublishStep DEF LatestReport
  <2>2. ASSUME NEW r \in Requests
        PROVE  OwnModelServed(r)' /\ AnswerReady(r)'
    <3>1. CASE r = s
      BY <1>2, <3>1, PublishStep DEF OwnModelServed, AnswerReady, ReportOf
    <3>2. CASE r # s
      <4>1. pc'[r] = pc[r] /\ pc[r] \notin Saving
        BY <1>0, <1>2, <3>2, PublishStep DEF Publish, Goto, TypeOK, Critical, Saving
      <4>2. publishedAs'[r] = publishedAs[r]
        BY <1>2, <3>2, PublishStep
      <4>3. pc[r] = "responding" => publishedAs[r] \in 1..version + 1
        BY <1>2, PublishStep DEF PublishInv, AnswerReady
      <4> QED
        BY <1>2, <4>1, <4>2, <4>3, PublishStep DEF OwnModelServed, AnswerReady
    <3> QED
      BY <3>1, <3>2
  <2> QED
    BY <2>1, <2>2 DEF PublishInv
<1>3. CASE ApiRestart
  BY <1>0, <1>3 DEF ApiRestart, PublishInv, LatestReport, OwnModelServed,
                    AnswerReady, Saving, TypeOK, InFlight, Ended
<1> QED
  BY <1>1, <1>2, <1>3, ServedChanges

LEMMA PublishInvInit == Init => PublishInv
BY DEF Init, PublishInv, LatestReport, OwnModelServed, AnswerReady, Saving

-----------------------------------------------------------------------------
(***************************************************************************)
(* Records and answers.  A version once published stays the one of its     *)
(* request, so what was right when it was written stays right.             *)
(***************************************************************************)

RecordedWasPublished == \A run \in runs : publishedAs[run.report.by] > 0

RecordInv == RunsCoherent /\ RecordedWasPublished /\ ReplyNotOlder

\* A request that has published keeps its version.
LEMMA VersionsKept ==
  ASSUME CoreInv, [Next]_vars, NEW r \in Requests, publishedAs[r] > 0
  PROVE  publishedAs'[r] = publishedAs[r]
<1>1. ASSUME NEW s \in Requests, Publish(s)
      PROVE  publishedAs'[r] = publishedAs[r]
  BY <1>1, PublishStep
<1>2. CASE ApiRestart
  BY <1>2 DEF ApiRestart
<1> QED
  BY <1>1, <1>2, ServedChanges

LEMMA RecordInvNext ==
  CoreInv /\ PublishInv /\ RecordInv /\ [Next]_vars => RecordInv'
<1> SUFFICES ASSUME CoreInv, PublishInv, RecordInv, [Next]_vars
             PROVE  RecordInv'
  OBVIOUS
<1>0. TypeOK
  BY DEF CoreInv, TypeInv
<1>1. ASSUME NEW run \in runs'
      PROVE  /\ run.snapshot.lastTraining = run.report
             /\ run.snapshot.version = publishedAs'[run.report.by]
             /\ publishedAs'[run.report.by] > 0
  <2>1. CASE run \in runs
    <3>1. run.report.by \in Requests /\ publishedAs[run.report.by] > 0
      BY <1>0, <2>1 DEF TypeOK, Report, Store!Report, RecordInv, RecordedWasPublished
    <3> QED
      BY <2>1, <3>1, VersionsKept DEF RecordInv, RunsCoherent
  <2>2. CASE run \notin runs
    <3>1. PICK r \in Requests : Record(r)
      BY <1>1, <2>2, StoredChanges
    <3>2. run = [report |-> ReportOf(r), snapshot |-> ModelSnapshot]
      BY <1>1, <2>2, <3>1 DEF Record
    <3>3. OwnModelServed(r) /\ pc[r] \in Saving /\ publishedAs' = publishedAs
      BY <3>1 DEF PublishInv, Record, Saving
    <3> QED
      BY <1>0, <3>2, <3>3 DEF OwnModelServed, ModelSnapshot, ReportOf, TypeOK
  <2> QED
    BY <2>1, <2>2
<1>2. ASSUME NEW r \in Requests, reply'[r] # NoReply
      PROVE  /\ publishedAs'[r] > 0
             /\ reply'[r].version >= publishedAs'[r]
             /\ reply'[r].lastTraining # NoReport
             /\ reply'[r].version = publishedAs'[reply'[r].lastTraining.by]
  <2>1. CASE reply'[r] = reply[r]
    <3>1. /\ publishedAs[r] > 0 /\ reply[r].version >= publishedAs[r]
          /\ reply[r].lastTraining # NoReport
          /\ reply[r].version = publishedAs[reply[r].lastTraining.by]
      BY <1>2, <2>1 DEF RecordInv, ReplyNotOlder
    <3>2. reply[r].lastTraining.by \in Requests /\ reply[r].version \in Nat
      BY <1>0, <1>2, <2>1, <3>1 DEF TypeOK, Snapshot, Report, Store!Report
    <3>3. publishedAs[reply[r].lastTraining.by] > 0
      BY <1>0, <3>1, <3>2 DEF TypeOK
    <3> QED
      BY <2>1, <3>1, <3>2, <3>3, VersionsKept
  <2>2. CASE reply'[r] # reply[r]
    <3>1. Respond(r)
      BY <1>0, <2>2, StoredChanges DEF Respond, TypeOK
    <3>2. reply'[r] = ModelSnapshot /\ publishedAs' = publishedAs
      BY <1>0, <3>1 DEF Respond, TypeOK, serviceVars
    <3>3. LatestReport /\ AnswerReady(r) /\ pc[r] = "responding"
      BY <3>1 DEF PublishInv, Respond
    <3> QED
      BY <1>0, <3>2, <3>3 DEF LatestReport, AnswerReady, ModelSnapshot, TypeOK
  <2> QED
    BY <2>1, <2>2
<1> QED
  BY <1>1, <1>2 DEF RecordInv, RunsCoherent, RecordedWasPublished, ReplyNotOlder

StoreInv == CoreInv /\ PublishInv /\ RecordInv

LEMMA StoreInvInit == Init => StoreInv
<1>1. Init => RecordInv
  BY DEF Init, RecordInv, RunsCoherent, RecordedWasPublished, ReplyNotOlder
<1> QED
  BY <1>1, CoreInit, PublishInvInit DEF StoreInv

LEMMA StoreInvNext == StoreInv /\ [Next]_vars => StoreInv'
BY CoreNext, PublishInvNext, RecordInvNext DEF StoreInv

LEMMA StoreInvariant == Spec => []StoreInv
BY StoreInvInit, StoreInvNext, PTL DEF Spec

\* Every record of training_runs pairs a report with the model and the version
\* of that very training, although SaveTraining reads them separately and
\* later.
THEOREM RecordsCoherent == Spec => []RunsCoherent
<1>1. StoreInv => RunsCoherent
  BY DEF StoreInv, RecordInv
<1> QED
  BY <1>1, StoreInvariant, PTL

\* The answer to a training, taken after trainMu was released, shows its own
\* model or a later one, and a version that is the one of the report in it.
THEOREM AnswersNotOlder == Spec => []ReplyNotOlder
<1>1. StoreInv => ReplyNotOlder
  BY DEF StoreInv, RecordInv
<1> QED
  BY <1>1, StoreInvariant, PTL

-----------------------------------------------------------------------------
(***************************************************************************)
(* The artefact.                                                           *)
(***************************************************************************)

Durable(r) ==
  (pc[r] \in {"recording", "responding", "done"} /\ publishedAs[r] = version
     /\ lastTraining # NoReport /\ lastTraining.by = r)
    => /\ file.st = "whole"
       /\ file.model = model
       /\ file.report = lastTraining

LEMMA DurableAll == DurableWhenAcknowledged <=> \A r \in Requests : Durable(r)
BY DEF DurableWhenAcknowledged, Durable

LEMMA DurableNext ==
  ASSUME StoreInv, [Next]_vars, NEW r \in Requests, Durable(r)
  PROVE  Durable(r)'
<1> SUFFICES ASSUME pc'[r] \in {"recording", "responding", "done"},
                    publishedAs'[r] = version',
                    lastTraining' # NoReport, lastTraining'.by = r
             PROVE  /\ file'.st = "whole"
                    /\ file'.model = model'
                    /\ file'.report = lastTraining'
  BY DEF Durable
<1>0. CoreInv /\ PublishInv /\ TypeOK
  BY DEF StoreInv, CoreInv, TypeInv
<1>1. ASSUME NEW s \in Requests, Publish(s)
      PROVE  FALSE
  BY <1>0, <1>1, PublishStep
<1>2. ~ApiRestart
  BY DEF ApiRestart
<1>3. UNCHANGED <<model, version, lastTraining, publishedAs>>
  BY <1>1, <1>2, ServedChanges
<1>4. CASE Write(r)
  <2>1. OwnModelServed(r) /\ pc[r] \in Saving
    BY <1>0, <1>4 DEF PublishInv, Write, Saving
  <2> QED
    BY <1>3, <1>4, <2>1 DEF Write, OwnModelServed
<1>5. CASE ~Write(r)
  <2>1. pc[r] \in {"recording", "responding", "done"}
    BY <1>0, <1>5, WayToTheAnswer DEF Record, Respond
  \* Whoever is writing the file is the one whose report is served.
  <2>2. ASSUME NEW s \in Requests, Truncate(s) \/ Write(s)
        PROVE  FALSE
    <3>1. pc[s] \in {"saving", "writing"} /\ OwnModelServed(s)
      BY <1>0, <2>2 DEF Truncate, Write, PublishInv
    <3>2. lastTraining.by = s
      BY <1>0, <3>1, OwnReport DEF Saving
    <3> QED
      BY <1>3, <2>1, <3>1, <3>2
  <2>3. file' = file
    BY <2>2, StoredChanges
  <2> QED
    BY <1>3, <2>1, <2>3 DEF Durable
<1> QED
  BY <1>4, <1>5

\* From its record on, a training whose model is served has it on disk, whole
\* and with its report, whatever was saved, cut or lost before.
THEOREM DurableModel == Spec => []DurableWhenAcknowledged
<1> DEFINE AllDurable == \A r \in Requests : Durable(r)
<1>1. Init => AllDurable
  BY DEF Init, Durable
<1>2. StoreInv /\ AllDurable /\ [Next]_vars => AllDurable'
  BY DurableNext
<1>3. AllDurable => DurableWhenAcknowledged
  BY DurableAll
<1> QED
  BY <1>1, <1>2, <1>3, StoreInvariant, PTL DEF Spec

-----------------------------------------------------------------------------
(***************************************************************************)
(* Whole trainings.  A request leaves its updates in a model all at once,  *)
(* when it publishes, and has left none anywhere before.                   *)
(***************************************************************************)

\* The updates of request r in model m.
UpdatesOf(m, r) == {i \in DOMAIN m.steps : m.steps[i] = r}

\* A training of r adds its k updates to a model that has none of r, and
\* touches those of nobody else.
LEMMA UpdatesOfTrained ==
  ASSUME NEW base \in Model, NEW r \in Requests, NEW k \in Nat, NEW numbers \in Numbers,
         NEW s \in Requests
  PROVE  LET m == Trained(base, r, k, numbers) IN
           /\ m \in Model
           /\ s # r => UpdatesOf(m, s) = UpdatesOf(base, s)
           /\ UpdatesOf(base, r) = {} => Cardinality(UpdatesOf(m, r)) = k
<1> DEFINE m == Trained(base, r, k, numbers)
           n == Len(base.steps)
<1>1. base.steps \in Seq(Requests) /\ n \in Nat
  BY DEF Model
<1>2. Times(r, k) \in Seq(Requests) /\ Len(Times(r, k)) = k
      /\ \A i \in 1..k : Times(r, k)[i] = r
  BY DEF Times
<1>3. /\ m.steps = base.steps \o Times(r, k)
      /\ m.steps \in Seq(Requests)
      /\ m \in Model
  BY <1>1, <1>2, ConcatProperties DEF Trained, Model
<1>4. /\ DOMAIN m.steps = 1..(n + k) /\ DOMAIN base.steps = 1..n
      /\ \A i \in 1..n : m.steps[i] = base.steps[i]
      /\ \A i \in (n + 1)..(n + k) : m.steps[i] = r
  BY <1>1, <1>2, <1>3
<1> HIDE DEF m, n
<1>5. ASSUME s # r
      PROVE  UpdatesOf(m, s) = UpdatesOf(base, s)
  <2>1. \A i \in 1..(n + k) : m.steps[i] = s <=> i \in 1..n /\ base.steps[i] = s
    BY <1>1, <1>4, <1>5
  <2> QED
    BY <1>1, <1>4, <2>1 DEF UpdatesOf
<1>6. ASSUME UpdatesOf(base, r) = {}
      PROVE  Cardinality(UpdatesOf(m, r)) = k
  <2>1. \A i \in 1..n : base.steps[i] # r
    BY <1>4, <1>6 DEF UpdatesOf
  <2>2. UpdatesOf(m, r) = (n + 1)..(n + k)
    BY <1>1, <1>4, <2>1 DEF UpdatesOf
  <2>3. Cardinality((n + 1)..(n + k)) = IF n + 1 > n + k THEN 0 ELSE n + k - (n + 1) + 1
    BY <1>1, FS_Interval
  <2> QED
    BY <1>1, <2>2, <2>3
<1> QED
  BY <1>3, <1>5, <1>6 DEF m

\* The models that are served, recorded, answered or saved.
StoredModels ==
  {model} \cup {run.snapshot.model : run \in runs}
    \cup {reply[r].model : r \in {s \in Requests : reply[s] # NoReply}}
    \cup (IF file.st = "whole" THEN {file.model} ELSE {})

\* The updates of r in m are none, or those of the whole training of so many
\* iterations that r has published.
Whole(m, r, published, iterations) ==
  \/ UpdatesOf(m, r) = {}
  \/ published > 0 /\ Cardinality(UpdatesOf(m, r)) = iterations

AllWhole ==
  \A m \in StoredModels, r \in Requests :
    Whole(m, r, publishedAs[r], job[r].iterations)

\* A model is served before it is anywhere else.
LEMMA ModelsAreServedFirst ==
  ASSUME StoreInv, [Next]_vars
  PROVE  StoredModels' \subseteq StoredModels \cup {model'}
<1>0. TypeOK /\ PublishInv
  BY DEF StoreInv, CoreInv, TypeInv
<1>1. ASSUME NEW run \in runs'
      PROVE  run.snapshot.model \in StoredModels
  <2>1. run \in runs \/ run.snapshot = ModelSnapshot
    BY <1>1, StoredChanges DEF Record
  <2> QED
    BY <2>1 DEF StoredModels, ModelSnapshot
<1>2. ASSUME NEW r \in Requests, reply'[r] # NoReply
      PROVE  reply'[r].model \in StoredModels
  <2>1. reply'[r] = reply[r] \/ reply'[r] = ModelSnapshot
    BY <1>0, StoredChanges DEF Respond, TypeOK
  <2> QED
    BY <1>2, <2>1 DEF StoredModels, ModelSnapshot
<1>3. ASSUME file'.st = "whole"
      PROVE  file'.model \in StoredModels
  <2>1. CASE file' = file
    BY <1>3, <2>1 DEF StoredModels
  <2>2. ASSUME NEW r \in Requests, Truncate(r)
        PROVE  FALSE
    BY <1>3, <2>2 DEF Truncate, Torn
  <2>3. ASSUME NEW r \in Requests, Write(r)
        PROVE  file'.model \in StoredModels
    <3>1. file'.model = job[r].model /\ OwnModelServed(r) /\ pc[r] \in Saving
      BY <1>0, <2>3 DEF Write, PublishInv, Saving
    <3> QED
      BY <3>1 DEF OwnModelServed, StoredModels
  <2> QED
    BY <2>1, <2>2, <2>3, StoredChanges
<1> QED
  BY <1>1, <1>2, <1>3 DEF StoredModels

\* What is whole stays whole: the iterations of a request that has published
\* no longer change.
LEMMA WholeStays ==
  ASSUME CoreInv, [Next]_vars, NEW m, NEW r \in Requests,
         Whole(m, r, publishedAs[r], job[r].iterations)
  PROVE  Whole(m, r, publishedAs'[r], job'[r].iterations)
<1>1. CASE UpdatesOf(m, r) = {}
  BY <1>1 DEF Whole
<1>2. CASE publishedAs[r] > 0 /\ Cardinality(UpdatesOf(m, r)) = job[r].iterations
  <2>1. publishedAs'[r] > 0
    BY <1>2, VersionsKept
  <2>2. pc[r] # "idle"
    BY <1>2 DEF CoreInv, Unpublished, Before
  <2>3. job'[r].iterations = job[r].iterations
    BY <2>2, JobKept DEF CoreInv, TypeInv
  <2> QED
    BY <1>2, <2>1, <2>3 DEF Whole
<1> QED
  BY <1>1, <1>2 DEF Whole

\* So is the model that a training publishes: it was made from the served one,
\* in which the request had no update yet.
LEMMA PublishedIsWhole ==
  ASSUME CoreInv, AllWhole, [Next]_vars, NEW r \in Requests, Publish(r), OnServed(r),
         NEW s \in Requests
  PROVE  Whole(model', s, publishedAs'[s], job'[s].iterations)
<1> DEFINE base == Base(r)
           k == job[r].iterations
           numbers == job[r].model.numbers
           m == Trained(base, r, k, numbers)
<1>0. /\ TypeOK /\ pc[r] = "publishing"
      /\ k \in Nat /\ numbers \in Numbers
  BY DEF CoreInv, TypeInv, TypeOK, Publish, Job, Model
<1>1. model' = m
  BY <1>0, PublishStep DEF OnServed
<1>2. base \in Model
  BY <1>0, OriginTypes DEF Base, TypeOK
\* Neither the served model nor zero weights owe anything to an unpublished
\* request.
<1>3. \A t \in Requests : Whole(base, t, publishedAs[t], job[t].iterations)
  <2>1. \A t \in Requests : UpdatesOf(Zero, t) = {}
    BY DEF UpdatesOf, Zero
  <2> QED
    BY <2>1 DEF Base, AllWhole, StoredModels, Whole
<1>4. publishedAs[r] = 0
  BY PublishStep
<1>5. UpdatesOf(base, r) = {}
  BY <1>3, <1>4 DEF Whole
<1>6. /\ s # r => UpdatesOf(m, s) = UpdatesOf(base, s)
      /\ Cardinality(UpdatesOf(m, r)) = k
  BY <1>0, <1>2, <1>5, UpdatesOfTrained
<1> HIDE DEF base, m
<1>7. CASE s = r
  <2>1. publishedAs'[r] > 0 /\ job'[r].iterations = k
    BY PublishStep
  <2> QED
    BY <1>1, <1>6, <1>7, <2>1 DEF Whole
<1>8. CASE s # r
  <2>1. Whole(m, s, publishedAs[s], job[s].iterations)
    BY <1>3, <1>6, <1>8 DEF Whole
  <2> QED
    BY <1>1, <2>1, WholeStays
<1> QED
  BY <1>7, <1>8

LEMMA WholeNext ==
  /\ StoreInv /\ (\A r \in Requests : OnServed(r)) /\ AllWhole
  /\ [Next]_vars
  => AllWhole'
<1> SUFFICES ASSUME StoreInv, \A r \in Requests : OnServed(r), AllWhole, [Next]_vars
             PROVE  AllWhole'
  OBVIOUS
<1>0. CoreInv
  BY DEF StoreInv
<1>1. \A m \in StoredModels, s \in Requests :
        Whole(m, s, publishedAs'[s], job'[s].iterations)
  BY <1>0, WholeStays DEF AllWhole
<1>2. ASSUME NEW s \in Requests
      PROVE  Whole(model', s, publishedAs'[s], job'[s].iterations)
  <2>1. CASE UNCHANGED model
    BY <1>1, <2>1 DEF StoredModels
  <2>2. ASSUME NEW r \in Requests, Publish(r)
        PROVE  Whole(model', s, publishedAs'[s], job'[s].iterations)
    BY <1>0, <2>2, PublishedIsWhole
  <2>3. CASE ApiRestart
    BY <2>3 DEF ApiRestart, Phase1, Whole, UpdatesOf
  <2> QED
    BY <2>1, <2>2, <2>3, ServedChanges
<1> QED
  BY <1>1, <1>2, ModelsAreServedFirst DEF AllWhole

LEMMA WholeInit == Init => AllWhole
<1> SUFFICES ASSUME Init
             PROVE  AllWhole
  OBVIOUS
<1>1. StoredModels = {Phase1}
  BY DEF Init, StoredModels, Absent
<1>2. \A r \in Requests : UpdatesOf(Phase1, r) = {}
  BY DEF UpdatesOf, Phase1
<1> QED
  BY <1>1, <1>2 DEF AllWhole, Whole

\* No model that is served, recorded, answered or saved holds a part of a
\* training: of each request it has all the updates or none.
THEOREM NoPartialTraining == Spec => []WholeTrainings
<1> DEFINE Served == \A r \in Requests : OnServed(r)
<1>1. Init => Served /\ AllWhole
  BY ServedInit, WholeInit
<1>2. StoreInv /\ Served /\ AllWhole /\ [Next]_vars => (Served /\ AllWhole)'
  BY ServedNext, WholeNext DEF StoreInv, CoreInv
<1>3. AllWhole => WholeTrainings
  <2> SUFFICES ASSUME AllWhole, NEW m \in StoredModels, NEW r \in Requests
               PROVE  Cardinality(UpdatesOf(m, r)) \in {0, job[r].iterations}
    BY DEF WholeTrainings, StoredModels, UpdatesOf
  <2> QED
    BY FS_EmptySet DEF AllWhole, Whole
<1> HIDE DEF Served
<1> QED
  BY <1>1, <1>2, <1>3, StoreInvariant, PTL DEF Spec

-----------------------------------------------------------------------------
(***************************************************************************)
(* The samples of a report.  samples_per_iteration is what the health      *)
(* check was told; each round is computed by whatever processes run then.  *)
(***************************************************************************)

\* The shard files of a node are not generated anew with another number of
\* rows: every process that may be started with its id loads as many samples.
ShardsFixed ==
  \A n \in Nodes : \A p, q \in ProcessesOf[n] :
    p.id = n /\ q.id = n => p.samples = q.samples

\* So many samples are what a process of node n reports.
ReportedBy(n, samples) ==
  \E p \in ProcessesOf[n] : p.id = n /\ samples = p.samples

\* Whatever answers as node n is a process of node n.
AnswerOf(r, n) ==
  call[r][n].st = "ok" /\ call[r][n].response.id = n =>
    ReportedBy(n, call[r][n].response.samples)

SamplesOf(r) ==
  pc[r] = "training" => \A n \in Nodes : ReportedBy(n, job[r].samples[n])

ShardInv ==
  /\ \A n \in Nodes : process[n] # Down => process[n] \in ProcessesOf[n]
  /\ \A r \in Requests : SamplesOf(r) /\ \A n \in Nodes : AnswerOf(r, n)

\* The calls change only to wait, to fail, or to be answered by the process
\* that listens.
LEMMA CallChanges ==
  ASSUME TypeOK, [Next]_vars, NEW r \in Requests, NEW n \in Nodes
  PROVE  \/ call'[r][n] = call[r][n]
         \/ call'[r][n].st # "ok"
         \/ /\ process[n] # Down
            /\ \E request \in Message :
                 call'[r][n] = [st |-> "ok", response |-> Handle(process[n], request)]
<1>0. call \in [Requests -> [Nodes -> Call]]
  BY DEF TypeOK, ClusterTypeOK
<1>1. ASSUME NEW s \in Requests, NEW m, StartCalls(s, m)
      PROVE  call'[r][n] = call[r][n] \/ call'[r][n].st # "ok"
  BY <1>0, <1>1 DEF StartCalls
<1>2. ASSUME NEW s \in Requests, call' = [call EXCEPT ![s] = [m \in Nodes |-> Idle]]
      PROVE  call'[r][n] = call[r][n] \/ call'[r][n].st # "ok"
  BY <1>0, <1>2 DEF Idle
<1>3. ASSUME NEW s \in Requests, Lock(s) \/ Checked(s) \/ Reduce(s) \/ SaveFails(s)
      PROVE  call'[r][n] = call[r][n] \/ call'[r][n].st # "ok"
  BY <1>1, <1>2, <1>3 DEF Lock, Checked, StartRounds, Reduce, Update, SaveFails, Fail
<1>4. ASSUME NEW s \in Requests,
             \/ Receive(s) \/ Publish(s) \/ Truncate(s) \/ Write(s) \/ Record(s)
             \/ Respond(s)
      PROVE  call' = call
  BY <1>4 DEF Receive, Publish, Truncate, Write, Record, Respond, clusterVars
<1>5. ASSUME NEW s \in Requests, NEW m \in Nodes, CallStep(s, m)
      PROVE  \/ call'[r][n] = call[r][n]
             \/ call'[r][n].st # "ok"
             \/ /\ process[n] # Down
                /\ \E request \in Message :
                     call'[r][n] = [st |-> "ok",
                                    response |-> Handle(process[n], request)]
  <2>0. call[s][m] \in Call
    BY <1>0
  <2>1. CASE Connect(s, m)
    <3>1. [call[s][m] EXCEPT !.st = "open"].st = "open"
      BY <2>0, <2>1 DEF Connect, Call
    <3> QED
      BY <1>0, <2>1, <3>1 DEF Connect, SetCall
  <2>2. CASE CallFails(s, m)
    BY <1>0, <2>2 DEF CallFails, SetCall
  <2>3. CASE NodeReply(s, m, ModelFeatures)
    <3>1. call[s][m].request \in Message /\ process[m] # Down
      BY <2>0, <2>3 DEF NodeReply, Call
    <3>2. \/ call' = [call EXCEPT ![s][m] =
                        [st |-> "ok",
                         response |-> Handle(process[m], call[s][m].request)]]
          \/ call' = [call EXCEPT ![s][m] = [st |-> "err"]]
      BY <2>3 DEF NodeReply, SetCall
    <3> QED
      BY <1>0, <3>1, <3>2
  <2> QED
    BY <1>5, <2>1, <2>2, <2>3 DEF CallStep
<1>6. ASSUME NEW m \in Nodes, NodeCrash(m)
      PROVE  call'[r][n] = call[r][n] \/ call'[r][n].st # "ok"
  <2>0. call[r][n] \in Call
    BY <1>0
  <2>1. \/ call'[r][n] = call[r][n]
        \/ call[r][n].st = "open" /\ call'[r][n] = [call[r][n] EXCEPT !.st = "lost"]
    BY <1>0, <1>6 DEF NodeCrash
  <2> QED
    BY <2>0, <2>1 DEF Call
<1>7. ASSUME NEW m \in Nodes, NodeStart(m)
      PROVE  call' = call
  BY <1>7 DEF NodeStart
<1>8. ASSUME NEW s \in Requests, Abandon(s)
      PROVE  call' = call
  BY <1>8 DEF Abandon, Cancel
<1>9. CASE ApiRestart
  BY <1>9 DEF ApiRestart, Idle
<1>10. CASE UNCHANGED vars
  BY <1>10 DEF vars, clusterVars
<1> QED
  BY <1>3, <1>4, <1>5, <1>6, <1>7, <1>8, <1>9, <1>10 DEF Next, Coordinator, Environment

LEMMA ProcessChanges ==
  ASSUME TypeOK, [Next]_vars, NEW n \in Nodes
  PROVE  process'[n] \in {process[n], Down} \cup ProcessesOf[n]
<1>0. process \in [Nodes -> Process \cup {Down}]
  BY DEF TypeOK, ClusterTypeOK
<1>1. ASSUME NEW r \in Requests, Receive(r) \/ Coordinator(r)
      PROVE  process' = process
  BY <1>1 DEF Receive, Coordinator, Lock, Checked, Reduce, Publish, Truncate,
              Write, SaveFails, Record, Respond, clusterVars
<1>2. CASE Environment
  BY <1>0, <1>2 DEF Environment, CallStep, Connect, CallFails, NodeReply, NodeCrash,
                    NodeStart, Abandon, Cancel
<1>3. CASE ApiRestart \/ UNCHANGED vars
  BY <1>3 DEF ApiRestart, vars, clusterVars
<1> QED
  BY <1>1, <1>2, <1>3 DEF Next

\* The verdict on a cluster is good only when every node is available.
LEMMA ReadyMeansAll ==
  ASSUME NEW r \in Requests, ClusterStatus(r) = "ready"
  PROVE  \A n \in Nodes : Available(r, n)
<1> DEFINE available == {n \in Nodes : Available(r, n)}
<1>1. ASSUME NEW some, some # Nodes
      PROVE  (CASE some = Nodes -> "ready"
                [] some = {}    -> "unavailable"
                [] OTHER        -> "degraded") # "ready"
  <2>1. CASE some = {}
    BY <1>1, <2>1, Zenon
  <2>2. CASE some # {}
    BY <1>1, <2>2, Zenon
  <2> QED
    BY <2>1, <2>2
<1>2. available = Nodes
  BY <1>1 DEF ClusterStatus
<1> QED
  BY <1>2

\* A training enters its rounds by a health check that let it pass, and keeps
\* the samples that it reported.
LEMMA TrainingEntered ==
  ASSUME TypeOK, [Next]_vars, NEW r \in Requests, pc'[r] = "training"
  PROVE  \/ pc[r] = "training" /\ job'[r].samples = job[r].samples
         \/ /\ ClusterStatus(r) = "ready"
            /\ job'[r].samples = SamplesByNode(r)
<1>0. pc \in [Requests -> Locations] /\ job \in [Requests -> Job]
  BY DEF TypeOK
<1>1. ASSUME NEW s \in Requests, Receive(s)
      PROVE  pc[r] = "training" /\ job'[r] = job[r]
  <2>1. /\ pc[s] = "idle"
        /\ pc' = [pc EXCEPT ![s] = "waiting"] \/ pc' = [pc EXCEPT ![s] = "failed"]
    BY <1>1 DEF Receive, Goto
  <2> QED
    BY <1>0, <1>1, <2>1 DEF Receive
<1>2. ASSUME NEW s \in Requests, Checked(s)
      PROVE  \/ pc[r] = "training" /\ job'[r] = job[r]
             \/ ClusterStatus(r) = "ready" /\ job'[r].samples = SamplesByNode(r)
  <2>1. CASE Fail(s) /\ UNCHANGED job
    BY <1>0, <2>1 DEF Fail, Goto
  <2>2. CASE ClusterStatus(s) = "ready" /\ StartRounds(s) /\ r = s
    <3> DEFINE base == IF job[s].reset THEN Zero ELSE model
    <3> HIDE DEF base
    <3>1. job' = [job EXCEPT ![s].iteration = 1, ![s].model = base,
                             ![s].samples = SamplesByNode(s)]
      BY <2>2 DEF StartRounds, base
    <3> QED
      BY <1>0, <2>2, <3>1 DEF Job
  <2>3. CASE StartRounds(s) /\ r # s
    BY <1>0, <2>3 DEF StartRounds, Goto
  <2> QED
    BY <1>2, <2>1, <2>2, <2>3 DEF Checked
<1>3. ASSUME NEW s \in Requests, Reduce(s)
      PROVE  pc[r] = "training" /\ job'[r].samples = job[r].samples
  <2>1. CASE Fail(s) /\ UNCHANGED job
    BY <1>0, <2>1 DEF Fail, Goto
  <2>2. CASE Update(s)
    <3>1. PICK numbers \in Numbers :
            \/ /\ job' = [job EXCEPT ![s].model = Step(job[s].model, s, numbers),
                                     ![s].iteration = job[s].iteration + 1]
               /\ pc' = pc
            \/ /\ job' = [job EXCEPT ![s].model = Step(job[s].model, s, numbers)]
               /\ pc' = [pc EXCEPT ![s] = "publishing"]
      BY <2>2 DEF Update, Numbers, Goto
    <3> DEFINE m == Step(job[s].model, s, numbers)
    <3> HIDE DEF m
    <3>2. \/ /\ job' = [job EXCEPT ![s].model = m,
                                   ![s].iteration = job[s].iteration + 1]
             /\ pc' = pc
          \/ /\ job' = [job EXCEPT ![s].model = m]
             /\ pc' = [pc EXCEPT ![s] = "publishing"]
      BY <3>1 DEF m
    <3>3. job'[r].samples = job[r].samples
      <4>1. CASE r = s
        BY <1>0, <3>2, <4>1 DEF Job
      <4>2. CASE r # s
        BY <1>0, <3>2, <4>2
      <4> QED
        BY <4>1, <4>2
    <3>4. pc[r] = "training"
      <4>1. pc[s] = "training"
        BY <1>3 DEF Reduce
      <4> QED
        BY <1>0, <3>2, <4>1
    <3> QED
      BY <3>3, <3>4
  <2> QED
    BY <1>3, <2>1, <2>2 DEF Reduce
<1>4. ASSUME NEW s \in Requests,
             \/ Lock(s) \/ Publish(s) \/ Truncate(s) \/ Write(s) \/ SaveFails(s)
             \/ Record(s) \/ Respond(s)
      PROVE  pc[r] = "training" /\ job' = job
  BY <1>0, <1>4 DEF Lock, Publish, Truncate, Write, SaveFails, Fail, Record,
                    Respond, Goto
<1>5. CASE Environment \/ UNCHANGED vars
  BY <1>5 DEF Environment, TrainingUnchanged, vars, localVars
<1>6. CASE ApiRestart
  BY <1>0, <1>6 DEF ApiRestart, InFlight, Locations, Ended
<1> QED
  BY <1>1, <1>2, <1>3, <1>4, <1>5, <1>6 DEF Next, Coordinator

LEMMA ShardInvNext == TypeOK /\ ShardInv /\ [Next]_vars => ShardInv'
<1> SUFFICES ASSUME TypeOK, ShardInv, [Next]_vars
             PROVE  ShardInv'
  OBVIOUS
<1>1. ASSUME NEW n \in Nodes, process'[n] # Down
      PROVE  process'[n] \in ProcessesOf[n]
  BY <1>1, ProcessChanges DEF ShardInv
<1>2. ASSUME NEW r \in Requests, NEW n \in Nodes
      PROVE  AnswerOf(r, n)'
  <2>1. CASE call'[r][n] = call[r][n] \/ call'[r][n].st # "ok"
    BY <2>1 DEF ShardInv, AnswerOf
  <2>2. ASSUME process[n] # Down, NEW request \in Message,
               call'[r][n] = [st |-> "ok", response |-> Handle(process[n], request)]
        PROVE  AnswerOf(r, n)'
    <3>1. process[n] \in ProcessesOf[n]
      BY <2>2 DEF ShardInv
    <3>2. /\ call'[r][n].response.id = process[n].id
          /\ call'[r][n].response.samples = process[n].samples
      BY <2>2 DEF Handle
    <3> QED
      BY <3>1, <3>2 DEF AnswerOf, ReportedBy
  <2> QED
    BY <2>1, <2>2, CallChanges
<1>3. ASSUME NEW r \in Requests
      PROVE  SamplesOf(r)'
  <2> SUFFICES ASSUME pc'[r] = "training", NEW n \in Nodes
               PROVE  ReportedBy(n, job'[r].samples[n])
    BY DEF SamplesOf
  <2>1. \/ pc[r] = "training" /\ job'[r].samples = job[r].samples
        \/ /\ ClusterStatus(r) = "ready"
           /\ job'[r].samples = SamplesByNode(r)
    BY TrainingEntered
  <2>2. CASE pc[r] = "training" /\ job'[r].samples = job[r].samples
    BY <2>2 DEF ShardInv, SamplesOf
  <2>3. CASE /\ ClusterStatus(r) = "ready"
             /\ job'[r].samples = SamplesByNode(r)
    <3>1. Available(r, n)
      BY <2>3, ReadyMeansAll
    <3>2. job'[r].samples[n] = call[r][n].response.samples
      BY <2>3, <3>1 DEF SamplesByNode
    <3>3. AnswerOf(r, n)
      BY DEF ShardInv
    <3> QED
      BY <3>1, <3>2, <3>3 DEF AnswerOf, Available
  <2> QED
    BY <2>1, <2>2, <2>3
<1> QED
  BY <1>1, <1>2, <1>3 DEF ShardInv

\* Each update sums as many samples of each node as the report of the
\* training says, although the nodes may have been restarted since the
\* health check: as long as their shard files keep their size.
THEOREM ReportedSamples ==
  ASSUME ShardsFixed
  PROVE  Spec => ReportedSamplesAreSummed
<1>1. Init => ShardInv
  BY DEF Init, ClusterInit, ShardInv, SamplesOf, AnswerOf, Idle
<1>2. TypeOK /\ ShardInv /\ [Next]_vars => ShardInv'
  BY ShardInvNext
<1>3. TypeOK /\ ShardInv /\ RoundCalls /\ [Next]_vars =>
        [\A r \in Requests :
           pc[r] = "training" /\ job'[r].model # job[r].model =>
             \A n \in Nodes :
               call[r][n].response.samples = job[r].samples[n]]_vars
  <2> SUFFICES ASSUME TypeOK, ShardInv, RoundCalls, [Next]_vars,
                      NEW r \in Requests, pc[r] = "training",
                      job'[r].model # job[r].model, NEW n \in Nodes
               PROVE  call[r][n].response.samples = job[r].samples[n]
    OBVIOUS
  <2>1. call[r][n].st = "ok" /\ call[r][n].response.id = n
    BY UpdateIsComplete
  <2>2. ReportedBy(n, call[r][n].response.samples) /\ ReportedBy(n, job[r].samples[n])
    BY <2>1 DEF ShardInv, SamplesOf, AnswerOf
  <2> QED
    BY <2>2, ShardsFixed DEF ShardsFixed, ReportedBy
<1>4. Init => RoundCalls
  BY DEF Init, RoundCalls, RoundCall
<1>5. TypeOK /\ RoundCalls /\ [Next]_vars => RoundCalls'
  BY RoundCallsNext
<1> QED
  BY <1>1, <1>2, <1>3, <1>4, <1>5, TypeCorrect, PTL DEF Spec, ReportedSamplesAreSummed

-----------------------------------------------------------------------------
(***************************************************************************)
(* The trainings whose client left while they queued for trainMu.  Nothing *)
(* takes them out of the queue: what stops them is that every dial of      *)
(* their health check honours the cancelled context.                       *)
(***************************************************************************)

\* No round begins before trainMu is held.
NotBegun ==
  \A r \in Requests : pc[r] \in {"idle", "waiting"} => job[r].iteration = 0

LEMMA NotBegunNext ==
  TypeOK /\ NotBegun /\ [Next]_vars => NotBegun'
<1> SUFFICES ASSUME TypeOK, NotBegun, [Next]_vars,
                    NEW r \in Requests, pc'[r] \in {"idle", "waiting"}
             PROVE  job'[r].iteration = 0
  BY DEF NotBegun
<1>0. pc \in [Requests -> Locations] /\ job \in [Requests -> Job]
  BY DEF TypeOK
<1> SUFFICES pc[r] \in {"idle", "waiting"} /\ job'[r].iteration = job[r].iteration
  BY DEF NotBegun
<1>1. ASSUME NEW s \in Requests, Receive(s)
      PROVE  pc[r] \in {"idle", "waiting"} /\ job'[r].iteration = job[r].iteration
  <2>1. pc[s] = "idle" /\ \A t \in Requests \ {s} : pc'[t] = pc[t]
    BY <1>0, <1>1 DEF Receive, Goto
  <2>2. job' # job =>
          \E i, reset : job' = [job EXCEPT ![s].iterations = i, ![s].reset = reset]
    BY <1>1 DEF Receive
  <2>3. ASSUME NEW i, NEW reset,
               job' = [job EXCEPT ![s].iterations = i, ![s].reset = reset]
        PROVE  job'[r].iteration = job[r].iteration
    <3>1. CASE r = s
      BY <1>0, <2>3, <3>1 DEF Job
    <3>2. CASE r # s
      BY <1>0, <2>3, <3>2
    <3> QED
      BY <3>1, <3>2
  <2>4. job'[r].iteration = job[r].iteration
    <3>1. CASE job' # job
      BY <2>2, <2>3, <3>1
    <3>2. CASE job' = job
      BY <3>2
    <3> QED
      BY <3>1, <3>2
  <2> QED
    BY <2>1, <2>4
<1>2. ASSUME NEW s \in Requests, Lock(s) \/ Checked(s) \/ Reduce(s) \/ SaveFails(s)
      PROVE  pc[r] \in {"idle", "waiting"}
  <2>1. \/ pc' = pc
        \/ \E to \in {"checking", "training", "publishing", "failed"} :
             pc' = [pc EXCEPT ![s] = to]
    BY <1>2 DEF Lock, Checked, StartRounds, Reduce, Update, Fail, SaveFails, Goto
  <2> QED
    BY <1>0, <2>1
<1>3. ASSUME NEW s \in Requests,
             \/ Publish(s) \/ Truncate(s) \/ Write(s) \/ Record(s) \/ Respond(s)
      PROVE  pc[r] \in {"idle", "waiting"}
  BY <1>0, <1>3 DEF Publish, Truncate, Write, Record, Respond, Goto
<1>4. CASE Environment \/ ApiRestart \/ UNCHANGED vars
  <2>1. pc[r] \in {"idle", "waiting"}
    BY <1>0, <1>4 DEF Environment, TrainingUnchanged, ApiRestart, vars, localVars
  <2>2. job' = job
    BY <1>4 DEF Environment, TrainingUnchanged, ApiRestart, vars, localVars
  <2> QED
    BY <2>1, <2>2
\* Who is still in the queue keeps its job.
<1>5. ASSUME NEW s \in Requests, Coordinator(s)
      PROVE  pc[r] \in {"idle", "waiting"} /\ job'[r].iteration = job[r].iteration
  <2>1. pc[r] \in {"idle", "waiting"}
    BY <1>2, <1>3, <1>5 DEF Coordinator
  <2>2. job'[r] = job[r]
    <3>1. CASE Checked(s) \/ Reduce(s)
      <4>1. s # r
        BY <2>1, <3>1 DEF Checked, Reduce
      <4>2. job' = job \/ \E j : job' = [job EXCEPT ![s] = j]
        BY <3>1 DEF Checked, StartRounds, Reduce, Update
      <4> QED
        BY <1>0, <4>1, <4>2
    <3>2. CASE ~(Checked(s) \/ Reduce(s))
      BY <1>5, <3>2 DEF Coordinator, Lock, Publish, Truncate, Write, SaveFails,
                        Record, Respond
    <3> QED
      BY <3>1, <3>2
  <2> QED
    BY <2>1, <2>2
<1> QED
  BY <1>1, <1>4, <1>5 DEF Next

\* Where an abandoned training can be: in the queue, in a health check none of
\* whose calls gets through, or at its end.
Abandoned(r) ==
  /\ r \in cancelled
  /\ pc[r] \in {"waiting", "checking", "failed", "lost"}
  /\ NoTrace(r)
  /\ pc[r] = "checking" => \A n \in Nodes : call[r][n].st \in {"dialing", "err"}

\* Such a health check fails, even without nodes.
LEMMA RefusedWithoutAnswers ==
  ASSUME NEW r \in Requests, \A n \in Nodes : call[r][n].st # "ok"
  PROVE  FeatureCount(r) # ModelFeatures
<1>1. {n \in Nodes : Available(r, n)} = {}
  BY DEF Available
<1>2. FeatureCount(r) = 0
  BY <1>1 DEF FeatureCount
<1> QED
  BY <1>2, TrainingAssumption

LEMMA AbandonedNext ==
  ASSUME TypeOK, [Next]_vars, NEW r \in Requests, Abandoned(r)
  PROVE  Abandoned(r)'
<1>0. /\ pc \in [Requests -> Locations] /\ job \in [Requests -> Job]
      /\ call \in [Requests -> [Nodes -> Call]] /\ publishedAs \in [Requests -> Nat]
  BY DEF TypeOK, ClusterTypeOK
<1> USE DEF Abandoned, NoTrace
\* A step of another request.
<1>1. ASSUME NEW s \in Requests \ {r}, Receive(s) \/ Coordinator(s)
      PROVE  Abandoned(r)'
  <2>1. job'[r] = job[r] /\ pc'[r] = pc[r] /\ publishedAs'[r] = publishedAs[r]
    BY <1>0, <1>1
       DEF Receive, Coordinator, Lock, Checked, StartRounds, Reduce, Update, Publish,
           Truncate, Write, SaveFails, Fail, Record, Respond, Goto, serviceVars
  <2>2. call'[r] = call[r] /\ cancelled' = cancelled
    BY <1>0, <1>1
       DEF Receive, Coordinator, Lock, Checked, StartRounds, Reduce, Update, Publish,
           Truncate, Write, SaveFails, Fail, Record, Respond, StartCalls, clusterVars
  <2> QED
    BY <2>1, <2>2
<1>2. CASE Lock(r)
  BY <1>0, <1>2 DEF Lock, StartCalls, Goto
<1>3. CASE Checked(r)
  <2>1. \A n \in Nodes : call[r][n].st # "ok"
    BY <1>3 DEF Checked
  <2>2. Fail(r) /\ UNCHANGED <<job, publishedAs, cancelled>>
    BY <1>3, <2>1, RefusedWithoutAnswers DEF Checked
  <2> QED
    BY <1>0, <2>2 DEF Fail, Goto
<1>4. CASE Receive(r) \/ Coordinator(r)
  BY <1>2, <1>3, <1>4 DEF Receive, Coordinator, Reduce, Publish, Truncate, Write,
                          SaveFails, Record, Respond
<1>5. CASE Environment
  <2>1. UNCHANGED <<pc, job, publishedAs>> /\ r \in cancelled'
    BY <1>5 DEF Environment, TrainingUnchanged, localVars, serviceVars, CallStep,
                Connect, CallFails, NodeReply, NodeCrash, NodeStart, Abandon, Cancel
  <2>2. ASSUME pc[r] = "checking", NEW n \in Nodes
        PROVE  call'[r][n].st \in {"dialing", "err"}
    <3>0. call[r][n].st \in {"dialing", "err"}
      BY <2>2
    <3>1. ASSUME NEW s \in Requests, NEW m \in Nodes, CallStep(s, m)
          PROVE  call'[r][n].st \in {"dialing", "err"}
      <4>1. CASE s = r
        <5>1. CallFails(r, m)
          BY <2>2, <3>1, <4>1 DEF CallStep, Connect, NodeReply
        <5> QED
          BY <1>0, <3>0, <5>1 DEF CallFails, SetCall
      <4>2. CASE s # r
        <5>1. \E value : SetCall(s, m, value)
          BY <3>1 DEF CallStep, Connect, CallFails, NodeReply
        <5> QED
          BY <1>0, <3>0, <4>2, <5>1 DEF SetCall
      <4> QED
        BY <4>1, <4>2
    <3>2. ASSUME NEW m \in Nodes, NodeCrash(m)
          PROVE  call'[r][n].st \in {"dialing", "err"}
      BY <1>0, <3>0, <3>2 DEF NodeCrash
    <3>3. CASE (\E m \in Nodes : NodeStart(m)) \/ (\E s \in Requests : Abandon(s))
      BY <3>0, <3>3 DEF NodeStart, Abandon, Cancel
    <3> QED
      BY <1>5, <3>1, <3>2, <3>3 DEF Environment
  <2> QED
    BY <2>1, <2>2
<1>6. CASE ApiRestart
  <2>1. pc'[r] \in {"failed", "lost"}
    BY <1>0, <1>6 DEF ApiRestart, InFlight, Locations, Ended
  <2> QED
    BY <1>6, <2>1 DEF ApiRestart
<1>7. CASE UNCHANGED vars
  BY <1>7 DEF vars, clusterVars, localVars, serviceVars
<1> QED
  BY <1>1, <1>4, <1>5, <1>6, <1>7 DEF Next

\* A training whose client goes away while it queues computes no round and
\* publishes nothing from then on, for any nodes, crashes and restarts.
THEOREM AbandonedLeaveNoTrace ==
  Spec => \A r \in Requests :
            []((pc[r] = "waiting" /\ r \in cancelled) => []NoTrace(r))
<1> SUFFICES ASSUME NEW r \in Requests
             PROVE  Spec => []((pc[r] = "waiting" /\ r \in cancelled) => []NoTrace(r))
  OBVIOUS
<1>1. Init => NotBegun /\ Unpublished
  BY DEF Init, NotBegun, Unpublished, NoJob
<1>2. TypeOK /\ NotBegun /\ [Next]_vars => NotBegun'
  BY NotBegunNext
<1>3. TypeOK /\ Unpublished /\ [Next]_vars => Unpublished'
  BY UnpublishedNext
<1>4. NotBegun /\ Unpublished /\ pc[r] = "waiting" /\ r \in cancelled => Abandoned(r)
  BY DEF NotBegun, Unpublished, Before, Abandoned, NoTrace
<1>5. TypeOK /\ Abandoned(r) /\ [Next]_vars => Abandoned(r)'
  BY AbandonedNext
<1>6. Abandoned(r) => NoTrace(r)
  BY DEF Abandoned
<1> QED
  BY <1>1, <1>2, <1>3, <1>4, <1>5, <1>6, TypeCorrect, PTL DEF Spec

=============================================================================
