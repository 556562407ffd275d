------------------------------ MODULE Training ------------------------------
(***************************************************************************)
(* POST /v1/train: handleTrain and Service.TrainDistributed, for several   *)
(* clients at once, over the Cluster of ML nodes.                          *)
(*                                                                         *)
(* A training is serialised by trainMu from its health check to its record *)
(* in MongoDB; it computes on a private copy of the model; it publishes    *)
(* the copy under modelMu; and only then saves the artefact and records    *)
(* the run.  Readers of the model never wait for trainMu.                  *)
(***************************************************************************)
EXTENDS Cluster

CONSTANTS
  ModelFeatures,       \* weights of the model of phase 1, hence of any other
  IterationsAsked,     \* "iterations" of the requests (0 stands for <= 0)
  DefaultIterations,   \* 30 in the code
  MaxIterations,       \* 1000 in the code
  MayDiverge,          \* whether a learning rate may overflow the weights
  MaxRestarts,         \* bound: how many times the API process dies
  Free,                \* trainMu when nobody holds it
  NoReport,            \* last_training before the first training
  NoReply              \* the answer not sent yet

ASSUME TrainingAssumption ==
  /\ ModelFeatures \in Nat \ {0}
  /\ IterationsAsked \subseteq Nat
  /\ MaxIterations \in Nat \ {0}
  /\ DefaultIterations \in 1..MaxIterations
  /\ MayDiverge \in BOOLEAN
  /\ MaxRestarts \in Nat
  /\ Free \notin Requests

VARIABLES
  pc,                  \* where each request is in handleTrain
  job,                 \* the local variables of its TrainDistributed
  trainMu,             \* the request that holds Service.trainMu, or Free
  model,               \* Service.model, and the Model of Service.artifact
  version,             \* Service.modelVersion
  lastTraining,        \* Service.lastTraining
  file,                \* the artefact at -trained-model
  runs,                \* MongoDB's training_runs
  reply,               \* the 200 answers
  restarts,            \* how many times the API process has died
  publishedAs          \* history: the version each request published, or 0

localVars == <<pc, job, reply>>
serviceVars == <<trainMu, model, version, lastTraining, publishedAs>>
storedVars == <<file, runs>>
vars == <<clusterVars, localVars, serviceVars, storedVars, restarts>>

Store == INSTANCE ModelStore WITH SampleCounts <- Nat

Locations == {"idle", "waiting", "checking", "training", "publishing",
              "saving", "writing", "recording", "responding",
              "done", "failed", "lost"}
Ended == {"done", "failed", "lost"}
InFlight == Locations \ (Ended \cup {"idle"})
Critical == {"checking", "training", "publishing", "saving", "writing",
             "recording"}

\* The request, and the coordinator's copy of the model; iteration is the
\* round under way, samples what the health check reported.
Job == [iterations : 0..MaxIterations, reset : BOOLEAN, iteration : Nat,
        model : Model, samples : [Nodes -> Nat]]
NoJob == [iterations |-> 0, reset |-> FALSE, iteration |-> 0,
          model |-> Zero, samples |-> [n \in Nodes |-> 0]]

Report == Store!Report

\* A nil pointer is no report.
ASSUME NoReportAssumption == NoReport \notin Report

ReportOf(r) == [by |-> r, iterations |-> job[r].iterations,
                samples |-> job[r].samples]

Snapshot == [version : Nat, model : Model, lastTraining : Report \cup {NoReport}]
ModelSnapshot ==
  [version |-> version, model |-> model, lastTraining |-> lastTraining]

Absent == [st |-> "absent"]
Torn == [st |-> "torn"]
File == {Absent, Torn} \cup [st : {"whole"}, model : Model, report : Report]

TypeOK ==
  /\ ClusterTypeOK
  /\ pc \in [Requests -> Locations]
  /\ job \in [Requests -> Job]
  /\ trainMu \in Requests \cup {Free}
  /\ model \in Model
  /\ version \in Nat \ {0}
  /\ lastTraining \in Report \cup {NoReport}
  /\ publishedAs \in [Requests -> Nat]
  /\ file \in File
  /\ runs \in SUBSET [report : Report, snapshot : Snapshot]
  /\ reply \in [Requests -> Snapshot \cup {NoReply}]
  /\ restarts \in 0..MaxRestarts

Init ==
  /\ ClusterInit
  /\ pc = [r \in Requests |-> "idle"]
  /\ job = [r \in Requests |-> NoJob]
  /\ trainMu = Free
  /\ model = Phase1
  /\ version = 1
  /\ lastTraining = NoReport
  /\ publishedAs = [r \in Requests |-> 0]
  /\ file = Absent
  /\ runs = {}
  /\ reply = [r \in Requests |-> NoReply]
  /\ restarts = 0

-----------------------------------------------------------------------------
(***************************************************************************)
(* The steps of a training.                                                *)
(***************************************************************************)

Goto(r, to) == pc' = [pc EXCEPT ![r] = to]

\* TrainDistributed returns an error: 503, and the deferred Unlock.
Fail(r) ==
  /\ Goto(r, "failed")
  /\ trainMu' = Free
  /\ call' = [call EXCEPT ![r] = [n \in Nodes |-> Idle]]

\* Mutation: the bound on iterations is not checked.
AcceptedUnbounded(iterations, ok) == ok

Accepted(iterations, ok) == ok /\ iterations <= MaxIterations

\* Decoding and validation; ok says that the JSON decodes and that the
\* learning rate is positive and finite.
Receive(r) ==
  /\ pc[r] = "idle"
  /\ \E asked \in IterationsAsked, reset \in BOOLEAN, ok \in BOOLEAN :
       LET iterations == IF asked = 0 THEN DefaultIterations ELSE asked IN
         IF Accepted(iterations, ok)
         THEN /\ job' = [job EXCEPT ![r].iterations = iterations,
                                    ![r].reset = reset]
              /\ Goto(r, "waiting")
         ELSE /\ Goto(r, "failed")
              /\ UNCHANGED job
  /\ UNCHANGED <<clusterVars, reply, serviceVars, storedVars, restarts>>

\* Mutation: the trainings are not serialised.
LockWithoutMutex(r) ==
  /\ pc[r] = "waiting"
  /\ trainMu' = r
  /\ StartCalls(r, [type |-> "health", iteration |-> 0, model |-> NoModel])
  /\ Goto(r, "checking")
  /\ UNCHANGED <<process, crashes, cancelled, job, reply, model, version,
                 lastTraining, publishedAs, storedVars, restarts>>

\* trainMu.Lock returns and CheckCluster asks every node for its health.
Lock(r) ==
  /\ pc[r] = "waiting"
  /\ trainMu = Free
  /\ trainMu' = r
  /\ StartCalls(r, [type |-> "health", iteration |-> 0, model |-> NoModel])
  /\ Goto(r, "checking")
  /\ UNCHANGED <<process, crashes, cancelled, job, reply, model, version,
                 lastTraining, publishedAs, storedVars, restarts>>

Gradients(m, iteration) ==
  [type |-> "compute_gradient", iteration |-> iteration, model |-> m]

\* CheckCluster returns; the model is copied under modelMu, and the first
\* round of gradients starts.
StartRounds(r) ==
  LET base == IF job[r].reset THEN Zero ELSE model IN
    /\ job' = [job EXCEPT ![r].iteration = 1, ![r].model = base,
                          ![r].samples = SamplesByNode(r)]
    /\ StartCalls(r, Gradients(base, 1))
    /\ Goto(r, "training")
    /\ UNCHANGED trainMu

Checked(r) ==
  /\ pc[r] = "checking"
  /\ Answered(r)
  /\ IF ClusterStatus(r) = "ready" /\ FeatureCount(r) = ModelFeatures
     THEN StartRounds(r)
     ELSE Fail(r) /\ UNCHANGED job
  /\ UNCHANGED <<process, crashes, cancelled, reply, model, version,
                 lastTraining, publishedAs, storedVars, restarts>>

\* Mutation: the node_id of a gradient is not checked.
SummedFromAnyone(r, n) ==
  /\ call[r][n].st = "ok"
  /\ call[r][n].response.type = "gradient_response"
  /\ call[r][n].response.samples > 0

\* computeGlobalGradient takes the answer of the call to endpoint n.
Summed(r, n) ==
  /\ call[r][n].st = "ok"
  /\ call[r][n].response.id = n
  /\ call[r][n].response.type = "gradient_response"
  /\ call[r][n].response.samples > 0

\* Mutation: the loop starts at 0.
MoreRoundsFromZero(r) == job[r].iteration <= job[r].iterations

MoreRounds(r) == job[r].iteration < job[r].iterations

\* The sole global update, then the next round or the end of the loop.
Update(r) ==
  \E numbers \in IF MayDiverge THEN Numbers ELSE {"finite"} :
    LET m == Step(job[r].model, r, numbers)
        i == job[r].iteration IN
      IF MoreRounds(r)
      THEN /\ job' = [job EXCEPT ![r].model = m, ![r].iteration = i + 1]
           /\ StartCalls(r, Gradients(m, i + 1))
           /\ UNCHANGED <<pc, trainMu>>
      ELSE /\ job' = [job EXCEPT ![r].model = m]
           /\ call' = [call EXCEPT ![r] = [n \in Nodes |-> Idle]]
           /\ Goto(r, "publishing")
           /\ UNCHANGED trainMu

Reduce(r) ==
  /\ pc[r] = "training"
  /\ Answered(r)
  /\ IF \A n \in Nodes : Summed(r, n)
     THEN Update(r)
     ELSE Fail(r) /\ UNCHANGED job
  /\ UNCHANGED <<process, crashes, cancelled, reply, model, version,
                 lastTraining, publishedAs, storedVars, restarts>>

\* Mutation: trainMu is unlocked as soon as the model is published.
PublishAndUnlock(r) ==
  /\ pc[r] = "publishing"
  /\ model' = job[r].model
  /\ version' = version + 1
  /\ lastTraining' = ReportOf(r)
  /\ publishedAs' = [publishedAs EXCEPT ![r] = version']
  /\ trainMu' = Free
  /\ Goto(r, "saving")
  /\ UNCHANGED <<clusterVars, job, reply, storedVars, restarts>>

\* Mutation: s.lastTraining is not assigned.
PublishWithoutReport(r) ==
  /\ pc[r] = "publishing"
  /\ model' = job[r].model
  /\ version' = version + 1
  /\ publishedAs' = [publishedAs EXCEPT ![r] = version']
  /\ Goto(r, "saving")
  /\ UNCHANGED <<clusterVars, job, reply, lastTraining, trainMu, storedVars,
                 restarts>>

\* Model, version and report change together, under modelMu.
Publish(r) ==
  /\ pc[r] = "publishing"
  /\ model' = job[r].model
  /\ version' = version + 1
  /\ lastTraining' = ReportOf(r)
  /\ publishedAs' = [publishedAs EXCEPT ![r] = version']
  /\ Goto(r, "saving")
  /\ UNCHANGED <<clusterVars, job, reply, trainMu, storedVars, restarts>>

\* MkdirAll and SaveArtifact up to the O_TRUNC of os.WriteFile; an artefact
\* that is not finite never gets that far.
Truncate(r) ==
  /\ pc[r] = "saving"
  /\ job[r].model.numbers = "finite"
  /\ file' = Torn
  /\ Goto(r, "writing")
  /\ UNCHANGED <<clusterVars, job, reply, serviceVars, runs, restarts>>

\* The rest of os.WriteFile.
Write(r) ==
  /\ pc[r] = "writing"
  /\ file' = [st |-> "whole", model |-> job[r].model, report |-> ReportOf(r)]
  /\ Goto(r, "recording")
  /\ UNCHANGED <<clusterVars, job, reply, serviceVars, runs, restarts>>

\* The directory, the encoding or the disk refuses.
SaveFails(r) ==
  /\ pc[r] \in {"saving", "writing"}
  /\ Fail(r)
  /\ UNCHANGED <<process, crashes, cancelled, job, reply, model, version,
                 lastTraining, publishedAs, storedVars, restarts>>

\* SaveTraining, whose error is ignored, and the deferred Unlock.  A cancelled
\* context makes the insertion fail.  Version and snapshot are read in two calls;
\* as trainMu is held until then, they are of one model.
Record(r) ==
  /\ pc[r] = "recording"
  /\ \/ /\ r \notin cancelled
        /\ runs' = runs \cup {[report |-> ReportOf(r), snapshot |-> ModelSnapshot]}
     \/ UNCHANGED runs
  /\ trainMu' = Free
  /\ Goto(r, "responding")
  /\ UNCHANGED <<clusterVars, job, reply, model, version, lastTraining,
                 publishedAs, file, restarts>>

\* handleTrain answers with the report and a snapshot taken only now.
Respond(r) ==
  /\ pc[r] = "responding"
  /\ reply' = [reply EXCEPT ![r] = ModelSnapshot]
  /\ Goto(r, "done")
  /\ UNCHANGED <<clusterVars, job, serviceVars, storedVars, restarts>>

\* The API process dies and is started again; what it held in memory is gone,
\* the file and MongoDB stay.
ApiRestart ==
  /\ restarts < MaxRestarts
  /\ restarts' = restarts + 1
  /\ pc' = [r \in Requests |-> IF pc[r] \in InFlight THEN "lost" ELSE pc[r]]
  /\ call' = [r \in Requests |-> [n \in Nodes |-> Idle]]
  /\ trainMu' = Free
  /\ model' = Phase1
  /\ version' = 1
  /\ lastTraining' = NoReport
  /\ UNCHANGED <<process, crashes, cancelled, job, reply, publishedAs, storedVars>>

-----------------------------------------------------------------------------

Coordinator(r) ==
  \/ Lock(r) \/ Checked(r) \/ Reduce(r) \/ Publish(r)
  \/ Truncate(r) \/ Write(r) \/ SaveFails(r) \/ Record(r) \/ Respond(r)

TrainingUnchanged == UNCHANGED <<localVars, serviceVars, storedVars, restarts>>

CallStep(r, n) ==
  Connect(r, n) \/ CallFails(r, n) \/ NodeReply(r, n, ModelFeatures)

\* The client of a request in flight may go away.
Abandon(r) == pc[r] \in InFlight /\ Cancel(r)

Environment ==
  /\ \/ \E r \in Requests, n \in Nodes : CallStep(r, n)
     \/ \E n \in Nodes : NodeCrash(n) \/ NodeStart(n)
     \/ \E r \in Requests : Abandon(r)
  /\ TrainingUnchanged

Next ==
  \/ \E r \in Requests : Receive(r) \/ Coordinator(r)
  \/ Environment
  \/ ApiRestart

Spec == Init /\ [][Next]_vars

\* A goroutine that can run does, a mutex that is free is acquired, and every
\* call ends by its deadline; clients, nodes and crashes owe nothing.
Fairness ==
  \A r \in Requests :
    /\ WF_vars(Coordinator(r))
    /\ \A n \in Nodes : WF_vars(CallFails(r, n) /\ TrainingUnchanged)

FairSpec == Spec /\ Fairness

-----------------------------------------------------------------------------
(***************************************************************************)
(* What the trainings must not do to one another, to the model and to what *)
(* is stored.                                                              *)
(***************************************************************************)

\* trainMu serialises the trainings: from its health check to its record in
\* MongoDB, a training is alone, and it is the one that holds the mutex.
OneTrainingAtATime ==
  \A r \in Requests : pc[r] \in Critical <=> trainMu = r

\* A training always computes on what the API serves: the private copy is the
\* served model (or zero, on reset) plus the rounds done so far, although the
\* copy was taken long ago and modelMu is not held meanwhile.
TrainsOnServedModel ==
  \A r \in Requests : pc[r] \in {"training", "publishing"} =>
    LET base == IF job[r].reset THEN Zero ELSE model
        rounds == IF pc[r] = "training" THEN job[r].iteration - 1
                                        ELSE job[r].iterations
    IN  job[r].model = Trained(base, r, rounds, job[r].model.numbers)

\* What is served, on disk, in MongoDB or in an answer went through whole
\* trainings only: each request left in it as many updates as it asked for.
WholeTrainings ==
  LET reports == {r \in Requests : reply[r] # NoReply}
      models == {model} \cup {run.snapshot.model : run \in runs}
                        \cup {reply[r].model : r \in reports}
                        \cup (IF file.st = "whole" THEN {file.model} ELSE {})
  IN \A m \in models : \A r \in Requests :
       Cardinality({i \in DOMAIN m.steps : m.steps[i] = r})
         \in {0, job[r].iterations}

\* The artefact on disk never falls behind: once the training that produced
\* the served model has saved it, the file holds that model and its report.
DurableWhenAcknowledged ==
  \A r \in Requests :
    (pc[r] \in {"recording", "responding", "done"} /\ publishedAs[r] = version
       /\ lastTraining # NoReport /\ lastTraining.by = r)
      => /\ file.st = "whole"
         /\ file.model = model
         /\ file.report = lastTraining

\* Each MongoDB record pairs a report with the model and the version of that
\* very training, although SaveTraining reads the service twice, later on.
RunsCoherent ==
  \A run \in runs :
    /\ run.snapshot.lastTraining = run.report
    /\ run.snapshot.version = publishedAs[run.report.by]

\* The 200 answer carries a snapshot taken after trainMu was released: it may
\* show a later training's model, never an earlier one than its own.
ReplyNotOlder ==
  \A r \in Requests : reply[r] # NoReply =>
    /\ publishedAs[r] > 0
    /\ reply[r].version >= publishedAs[r]
    /\ reply[r].lastTraining # NoReport
    /\ reply[r].version = publishedAs[reply[r].lastTraining.by]

\* An update of the weights sums one gradient of every configured node, of
\* the process that has that node's id, computed on exactly these weights in
\* this round: no node is missing, none counts twice, none is stale.
EveryUpdateIsComplete ==
  [][\A r \in Requests :
       pc[r] = "training" /\ job'[r].model # job[r].model =>
         \A n \in Nodes :
           /\ call[r][n].st = "ok"
           /\ LET answer == call[r][n].response IN
                /\ answer.type = "gradient_response"
                /\ answer.id = n
                /\ answer.model = job[r].model
                /\ answer.iteration = job[r].iteration]_vars

\* samples_per_iteration, which comes from the health check, is what each
\* update summed, as long as the shard files are not generated anew.
ReportedSamplesAreSummed ==
  [][\A r \in Requests :
       pc[r] = "training" /\ job'[r].model # job[r].model =>
         \A n \in Nodes :
           call[r][n].response.samples = job[r].samples[n]]_vars

\* The detailed specification implements the abstract store of models: no
\* update is lost, no failed or abandoned training is published in part.
ImplementsModelStore == Store!Spec

\* Every training that was accepted ends, whatever the nodes do.
EveryTrainingEnds ==
  \A r \in Requests : pc[r] = "waiting" ~> pc[r] \in Ended

\* A request that has computed no round and published nothing.
NoTrace(r) == job[r].iteration = 0 /\ publishedAs[r] = 0

\* A client that goes away while its training queues for trainMu costs the
\* others no training: its turn comes and ends in an error, or the process
\* does, before any round was computed and with nothing published.
AbandonedIsRefused ==
  \A r \in Requests :
    (pc[r] = "waiting" /\ r \in cancelled)
      ~> (pc[r] \in {"failed", "lost"} /\ NoTrace(r))

\* A training answered with an error has not touched the served model: the
\* update is published and saved as one, "atomically from the API's point of
\* view".
FailedTrainingLeavesModel ==
  \A r \in Requests : pc[r] = "failed" => publishedAs[r] = 0

=============================================================================
