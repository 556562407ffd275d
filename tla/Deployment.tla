----------------------------- MODULE Deployment -----------------------------
(***************************************************************************)
(* The programs of a deployment around the files of shard-data: phase 1,   *)
(* which trained the first model, one process per ML node, which reads its *)
(* shard at start, and the API, which reads test.csv at start, trains on   *)
(* what the nodes hold and evaluates on what it read.                      *)
(*                                                                         *)
(* What the processes hold in memory does not follow the files: shard-data *)
(* may be run, interrupted or run again with -overwrite at any time, and   *)
(* each process may be restarted, or not, at any time.                     *)
(***************************************************************************)
EXTENDS Sharding, Sums

CONSTANTS
  Endpoints,       \* the nodes of the API's -nodes; node n reads shard n
  Phase1Dataset,   \* what phase 1's -input and -limit loaded
  Phase1Seed,      \* phase 1's seed, the constant 42
  Phase1Asked      \* phase 1's -test-ratio, in percent

ASSUME DeploymentAssumption ==
  /\ Endpoints \in Nat \ {0}
  /\ Phase1Dataset \in Datasets /\ Len(Phase1Dataset.samples) > 1
  /\ Phase1Dataset.p75 = ArtifactP75
  /\ Phase1Seed \in Seeds
  /\ Phase1Asked \in Int

VARIABLES
  node,            \* endpoint -> the rows its process loaded; << >> if none runs
  api,             \* the API process
  summed,          \* the round under way: endpoint -> the rows of its gradient
  begun            \* history: what each run set out to write

deployVars == <<node, api, summed, begun>>

Node == 1..Endpoints

\* Phase 1 replaces a ratio out of range where shard-data refuses it.
Phase1Ratio == IF Phase1Asked <= 0 \/ Phase1Asked >= 50 THEN 20 ELSE Phase1Asked

Phase1Train == Train(Shuffled(Phase1Dataset, Phase1Seed), Phase1Ratio)
Phase1Test == Test(Shuffled(Phase1Dataset, Phase1Seed), Phase1Ratio)

\* The rows it evaluates on, and all that went into the weights it serves.
Api == [st : {"up"}, test : Seq(Samples), used : SUBSET Samples]
NoApi == [st |-> "down"]
NotYet == << >>

DeploymentTypeOK ==
  /\ TypeOK
  /\ node \in [Node -> Seq(Samples)]
  /\ api \in Api \cup {NoApi}
  /\ summed \in [Node -> Seq(Samples)]
  /\ begun \subseteq Plans

DeploymentInit ==
  /\ Init
  /\ node = [n \in Node |-> << >>]
  /\ api = NoApi
  /\ summed = [n \in Node |-> NotYet]
  /\ begun = {}

-----------------------------------------------------------------------------
(***************************************************************************)
(* shard-data.                                                             *)
(***************************************************************************)

BeginRun ==
  /\ \E f \in Flags, overwrite \in BOOLEAN :
       /\ Begin(f, overwrite)
       /\ begun' = IF run' = NoRun THEN begun ELSE begun \cup {Plan(f)}
  /\ UNCHANGED <<node, api, summed>>

RunStep ==
  /\ Open \/ Flush \/ StopWriting \/ Stop \/ WriteManifest
  /\ UNCHANGED deployVars

-----------------------------------------------------------------------------
(***************************************************************************)
(* The processes.                                                          *)
(***************************************************************************)

\* What a reader may find in file f.  The CSV writer flushes its buffer
\* whenever it is full, so a file being written may show any beginning.  No
\* run has more shards than samples, so there is no file beyond.
Visible(f) ==
  IF run.st = "writing" /\ FileAt(run) = f
  THEN Cut(Content(run)) \cup {Rows(Content(run))}
  ELSE {disk[g] : g \in Files \cap {f}}

\* Mutation: every node is started with the first shard.
NodeStartWithFirstShard(n) ==
  /\ node[n] = << >>
  /\ \E file \in Visible(1) :
       Readable(file) /\ node' = [node EXCEPT ![n] = file.samples]
  /\ UNCHANGED <<vars, api, summed, begun>>

\* ml-node: ReadShardCSV, then listen.  The file is read in one step.
NodeStart(n) ==
  /\ node[n] = << >>
  /\ \E file \in Visible(n) :
       Readable(file) /\ node' = [node EXCEPT ![n] = file.samples]
  /\ UNCHANGED <<vars, api, summed, begun>>

NodeStop(n) ==
  /\ node[n] # << >>
  /\ node' = [node EXCEPT ![n] = << >>]
  /\ UNCHANGED <<vars, api, summed, begun>>

\* Mutation: -test-data is a shard.
ApiStartOnShard ==
  /\ api = NoApi
  /\ \E file \in Visible(1) :
       /\ Readable(file)
       /\ api' = [st |-> "up", test |-> file.samples, used |-> ToSet(Phase1Train)]
  /\ UNCHANGED <<vars, node, summed, begun>>

\* ConfigureModel with the artefact of phase 1, and ConfigureEvaluation.
ApiStart ==
  /\ api = NoApi
  /\ \E file \in Visible(0) :
       /\ Readable(file)
       /\ api' = [st |-> "up", test |-> file.samples, used |-> ToSet(Phase1Train)]
  /\ UNCHANGED <<vars, node, summed, begun>>

ApiStop ==
  /\ api # NoApi
  /\ api' = NoApi
  /\ summed' = [n \in Node |-> NotYet]
  /\ UNCHANGED <<vars, node, begun>>

-----------------------------------------------------------------------------
(***************************************************************************)
(* A round of a training.  Trainings are serialised (see Training), and    *)
(* here each has one round: a longer one is a sequence of them.            *)
(***************************************************************************)

\* Node n answers with the gradient of the shard it holds.
Contribute(n) ==
  /\ api # NoApi
  /\ summed[n] = NotYet
  /\ node[n] # << >>
  /\ summed' = [summed EXCEPT ![n] = node[n]]
  /\ UNCHANGED <<vars, node, api, begun>>

RoundComplete == \A n \in Node : summed[n] # NotYet

Contributions == UNION {ToSet(summed[n]) : n \in Node}

\* The update, on the served weights or, after a reset, on zero.
EndRound ==
  /\ api # NoApi
  /\ RoundComplete
  /\ \E base \in {api.used, {}} : api' = [api EXCEPT !.used = base \cup Contributions]
  /\ summed' = [n \in Node |-> NotYet]
  /\ UNCHANGED <<vars, node, begun>>

\* A node did not answer.
FailRound ==
  /\ \E n \in Node : summed[n] # NotYet
  /\ ~RoundComplete
  /\ summed' = [n \in Node |-> NotYet]
  /\ UNCHANGED <<vars, node, api, begun>>

DeploymentNext ==
  \/ BeginRun \/ RunStep
  \/ \E n \in Node : NodeStart(n) \/ NodeStop(n) \/ Contribute(n)
  \/ ApiStart \/ ApiStop \/ EndRound \/ FailRound

DeploymentSpec == DeploymentInit /\ [][DeploymentNext]_<<vars, deployVars>>

-----------------------------------------------------------------------------

\* A run has the dataset, the seed and the ratio of phase 1.
RepeatsPhase1(b) == /\ b.flags.dataset = Phase1Dataset
                    /\ b.flags.seed = Phase1Seed
                    /\ b.flags.ratio = Phase1Ratio

\* EvaluateCurrentModel: the samples of the report, beside api.used, what the
\* weights were computed from.
Evaluated == ToSet(api.test)

\* "hold-out test.csv; no usado para actualizar pesos": the report of an
\* evaluation is on samples that no weight was ever computed from.
EvaluationIsHoldOut == api # NoApi => Evaluated \cap api.used = {}

\* As long as the operator repeats -input, -limit, seed and ratio of phase 1, it
\* is so whatever else happens: runs interrupted or repeated with -overwrite,
\* for more or fewer nodes, flushes lost, nodes and API started on files of
\* different runs or in the middle of one.  Of the four, shard-data compares
\* none with phase 1, only the 75th percentile of what it loaded.
HoldOutIfPhase1Repeated ==
  (\A b \in begun : RepeatsPhase1(b)) => EvaluationIsHoldOut

TotalSamples == AddedUp([n \in Node |-> Len(summed[n])])

\* The one check the operator has on the shards in memory, total_samples, is
\* enough while each run repeats phase 1 and deals to the nodes of the API: if
\* the total is the size of the training set, the update sums each training
\* sample exactly once, although nodes may have loaded their shards from
\* different runs.
FullRoundIsTheTrainingSet ==
  (/\ RoundComplete
   /\ \A b \in begun : RepeatsPhase1(b) /\ b.nodes = Endpoints
   /\ TotalSamples = Len(Phase1Train))
  => /\ Contributions = ToSet(Phase1Train)
     /\ \A n \in Node : IsInjective(summed[n])

=============================================================================
