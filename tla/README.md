# Formal model of the distributed power demand classifier

This directory specifies, in TLA+, the concurrent and distributed core of the
repository: a coordinator API that trains a logistic regression over ML nodes,
serves predictions from it through a Redis cache, and keeps artefacts and logs;
the life of the API process around them; the programs of phase 1, which train
the first model with a goroutine-parallel loader and gradient; and the files
that carry the dataset from them to the nodes and to the evaluation. TLC checks
small instances of every module; TLAPS proves every safety property that the
passing runs check, for every value of the constants. Liveness stays with TLC.

Paths below are relative to the repository (`src/` in `PROJECT.json`).

## 1. Inventory

| Component | State | Operations | Talks to |
|---|---|---|---|
| Coordinator (`internal/api`: `training.go`, `handlers.go`, `service.go`) | `model`, `artifact`, `modelVersion`, `lastTraining` under `modelMu`; `trainMu` | `POST /v1/train`, `ModelSnapshot` (`GET /v1/model`, `/v1/metrics`), `CheckCluster` (`GET /health`, `/v1/cluster/status`) | nodes over TCP, the artefact file, MongoDB |
| Node calls (`internal/distributed/node_client.go`, `protocol.go`) | one TCP connection per call | `SendRequest`: dial, encode, decode, all under one deadline | nodes |
| ML node (`internal/distributed/node_server.go`, `cmd/ml-node`) | the shard it read at start, immutable | health, `compute_gradient` | its shard file |
| Prediction (`internal/api/prediction.go`) | none of its own; a private copy of the model | `POST /v1/predict` | Redis, MongoDB |
| Storage (`internal/storage/repository.go`) | Redis keys with a time to live; `training_runs`, `prediction_logs` | `SaveTraining`, `SavePrediction`, `CachePrediction`, `LoadCachedPrediction`, `PredictionCacheKey`, connect, close, health | Redis, MongoDB |
| Parallel gradient (`internal/ml/logistic_regression.go`, `distributed_gradient.go`) | `partials`, a `WaitGroup` | `computeGradientParallel`, the reductions of its result | - |
| Artefact (`internal/ml/model_artifact.go`) | a JSON file | `SaveArtifact`, `LoadArtifact`, `Validate` | disk |
| Loader (`internal/loader`, `internal/preprocessing`) | channels `jobs`, `partials`, a `WaitGroup` | `Run`, `ParseRawRecord` | the dataset |
| API process (`cmd/api`) | the HTTP server, the clients of MongoDB and Redis | start, serve, signal, drain, close | operating system, MongoDB, Redis |
| Evaluation (`internal/api/evaluation.go`, `internal/metrics`) | test samples under `evaluationMu`, read at start | `ConfigureEvaluation`, `POST /v1/evaluate` | the test file |
| Sharding (`internal/distributed/sharding.go`, `shard_reader.go`, `cmd/shard-data`) | shard files and `manifest.json` | split, round robin, write, read | disk |
| Features (`internal/features`) | none; functions | threshold and labels, normaliser | - |
| Phase 1 programs (`cmd/pc3`, `cmd/pc3-analysis`, `internal/analysis`) | output files | load, split, normalise, train, score, write; analyse, write | the dataset, disk |
| Figures, `cmd/pc3-benchmark`, smoke test, scripts, containers | - | - | - |

What is hard, and what makes each part correct:

* **Training.** Several clients train at once; a training computes for a long
  time on a copy of the model without `modelMu`. No update may be lost, every
  update must be made of exactly one gradient of each node for exactly these
  weights although nodes die, are replaced and answer late; what is served, on
  disk, in MongoDB and in the answers must stay consistent although they are
  written one after another and any of the writes may fail; a training always
  ends.
* **Prediction.** It holds no lock between copying the model, looking Redis up
  and storing its result. An answer must be what that copy of the model makes
  of that input, hit or miss, and Redis and MongoDB must not be needed for it.
* **API process.** A start that fails half way must not leave clients open or
  wait for ever; a stop must not cut off the requests it accepted.
* **Parallel gradient and phase 1's training.** Chunk arithmetic at the
  boundaries, cells written by goroutines and read after the join, weights
  updated between passes: each sample counts exactly once in each pass, at the
  weights the pass before left.
* **Loader.** Producer, workers and a reduction over two bounded channels: the
  result must not depend on the scheduling, nothing may block for ever, and an
  unreadable file must not pass for a shorter one.
* **Sharding.** Every training sample in exactly one shard, balanced, none of
  them empty; after interrupted and overwriting runs the files that match their
  manifest are of one generation.
* **Deployment.** Nodes and API keep in memory what they read at start, while
  the files change: the evaluation must stay a hold-out, and a training round
  must sum the training set.
* **Phase 1.** The label, the normaliser, the confusion matrix and the histogram
  are index arithmetic with edges; the normaliser must not see the test set; the
  outputs are written one after another over those of earlier runs.

`PROJECT.json` lists the individual hazards at their lines.

## 2. Modules

```
Models ── ModelStore ── Prediction ── MCPrediction
   │                        └── Lifecycle ── MCLifecycle
   │                                └── ServingProofs
   └── Cluster ── Training ── MCTraining
                  │  └── TrainingProofs ── TrainingStoreProofs
                  └ Store == INSTANCE ModelStore

Split ── Sharding ── MCSharding
   │        └── Deployment (+ Sums) ── MCDeployment
   │                └── ShardingProofs (+ OperatorProofs)
   └── Features (+ Sort, Sums) ── Phase1 ── MCPhase1
                   │              ├── GradientProofs (+ OperatorProofs) ─┐
                   │              └── LoadProofs     (+ OperatorProofs) ─┴ Phase1Proofs
                   ├ Load == INSTANCE Loader (+ Sort)
                   └ Fit  == INSTANCE TrainParallel   (Gradient ── TrainParallel)

Split, Sort, Sums ── OperatorProofs
```

**Models.** The values: a model is its lineage, the starting point (phase 1 or
zero) and the sequence of training requests whose gradient steps were applied,
plus one bit saying whether its numbers are still finite. The weights
themselves are never compared by the code, but JSON cannot encode NaN or an
infinity, and that changes the control flow.

**Cluster.** The nodes and the calls to them. `process[n]` is the node process
listening at endpoint `n` (its id, shard size and feature count) or `Down`;
`call[r][n]` is the current `SendRequest` of request `r` to `n`. `StartCalls`
is the loop of `go` statements and `Answered` the return of `wg.Wait`;
`Connect`, `NodeReply` and `CallFails` are the steps of one call;
`NodeCrash`, `NodeStart` and `Cancel` are the environment.
`ClusterStatus`, `FeatureCount` and `SamplesByNode` are the verdict of
`CheckCluster`.

**Training.** `POST /v1/train`, one action per stretch of code between two
points at which others can interfere:

| Action | Code |
|---|---|
| `Receive` | decode, validation, default of `iterations` |
| `Lock` | `trainMu.Lock` and the health calls |
| `Checked` | the verdict; copy of the model under `modelMu`; first round of calls |
| `Reduce` | `computeGlobalGradient` after `wg.Wait`; the update; next round or end |
| `Publish` | the section under `modelMu`: model, version, report |
| `Truncate`, `Write`, `SaveFails` | `MkdirAll`, `SaveArtifact`, `os.WriteFile` in its two observable steps |
| `Record` | `SaveTraining` and the deferred `Unlock` |
| `Respond` | the 200 answer with a fresh `ModelSnapshot` |
| `ApiRestart` | the process dies and starts again with the phase 1 artefact |

`publishedAs` is a history variable. The artefact path is taken to be
configured, as in every script of the repository.

**ModelStore.** The abstract specification: the served model changes only by
whole trainings, each applied to the model served at that moment (or to zero
weights), each at most once, each together with its report and under the next
version; or by a restart. `Training` implements it.

**Prediction.** `POST /v1/predict` beside the trainings of `ModelStore`. `Begin`
copies the model and its version; `Hit` and `Miss` are the lookup, `Store` the
`SET`, `Log` the MongoDB insertion and the answer. Redis expires keys, fails and
comes back (`Expire`, `RedisChanges`). `Key` is the pair of the version and of
what `"%.12g"` prints; SHA-256 is taken to be injective.

**Lifecycle.** `cmd/api` around `Prediction`. `Start` is everything up to
`NewRepository`; `ConnectMongo` and `PingRedis` are its two halves with their
failures; `Listen` opens the server. `Accept` is a connection, `Arrive` and
`Handle` the request on it, `Publish` a training. `Signal` closes the listener,
`Drained` and `DrainTimesOut` are the two ways `http.Server.Shutdown` returns.
`Close` closes Redis and then MongoDB; a client of MongoDB is closed by
`Disconnect`, for a start that failed or for `Close`, as an action of its own
because the code calls it with `context.Background()`. `Exit` and `Crash`, at any
moment, end the process and its handlers; Redis, MongoDB and their contents survive into the next `Start`. The
handlers of trainings are not followed: a training may publish until the process
is gone.

**Gradient.** `computeGradientParallel`: the caller's loop (`Spawn`), the
goroutines (`AddSample`, `Finish`), the join and the reduction (`Reduce`). A sum
is abstracted to what was added to it: for each sample, the weights it was scored
with each time, weights being known by the number of updates behind them.

**TrainParallel.** The loop of phase 1's training over `Gradient`: `Call` with
its defaults, `EndPass` with the update and the history, `Returned`.

**Loader.** `loader.Run`: `SkipHeader`, `Send`, `CloseJobs`, `Fail`, `Reduce` of
the reading goroutine, `Work` and `End` of the workers, and the reference
definition of the same load by one loop. A line is abstracted to what becomes
of it. A dataset that does not open is the same as one whose first line cannot be
read.

**Split**, **Features.** The algorithms as functions: `SplitTrainTest`;
`percentile75`, `BuildSamples`, `FitMinMax`, `TransformVector`,
`TransformSamples`, `ComputeClassification`, `Histogram`. A record is its active
power, a natural number or `NaN`, which the parser lets through.

**Sort**, **Sums.** Sorting, as Go's library does it for the loader and the
percentile: each element goes to the place of its rank. The sum of a sequence, in
which several properties are stated.

**Phase1.** `cmd/pc3` and `cmd/pc3-analysis`. `Steps` lists what each program
does in order; a step is a file to write (`WriteJson`, `WriteCsv`,
`WriteOptional`, `SkipProcessed`) or an action of its own. During the step
`load` main is the reader of `Loader`; during `train` it is the caller of
`TrainParallel`; the goroutines of each run beside it (`LoaderGoroutine`,
`GradientGoroutine`). Any failure is `log.Fatal`. Files may be there from an
earlier run. State that no later step reads is dropped at once, which changes
nothing a property sees and keeps the graph small.

**Sharding.** `cmd/shard-data`: `RoundRobin` is the partition of the training
samples; `Begin` is everything up to the first write, `Open`, `Flush`,
`StopWriting`, `Stop` and `WriteManifest` are the writes of one file after
another and the ways to be cut short. `Readable` is the verdict of
`ReadShardCSV`. Each run has `Flags` of its own: how many nodes, a dataset (what
`-input` and `-limit` load: the samples in the order of the file, and their 75th
percentile), a seed and a ratio. `Valid` is all that main asks of them; of the
dataset, that it is large enough and that its percentile is that of the phase 1
artefact. `Shuffled` is the permutation, which depends on the seed and on the number
of samples; `Plan` is what the run sets out to write.

**Deployment.** `Sharding` with the processes that read its files: `NodeStart`
and `ApiStart` load whatever a reader may find at that moment (`Visible`: also any
beginning of a file being written), `NodeStop` and `ApiStop` lose it. The API
starts from the weights of phase 1, whose dataset, seed and ratio (which `pc3`
replaces when it is out of range, where `shard-data` refuses it) are constants;
`begun` remembers the plan of each run. A training
round collects the rows each node holds (`Contribute`) and updates the weights
(`EndRound`) or fails (`FailRound`); `used` is the set of all samples that the
served weights were ever computed from, phase 1's included. Rounds are those of
`Training` without its calls, which that module treats.

Operators that carry "Mutation:" in their comment are plausible bugs; they are
used only to show that each property can fail.

## 3. Runs

| Run | Question | Bounds | Result |
|---|---|---|---|
| `TrainingSafety` | mutual exclusion, lost updates, completeness of every update, agreement of what is served, stored, reported and answered; does the service implement `ModelStore`? | 2 nodes, 2 requests, lengths 1, 2 and a refused 3, 1 node crash with any successor, 1 API restart, overflow; about 1,057,000 states | holds |
| `TrainingLiveness` | does every training end, and one abandoned in the queue in an error, without a round and with nothing published? | 2 requests of 2 rounds, 1 node crash, overflow; about 119,000 states | holds |
| `TrainingFailure` | does a training answered with an error leave the model alone? | 1 request | **violated** |
| `PredictionSafety` | does an answer, a cache entry or a log ever mix models or inputs? | 3 predictions, 2 inputs, 2 trainings; about 1,350,000 states | holds |
| `PredictionDigits` | is an answer of its input when two inputs print alike? | 2 predictions | **violated** |
| `PredictionRestart` | does an answer stay one of its model across a stop and a start of the API? | 2 predictions, 2 trainings, 2 starts | **violated** |
| `Lifecycle` | does a failed start clean up, does a drain lose nobody, and does everything end, whatever MongoDB and Redis do, unless it is in MongoDB's `Disconnect`? | 2 starts, 2 predictions, 1 training; about 322,000 states | holds |
| `LifecycleStop` | is nothing pending when the API says it stopped correctly? | 1 start, 1 prediction | **violated** |
| `Phase1` | is the load that of one loop, does training count each sample once per pass, are labels, normaliser, matrix and histogram right, do the files vouch for each other, does the program end? | 1 to 4 goroutines; see below; about 319,000 states | holds |
| `ShardingFlush` | does the manifest tell the truth about coverage when a flush is lost? | 1 run, 2 nodes | **violated** |
| `Deployment` | are files that match their manifest in hash and number one complete generation, and does a run without `-overwrite` keep what it found? If the runs repeat phase 1, is the evaluation a hold-out, and does a round whose total is right sum each training sample once? | 3 datasets: 4 samples, the first 3 of them with the same percentile, and a refused one; 0 to 2 nodes, ratios of 20 and 50 %, 2 endpoints, 2 runs, interruptions and lost flushes; about 8,278,000 states | holds |
| `DeploymentLimit` | is the evaluation a hold-out whenever `shard-data` accepts its dataset? | 1 run, 4 or 3 samples of one percentile | **violated** |

**Why the bounds are enough to be interesting.** Two requests are what it takes
to interleave trainings, and trainings of two rounds what it takes to tell a
stale round from the current one; `IterationsAsked` includes the default (0)
and a length over the limit, `MaxIterations` being 2 instead of 1000. Two nodes
are what a partial failure needs; one crash lets a node die between any two
steps and come back as any member of `ProcessesOf`. Three predictions allow one to
fill the cache, one to hit it and one to overwrite late. Two starts are what it
takes to find the cache of an earlier life. In
`Deployment` four samples, dealt to one node or to two, and three give
generations that fit badly together: other shards, other sizes, another test set.
The antecedent of `HoldOutIfPhase1Repeated` holds in the states whose runs all
loaded the whole file, so it meets overwriting, interruption and another number of
nodes; `FullRoundIsTheTrainingSet` asks for two nodes besides. The runs on the
limited dataset are there for `ManifestVouches`, and `DeploymentLimit` shows what
they do to the evaluation. Requests and predictions are symmetric where only safety is checked.

`Phase1` scales its constants down: `MinSamples` is 3 for 10, `Bins` 3 for 20,
`DefaultIterations` 2 for 30, `TestRatio` 40 %, the powers are 0, 1 and 2 with at
most one `NaN` among them. The command lines are: every file of at most four lines
of five kinds (header, valid, oversized, two reasons to discard) with two workers
and limits 0, 1 and 2, and of at most three lines with three workers; three files
of ten lines, which overfill the channel of 8 that two workers share; three to
seven valid rows with no or three workers asked for, where the chunks divide
evenly, leave a remainder or leave a worker without samples, and four rows with
four workers and a negative limit; and six runs of the analysis.

Runs stop when their finitely many requests, starts or program runs have ended, or
when the program has; hence `CHECK_DEADLOCK FALSE`. That nothing stops *earlier*
is what the liveness properties say.

**Fairness.** Weak fairness of the coordinator's steps: the Go scheduler runs
every goroutine that can run, and a request that waits for `trainMu` is
continuously enabled only while the mutex is free. With finitely many requests
this is enough; Go's mutex would in fact also prevent starvation among
infinitely many. Weak fairness of `CallFails`: each call runs under
`context.WithTimeout`, and the deadline is set on the connection, so a call that
is not answered fails. Weak fairness of the steps of a prediction: every call to
Redis and MongoDB runs under the repository's timeout. In `Lifecycle`, weak fairness of
the steps of main and of the handlers, for the same reason: `Ping` runs under a
context with a timeout, and so does `Shutdown`. MongoDB's `Disconnect` does not: it
is called with `context.Background()`, so it has no fairness, and `StartsAndStopsEnd`
promises an end only outside it. Nothing is assumed of nodes,
clients, signals, crashes, Redis or MongoDB. In `Phase1`, weak fairness of main and
of each goroutine: the scheduler runs whatever is not blocked. `Proceeds` is the
cheap form, for TLC, of weak fairness of main where it runs alone: in each of
those steps main can always go on or die.

## 4. Findings

* **A failed training has changed the model** (`TrainingFailure`).
  `TrainDistributed` publishes under `modelMu` and saves afterwards; if the
  artefact cannot be written, the client receives a 503 saying that the model
  could not be trained, while the new model is served. The comment in the code
  calls this section atomic from the API's point of view.
* **A stop is called correct that cuts requests off** (`LifecycleStop`). main
  drops the error of `Shutdown`; when its five seconds are over it prints that
  the API stopped correctly, closes the repository under the handlers that are
  still at work, and exits.
* **Cache entries survive the version counter** (`PredictionRestart`). The key
  holds the version, which is 1 again after a restart of the API; entries of
  an earlier life are hits for another model, until they expire.
* **The key rounds the input** (`PredictionDigits`). `"%.12g"` maps inputs that
  differ after the twelfth significant digit to one key.
* **The manifest vouches for rows that were lost** (`ShardingFlush`).
  `WriteSamplesCSV` asks for the writer's error before its deferred `Flush`; a
  failure of that flush goes unnoticed, the hash is of the short file and
  `train_coverage_matches` is a constant.
* **The evaluation may be on training samples** (`DeploymentLimit`). `shard-data`
  takes a dataset for that of phase 1 when its 75th percentile is the same. A
  `-limit` may leave the percentile alone, but the shuffle of another number of samples
  is another permutation: samples of phase 1's training set get into `test.csv`,
  which the report of an evaluation calls a hold-out that no weight was updated with.

## 5. Proofs

Every safety property of every passing run, invariants and action properties, is a
theorem of its specification: for any nodes, requests, predictions, inputs,
datasets, command lines, seeds and bounds that satisfy the assumptions of the
modules. The assumptions are on constants only. Most of them are typing; the others
are what the code fixes: at least one feature, a default number of rounds within
the limit, a free mutex is no request, nil is no report (`NoReportAssumption`), a
shuffle maps positions to positions (`ShuffleAssumption`; in `Sharding` without
losing one), a dataset has each sample once, and phase 1 has run on one with more
than one sample, whose percentile its artefact has.

| Module | Theorems |
|---|---|
| `TrainingProofs` | `TypeCorrect`, `MutualExclusion`, `NoLostUpdate`, `Refinement`, `CompleteUpdates` |
| `TrainingStoreProofs` | `RecordsCoherent`, `AnswersNotOlder`, `DurableModel`, `NoPartialTraining`, `ReportedSamples`, `AbandonedLeaveNoTrace` |
| `ServingProofs` | `PredictionTypes`, `AnswersOfTheirModel`, `CacheOfServedModels`, `AnswersOfTheirInput`, `FaithfulLogs`; `LifecycleTypes`, `NoClientLeft`, `NobodyLost` |
| `Phase1Proofs` | `Phase1TypesAlways`, `LoadsAreSequential`, `PassesCountEverySample`, `PassesDoNotRace`, `HistoryIsTheLossCurve`, `HighDemandAlways`, `NoLeakage`, `MatricesAddUp`, `HistogramsAreComplete`, `FilesVouch` |
| `ShardingProofs` | `ShardingTypes`, `ManifestsVouch`, `CompleteRuns`, `NothingOverwritten`; `OnlyShardDataWrites`, `DeploymentTypes`, `EvaluatesHoldOut`, `FullRounds` |
| `OperatorProofs`, `GradientProofs`, `LoadProofs` | the lemmas that the last two rest on |

Three theorems have a hypothesis of their own, because the property is false
without it. `AnswersOfTheirInput` and `FaithfulLogs` assume `PrintedApart`: no two
inputs print alike in twelve digits (`PredictionDigits` shows what happens
otherwise). `ReportedSamples` assumes `ShardsFixed`: the processes that may be
started with the id of a node hold equally many samples; a node whose shard
changed its size between the health check and the rounds makes the report wrong.
`HoldOutIfPhase1Repeated` and `FullRoundIsTheTrainingSet` carry theirs in the
formula, that every run repeats the dataset, the seed and the ratio of phase 1,
which the code does not check (`DeploymentLimit`).

**Training.** `TypeOK` is not inductive, since a report has at most `MaxIterations`
rounds only because `Receive` refused the others; `TypeInv` adds `AcceptedRounds`.
`OneTrainingAtATime` is inductive given `TypeOK`. `TrainsOnServedModel` speaks of
the copy of every training between its rounds and its publication; `Publish` of
another request preserves it only because of mutual exclusion, and the last
`Reduce` because the round counter is then the number asked for. In the refinement
every step but `Publish` and `ApiRestart` stutters, and `Publish` is `Train`, at most
once by request, because of `Unpublished`. `RoundCalls` says that every call of a
training in its rounds carries the current weights and round, and every answer is
one to such a call.

What is recorded, answered and saved later is related to what was published by
`publishedAs`. `PublishInv`: the report that is served is that of the training that
published last; while a training has `trainMu`, that is itself; afterwards it has
published under a version no greater than the served one. `RunsCoherent` and
`ReplyNotOlder` follow for each record and answer as it is made.
`DurableWhenAcknowledged` holds because whoever writes the file is the one whose
report is served. `WholeTrainings` is proved of every model there is at once (`AllWhole`: served,
copied, saved, recorded, answered), by counting in each the updates of each
request. `AbandonedLeaveNoTrace` is the safety half of `AbandonedIsRefused`: a request
that was abandoned in the queue has done no round, and every later step keeps that.

**Predictions and the API process.** A prediction shares Redis with all others and
its model may be long replaced, so no variable says which model a version stands
for. `CacheInv` is about `Uses`, all pairs of a version and a model there are: the
served one, the copies, the values in Redis. No two of them disagree, and none has
a version after the served one, so the next training is new among them; every
other step only passes uses on (`UsesKept`). An answer is then of its own model,
because its version is that of the copy. For the process, `OpenedInTurn` orders
the two clients, and `Quiet` says that after a `Shutdown` without error there is no
connection through which a request could still arrive, and no handler.

**Loader.** `LoadInv` says of each row that was sent where it is: in `jobs`, or
counted, once, in the partial result of one worker; and of each partial result in
the second channel whose it is, each worker's once. The assignments are
existential in the invariant, and each step gives the next one. When the reader
stops waiting, no row is in `jobs` and every worker has delivered, so that what is
merged is a partition of the rows wanted. `SumCounts` says that merging in any
order counts each row once, and the sorted records are those of one loop.

**Gradient and training.** `PassInv` says of each worker that it waits, that it
holds the sum of its chunk up to the next sample, or that its cell holds its whole
chunk. Chunks are disjoint and cover the samples for any number of samples and
workers, because of the rounded-up division and the clipped end (`Division`), so
the total has each sample once. `NoRace` follows from the same facts. `TrainInv` adds
the iterations: what the weights are before, during and after each pass, and the
history so far.

**Phase 1.** `MainInv` follows main from step to step: `LoadInv` while it loads,
`TrainInv` while it trains, `DataAt` for what it holds of the records between, and
`FilesInv` for the files: those before the step under way are of this run and those
after it are not. The properties are then facts about the operators: `Percentile75`
is the value of rank ⌈3n/4⌉; the minimum and the maximum that `FitMinMax` finds are
values of the training set; the four counts of the confusion matrix partition the
test samples; the bins partition the records.

**Sharding and deployment.** `ShardInv`: a run under way follows a plan, what it has
closed is still as it hashed it and is whole or cut, and without `-overwrite` nothing
else is there; a whole manifest has the full numbers of rows of one plan, and the
hashes of files that are whole or cut. A file that has both the hash and the number
is therefore whole, and a plan is a partition of the samples of its dataset
(`PlanPartition`, from `RoundRobin`, `Split` and `ShuffledSamples`). `DeployInv` says
that whatever a file, a node or a round holds is a beginning of the file of that
number in some plan that was begun, and that the rows the API evaluates on were in
the test set of one and those its weights come from are in phase 1's training set or
outside the test set of some plan that was begun. If every plan repeats phase 1, `Repeated` says that its
shards and its test set are those of phase 1's split, and the two exclude each other. A
round whose total is that of the training set has every shard whole. Nodes and API
write no file, hence `OnlyShardDataWrites`, and what is proved of `Sharding` is true
of the deployment.

`DeployInv`, of which `ShardInv` is a part, was checked by TLC on the instance of
`Deployment` without the runs for one node before it was proved.

**Folds and sorting.** What a fold computes is proved although it is defined by
recursion: the community modules define it as a recursive function on the finite
set of the subsets of its domain, `Solves` says what such a function satisfies, and
a property that fails of it fails at a least subset (`MinimalSubset`, from the
library's well-foundedness of the subset ordering, which has no operator
parameter). `SortSeq` and `SelectSeq` cannot be expanded by the prover. `Sort`
therefore puts each element at the place of its rank, which is the same sequence;
`RoundRobin` gives the shards in closed form, shard `g` having the samples at
positions `g`, `g + k`, `g + 2k` and so on; and the reference definition of the load
is stated with `Ascending`.

What the proofs changed in the model, beyond these forms: `FullRoundIsTheTrainingSet`
asks every run to repeat what decides the order of the training samples too, since
equal test sets alone do not fix it; and `Visible` says
what a node finds that asks for a shard with a number beyond the dataset: nothing.

**Only model-checked.** The liveness properties `EveryTrainingEnds`,
`AbandonedIsRefused`, `EveryPredictionEnds`, `StartsAndStopsEnd` and `ProgramEnds`:
fairness and `ENABLED` are out of the prover's reach. The properties of the six
runs that find a violation are false, not unproved; `AnswerIsOfItsModel` and
`AnswerIsOfItsInput`, which also hold in a passing run, are proved under what that
run assumes.

## 6. Not modelled

* Floating point: values of weights, gradients, losses, rates. In particular
  the order in which gradients are added, hence the last bits of the weights,
  depends on the order of the answers, and a value on the edge between two bins
  of the histogram may fall to either side.
* A NaN in the dataset is modelled: `strconv.ParseFloat` accepts it and
  `validateRanges` does not refuse it, so a record with NaN is valid, and ends
  `pc3` at the normaliser and `pc3-analysis` at its first file. A NaN probability
  of a model whose weights overflowed is not: predictions are abstracted to the
  model and the input.
* The statistics, correlations and group averages of the analysis and the drawing
  of its figures: pure functions with no control that a property could be about;
  they are represented by the files they end in. The features other than the
  one that follows from the active power: the code treats them alike.
* `cmd/pc3-benchmark`: a driver that runs `pc3` once per number of workers and
  averages the files it leaves (that these are whole when `pc3` ends well is
  `FilesVouchForEarlierOnes`). The smoke test, scripts, containers and stored
  evidence.
* Two runs of `shard-data` at once, and other writers of its directory: `ensureOutputDir`
  looks before it writes, and nothing locks. A node reads its shard in one step,
  whole or as far as it is written; an overwriting run that truncates the file in the
  middle of that read is not followed. The file of the model is written in two steps
  but never read again while the API runs, and a restart starts from phase 1's.
* Malformed requests and responses beyond their rejection; wording of errors;
  time stamps and durations.
* `GET` handlers and health probes that only read, beyond the atomicity of
  `ModelSnapshot`; the loss and the version in the report of an evaluation.

## 7. Plan

The safety properties are proved. What could still be said:

1. Positive counterparts of the findings as theorems: `TrainCoverageMatches` when no
   flush fails; a training that fails before its publication leaves the model
   alone.
2. The gradient and the loader as components of their own, each shown to implement
   a specification of one step (all samples at once; all rows at once).
3. `RoundCalls`, `DeployInv` and `LoadInv` as invariants of runs, so that each
   step of the proofs can be watched on an instance.
