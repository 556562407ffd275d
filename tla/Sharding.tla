------------------------------ MODULE Sharding ------------------------------
(***************************************************************************)
(* cmd/shard-data: the split of the samples into train and test, the round *)
(* robin of the training samples over the nodes, and the files that carry  *)
(* them there.                                                             *)
(*                                                                         *)
(* A run computes everything first and then writes one shard after another,*)
(* the test file and, last, the manifest with the SHA-256 of each.  It may *)
(* stop anywhere, and a later run, with other flags, may overwrite what it *)
(* left.  SHA-256 is taken to be injective, so the hash of a file is what  *)
(* the file holds.                                                         *)
(***************************************************************************)
EXTENDS Split

CONSTANTS
  Samples,         \* what BuildSamples makes of the records, one per record
  Datasets,        \* what the values of -input and -limit load
  MaxSamples,      \* no dataset is larger
  ArtifactP75,     \* the threshold in the artefact of phase 1
  NodesAsked,      \* the values of -nodes
  Seeds,           \* the values of -seed
  Ratios,          \* the values of -test-ratio, in percent
  Shuffle,         \* Shuffle[seed][n]: the permutation of n samples
  MaxRuns          \* bound: how many times the program is run

\* A dataset is the samples in the order of the file and their 75th percentile.
ASSUME ShardingAssumption ==
  /\ MaxSamples \in Nat
  /\ \A d \in Datasets : /\ d.samples \in Seq(Samples)
                         /\ IsInjective(d.samples)
                         /\ Len(d.samples) <= MaxSamples
  /\ NodesAsked \subseteq Int
  /\ Ratios \subseteq Int
  /\ \A seed \in Seeds, n \in 1..MaxSamples :
       /\ Shuffle[seed][n] \in [1..n -> 1..n]
       /\ IsInjective(Shuffle[seed][n])
  /\ MaxRuns \in Nat

VARIABLES
  run,             \* the run under way, or NoRun
  disk,            \* file number -> its content; 0 is test.csv
  manifest,        \* manifest.json
  runs             \* how many runs have begun

vars == <<run, disk, manifest, runs>>

-----------------------------------------------------------------------------
(***************************************************************************)
(* PartitionRoundRobin.                                                    *)
(***************************************************************************)

\* Mutation: the samples left over when all shards are equal are not dealt.
RoundRobinWithoutRest(samples, k) ==
  [shard \in 1..k |-> [j \in 1..(Len(samples) \div k) |->
                         samples[shard + (j - 1) * k]]]

\* Sample i, from 0, goes to shard i % k, from 0: one in k, in order.
RoundRobin(samples, k) ==
  [shard \in 1..k |-> [j \in 1..((Len(samples) - shard + k) \div k) |->
                         samples[shard + (j - 1) * k]]]

Flags == [nodes : NodesAsked, dataset : Datasets, seed : Seeds, ratio : Ratios]

\* Mutation: -nodes is not looked at.
ValidForNoNodes(f) ==
  LET n == Len(f.dataset.samples) IN
    /\ n >= f.nodes + 1 /\ n >= 2
    /\ f.dataset.p75 = ArtifactP75
    /\ f.ratio > 0 /\ f.ratio < 50
    /\ f.nodes <= TrainSize(n, f.ratio)

\* What main, SplitTrainTest and PartitionRoundRobin let through to the writes.
\* All that ties the dataset to that of phase 1 is its 75th percentile.
Valid(f) ==
  LET n == Len(f.dataset.samples) IN
    /\ f.nodes > 0 /\ n >= f.nodes + 1 /\ n >= 2
    /\ f.dataset.p75 = ArtifactP75
    /\ f.ratio > 0 /\ f.ratio < 50
    /\ f.nodes <= TrainSize(n, f.ratio)

\* rng.Shuffle.  The permutation is that of the seed and of how many there are.
Shuffled(dataset, seed) ==
  [i \in 1..Len(dataset.samples) |->
     dataset.samples[Shuffle[seed][Len(dataset.samples)][i]]]

\* What a run with these flags sets out to write.
Plan(f) ==
  [flags |-> f, nodes |-> f.nodes,
   shards |-> RoundRobin(Train(Shuffled(f.dataset, f.seed), f.ratio), f.nodes),
   test |-> Test(Shuffled(f.dataset, f.seed), f.ratio)]

Plans == {Plan(f) : f \in {g \in Flags : Valid(g)}}

-----------------------------------------------------------------------------
(***************************************************************************)
(* The state.                                                              *)
(***************************************************************************)

Files == 0..MaxSamples
Absent == [st |-> "absent"]
Torn == [st |-> "torn"]               \* cut within a row
Rows(samples) == [st |-> "rows", samples |-> samples]
File == {Absent, Torn} \cup [st : {"rows"}, samples : Seq(Samples)]
NoRun == [st |-> "none"]

\* The files of a run in the order in which it writes them.
FileAt(r) == IF r.at <= r.nodes THEN r.at ELSE 0
Written(r) == IF r.at > r.nodes + 1 THEN 0..r.nodes ELSE 1..(r.at - 1)
Content(r) == IF r.at <= r.nodes THEN r.shards[r.at] ELSE r.test

TypeOK ==
  /\ run # NoRun =>
       /\ run.nodes \in 1..MaxSamples
       /\ run.shards \in [1..run.nodes -> Seq(Samples)]
       /\ run.test \in Seq(Samples)
       /\ run.at \in 1..(run.nodes + 2)
       /\ run.hashes \in [Written(run) -> File]
  /\ disk \in [Files -> File]
  /\ manifest \notin {Absent, Torn} =>
       /\ manifest.nodes \in 1..MaxSamples
       /\ manifest.hashes \in [0..manifest.nodes -> File]
       /\ manifest.counts \in [0..manifest.nodes -> Nat]
  /\ runs \in 0..MaxRuns

Init ==
  /\ run = NoRun
  /\ disk = [f \in Files |-> Absent]
  /\ manifest = Absent
  /\ runs = 0

-----------------------------------------------------------------------------

DirectoryEmpty == manifest = Absent /\ \A f \in Files : disk[f] = Absent

\* Mutation: -overwrite is not looked at.
UsableAlways(overwrite) == TRUE

\* ensureOutputDir
Usable(overwrite) == overwrite \/ DirectoryEmpty

\* Flags, directory, artefact, dataset, split, normalisation and partition.
\* A refusal leaves nothing behind.
Begin(f, overwrite) ==
  /\ run = NoRun
  /\ runs < MaxRuns
  /\ runs' = runs + 1
  /\ run' = IF Usable(overwrite) /\ Valid(f)
            THEN [st |-> "opening", nodes |-> f.nodes, overwrite |-> overwrite,
                  shards |-> Plan(f).shards, test |-> Plan(f).test,
                  at |-> 1, hashes |-> << >>]
            ELSE NoRun
  /\ UNCHANGED <<disk, manifest>>

\* os.Create truncates; the rows are in the buffer of the CSV writer.
Open ==
  /\ run.st = "opening"
  /\ run.at <= run.nodes + 1
  /\ disk' = [disk EXCEPT ![FileAt(run)] = Rows(<< >>)]
  /\ run' = [run EXCEPT !.st = "writing"]
  /\ UNCHANGED <<manifest, runs>>

\* What the disk may hold of a file whose rows were not all written.
Cut(samples) ==
  {Torn} \cup {Rows(SubSeq(samples, 1, m)) : m \in 0..(Len(samples) - 1)}

Hashed(file) == [f \in DOMAIN run.hashes \cup {FileAt(run)} |->
                   IF f = FileAt(run) THEN file ELSE run.hashes[f]]

\* Mutation: the file is hashed before its rows are flushed.
FlushAfterHash ==
  /\ run.st = "writing"
  /\ disk' = [disk EXCEPT ![FileAt(run)] = Rows(Content(run))]
  /\ run' = [run EXCEPT !.st = "opening", !.at = @ + 1,
                        !.hashes = Hashed(Rows(<< >>))]
  /\ UNCHANGED <<manifest, runs>>

\* WriteSamplesCSV returns nil and the file is hashed.  The deferred Flush
\* comes after writer.Error was read: if it fails nobody knows.
Flush ==
  /\ run.st = "writing"
  /\ \E file \in {Rows(Content(run))} \cup Cut(Content(run)) :
       /\ disk' = [disk EXCEPT ![FileAt(run)] = file]
       /\ run' = [run EXCEPT !.st = "opening", !.at = @ + 1,
                             !.hashes = Hashed(file)]
  /\ UNCHANGED <<manifest, runs>>

\* An earlier write fails and is reported, or the process dies.
StopWriting ==
  /\ run.st = "writing"
  /\ \E file \in Cut(Content(run)) \cup {Rows(Content(run))} :
       disk' = [disk EXCEPT ![FileAt(run)] = file]
  /\ run' = NoRun
  /\ UNCHANGED <<manifest, runs>>

\* The process dies, or an error ends it, between two files.
Stop ==
  /\ run.st = "opening"
  /\ run' = NoRun
  /\ UNCHANGED <<disk, manifest, runs>>

\* os.WriteFile of the manifest, which may be cut short too.
WriteManifest ==
  /\ run.st = "opening"
  /\ run.at = run.nodes + 2
  /\ \/ manifest' = [st |-> "whole", nodes |-> run.nodes, hashes |-> run.hashes,
                     counts |-> [f \in 0..run.nodes |->
                                   IF f = 0 THEN Len(run.test)
                                            ELSE Len(run.shards[f])]]
     \/ manifest' = Torn
  /\ run' = NoRun
  /\ UNCHANGED <<disk, runs>>

Next ==
  \/ \E f \in Flags, overwrite \in BOOLEAN : Begin(f, overwrite)
  \/ Open \/ Flush \/ StopWriting \/ Stop \/ WriteManifest

Spec == Init /\ [][Next]_vars

-----------------------------------------------------------------------------

\* ReadShardCSV: a node refuses a file cut within a row and one without rows.
Readable(file) == file.st = "rows" /\ file.samples # << >>

\* The files are those the manifest was written for.
Matches ==
  /\ manifest.st = "whole"
  /\ \A f \in 0..manifest.nodes : disk[f] = manifest.hashes[f]

SamplesOf(f) == ToSet(disk[f].samples)

\* Each of these files has as many rows as the manifest says.
Counted(files) ==
  \A f \in files :
    disk[f].st = "rows" /\ Len(disk[f].samples) = manifest.counts[f]

\* Files that match their manifest in hash and in number are one complete
\* generation, whatever runs were interrupted or overwritten before: every node
\* and the API can load its file, each sample of a dataset with the threshold
\* of phase 1 is in exactly one of them, and the shards are balanced.
ManifestVouches ==
  Matches /\ Counted(0..manifest.nodes) =>
    LET files == 0..manifest.nodes
        shards == 1..manifest.nodes
    IN
      /\ \A f \in files : Readable(disk[f]) /\ IsInjective(disk[f].samples)
      /\ \A f, g \in files : f # g => SamplesOf(f) \cap SamplesOf(g) = {}
      /\ \E d \in Datasets : /\ d.p75 = ArtifactP75
                            /\ UNION {SamplesOf(f) : f \in files} = ToSet(d.samples)
      /\ \A f, g \in shards :
           Len(disk[f].samples) <= Len(disk[g].samples) + 1

\* A run that reaches its end leaves files that match its manifest.
CompleteRunMatches ==
  [][run # NoRun /\ manifest' # manifest /\ manifest'.st = "whole" => Matches']_vars

\* Without -overwrite, no file that was there before the run is touched.
KeepsWhatItFound ==
  [][run # NoRun /\ ~run.overwrite =>
       /\ \A f \in Files : disk'[f] # disk[f] =>
            (disk[f] = Absent \/ (f = FileAt(run) /\ run.st = "writing"))
       /\ manifest' # manifest => manifest = Absent]_vars

\* "train_coverage_matches": true, which every manifest says: the shards it
\* vouches for hold all the training samples.
TrainCoverageMatches == Matches => Counted(1..manifest.nodes)

=============================================================================
