----------------------------- MODULE ModelStore -----------------------------
(***************************************************************************)
(* What the coordinator promises about the model it serves, whatever the   *)
(* cluster, the clients and the disk do: the model changes only by whole   *)
(* trainings, each applied to the model that is being served at that very  *)
(* moment (or to zero weights), each at most once, each under the next     *)
(* version and together with its own report; or by a restart of the API,   *)
(* which serves the model of phase 1 again, as version 1.                  *)
(***************************************************************************)
EXTENDS Models

CONSTANTS
  Nodes,
  MaxIterations,
  SampleCounts,    \* the sample counts a report may show, Nat in the code
  NoReport         \* last_training before the first training

VARIABLES
  model,           \* the model being served
  version,         \* its version
  lastTraining,    \* the report of the training that produced it
  publishedAs      \* request -> the version it published, 0 if none yet

storeVars == <<model, version, lastTraining, publishedAs>>

Report == [by : Requests, iterations : 1..MaxIterations,
           samples : [Nodes -> SampleCounts]]

Init ==
  /\ model = Phase1
  /\ version = 1
  /\ lastTraining = NoReport
  /\ publishedAs = [r \in Requests |-> 0]

Train(r) ==
  /\ publishedAs[r] = 0
  /\ lastTraining' \in Report
  /\ lastTraining'.by = r
  /\ \E base \in {model, Zero}, numbers \in Numbers :
       model' = Trained(base, r, lastTraining'.iterations, numbers)
  /\ version' = version + 1
  /\ publishedAs' = [publishedAs EXCEPT ![r] = version']

Restart ==
  /\ model' = Phase1
  /\ version' = 1
  /\ lastTraining' = NoReport
  /\ UNCHANGED publishedAs

Next == Restart \/ \E r \in Requests : Train(r)

Spec == Init /\ [][Next]_storeVars

=============================================================================
