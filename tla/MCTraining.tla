----------------------------- MODULE MCTraining -----------------------------
(***************************************************************************)
(* Instances of Training for TLC.                                          *)
(***************************************************************************)
EXTENDS Training, TLC

CONSTANTS n1, n2

\* One shard per node, as docker-compose starts them.
Ordinary ==
  (n1 :> {[id |-> n1, samples |-> 2, features |-> 1]}) @@
  (n2 :> {[id |-> n2, samples |-> 1, features |-> 1]})

\* A node may come back with a shard of other features, or with the id of the
\* other node.
Replaced ==
  (n1 :> {[id |-> n1, samples |-> 2, features |-> 1]}) @@
  (n2 :> {[id |-> n2, samples |-> 1, features |-> 1],
          [id |-> n2, samples |-> 1, features |-> 2],
          [id |-> n1, samples |-> 1, features |-> 1]})

\* Nothing in the service depends on which request is which.
RequestSymmetry == Permutations(Requests)

=============================================================================
