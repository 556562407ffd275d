----------------------------- MODULE MCSharding -----------------------------
(***************************************************************************)
(* Instances of Sharding for TLC.                                          *)
(***************************************************************************)
EXTENDS Sharding

FiveSamples == 1..5

\* A file of five samples, loaded whole.
WholeFile == {[samples |-> <<1, 2, 3, 4, 5>>, p75 |-> 4]}

\* What two seeds do to five samples; no run has fewer.
TwoSeeds == {42, 7}
ShuffleOfFive ==
  [seed \in TwoSeeds |-> [n \in 1..5 |->
     IF n < 5 THEN [i \in 1..n |-> i]
     ELSE IF seed = 42 THEN <<2, 5, 1, 3, 4>> ELSE <<4, 2, 3, 5, 1>>]]

=============================================================================
