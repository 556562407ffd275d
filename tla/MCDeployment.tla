---------------------------- MODULE MCDeployment ----------------------------
(***************************************************************************)
(* Instances of Deployment for TLC.                                        *)
(***************************************************************************)
EXTENDS Deployment

FourSamples == 1..4

\* A file of four samples; the same with -limit 3, which has the same 75th
\* percentile; and another one.
WholeFile == [samples |-> <<1, 2, 3, 4>>, p75 |-> 3]
Limited == [samples |-> <<1, 2, 3>>, p75 |-> 3]
Other == [samples |-> <<4, 3, 2>>, p75 |-> 4]
ThreeDatasets == {WholeFile, Limited, Other}
SameThreshold == {WholeFile, Limited}

\* What the seed 42 does to so many samples, say.
Seed42 == [seed \in {42} |-> <<  <<1>>, <<2, 1>>, <<3, 1, 2>>, <<2, 4, 1, 3>>  >>]

=============================================================================
