------------------------------- MODULE Split -------------------------------
(***************************************************************************)
(* distributed.SplitTrainTest: the samples, shuffled, are cut into a       *)
(* training and a test set.                                                *)
(***************************************************************************)
EXTENDS Integers, SequencesExt

Larger(i, j) == IF i > j THEN i ELSE j

\* int(n * ratio), but at least one sample; the ratio is in percent.  The
\* ratios of the instances are such that the float64 product does not fall
\* below an exact integer.
TestSize(n, ratio) == Larger(1, (n * ratio) \div 100)

\* ... and at least one for training.
TrainSize(n, ratio) == IF n - TestSize(n, ratio) < 1 THEN n - 1
                                                     ELSE n - TestSize(n, ratio)

Train(shuffled, ratio) == SubSeq(shuffled, 1, TrainSize(Len(shuffled), ratio))
Test(shuffled, ratio) ==
  SubSeq(shuffled, TrainSize(Len(shuffled), ratio) + 1, Len(shuffled))

=============================================================================
