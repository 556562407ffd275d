-------------------------------- MODULE Sums ---------------------------------
(***************************************************************************)
(* The sum of a sequence of numbers, for the properties that add up.       *)
(***************************************************************************)
EXTENDS Integers, SequencesExt

AddedUp(numbers) == FoldSeq(+, 0, numbers)

=============================================================================
