---------------------------- MODULE MCPrediction ----------------------------
(***************************************************************************)
(* Instances of Prediction for TLC.                                        *)
(***************************************************************************)
EXTENDS Prediction, TLC

CONSTANTS a, b

\* Two inputs that "%.12g" prints differently.
Distinct == (a :> "a") @@ (b :> "b")

\* 240.8 and 240.8000000000001: the same first twelve digits.
Alike == (a :> "a") @@ (b :> "a")

PredictionSymmetry == Permutations(Predictions)

=============================================================================
