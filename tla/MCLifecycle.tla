---------------------------- MODULE MCLifecycle -----------------------------
(***************************************************************************)
(* Instances of Lifecycle for TLC.                                         *)
(***************************************************************************)
EXTENDS Lifecycle, TLC

CONSTANTS a, b

\* Two inputs that "%.12g" prints differently.
Distinct == (a :> "a") @@ (b :> "b")

=============================================================================
