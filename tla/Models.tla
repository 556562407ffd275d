------------------------------- MODULE Models -------------------------------
(***************************************************************************)
(* The logistic regression models that the coordinator trains, publishes,  *)
(* saves and serves.  The properties never look at a weight: they ask      *)
(* which gradient updates produced a model, so a model is its lineage, the *)
(* training requests whose updates were applied, in order, to a starting   *)
(* point.  Everything else in an ml.LogisticRegression is abstracted, save *)
(* for one bit: whether all its numbers are finite, because encoding/json  *)
(* refuses to encode NaN and the infinities.                               *)
(***************************************************************************)
EXTENDS Naturals, Sequences

CONSTANT Requests    \* the POST /v1/train requests a behaviour may contain

Numbers == {"finite", "overflown"}

Model ==
  [origin : {"phase1", "zero"}, steps : Seq(Requests), numbers : Numbers]

\* The artefact of phase 1, which cmd/api loads before it serves anything.
Phase1 == [origin |-> "phase1", steps |-> << >>, numbers |-> "finite"]

\* The zero weights and bias a training with reset_model starts from.
Zero == [origin |-> "zero", steps |-> << >>, numbers |-> "finite"]

\* One gradient descent step of training r; only a step can leave the
\* finite numbers (the learning rate is any positive float64).
Step(model, r, numbers) ==
  [origin |-> model.origin, steps |-> Append(model.steps, r), numbers |-> numbers]

\* What a complete training of r makes of base: k steps, nothing else.
Times(r, k) == [i \in 1..k |-> r]
Trained(base, r, k, numbers) ==
  [origin |-> base.origin, steps |-> base.steps \o Times(r, k), numbers |-> numbers]

=============================================================================
