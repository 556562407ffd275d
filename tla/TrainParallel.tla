--------------------------- MODULE TrainParallel ---------------------------
(***************************************************************************)
(* ml.TrainParallel: a pass of computeLossParallel over all the samples    *)
(* for the initial loss, then one pass of computeGradientParallel per      *)
(* iteration, each followed by an update of the weights that the           *)
(* goroutines of the next pass read.                                       *)
(***************************************************************************)
EXTENDS Gradient

CONSTANT DefaultIterations     \* 30 in the code

VARIABLES
  iterations,      \* cfg.Iterations
  pass,            \* the iteration under way; 0 computes the initial loss
  history          \* TrainingHistory: what each loss was computed from

trainVars == <<gradientVars, iterations, pass, history>>

\* Every variable has its type.
TrainTypeOK ==
  /\ TypeOK
  /\ iterations \in Nat
  /\ pass \in 0..(iterations + 1)
  /\ Len(history) <= iterations + 1

\* Nobody trains.
Idle ==
  /\ count = 0 /\ workers = 0 /\ weights = 0 /\ spawned = 0 /\ waitGroup = 0
  /\ running = [w \in 0..-1 |-> NotRunning]
  /\ partials = [w \in 0..-1 |-> Nil]
  /\ result = Nil
  /\ iterations = 0 /\ pass = 0 /\ history = <<>>

\* TrainParallel is called with n samples, n > 0, and cfg: the defaults, the
\* model of zeros, the initial loss.
Call(n, asked, iterationsAsked) ==
  /\ Begin(n, Clipped(asked, n))
  /\ iterations' = IF iterationsAsked <= 0 THEN DefaultIterations
                                           ELSE iterationsAsked
  /\ weights' = 0
  /\ pass' = 0
  /\ history' = <<>>

\* Mutation: the training ends before its last iteration.
EndPassEarly ==
  /\ result # Nil
  /\ history' = Append(history, [iteration |-> pass, loss |-> result])
  /\ weights' = IF pass = 0 THEN weights ELSE weights + 1
  /\ pass' = IF pass + 1 >= iterations THEN iterations + 1 ELSE pass + 1
  /\ IF pass + 1 < iterations THEN Begin(count, workers) ELSE Begin(0, 0)
  /\ UNCHANGED iterations

\* The pass is reduced: its loss goes into the history and, unless it was the
\* initial one, its gradient into the weights.  Its total is never 0.
EndPass ==
  /\ result # Nil
  /\ history' = Append(history, [iteration |-> pass, loss |-> result])
  /\ weights' = IF pass = 0 THEN weights ELSE weights + 1
  /\ pass' = pass + 1
  /\ IF pass < iterations THEN Begin(count, workers) ELSE Begin(0, 0)
  /\ UNCHANGED iterations

\* The model and the report are returned.
Returned == iterations > 0 /\ pass = iterations + 1

Forget ==
  /\ Returned
  /\ weights' = 0 /\ iterations' = 0 /\ pass' = 0 /\ history' = <<>>
  /\ UNCHANGED <<count, workers, spawned, running, waitGroup, partials, result>>

Caller ==
  \/ Spawn /\ UNCHANGED <<iterations, pass, history>>
  \/ Reduce /\ UNCHANGED <<iterations, pass, history>>
  \/ EndPass

Worker(w) ==
  /\ w < workers
  /\ Goroutine(w)
  /\ UNCHANGED <<iterations, pass, history>>

-----------------------------------------------------------------------------

\* A training makes as many updates as iterations were asked for, each from a
\* gradient over every sample at the weights that the update before it left.
\* Iteration k of the history is the loss at the weights before its update, so
\* the last one, final_loss, is not the loss of the model returned.
LossCurve ==
  Returned =>
    /\ weights = iterations
    /\ Len(history) = iterations + 1
    /\ \A k \in 0..iterations :
         /\ history[k + 1].iteration = k
         /\ \A i \in DOMAIN history[k + 1].loss :
              history[k + 1].loss[i] = <<IF k = 0 THEN 0 ELSE k - 1>>

=============================================================================
