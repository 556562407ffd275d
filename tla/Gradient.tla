------------------------------ MODULE Gradient ------------------------------
(***************************************************************************)
(* ml.computeGradientParallel and the reduction of its result, as done by  *)
(* a node (ComputeGradientPartial), by the training of phase 1             *)
(* (TrainParallel) and for the loss (computeLossParallel).                 *)
(*                                                                         *)
(* The samples are cut into consecutive chunks; a goroutine per chunk adds *)
(* up its samples in a variable of its own and at its end writes it to its *)
(* own cell of partials; the caller joins them and adds up the cells.      *)
(* A sum is abstracted to what was added: for each sample, the weights it  *)
(* was scored with each time, weights being known by how often they were   *)
(* updated.                                                                *)
(***************************************************************************)
EXTENDS Integers, Sequences, Functions

VARIABLES
  count,       \* len(samples); 0 when nobody is computing
  workers,     \* the goroutines to use, after clipping
  weights,     \* the weights of the caller's model, which the goroutines read
  spawned,     \* the loop variable w of the caller
  running,     \* worker -> its goroutine: the samples still to add, the sum
  waitGroup,   \* the counter of wg
  partials,    \* worker -> its cell
  result       \* the reduced sum, or Nil

gradientVars ==
  <<count, workers, weights, spawned, running, waitGroup, partials, result>>

Least(i, j) == IF i < j THEN i ELSE j

\* Mutation: the division rounds down.
ChunkFloor(n, w) == n \div w

\* math.Ceil(n / w)
Chunk(n, w) == (n + w - 1) \div w

\* Worker w takes samples[start:end].
Start(w) == w * Chunk(count, workers)

\* Mutation: the last chunk is not clipped to the samples there are.
EndUnclipped(w) == Start(w) + Chunk(count, workers)

End(w) == Least(Start(w) + Chunk(count, workers), count)

\* Zero samples never get here: a node refuses an empty shard and phase 1 a
\* small dataset.
Clipped(asked, n) == IF Least(asked, n) <= 0 THEN 1 ELSE Least(asked, n)

Samples == 0..(count - 1)
Sum == [Samples -> Seq(Nat)]
NoSum == [i \in Samples |-> <<>>]
Add(s, t) == [i \in Samples |-> s[i] \o t[i]]
Nil == <<>>           \* the weights of a cell nobody wrote; no result yet
NotRunning == [next |-> 0, end |-> 0, sum |-> <<>>, live |-> FALSE]

\* Every variable has its type, and no goroutine is given a slice that goes
\* beyond the samples, which would panic.
TypeOK ==
  /\ count \in Nat
  /\ workers \in 0..count
  /\ weights \in Nat
  /\ spawned \in 0..workers
  /\ DOMAIN running = 0..(workers - 1)
  /\ \A w \in DOMAIN running : running[w].live =>
       running[w] \in [next : 0..count, end : 0..count, sum : Sum, live : {TRUE}]
  /\ waitGroup \in 0..workers
  /\ DOMAIN partials = 0..(workers - 1)
  /\ \A w \in DOMAIN partials : partials[w] # Nil => partials[w] \in Sum
  /\ result # Nil => result \in Sum

\* A call with n samples and w goroutines.
Begin(n, w) ==
  /\ count' = n
  /\ workers' = w
  /\ spawned' = 0
  /\ running' = [v \in 0..(w - 1) |-> NotRunning]
  /\ waitGroup' = 0
  /\ partials' = [v \in 0..(w - 1) |-> Nil]
  /\ result' = Nil

\* One turn of the caller's loop: a goroutine, or a zero cell when rounding up
\* has left this worker nothing.
Spawn ==
  /\ spawned < workers
  /\ IF Start(spawned) >= count
     THEN /\ partials' = [partials EXCEPT ![spawned] = NoSum]
          /\ UNCHANGED <<running, waitGroup>>
     ELSE /\ running' = [running EXCEPT ![spawned] =
                           [next |-> Start(spawned), end |-> End(spawned),
                            sum |-> NoSum, live |-> TRUE]]
          /\ waitGroup' = waitGroup + 1
          /\ UNCHANGED partials
  /\ spawned' = spawned + 1
  /\ UNCHANGED <<count, workers, weights, result>>

AddSample(w) ==
  /\ running[w].live
  /\ running[w].next < running[w].end
  /\ running' = [running EXCEPT
                   ![w].next = @ + 1,
                   ![w].sum[running[w].next] = Append(@, weights)]
  /\ UNCHANGED <<count, workers, weights, spawned, waitGroup, partials, result>>

\* partials[idx] = p and the deferred wg.Done.
Finish(w) ==
  /\ running[w].live
  /\ running[w].next >= running[w].end
  /\ partials' = [partials EXCEPT ![w] = running[w].sum]
  /\ running' = [running EXCEPT ![w] = NotRunning]
  /\ waitGroup' = waitGroup - 1
  /\ UNCHANGED <<count, workers, weights, spawned, result>>

\* The cells added up.  An unwritten cell holds no weights.
Total ==
  LET cell == [w \in DOMAIN partials |->
                 IF partials[w] = Nil THEN NoSum ELSE partials[w]]
  IN  FoldFunctionOnSet(Add, NoSum, cell, DOMAIN partials)

\* Mutation: the caller does not wait.
ReduceWithoutWaiting ==
  /\ spawned = workers /\ workers > 0
  /\ result = Nil
  /\ result' = Total
  /\ UNCHANGED <<count, workers, weights, spawned, running, waitGroup, partials>>

\* wg.Wait returns and the partial gradients are reduced.
Reduce ==
  /\ spawned = workers /\ workers > 0
  /\ waitGroup = 0
  /\ result = Nil
  /\ result' = Total
  /\ UNCHANGED <<count, workers, weights, spawned, running, waitGroup, partials>>

Goroutine(w) == AddSample(w) \/ Finish(w)

-----------------------------------------------------------------------------

\* The result counts every sample exactly once, scored with the weights the
\* caller's model has, whatever the number of workers and however the
\* goroutines interleave.
EverySampleOnce == result # Nil => result = [i \in Samples |-> <<weights>>]

\* The cells are read only when nobody writes them any more, and no sample is
\* in the hands of two goroutines.
NoRace ==
  /\ result # Nil => \A w \in 0..(workers - 1) :
       ~running[w].live /\ partials[w] # Nil
  /\ \A v, w \in 0..(workers - 1) :
       v # w /\ running[v].live /\ running[w].live =>
         running[v].end <= running[w].next \/ running[w].end <= running[v].next

=============================================================================
