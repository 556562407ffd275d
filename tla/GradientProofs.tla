--------------------------- MODULE GradientProofs ---------------------------
(***************************************************************************)
(* The training of phase 1, as pc3 runs it: what each pass of its          *)
(* goroutines computes, for every number of samples and workers.           *)
(*                                                                         *)
(* PassInv says for each worker that it waits, that it holds the sum of    *)
(* the samples of its chunk up to the next one, or that its cell holds the *)
(* whole chunk.  The chunks are disjoint and cover the samples, so the     *)
(* cells add up to every sample once.  TrainInv adds the iterations.       *)
(***************************************************************************)
EXTENDS Phase1, OperatorProofs

-----------------------------------------------------------------------------
(***************************************************************************)
(* Chunks, and what their cells add up to.                                 *)
(***************************************************************************)

\* The sum of worker w when it has added its samples below upTo.
Part(w, upTo) ==
  [i \in Fit!Samples |-> IF Fit!Start(w) <= i /\ i < upTo THEN <<weights>> ELSE <<>>]
\* Sample i is in the chunk of a worker in S; the sum of their whole chunks.
InSome(S, i) == \E w \in S : Fit!Start(w) <= i /\ i < Fit!End(w)
Parts(S) == [i \in Fit!Samples |-> IF InSome(S, i) THEN <<weights>> ELSE <<>>]

\* No sample is in two chunks.
Disjoint(S) == \A v, w \in S : v # w =>
  \A i \in Fit!Samples : ~(InSome({v}, i) /\ InSome({w}, i))

LEMMA AddOne ==
  ASSUME NEW S, Disjoint(S), NEW T \in SUBSET S, NEW w \in T
  PROVE  Fit!Add(Part(w, Fit!End(w)), Parts(T \ {w})) = Parts(T)
<1>0. <<weights>> \o <<>> = <<weights>> /\ <<>> \o <<weights>> = <<weights>>
      /\ <<>> \o <<>> = <<>>
  OBVIOUS
<1>1. ASSUME NEW i \in Fit!Samples
      PROVE  Part(w, Fit!End(w))[i] \o Parts(T \ {w})[i] = Parts(T)[i]
  <2>1. CASE InSome({w}, i)
    <3>1. ~InSome(T \ {w}, i)
      BY <1>1, <2>1 DEF Disjoint, InSome
    <3>2. InSome(T, i)
      BY <2>1 DEF InSome
    <3> QED
      BY <1>0, <1>1, <2>1, <3>1, <3>2 DEF Part, Parts, InSome
  <2>2. CASE ~InSome({w}, i)
    <3>1. InSome(T, i) <=> InSome(T \ {w}, i)
      BY <1>1, <2>2 DEF InSome
    <3> QED
      BY <1>0, <1>1, <2>2, <3>1 DEF Part, Parts, InSome
  <2> QED
    BY <2>1, <2>2
<1> QED
  BY <1>1 DEF Fit!Add, Parts

\* The fold adds the cells in an order it chooses; their sum does not depend
\* on it.
LEMMA FoldOfParts ==
  ASSUME NEW S, IsFiniteSet(S), Disjoint(S),
         NEW cell, \A w \in S : cell[w] = Part(w, Fit!End(w))
  PROVE  Fit!FoldFunctionOnSet(Fit!Add, Fit!NoSum, cell, S) = Parts(S)
<1> DEFINE x(T) == CHOOSE w \in T : TRUE
           Fold(g, T) == IF T = {} THEN Fit!NoSum
                         ELSE Fit!Add(cell[x(T)], g[T \ {x(T)}])
           G == [T \in SUBSET S |-> Parts(T)]
           iter == CHOOSE g : g = [T \in SUBSET S |-> Fold(g, T)]
<1>1. \A T \in SUBSET S : Parts(T) = Fold(G, T)
  <2> SUFFICES ASSUME NEW T \in SUBSET S
               PROVE  Parts(T) = Fold(G, T)
    OBVIOUS
  <2>1. CASE T = {}
    BY <2>1 DEF Parts, InSome, Fit!NoSum
  <2>2. CASE T # {}
    <3>1. x(T) \in T
      BY <2>2
    <3> HIDE DEF x
    <3>2. G[T \ {x(T)}] = Parts(T \ {x(T)})
      BY <3>1
    <3>3. cell[x(T)] = Part(x(T), Fit!End(x(T)))
      BY <3>1
    <3> QED
      BY <2>2, <3>1, <3>2, <3>3, AddOne
  <2> QED
    BY <2>1, <2>2
<1>2. G = [T \in SUBSET S |-> Fold(G, T)]
  <2> HIDE DEF Fold
  <2> QED
    BY <1>1
<1>3. iter = [T \in SUBSET S |-> Fold(iter, T)]
  <2> HIDE DEF Fold, G
  <2> QED
    BY <1>2
<1>4. \A T \in SUBSET S : iter[T] = Parts(T)
  <2> DEFINE Wrong == {T \in SUBSET S : iter[T] # Parts(T)}
  <2> SUFFICES ASSUME Wrong # {} PROVE FALSE
    OBVIOUS
  <2>1. PICK m \in Wrong : \A t \in Wrong : t \subseteq m => t = m
    <3>1. Wrong \subseteq SUBSET S
      OBVIOUS
    <3> HIDE DEF Wrong
    <3> QED
      BY <3>1, MinimalSubset
  <2> HIDE DEF iter
  <2>2. iter[m] = Fold(iter, m)
    BY <1>3, <2>1
  <2>3. Fold(iter, m) = Fold(G, m)
    <3>1. CASE m = {}
      BY <3>1
    <3>2. CASE m # {}
      <4>1. x(m) \in m
        BY <3>2
      <4> HIDE DEF x
      <4>2. iter[m \ {x(m)}] = Parts(m \ {x(m)})
        BY <2>1, <4>1
      <4>3. G[m \ {x(m)}] = Parts(m \ {x(m)})
        BY <2>1
      <4> QED
        BY <3>2, <4>2, <4>3
    <3> QED
      BY <3>1, <3>2
  <2>4. Parts(m) = Fold(G, m)
    BY <1>1, <2>1
  <2> QED
    BY <2>1, <2>2, <2>3, <2>4
<1>5. Fit!FoldFunctionOnSet(Fit!Add, Fit!NoSum, cell, S) = iter[S]
  BY DEF Fit!FoldFunctionOnSet, Fit!MapThenFoldSet
<1> QED
  BY <1>4, <1>5

\* A pass is under way.
Sized == count \in Nat \ {0} /\ workers \in 1..count

LEMMA ChunkIsPositive ==
  ASSUME Sized
  PROVE  /\ Fit!Chunk(count, workers) \in Nat \ {0}
         /\ count <= workers * Fit!Chunk(count, workers)
<1> DEFINE a == count + workers - 1
           q == a \div workers
<1>1. a \in Nat /\ workers \in Nat \ {0} /\ a >= workers
  BY DEF Sized
<1>2. q \in Nat /\ workers * q <= a /\ a < workers * q + workers
  <2> HIDE DEF a
  <2> QED
    BY <1>1, Division
<1>3. Fit!Chunk(count, workers) = q
  BY DEF Fit!Chunk
<1> HIDE DEF q
<1>4. workers * q \in Int
  BY <1>1, <1>2
<1>5. q # 0
  BY <1>1, <1>2
<1> QED
  BY <1>1, <1>2, <1>3, <1>4, <1>5 DEF Sized

LEMMA ChunksInOrder ==
  ASSUME Sized, NEW v \in 0..(workers - 1), NEW w \in 0..(workers - 1)
  PROVE  /\ Fit!Start(v) \in Nat /\ Fit!End(v) \in Nat
         /\ Fit!End(v) <= count
         /\ v < w => Fit!End(v) <= Fit!Start(w)
<1> DEFINE c == Fit!Chunk(count, workers)
<1>1. c \in Nat
  BY ChunkIsPositive
<1>2. /\ Fit!Start(v) = v * c /\ Fit!Start(w) = w * c
      /\ Fit!End(v) = Fit!Least(v * c + c, count)
  BY DEF Fit!Start, Fit!End
<1> HIDE DEF c
<1>3. v * c \in Nat
  BY <1>1 DEF Sized
<1>4. v < w => (v + 1) * c <= w * c
  BY <1>1 DEF Sized
<1>5. (v + 1) * c = v * c + c
  BY <1>1 DEF Sized
<1>6. w * c \in Nat
  BY <1>1 DEF Sized
<1> QED
  BY <1>1, <1>2, <1>3, <1>4, <1>5, <1>6 DEF Fit!Least, Sized

LEMMA ChunksAreApart == Sized => Disjoint(0..(workers - 1))
<1> SUFFICES ASSUME Sized
             PROVE  Disjoint(0..(workers - 1))
  OBVIOUS
<1> DEFINE W == 0..(workers - 1)
<1>1. ASSUME NEW v \in W, NEW w \in W, v < w, NEW i \in Fit!Samples
      PROVE  ~(InSome({v}, i) /\ InSome({w}, i))
  BY <1>1, ChunksInOrder DEF InSome, Fit!Samples, Sized
<1>2. \A v, w \in W : v # w => v < w \/ w < v
  BY DEF Sized
<1> QED
  BY <1>1, <1>2 DEF Disjoint

LEMMA ChunksCover ==
  ASSUME Sized, NEW i \in Fit!Samples
  PROVE  InSome(0..(workers - 1), i)
<1> DEFINE c == Fit!Chunk(count, workers)
           w == i \div c
<1>1. c \in Nat \ {0} /\ count <= workers * c /\ workers * c \in Int
  BY ChunkIsPositive DEF Sized
<1>2. i \in Nat /\ i < count
  BY DEF Fit!Samples, Sized
<1>3. w \in Nat /\ c * w <= i /\ i < c * w + c
  <2> HIDE DEF c
  <2> QED
    BY <1>1, <1>2, Division
<1>4. Fit!Start(w) = w * c /\ Fit!End(w) = Fit!Least(w * c + c, count)
  BY DEF Fit!Start, Fit!End
<1> HIDE DEF w, c
<1>5. w < workers
  <2> SUFFICES ASSUME w >= workers
               PROVE  FALSE
    BY <1>3 DEF Sized
  <2>1. c * w >= workers * c
    BY <1>1, <1>3 DEF Sized
  <2> QED
    BY <2>1, <1>1, <1>2, <1>3 DEF Sized
<1>6. Fit!Start(w) <= i /\ i < Fit!End(w)
  BY <1>1, <1>2, <1>3, <1>4 DEF Fit!Least, Sized
<1> QED
  BY <1>3, <1>5, <1>6 DEF InSome, Sized

-----------------------------------------------------------------------------

(***************************************************************************)
(* A pass.                                                                 *)
(***************************************************************************)

W == 0..(workers - 1)
Live == {w \in W : running[w].live}

\* A worker before its goroutine is started, while it adds, and when its cell
\* is written.
Waiting(w) ==
  w >= spawned /\ running[w] = Fit!NotRunning /\ partials[w] = Fit!Nil
Holding(w, k) ==
  [next |-> k, end |-> Fit!End(w), sum |-> Part(w, k), live |-> TRUE]
Adding(w) ==
  /\ w < spawned /\ partials[w] = Fit!Nil /\ Fit!Start(w) < count
  /\ running[w].next \in Fit!Start(w)..Fit!End(w)
  /\ running[w] = Holding(w, running[w].next)
Written(w) ==
  /\ w < spawned /\ running[w] = Fit!NotRunning
  /\ partials[w] = Part(w, Fit!End(w))

\* The counter of wg is the number of goroutines; a result is there only when
\* every cell is written.
PassInv ==
  /\ (count = 0 /\ workers = 0) \/ Sized
  /\ weights \in Nat
  /\ spawned \in 0..workers
  /\ running = [w \in W |-> running[w]]
  /\ partials = [w \in W |-> partials[w]]
  /\ \A w \in W : Waiting(w) \/ Adding(w) \/ Written(w)
  /\ waitGroup = Cardinality(Live)
  /\ result # Fit!Nil =>
       workers > 0 /\ (\A w \in W : Written(w)) /\ result = Parts(W)

LEMMA BeginPass ==
  ASSUME NEW n, NEW w, Fit!Begin(n, w), weights' \in Nat,
         (n = 0 /\ w = 0) \/ (n \in Nat \ {0} /\ w \in 1..n)
  PROVE  PassInv'
<1>1. count' = n /\ workers' = w /\ spawned' = 0 /\ result' = Fit!Nil
  BY DEF Fit!Begin
<1>2. /\ running' = [v \in W' |-> Fit!NotRunning]
      /\ partials' = [v \in W' |-> Fit!Nil]
  BY <1>1 DEF Fit!Begin, W
<1>3. \A v \in W' : Waiting(v)'
  BY <1>1, <1>2 DEF Waiting, W
<1>4. Live' = {}
  BY <1>2 DEF Live, Fit!NotRunning
<1>5. waitGroup' = Cardinality(Live')
  BY <1>4, FS_EmptySet DEF Fit!Begin
<1> QED
  BY <1>1, <1>2, <1>3, <1>5 DEF PassInv, Sized

LEMMA LiveIsFinite == PassInv => IsFiniteSet(Live) /\ IsFiniteSet(W)
<1> SUFFICES ASSUME PassInv
             PROVE  IsFiniteSet(Live) /\ IsFiniteSet(W)
  OBVIOUS
<1>1. workers - 1 \in Int
  BY DEF PassInv, Sized
<1>2. IsFiniteSet(W)
  BY <1>1, FS_Interval DEF W
<1> QED
  BY <1>2, FS_Subset DEF Live

LEMMA SameChunks ==
  ASSUME UNCHANGED <<count, workers, weights>>
  PROVE  /\ W' = W /\ Sized' = Sized
         /\ \A w, k :
              /\ Part(w, k)' = Part(w, k) /\ Holding(w, k)' = Holding(w, k)
              /\ Fit!Start(w)' = Fit!Start(w) /\ Fit!End(w)' = Fit!End(w)
BY DEF W, Sized, Holding, Part, Fit!Samples, Fit!Start, Fit!End, Fit!Chunk, Fit!Least

\* A step within the pass leaves a worker it does not touch as it was.
LEMMA OtherWorkers ==
  ASSUME PassInv, UNCHANGED <<count, workers, weights>>,
         spawned' \in {spawned, spawned + 1},
         NEW w \in W, spawned' # spawned => w # spawned,
         running'[w] = running[w], partials'[w] = partials[w]
  PROVE  Waiting(w)' \/ Adding(w)' \/ Written(w)'
<1>1. Waiting(w) \/ Adding(w) \/ Written(w)
  BY DEF PassInv
<1>2. spawned \in Nat /\ w \in Nat
  BY DEF PassInv, Sized, W
<1>3. CASE Waiting(w)
  BY <1>2, <1>3 DEF Waiting, Fit!NotRunning, Fit!Nil
<1>4. CASE Adding(w)
  BY <1>2, <1>4, SameChunks DEF Adding, Fit!Nil
<1>5. CASE Written(w)
  BY <1>2, <1>5, SameChunks DEF Written, Fit!NotRunning
<1> QED
  BY <1>1, <1>3, <1>4, <1>5

LEMMA SpawnStep == PassInv /\ Fit!Spawn => PassInv'
<1> SUFFICES ASSUME PassInv, Fit!Spawn
             PROVE  PassInv'
  OBVIOUS
<1>s. PICK s : s = spawned
  OBVIOUS
<1>1. /\ Sized /\ s \in W /\ s \in Nat /\ weights \in Nat /\ workers \in Nat
      /\ spawned' = s + 1 /\ UNCHANGED <<count, workers, weights, result>>
  BY <1>s DEF PassInv, Fit!Spawn, Sized, W
<1>2. Waiting(s) /\ result = Fit!Nil
  <2>1. ~Adding(s) /\ ~Written(s)
    BY <1>1, <1>s DEF Adding, Written
  <2> QED
    BY <1>1, <2>1 DEF PassInv
<1>a. DOMAIN running = W /\ DOMAIN partials = W
  BY DEF PassInv
<1>3. W' = W /\ Sized' /\ spawned' \in 0..workers'
  BY <1>1 DEF W, Sized
<1>4. \A w, k : /\ Part(w, k)' = Part(w, k) /\ Holding(w, k)' = Holding(w, k)
                /\ Fit!Start(w)' = Fit!Start(w) /\ Fit!End(w)' = Fit!End(w)
  BY <1>1, SameChunks
<1>5. CASE Fit!Start(s) >= count
  <2>1. partials' = [partials EXCEPT ![s] = Fit!NoSum] /\ UNCHANGED <<running, waitGroup>>
    BY <1>5, <1>s DEF Fit!Spawn
  <2>2. Fit!NoSum = Part(s, Fit!End(s))
    BY <1>1, <1>5, ChunksInOrder DEF W, Part, Fit!NoSum, Fit!Samples, Sized
  <2>3. Written(s)'
    <3>1. partials'[s] = Part(s, Fit!End(s)) /\ running'[s] = Fit!NotRunning
      BY <1>1, <1>2, <1>a, <2>1, <2>2 DEF Waiting
    <3>2. Fit!NotRunning' = Fit!NotRunning
      BY DEF Fit!NotRunning
    <3> QED
      BY <1>1, <1>4, <3>1, <3>2 DEF Written
  <2>4. \A w \in W : w # s => Waiting(w)' \/ Adding(w)' \/ Written(w)'
    BY <1>s, <1>1, <1>a, <2>1, OtherWorkers
  <2>5. Live' = Live
    BY <1>3, <2>1 DEF Live
  <2>6. partials' = [w \in W |-> partials'[w]]
    BY <2>1 DEF PassInv
  <2> QED
    BY <1>1, <1>2, <1>3, <2>1, <2>3, <2>4, <2>5, <2>6 DEF PassInv, Fit!Nil
<1>6. CASE ~(Fit!Start(s) >= count)
  <2> DEFINE new == [next |-> Fit!Start(s), end |-> Fit!End(s),
                     sum |-> Fit!NoSum, live |-> TRUE]
  <2>1. /\ running' = [running EXCEPT ![s] = new]
        /\ waitGroup' = waitGroup + 1 /\ UNCHANGED partials
    BY <1>6, <1>s DEF Fit!Spawn
  <2>2. Fit!NoSum = Part(s, Fit!Start(s))
    BY <1>1, ChunksInOrder DEF W, Part, Fit!NoSum, Fit!Samples, Sized
  <2>3. Fit!Start(s) \in Fit!Start(s)..Fit!End(s) /\ Fit!Start(s) < count
    BY <1>1, <1>6, ChunkIsPositive, ChunksInOrder DEF Sized, W, Fit!End, Fit!Least
  <2>4. Adding(s)'
    <3>1. running'[s] = Holding(s, Fit!Start(s)) /\ running'[s].next = Fit!Start(s)
      BY <1>1, <1>a, <2>1, <2>2 DEF Holding
    <3>2. partials'[s] = Fit!Nil
      BY <1>2, <2>1 DEF Waiting
    <3> QED
      BY <1>1, <1>4, <2>3, <3>1, <3>2 DEF Adding, Fit!Nil
  <2>5. \A w \in W : w # s => Waiting(w)' \/ Adding(w)' \/ Written(w)'
    BY <1>s, <1>1, <1>a, <2>1, OtherWorkers
  <2>6. Live' = Live \cup {s} /\ s \notin Live
    BY <1>1, <1>2, <1>3, <2>1 DEF Live, Waiting, Fit!NotRunning, PassInv
  <2>7. waitGroup' = Cardinality(Live')
    BY <2>1, <2>6, LiveIsFinite, FS_AddElement DEF PassInv
  <2>8. running' = [w \in W |-> running'[w]]
    BY <2>1 DEF PassInv
  <2> QED
    BY <1>1, <1>2, <1>3, <2>1, <2>4, <2>5, <2>7, <2>8 DEF PassInv, Fit!Nil
<1> QED
  BY <1>5, <1>6

LEMMA LiveWorker ==
  ASSUME PassInv, NEW w \in W, running[w].live
  PROVE  Adding(w) /\ Sized /\ result = Fit!Nil
<1>1. Adding(w)
  BY DEF PassInv, Waiting, Written, Fit!NotRunning
<1>2. ~Written(w)
  BY DEF Written, Fit!NotRunning
<1>3. Sized
  BY DEF PassInv, W
<1> QED
  BY <1>1, <1>2, <1>3 DEF PassInv

LEMMA AddToHolding ==
  ASSUME NEW w, NEW k, NEW h, h = Holding(w, k), NEW sum,
         NEW g, g = [h EXCEPT !.next = @ + 1, !.sum = sum]
  PROVE  g = [next |-> k + 1, end |-> Fit!End(w), sum |-> sum, live |-> TRUE]
<1>1. /\ h.next = k
      /\ g = [x \in DOMAIN h |-> g[x]]
      /\ DOMAIN h = {"next", "end", "sum", "live"}
  BY DEF Holding
<1>2. g.next = k + 1 /\ g.end = Fit!End(w) /\ g.sum = sum /\ g.live = TRUE
  BY DEF Holding
<1> QED
  BY <1>1, <1>2

LEMMA AddStep ==
  ASSUME PassInv, NEW w \in W, Fit!AddSample(w)
  PROVE  PassInv'
<1>1. /\ running[w].live /\ running[w].next < running[w].end
      /\ UNCHANGED <<count, workers, weights, spawned, waitGroup, partials, result>>
  BY DEF Fit!AddSample
<1>2. Adding(w) /\ Sized /\ result = Fit!Nil
  BY <1>1, LiveWorker
<1>3. /\ W' = W /\ Sized' = Sized
      /\ \A k : Holding(w, k)' = Holding(w, k)
      /\ Fit!Start(w)' = Fit!Start(w) /\ Fit!End(w)' = Fit!End(w)
  BY <1>1, SameChunks
<1>4. DOMAIN running = W /\ spawned \in Nat
  BY DEF PassInv, Sized
<1>5. PICK k : k = running[w].next
  OBVIOUS
<1>6. /\ running[w] = Holding(w, k) /\ k \in Fit!Start(w)..Fit!End(w)
      /\ k < Fit!End(w)
  BY <1>1, <1>2, <1>5 DEF Adding, Holding
<1>7. Fit!Start(w) \in Nat /\ Fit!End(w) \in Nat /\ Fit!End(w) <= count
  BY <1>2, ChunksInOrder DEF W
<1>8. k \in Fit!Samples /\ k \in Nat
  BY <1>2, <1>6, <1>7 DEF Fit!Samples, Sized
<1>9. [Part(w, k) EXCEPT ![k] = Append(Part(w, k)[k], weights)] = Part(w, k + 1)
  <2>1. Part(w, k)[k] = <<>>
    BY <1>8 DEF Part
  <2>2. Append(<<>>, weights) = <<weights>>
    OBVIOUS
  <2>3. \A i \in Fit!Samples : i # k => (i < k <=> i < k + 1)
    BY <1>8 DEF Fit!Samples
  <2>4. Fit!Start(w) <= k /\ k < k + 1
    BY <1>6, <1>7, <1>8
  <2> QED
    BY <1>8, <2>1, <2>2, <2>3, <2>4 DEF Part
<1>10. running' = [running EXCEPT ![w] = Holding(w, k + 1)]
  <2>1. running' = [running EXCEPT ![w] = [running[w] EXCEPT !.next = @ + 1,
                      !.sum = [running[w].sum EXCEPT ![k] = Append(@, weights)]]]
    BY <1>5 DEF Fit!AddSample
  <2>2. [running[w] EXCEPT !.next = @ + 1, !.sum = Part(w, k + 1)] = Holding(w, k + 1)
    BY <1>6, AddToHolding DEF Holding
  <2>3. Holding(w, k).sum = Part(w, k)
    BY DEF Holding
  <2> QED
    BY <1>6, <1>9, <2>1, <2>2, <2>3
<1>11. Adding(w)'
  <2>1. running'[w] = Holding(w, k + 1) /\ running'[w].next = k + 1
    BY <1>4, <1>10 DEF Holding
  <2>2. k + 1 \in Fit!Start(w)..Fit!End(w)
    BY <1>6, <1>7, <1>8
  <2> QED
    BY <1>1, <1>2, <1>3, <2>1, <2>2 DEF Adding, Fit!Nil
<1>12. \A v \in W : v # w => Waiting(v)' \/ Adding(v)' \/ Written(v)'
  BY <1>1, <1>4, <1>10, OtherWorkers
<1>13. Live' = Live
  BY <1>1, <1>3, <1>4, <1>10 DEF Live, Holding
<1>14. running' = [v \in W |-> running'[v]]
  BY <1>10 DEF PassInv
<1> QED
  BY <1>1, <1>2, <1>3, <1>11, <1>12, <1>13, <1>14 DEF PassInv, Fit!Nil

LEMMA FinishStep ==
  ASSUME PassInv, NEW w \in W, Fit!Finish(w)
  PROVE  PassInv'
<1>1. /\ running[w].live /\ running[w].next >= running[w].end
      /\ partials' = [partials EXCEPT ![w] = running[w].sum]
      /\ running' = [running EXCEPT ![w] = Fit!NotRunning]
      /\ waitGroup' = waitGroup - 1
      /\ UNCHANGED <<count, workers, weights, spawned, result>>
  BY DEF Fit!Finish
<1>2. Adding(w) /\ Sized /\ result = Fit!Nil
  BY <1>1, LiveWorker
<1>3. /\ W' = W /\ Sized' = Sized
      /\ \A k : Part(w, k)' = Part(w, k)
      /\ Fit!End(w)' = Fit!End(w)
  BY <1>1, SameChunks
<1>4. DOMAIN running = W /\ DOMAIN partials = W /\ spawned \in Nat
  BY DEF PassInv, Sized
<1>5. Fit!Start(w) \in Nat /\ Fit!End(w) \in Nat
  BY <1>2, ChunksInOrder DEF W
<1>6. running[w].sum = Part(w, Fit!End(w))
  BY <1>1, <1>2, <1>5 DEF Adding, Holding
<1>7. Written(w)'
  <2>1. partials'[w] = Part(w, Fit!End(w)) /\ running'[w] = Fit!NotRunning
    BY <1>1, <1>4, <1>6
  <2> QED
    BY <1>1, <1>2, <1>3, <2>1 DEF Written, Adding, Fit!NotRunning
<1>8. \A v \in W : v # w => Waiting(v)' \/ Adding(v)' \/ Written(v)'
  BY <1>1, <1>4, OtherWorkers
<1>9. w \in Live /\ Live' = Live \ {w}
  BY <1>1, <1>3, <1>4 DEF Live, Fit!NotRunning
<1>10. waitGroup' = Cardinality(Live')
  BY <1>1, <1>9, LiveIsFinite, FS_RemoveElement DEF PassInv
<1>11. running' = [v \in W |-> running'[v]] /\ partials' = [v \in W |-> partials'[v]]
  BY <1>1 DEF PassInv
<1> QED
  BY <1>1, <1>2, <1>3, <1>7, <1>8, <1>10, <1>11 DEF PassInv, Fit!Nil

\* A cell that was written is not empty.
LEMMA WrittenIsNotNil ==
  ASSUME Sized, NEW w, NEW k
  PROVE  Part(w, k) # Fit!Nil
<1>1. 0 \in DOMAIN Part(w, k)
  BY DEF Part, Fit!Samples, Sized
<1> QED
  BY <1>1 DEF Fit!Nil

LEMMA ReduceStep ==
  ASSUME PassInv, Fit!Reduce
  PROVE  PassInv'
<1>1. /\ spawned = workers /\ workers > 0 /\ waitGroup = 0 /\ result' = Fit!Total
      /\ UNCHANGED <<count, workers, weights, spawned, running, waitGroup, partials>>
  BY DEF Fit!Reduce
<1>2. Sized
  BY <1>1 DEF PassInv
<1>3. Live = {}
  BY <1>1, LiveIsFinite, FS_EmptySet DEF PassInv
<1>4. \A w \in W : Written(w)
  <2> SUFFICES ASSUME NEW w \in W
               PROVE  Written(w)
    OBVIOUS
  <2>1. ~Waiting(w)
    BY <1>1, <1>2 DEF Waiting, W, Sized
  <2>2. ~Adding(w)
    BY <1>3 DEF Live, Adding, Holding
  <2> QED
    BY <2>1, <2>2 DEF PassInv
<1>5. Fit!Total = Parts(W)
  <2> DEFINE cell == [w \in DOMAIN partials |->
                        IF partials[w] = Fit!Nil THEN Fit!NoSum ELSE partials[w]]
  <2>1. DOMAIN partials = W
    BY DEF PassInv
  <2>2. \A w \in W : cell[w] = Part(w, Fit!End(w))
    BY <1>2, <1>4, <2>1, WrittenIsNotNil DEF Written
  <2>3. Fit!Total = Fit!FoldFunctionOnSet(Fit!Add, Fit!NoSum, cell, W)
    BY <2>1 DEF Fit!Total
  <2> HIDE DEF cell
  <2>4. IsFiniteSet(W) /\ Disjoint(W)
    BY <1>2, LiveIsFinite, ChunksAreApart DEF W
  <2> QED
    BY <2>2, <2>3, <2>4, FoldOfParts
<1>6. W' = W /\ Sized' /\ Parts(W)' = Parts(W)
  BY <1>1, <1>2, SameChunks
     DEF Parts, InSome, Fit!Samples, Fit!Start, Fit!End, Fit!Chunk, Fit!Least
<1>7. \A w \in W : Written(w)'
  BY <1>1, <1>4, SameChunks DEF Written, Fit!NotRunning
<1>8. Live' = Live
  BY <1>1, <1>6 DEF Live
<1>9. result' = Parts(W)'
  BY <1>1, <1>5, <1>6
<1> QED
  BY <1>1, <1>2, <1>6, <1>7, <1>8, <1>9 DEF PassInv, Fit!Nil

-----------------------------------------------------------------------------

(***************************************************************************)
(* The iterations.                                                         *)
(***************************************************************************)

\* The k-th loss of the history, from 1.
Curve(k, h) ==
  /\ h.iteration = k - 1
  /\ \A i \in DOMAIN h.loss : h.loss[i] = <<IF k = 1 THEN 0 ELSE k - 2>>

Losses == [iteration : Nat, loss : UNION {[0..(n - 1) -> Seq(Nat)] : n \in Nat}]

\* Before pass p the weights have been updated p - 1 times, and the history has
\* p losses.
TrainInv ==
  /\ PassInv
  /\ iterations \in Nat /\ pass \in 0..(iterations + 1)
  /\ iterations = 0 => pass = 0
  /\ iterations = 0 \/ pass = iterations + 1 => count = 0
  /\ weights = IF pass = 0 THEN 0 ELSE pass - 1
  /\ history \in Seq(Losses) /\ Len(history) = pass
  /\ \A k \in 1..pass : Curve(k, history[k])

LEMMA ResultOfPass ==
  ASSUME PassInv, result # Fit!Nil
  PROVE  /\ Sized
         /\ result = [i \in Fit!Samples |-> <<weights>>]
         /\ result \in [0..(count - 1) -> Seq(Nat)]
<1>1. Sized /\ result = Parts(W) /\ weights \in Nat
  BY DEF PassInv
<1>2. result = [i \in Fit!Samples |-> <<weights>>]
  BY <1>1, ChunksCover DEF Parts, W
<1>3. <<weights>> \in Seq(Nat)
  BY <1>1
<1> QED
  BY <1>1, <1>2, <1>3 DEF Fit!Samples

LEMMA TrainInit == Fit!Idle => TrainInv
<1> SUFFICES ASSUME Fit!Idle
             PROVE  TrainInv
  OBVIOUS
<1>1. W = {} /\ Live = {}
  BY DEF Fit!Idle, W, Live
<1>2. 0..-1 = {}
  OBVIOUS
<1>3. PassInv
  BY <1>1, <1>2, FS_EmptySet DEF Fit!Idle, PassInv
<1>4. history \in Seq(Losses) /\ Len(history) = 0
  BY DEF Fit!Idle
<1> QED
  BY <1>3, <1>4 DEF Fit!Idle, TrainInv

LEMMA TrainCall ==
  ASSUME TrainInv, NEW n \in Nat \ {0}, NEW asked \in Nat \ {0},
         NEW its \in Int, Fit!Call(n, asked, its)
  PROVE  TrainInv'
<1>1. Fit!Clipped(asked, n) \in 1..n
  BY DEF Fit!Clipped, Fit!Least
<1>2. /\ Fit!Begin(n, Fit!Clipped(asked, n))
      /\ weights' = 0 /\ pass' = 0 /\ history' = <<>>
      /\ iterations' = IF its <= 0 THEN DefaultIterations ELSE its
  BY DEF Fit!Call
<1>3. PassInv'
  BY <1>1, <1>2, BeginPass
<1>4. iterations' \in Nat \ {0}
  BY <1>2, Phase1Assumption
<1>5. history' \in Seq(Losses) /\ Len(history') = 0
  BY <1>2
<1> QED
  BY <1>2, <1>3, <1>4, <1>5 DEF TrainInv

LEMMA TrainEndPass ==
  ASSUME TrainInv, Fit!EndPass
  PROVE  TrainInv'
<1> DEFINE entry == [iteration |-> pass, loss |-> result]
<1>1. /\ result # Fit!Nil
      /\ history' = Append(history, entry)
      /\ weights' = IF pass = 0 THEN weights ELSE weights + 1
      /\ pass' = pass + 1 /\ iterations' = iterations
      /\ IF pass < iterations THEN Fit!Begin(count, workers) ELSE Fit!Begin(0, 0)
  BY DEF Fit!EndPass
<1>2. /\ Sized
      /\ result = [i \in Fit!Samples |-> <<weights>>]
      /\ result \in [0..(count - 1) -> Seq(Nat)]
  BY <1>1, ResultOfPass DEF TrainInv
<1>3. iterations # 0 /\ pass \in 0..iterations /\ iterations \in Nat
  BY <1>2 DEF Sized, TrainInv
<1>4. weights = IF pass = 0 THEN 0 ELSE pass - 1
  BY DEF TrainInv
<1>5. weights' = (IF pass' = 0 THEN 0 ELSE pass' - 1) /\ weights' \in Nat
  BY <1>1, <1>3, <1>4
<1>6. PassInv'
  <2>1. CASE pass < iterations
    BY <1>1, <1>2, <1>5, <2>1, BeginPass DEF Sized
  <2>2. CASE ~(pass < iterations)
    BY <1>1, <1>5, <2>2, BeginPass
  <2> QED
    BY <2>1, <2>2
<1>7. pass' = iterations' + 1 => count' = 0
  BY <1>1, <1>3 DEF Fit!Begin
<1>8. entry \in Losses
  BY <1>2, <1>3 DEF Losses, Sized
<1>9. history \in Seq(Losses) /\ Len(history) = pass
  BY DEF TrainInv
<1>10. Curve(pass + 1, entry)
  BY <1>2, <1>3, <1>4 DEF Curve
<1> HIDE DEF entry
<1>11. history' \in Seq(Losses) /\ Len(history') = pass'
  BY <1>1, <1>8, <1>9
<1>12. \A k \in 1..pass' : Curve(k, history'[k])
  <2> SUFFICES ASSUME NEW k \in 1..pass'
               PROVE  Curve(k, history'[k])
    OBVIOUS
  <2>1. CASE k = pass + 1
    BY <1>1, <1>8, <1>9, <1>10, <2>1
  <2>2. CASE k # pass + 1
    <3>1. k \in 1..pass
      BY <1>1, <1>3, <2>2
    <3>2. history'[k] = history[k]
      BY <1>1, <1>8, <1>9, <3>1
    <3> QED
      BY <3>1, <3>2 DEF TrainInv
  <2> QED
    BY <2>1, <2>2
<1>13. \A k \in 1..pass' : Curve(k, history[k])'
  BY <1>12 DEF Curve
<1> QED
  BY <1>1, <1>3, <1>5, <1>6, <1>7, <1>11, <1>13 DEF TrainInv

LEMMA TrainForget ==
  ASSUME TrainInv, Fit!Forget
  PROVE  TrainInv'
<1>1. /\ weights' = 0 /\ iterations' = 0 /\ pass' = 0 /\ history' = <<>>
      /\ UNCHANGED <<count, workers, spawned, running, waitGroup, partials, result>>
  BY DEF Fit!Forget
<1>2. count = 0 /\ workers = 0
  BY DEF Fit!Forget, Fit!Returned, TrainInv, PassInv, Sized
<1>3. W = {} /\ W' = {} /\ Live = {} /\ Live' = {}
  BY <1>1, <1>2 DEF W, Live
<1>4. PassInv'
  BY <1>1, <1>2, <1>3 DEF TrainInv, PassInv, Sized, Fit!Nil
<1>5. history' \in Seq(Losses) /\ Len(history') = 0
  BY <1>1
<1> QED
  BY <1>1, <1>2, <1>4, <1>5 DEF TrainInv

\* A step within a pass.
LEMMA TrainWithin ==
  ASSUME TrainInv, PassInv', UNCHANGED <<count, weights, iterations, pass, history>>
  PROVE  TrainInv'
BY DEF TrainInv, Curve

LEMMA TrainCaller ==
  ASSUME TrainInv, Fit!Caller
  PROVE  TrainInv'
<1>1. CASE Fit!Spawn /\ UNCHANGED <<iterations, pass, history>>
  <2>1. PassInv' /\ UNCHANGED <<count, weights>>
    BY <1>1, SpawnStep DEF TrainInv, Fit!Spawn
  <2> QED
    BY <1>1, <2>1, TrainWithin
<1>2. CASE Fit!Reduce /\ UNCHANGED <<iterations, pass, history>>
  <2>1. PassInv' /\ UNCHANGED <<count, weights>>
    BY <1>2, ReduceStep DEF TrainInv, Fit!Reduce
  <2> QED
    BY <1>2, <2>1, TrainWithin
<1> QED
  BY <1>1, <1>2, TrainEndPass DEF Fit!Caller

LEMMA TrainWorker ==
  ASSUME TrainInv, NEW w \in Nat, Fit!Worker(w)
  PROVE  TrainInv'
<1>1. w \in W
  BY DEF Fit!Worker, W, TrainInv, PassInv, Sized
<1>2. CASE Fit!AddSample(w)
  <2>1. PassInv' /\ UNCHANGED <<count, weights>>
    BY <1>1, <1>2, AddStep DEF TrainInv, Fit!AddSample
  <2> QED
    BY <2>1, TrainWithin DEF Fit!Worker
<1>3. CASE Fit!Finish(w)
  <2>1. PassInv' /\ UNCHANGED <<count, weights>>
    BY <1>1, <1>3, FinishStep DEF TrainInv, Fit!Finish
  <2> QED
    BY <2>1, TrainWithin DEF Fit!Worker
<1> QED
  BY <1>2, <1>3 DEF Fit!Worker, Fit!Goroutine

LEMMA TrainSame ==
  ASSUME TrainInv, UNCHANGED fitVars
  PROVE  TrainInv'
<1>1. /\ UNCHANGED <<count, workers, weights, spawned, running, waitGroup, partials, result>>
      /\ UNCHANGED <<iterations, pass, history>>
  BY DEF fitVars
<1>2. W' = W /\ Sized' = Sized /\ Live' = Live
  BY <1>1 DEF W, Sized, Live
<1>3. \A w \in W : Waiting(w)' \/ Adding(w)' \/ Written(w)'
  BY <1>1, OtherWorkers DEF TrainInv, PassInv
<1>4. result # Fit!Nil => (\A w \in W : Written(w)') /\ Parts(W)' = Parts(W)
  BY <1>1, <1>2, SameChunks
     DEF TrainInv, PassInv, Written, Fit!NotRunning, Parts, InSome, Fit!Samples,
         Fit!Start, Fit!End, Fit!Chunk, Fit!Least
<1>5. PassInv'
  BY <1>1, <1>2, <1>3, <1>4 DEF TrainInv, PassInv, Fit!Nil
<1> QED
  BY <1>1, <1>5, TrainWithin

-----------------------------------------------------------------------------
(***************************************************************************)
(* What the invariant says of a training.                                  *)
(***************************************************************************)

\* A chunk and what is added up of it are within the samples.
LEMMA ChunkTypes ==
  ASSUME PassInv, NEW w \in W
  PROVE  /\ Fit!End(w) \in 0..count /\ Part(w, Fit!End(w)) \in Fit!Sum
         /\ \A k \in Fit!Start(w)..Fit!End(w) : k \in 0..count /\ Part(w, k) \in Fit!Sum
<1>1. Sized /\ weights \in Nat
  BY DEF PassInv, W
<1>2. Fit!Start(w) \in Nat /\ Fit!End(w) \in Nat /\ Fit!End(w) <= count
  BY <1>1, ChunksInOrder DEF W
<1>3. <<weights>> \in Seq(Nat) /\ <<>> \in Seq(Nat)
  BY <1>1
<1>4. \A k : Part(w, k) \in Fit!Sum
  BY <1>3 DEF Part, Fit!Sum
<1> QED
  BY <1>1, <1>2, <1>4 DEF Sized

LEMMA TrainTypes == TrainInv => Fit!TrainTypeOK
<1> SUFFICES ASSUME TrainInv
             PROVE  Fit!TrainTypeOK
  OBVIOUS
<1>1. PassInv
  BY DEF TrainInv
<1>2. count \in Nat /\ workers \in 0..count
  BY <1>1 DEF PassInv, Sized
<1>3. DOMAIN running = 0..(workers - 1) /\ DOMAIN partials = 0..(workers - 1)
  BY <1>1 DEF PassInv, W
<1>4. ASSUME NEW w \in W, running[w].live
      PROVE  running[w] \in [next : 0..count, end : 0..count, sum : Fit!Sum,
                             live : {TRUE}]
  <2>1. Adding(w)
    BY <1>1, <1>4 DEF PassInv, Waiting, Written, Fit!NotRunning
  <2>2. PICK k : k = running[w].next
    OBVIOUS
  <2>3. k \in Fit!Start(w)..Fit!End(w) /\ running[w] = Holding(w, k)
    BY <2>1, <2>2 DEF Adding
  <2>4. k \in 0..count /\ Part(w, k) \in Fit!Sum /\ Fit!End(w) \in 0..count
    BY <1>1, <2>3, ChunkTypes
  <2> QED
    BY <2>3, <2>4 DEF Holding
<1>5. ASSUME NEW w \in W, partials[w] # Fit!Nil
      PROVE  partials[w] \in Fit!Sum
  BY <1>1, <1>5, ChunkTypes DEF PassInv, Waiting, Adding, Written
<1>6. waitGroup \in 0..workers
  <2>1. IsFiniteSet(W) /\ Cardinality(W) = workers
    BY <1>2, FS_Interval DEF W
  <2>2. Live \in SUBSET W
    BY DEF Live
  <2>3. Cardinality(Live) \in Nat /\ Cardinality(Live) <= Cardinality(W)
    BY <2>1, <2>2, FS_Subset, FS_CardinalityType
  <2> QED
    BY <1>1, <1>2, <2>1, <2>3 DEF PassInv
<1>7. result # Fit!Nil => result \in Fit!Sum
  BY <1>1, ResultOfPass DEF Fit!Sum, Fit!Samples
<1>8. Fit!TypeOK
  BY <1>1, <1>2, <1>3, <1>4, <1>5, <1>6, <1>7 DEF Fit!TypeOK, PassInv, W
<1> QED
  BY <1>8 DEF Fit!TrainTypeOK, TrainInv

LEMMA TrainSums == TrainInv => Fit!EverySampleOnce
BY ResultOfPass DEF TrainInv, Fit!EverySampleOnce

LEMMA TrainApart == TrainInv => Fit!NoRace
<1> SUFFICES ASSUME TrainInv
             PROVE  Fit!NoRace
  OBVIOUS
<1>1. PassInv
  BY DEF TrainInv
<1>2. ASSUME result # Fit!Nil, NEW w \in W
      PROVE  ~running[w].live /\ partials[w] # Fit!Nil
  <2>1. Sized /\ Written(w)
    BY <1>1, <1>2, ResultOfPass DEF PassInv
  <2> QED
    BY <2>1, WrittenIsNotNil DEF Written, Fit!NotRunning
<1>3. ASSUME NEW v \in W, NEW w \in W, v # w, running[v].live, running[w].live
      PROVE  running[v].end <= running[w].next \/ running[w].end <= running[v].next
  <2>1. Adding(v) /\ Adding(w)
    BY <1>1, <1>3 DEF PassInv, Waiting, Written, Fit!NotRunning
  <2>2. /\ running[v].next >= Fit!Start(v) /\ running[v].end = Fit!End(v)
        /\ running[w].next >= Fit!Start(w) /\ running[w].end = Fit!End(w)
        /\ running[v].next \in Int /\ running[w].next \in Int
    BY <2>1 DEF Adding, Holding
  <2>3. Sized /\ (v < w \/ w < v)
    BY <1>1, <1>3 DEF PassInv, Sized, W
  <2>4. /\ Fit!Start(v) \in Nat /\ Fit!End(v) \in Nat
        /\ Fit!Start(w) \in Nat /\ Fit!End(w) \in Nat
        /\ v < w => Fit!End(v) <= Fit!Start(w)
        /\ w < v => Fit!End(w) <= Fit!Start(v)
    BY <2>3, ChunksInOrder DEF W
  <2> QED
    BY <2>2, <2>3, <2>4
<1> QED
  BY <1>2, <1>3 DEF Fit!NoRace, W

LEMMA TrainLosses == TrainInv => Fit!LossCurve
<1> SUFFICES ASSUME TrainInv, Fit!Returned
             PROVE  /\ weights = iterations
                    /\ Len(history) = iterations + 1
                    /\ \A k \in 0..iterations :
                         /\ history[k + 1].iteration = k
                         /\ \A i \in DOMAIN history[k + 1].loss :
                              history[k + 1].loss[i] = <<IF k = 0 THEN 0 ELSE k - 1>>
  BY DEF Fit!LossCurve
<1>1. /\ iterations \in Nat /\ pass = iterations + 1 /\ iterations > 0
      /\ weights = pass - 1 /\ Len(history) = pass
      /\ \A k \in 1..pass : Curve(k, history[k])
  BY DEF TrainInv, Fit!Returned
<1>2. ASSUME NEW k \in 0..iterations
      PROVE  /\ history[k + 1].iteration = k
             /\ \A i \in DOMAIN history[k + 1].loss :
                  history[k + 1].loss[i] = <<IF k = 0 THEN 0 ELSE k - 1>>
  <2>1. Curve(k + 1, history[k + 1])
    BY <1>1
  <2>2. k + 1 - 1 = k /\ (k + 1 = 1 <=> k = 0) /\ k + 1 - 2 = k - 1
    OBVIOUS
  <2> QED
    BY <2>1, <2>2 DEF Curve
<1>3. weights = iterations /\ Len(history) = iterations + 1
  BY <1>1
<1> QED
  BY <1>2, <1>3, Zenon

=============================================================================
