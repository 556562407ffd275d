-------------------------- MODULE OperatorProofs ---------------------------
(***************************************************************************)
(* Facts about the operators of the models: folds, sorted order, sums and  *)
(* the split of the samples.                                               *)
(*                                                                         *)
(* The folds of the community modules are recursive functions on the       *)
(* subsets of a finite set, each subset losing one chosen element at a     *)
(* time.  What holds of them is shown by a minimal counterexample.         *)
(***************************************************************************)
EXTENDS Split, Sort, Sums, FiniteSetsExt, FiniteSetTheorems, SequenceTheorems,
        TLAPS

\* Induction over subsets, as a minimal counterexample.
LEMMA MinimalSubset ==
  ASSUME NEW S, IsFiniteSet(S), NEW T, T \subseteq SUBSET S, T # {}
  PROVE  \E m \in T : \A t \in T : t \subseteq m => t = m
<1> DEFINE R == StrictSubsetOrdering(S)
<1>1. IsWellFoundedOn(R, FiniteSubsetsOf(S))
  BY FS_StrictSubsetOrderingWellFounded
<1>2. FiniteSubsetsOf(S) = SUBSET S
  BY FS_FiniteSubsetsOfFinite
<1>3. \E m \in T : \A t \in T : <<t, m>> \notin R
  <2> HIDE DEF R
  <2> QED
    BY <1>1, <1>2, WFMin
<1> QED
  BY <1>3 DEF StrictSubsetOrdering

\* g, on the subsets of T, starts at base and goes on by step, which is given
\* the subset and the value without the element that pick chooses from it.
Solves(g, T, V, base, step, pick) ==
  /\ g \in [SUBSET T -> V]
  /\ \A U \in SUBSET T :
       g[U] = IF U = {} THEN base ELSE step[U][g[U \ {pick[U]}]]

LEMMA SolutionsAgree ==
  ASSUME NEW S, IsFiniteSet(S), NEW V, NEW base, NEW step, NEW pick,
         \A U \in SUBSET S : U # {} => pick[U] \in U,
         NEW T \in SUBSET S, NEW g, Solves(g, T, V, base, step, pick),
         NEW U \in SUBSET S, NEW h, Solves(h, U, V, base, step, pick),
         NEW A \in SUBSET S, A \subseteq T, A \subseteq U
  PROVE  g[A] = h[A]
<1> DEFINE Wrong == {B \in SUBSET A : g[B] # h[B]}
<1> SUFFICES ASSUME Wrong # {}
             PROVE  FALSE
  OBVIOUS
<1>1. PICK m \in Wrong : \A B \in Wrong : B \subseteq m => B = m
  <2>1. Wrong \subseteq SUBSET S
    OBVIOUS
  <2> HIDE DEF Wrong
  <2> QED
    BY <2>1, MinimalSubset
<1>2. /\ g[m] = IF m = {} THEN base ELSE step[m][g[m \ {pick[m]}]]
      /\ h[m] = IF m = {} THEN base ELSE step[m][h[m \ {pick[m]}]]
  BY <1>1 DEF Solves
<1>3. m # {} => g[m \ {pick[m]}] = h[m \ {pick[m]}]
  BY <1>1
<1> QED
  BY <1>1, <1>2, <1>3

\* Such a function exists.
LEMMA SubsetRecursion ==
  ASSUME NEW S, IsFiniteSet(S), NEW V, NEW base \in V,
         NEW step \in [SUBSET S -> [V -> V]], NEW pick,
         \A U \in SUBSET S : U # {} => pick[U] \in U
  PROVE  \E g : Solves(g, S, V, base, step, pick)
<1> DEFINE Ok(g, T) == Solves(g, T, V, base, step, pick)
           Wrong == {T \in SUBSET S : ~ \E g : Ok(g, T)}
           h(U) == CHOOSE g : Ok(g, U)
<1> SUFFICES ASSUME Wrong # {}
             PROVE  FALSE
  OBVIOUS
<1>1. PICK m \in Wrong : \A B \in Wrong : B \subseteq m => B = m
  <2>1. Wrong \subseteq SUBSET S
    OBVIOUS
  <2> HIDE DEF Wrong
  <2> QED
    BY <2>1, MinimalSubset
<1>2. m \in SUBSET S /\ ~ \E g : Ok(g, m)
  BY <1>1
<1>3. \A U \in SUBSET m : U # m => Ok(h(U), U)
  <2> SUFFICES ASSUME NEW U \in SUBSET m, U # m
               PROVE  Ok(h(U), U)
    OBVIOUS
  <2>1. \E g : Ok(g, U)
    BY <1>1, <1>2
  <2> HIDE DEF Ok
  <2> QED
    BY <2>1
<1> DEFINE last == IF m = {} THEN base ELSE step[m][h(m \ {pick[m]})[m \ {pick[m]}]]
           G == [U \in SUBSET m |-> IF U = m THEN last ELSE h(U)[U]]
<1> HIDE DEF h
<1>a. \A U \in SUBSET m : U # m => h(U)[U] \in V
  <2> SUFFICES ASSUME NEW U \in SUBSET m, U # m
               PROVE  h(U)[U] \in V
    OBVIOUS
  <2>1. h(U) \in [SUBSET U -> V]
    BY <1>3 DEF Solves
  <2>2. U \in SUBSET U
    OBVIOUS
  <2> QED
    BY <2>1, <2>2
<1>4. G \in [SUBSET m -> V]
  <2>1. last \in V
    <3>1. CASE m # {}
      <4>1. pick[m] \in m
        BY <1>2, <3>1
      <4>2. h(m \ {pick[m]})[m \ {pick[m]}] \in V
        BY <1>a, <4>1
      <4> QED
        BY <1>2, <3>1, <4>2
    <3> QED
      BY <3>1
  <2> HIDE DEF last
  <2> QED
    BY <1>a, <2>1
<1>5. ASSUME NEW U \in SUBSET m
      PROVE  G[U] = IF U = {} THEN base ELSE step[U][G[U \ {pick[U]}]]
  <2>1. CASE U = {}
    <3>1. CASE U = m
      BY <2>1, <3>1
    <3>2. CASE U # m
      <4>1. h(U)[U] = base
        BY <1>3, <2>1, <3>2 DEF Solves
      <4> QED
        BY <2>1, <3>2, <4>1
    <3> QED
      BY <3>1, <3>2
  <2>2. CASE U # {}
    <3>1. PICK p \in U : p = pick[U]
      BY <1>2, <2>2
    <3>2. U \ {p} \in SUBSET m /\ U \ {p} # m
      BY <3>1
    <3>3. G[U \ {p}] = h(U \ {p})[U \ {p}]
      BY <3>2
    <3>4. CASE U = m
      BY <2>2, <3>1, <3>3, <3>4
    <3>5. CASE U # m
      <4>1. Ok(h(U), U) /\ Ok(h(U \ {p}), U \ {p})
        BY <1>3, <3>2, <3>5
      <4>2. h(U)[U \ {p}] = h(U \ {p})[U \ {p}]
        <5>1. U \in SUBSET S /\ U \ {p} \in SUBSET S
          BY <1>2
        <5> QED
          BY <4>1, <5>1, SolutionsAgree
      <4>3. h(U)[U] = step[U][h(U)[U \ {p}]]
        BY <2>2, <3>1, <4>1 DEF Solves
      <4> QED
        BY <2>2, <3>1, <3>3, <3>5, <4>2, <4>3
    <3> QED
      BY <3>4, <3>5
  <2> QED
    BY <2>1, <2>2
<1>6. Ok(G, m)
  <2> HIDE DEF G
  <2> QED
    BY <1>4, <1>5 DEF Solves
<1> QED
  BY <1>2, <1>6

-----------------------------------------------------------------------------
(***************************************************************************)
(* The least and the greatest of a finite set of numbers.                  *)
(***************************************************************************)

LEMMA MinimalImage ==
  ASSUME NEW S, IsFiniteSet(S), S # {}, NEW f \in [S -> SUBSET S]
  PROVE  \E x \in S : \A y \in S : f[y] \subseteq f[x] => f[y] = f[x]
<1> DEFINE T == {f[x] : x \in S}
<1>1. T \subseteq SUBSET S /\ T # {}
  OBVIOUS
<1>2. \E m \in T : \A t \in T : t \subseteq m => t = m
  <2> HIDE DEF T
  <2> QED
    BY <1>1, MinimalSubset
<1> QED
  BY <1>2

LEMMA LeastElement ==
  ASSUME NEW S, IsFiniteSet(S), S # {}
  PROVE  S \subseteq Int => Min(S) \in S /\ \A y \in S : Min(S) <= y
<1>0. \A f \in [S -> SUBSET S] :
        \E x \in S : \A y \in S : f[y] \subseteq f[x] => f[y] = f[x]
  BY MinimalImage
<1> SUFFICES ASSUME S \subseteq Int
             PROVE  Min(S) \in S /\ \A y \in S : Min(S) <= y
  OBVIOUS
<1> DEFINE f == [x \in S |-> {y \in S : y < x}]
<1>1. f \in [S -> SUBSET S]
  OBVIOUS
<1>2. PICK x \in S : \A y \in S : f[y] \subseteq f[x] => f[y] = f[x]
  <2> HIDE DEF f
  <2> QED
    BY <1>0, <1>1, Zenon
<1>3. \A y \in S : x <= y
  <2> SUFFICES ASSUME NEW y \in S, y < x
               PROVE  FALSE
    BY DEF f
  <2>1. x \in Int /\ y \in Int /\ \A z \in S : z \in Int
    OBVIOUS
  <2>2. \A z \in S : z < y => z < x
    BY <2>1
  <2>3. f[y] \subseteq f[x]
    BY <2>2, Zenon
  <2>4. y \in f[x] /\ y \notin f[y]
    BY <2>1
  <2> QED
    BY <1>2, <2>3, <2>4, Zenon
<1> QED
  BY <1>3 DEF Min

LEMMA GreatestElement ==
  ASSUME NEW S, IsFiniteSet(S), S # {}
  PROVE  S \subseteq Int => Max(S) \in S /\ \A y \in S : Max(S) >= y
<1>0. \A f \in [S -> SUBSET S] :
        \E x \in S : \A y \in S : f[y] \subseteq f[x] => f[y] = f[x]
  BY MinimalImage
<1> SUFFICES ASSUME S \subseteq Int
             PROVE  Max(S) \in S /\ \A y \in S : Max(S) >= y
  OBVIOUS
<1> DEFINE f == [x \in S |-> {y \in S : y > x}]
<1>1. f \in [S -> SUBSET S]
  OBVIOUS
<1>2. PICK x \in S : \A y \in S : f[y] \subseteq f[x] => f[y] = f[x]
  <2> HIDE DEF f
  <2> QED
    BY <1>0, <1>1, Zenon
<1>3. \A y \in S : x >= y
  <2> SUFFICES ASSUME NEW y \in S, y > x
               PROVE  FALSE
    BY DEF f
  <2>1. x \in Int /\ y \in Int /\ \A z \in S : z \in Int
    OBVIOUS
  <2>2. \A z \in S : z > y => z > x
    BY <2>1
  <2>3. f[y] \subseteq f[x]
    BY <2>2, Zenon
  <2>4. y \in f[x] /\ y \notin f[y]
    BY <2>1
  <2> QED
    BY <1>2, <2>3, <2>4, Zenon
<1> QED
  BY <1>3 DEF Max

-----------------------------------------------------------------------------
(***************************************************************************)
(* Sorting.                                                                *)
(***************************************************************************)

LEMMA RanksDiffer ==
  ASSUME NEW n \in Nat, NEW s \in [1..n -> Int],
         NEW j \in 1..n, NEW k \in 1..n, Before(s, j, k)
  PROVE  Rank(s, j) < Rank(s, k)
<1> DEFINE B(i) == {h \in 1..n : Before(s, h, i)}
<1>1. /\ B(j) \subseteq B(k) /\ j \in B(k) /\ j \notin B(j)
  BY DEF Before
<1>2. IsFiniteSet(1..n)
  BY FS_Interval
<1>3. IsFiniteSet(B(k)) /\ IsFiniteSet(B(j))
  BY <1>2, FS_Subset
<1> HIDE DEF B
<1>4. /\ Cardinality(B(j)) \in Nat /\ Cardinality(B(k)) \in Nat
      /\ Cardinality(B(j)) <= Cardinality(B(k))
      /\ Cardinality(B(j)) # Cardinality(B(k))
  BY <1>1, <1>3, FS_Subset, FS_CardinalityType
<1>5. Rank(s, j) = Cardinality(B(j)) + 1 /\ Rank(s, k) = Cardinality(B(k)) + 1
  BY DEF Rank, B
<1> QED
  BY <1>4, <1>5

LEMMA RankType ==
  ASSUME NEW n \in Nat, NEW s \in [1..n -> Int], NEW k \in 1..n
  PROVE  Rank(s, k) \in 1..n
<1>0. IsFiniteSet(1..n) /\ Cardinality(1..n) = n
  BY FS_Interval
<1> DEFINE B == {j \in 1..n : Before(s, j, k)}
<1>1. B \subseteq (1..n) \ {k}
  BY DEF Before
<1>2. IsFiniteSet((1..n) \ {k}) /\ Cardinality((1..n) \ {k}) = n - 1
  BY <1>0, FS_RemoveElement
<1> HIDE DEF B
<1>3. IsFiniteSet(B) /\ Cardinality(B) \in Nat /\ Cardinality(B) <= n - 1
  <2>1. PICK D : D = (1..n) \ {k}
    OBVIOUS
  <2>2. IsFiniteSet(D) /\ Cardinality(D) = n - 1 /\ B \in SUBSET D
    BY <1>1, <1>2, <2>1, Zenon
  <2>3. IsFiniteSet(B) /\ Cardinality(B) <= Cardinality(D)
    BY <2>2, FS_Subset
  <2> QED
    BY <2>2, <2>3, FS_CardinalityType
<1>4. Rank(s, k) = Cardinality(B) + 1
  BY DEF Rank, B
<1> QED
  BY <1>3, <1>4

\* Every place is the rank of an element.
LEMMA EveryRankIsTaken ==
  ASSUME NEW n \in Nat, NEW s \in [1..n -> Int], NEW i \in 1..n
  PROVE  \E k \in 1..n : Rank(s, k) = i
<1>1. IsFiniteSet(1..n) /\ Cardinality(1..n) = n
  BY FS_Interval
<1>2. \A k \in 1..n : Rank(s, k) \in 1..n
  BY RankType
<1> DEFINE f == [k \in 1..n |-> Rank(s, k)]
<1>3. f \in Injection(1..n, 1..n)
  <2>1. f \in [1..n -> 1..n]
    BY <1>2
  <2>2. ASSUME NEW j \in 1..n, NEW k \in 1..n, j # k
        PROVE  f[j] # f[k]
    <3>1. Before(s, j, k) \/ Before(s, k, j)
      BY <2>2 DEF Before
    <3>2. f[j] < f[k] \/ f[k] < f[j]
      BY <3>1, RanksDiffer
    <3> QED
      BY <1>2, <3>2
  <2> HIDE DEF f
  <2> QED
    BY <2>1, <2>2 DEF Injection, IsInjective
<1>4. f \in Surjection(1..n, 1..n)
  <2> HIDE DEF f
  <2> QED
    BY <1>1, <1>3, FS_Injection
<1> QED
  BY <1>4 DEF Surjection

\* What is at place i when the sequence is sorted.
LEMMA PlaceInOrder ==
  ASSUME NEW n \in Nat, NEW s \in [1..n -> Int], NEW i \in 1..n
  PROVE  \E k \in 1..n : Rank(s, k) = i /\ InOrder(s)[i] = s[k]
<1>1. \E k \in 1..n : Rank(s, k) = i
  BY EveryRankIsTaken
<1> QED
  BY <1>1 DEF InOrder

-----------------------------------------------------------------------------
(***************************************************************************)
(* Sequences that hold each number of a set once.                          *)
(***************************************************************************)

Enumerates(s, S) ==
  /\ s \in Seq(Nat)
  /\ \A i, j \in 1..Len(s) : s[i] = s[j] => i = j
  /\ \A i \in 1..Len(s) : s[i] \in S
  /\ \A x \in S : \E i \in 1..Len(s) : s[i] = x

LEMMA EnumeratesNothing == Enumerates(<<>>, {})
BY DEF Enumerates

LEMMA EnumeratesOne ==
  ASSUME NEW x \in Nat
  PROVE  Enumerates(<<x>>, {x})
BY DEF Enumerates

LEMMA EnumeratesConcat ==
  ASSUME NEW s, NEW S, Enumerates(s, S),
         NEW t, NEW T, Enumerates(t, T), S \cap T = {}
  PROVE  Enumerates(s \o t, S \cup T)
<1>1. /\ s \in Seq(Nat) /\ t \in Seq(Nat) /\ s \o t \in Seq(Nat)
      /\ Len(s) \in Nat /\ Len(t) \in Nat
      /\ Len(s \o t) = Len(s) + Len(t)
      /\ \A i \in 1..Len(s) : (s \o t)[i] = s[i]
      /\ \A i \in 1..Len(t) : (s \o t)[Len(s) + i] = t[i]
  BY DEF Enumerates
<1>2. \A i \in 1..Len(s \o t) :
        \/ i \in 1..Len(s) /\ (s \o t)[i] = s[i]
        \/ i - Len(s) \in 1..Len(t) /\ (s \o t)[i] = t[i - Len(s)]
  <2> SUFFICES ASSUME NEW i \in 1..Len(s \o t), i \notin 1..Len(s)
               PROVE  i - Len(s) \in 1..Len(t) /\ (s \o t)[i] = t[i - Len(s)]
    BY <1>1
  <2>1. i - Len(s) \in 1..Len(t) /\ Len(s) + (i - Len(s)) = i
    BY <1>1
  <2> QED
    BY <1>1, <2>1
<1>3. \A i, j \in 1..Len(s \o t) : (s \o t)[i] = (s \o t)[j] => i = j
  <2> SUFFICES ASSUME NEW i \in 1..Len(s \o t), NEW j \in 1..Len(s \o t),
                      (s \o t)[i] = (s \o t)[j]
               PROVE  i = j
    OBVIOUS
  <2>1. i \in Int /\ j \in Int /\ Len(s) \in Int
    BY <1>1
  <2>2. i \in 1..Len(s) => j \in 1..Len(s) /\ i = j
    BY <1>2 DEF Enumerates
  <2>3. j \in 1..Len(s) => i \in 1..Len(s) /\ i = j
    BY <1>2 DEF Enumerates
  <2>4. CASE i \notin 1..Len(s) /\ j \notin 1..Len(s)
    <3>1. /\ i - Len(s) \in 1..Len(t) /\ j - Len(s) \in 1..Len(t)
          /\ t[i - Len(s)] = t[j - Len(s)]
      BY <1>2, <2>4
    <3>2. i - Len(s) = j - Len(s)
      BY <3>1 DEF Enumerates
    <3> QED
      BY <2>1, <3>2
  <2> QED
    BY <2>2, <2>3, <2>4
<1>4. \A i \in 1..Len(s \o t) : (s \o t)[i] \in S \cup T
  BY <1>2 DEF Enumerates
<1>5. \A x \in S \cup T : \E i \in 1..Len(s \o t) : (s \o t)[i] = x
  <2>1. ASSUME NEW x \in S
        PROVE  \E i \in 1..Len(s \o t) : (s \o t)[i] = x
    <3>1. PICK i \in 1..Len(s) : s[i] = x
      BY DEF Enumerates
    <3>2. i \in 1..Len(s \o t)
      BY <1>1
    <3> QED
      BY <1>1, <3>1, <3>2
  <2>2. ASSUME NEW x \in T
        PROVE  \E i \in 1..Len(s \o t) : (s \o t)[i] = x
    <3>1. PICK i \in 1..Len(t) : t[i] = x
      BY DEF Enumerates
    <3>2. Len(s) + i \in 1..Len(s \o t)
      BY <1>1
    <3> QED
      BY <1>1, <3>1, <3>2
  <2> QED
    BY <2>1, <2>2
<1> QED
  BY <1>1, <1>3, <1>4, <1>5 DEF Enumerates

LEMMA EnumeratesTail ==
  ASSUME NEW s, NEW S, Enumerates(s, S), s # <<>>
  PROVE  /\ Head(s) \in S /\ Head(s) \in Nat
         /\ Enumerates(Tail(s), S \ {Head(s)})
<1>1. /\ s \in Seq(Nat) /\ Tail(s) \in Seq(Nat) /\ Len(s) \in Nat \ {0}
      /\ Len(Tail(s)) = Len(s) - 1
      /\ Head(s) = s[1] /\ 1 \in 1..Len(s) /\ s[1] \in Nat
      /\ \A i \in 1..Len(s) - 1 : i + 1 \in 1..Len(s) /\ Tail(s)[i] = s[i + 1]
  BY DEF Enumerates
<1>2. \A i, j \in 1..Len(Tail(s)) : Tail(s)[i] = Tail(s)[j] => i = j
  BY <1>1 DEF Enumerates
<1>3. \A i \in 1..Len(Tail(s)) : Tail(s)[i] \in S \ {Head(s)}
  BY <1>1 DEF Enumerates
<1>4. \A x \in S \ {Head(s)} : \E i \in 1..Len(Tail(s)) : Tail(s)[i] = x
  <2> SUFFICES ASSUME NEW x \in S, x # Head(s)
               PROVE  \E i \in 1..Len(Tail(s)) : Tail(s)[i] = x
    OBVIOUS
  <2>1. PICK i \in 1..Len(s) : s[i] = x
    BY DEF Enumerates
  <2>2. i - 1 \in 1..Len(Tail(s)) /\ (i - 1) + 1 = i
    BY <1>1, <2>1
  <2> QED
    BY <1>1, <2>1, <2>2
<1> QED
  BY <1>1, <1>2, <1>3, <1>4 DEF Enumerates

LEMMA EnumeratesFinite ==
  ASSUME NEW s, NEW S, Enumerates(s, S)
  PROVE  IsFiniteSet(S) /\ Cardinality(S) = Len(s)
<1>1. Len(s) \in Nat /\ s \in [1..Len(s) -> S]
  BY DEF Enumerates
<1>2. s \in Bijection(1..Len(s), S)
  BY <1>1 DEF Enumerates, Bijection, Injection, IsInjective, Surjection
<1>3. IsFiniteSet(1..Len(s)) /\ Cardinality(1..Len(s)) = Len(s)
  BY <1>1, FS_Interval
<1> QED
  BY <1>2, <1>3, FS_Bijection DEF ExistsBijection

LEMMA CountBelow ==
  ASSUME NEW s, NEW S, Enumerates(s, S), NEW k \in 1..Len(s)
  PROVE  Cardinality({y \in S : y < s[k]}) = Rank(s, k) - 1
<1> DEFINE J == {j \in 1..Len(s) : Before(s, j, k)}
           Y == {y \in S : y < s[k]}
           f == [j \in J |-> s[j]]
<1>1. Len(s) \in Nat /\ DOMAIN s = 1..Len(s) /\ \A j \in 1..Len(s) : s[j] \in Nat
  BY DEF Enumerates
<1>2. \A j \in 1..Len(s) : Before(s, j, k) <=> s[j] < s[k]
  <2> SUFFICES ASSUME NEW j \in 1..Len(s), s[j] = s[k]
               PROVE  ~(j < k)
    BY <1>1 DEF Before
  <2>1. j = k
    BY DEF Enumerates
  <2> QED
    BY <1>1, <2>1
<1>3. f \in Bijection(J, Y)
  <2>1. f \in [J -> Y]
    BY <1>2 DEF Enumerates
  <2>2. \A i, j \in J : f[i] = f[j] => i = j
    BY DEF Enumerates
  <2>3. \A y \in Y : \E j \in J : f[j] = y
    BY <1>2 DEF Enumerates
  <2> HIDE DEF J, Y, f
  <2> QED
    BY <2>1, <2>2, <2>3 DEF Bijection, Injection, IsInjective, Surjection
<1>4. IsFiniteSet(J)
  <2>1. IsFiniteSet(1..Len(s))
    BY <1>1, FS_Interval
  <2>2. J \in SUBSET (1..Len(s))
    OBVIOUS
  <2> HIDE DEF J
  <2> QED
    BY <2>1, <2>2, FS_Subset
<1>5. Rank(s, k) = Cardinality(J) + 1
  BY <1>1 DEF Rank
<1> HIDE DEF J, Y, f
<1>6. Cardinality(Y) = Cardinality(J) /\ Cardinality(J) \in Nat
  BY <1>3, <1>4, FS_Bijection, FS_CardinalityType DEF ExistsBijection
<1> QED
  BY <1>5, <1>6 DEF Y

\* Sorted, such a sequence is determined by its elements.
LEMMA SortedEnumeration ==
  ASSUME NEW s, NEW S, Enumerates(s, S)
  PROVE  InOrder(s) = Ascending(S)
<1> DEFINE n == Len(s)
<1>1. n \in Nat /\ s \in [1..n -> Int] /\ DOMAIN s = 1..n
  BY DEF Enumerates
<1>2. Cardinality(S) = n
  BY EnumeratesFinite
<1> HIDE DEF n
<1>3. ASSUME NEW i \in 1..n
      PROVE  InOrder(s)[i] = CHOOSE x \in S : Cardinality({y \in S : y < x}) = i - 1
  <2>1. PICK k \in 1..n : Rank(s, k) = i /\ InOrder(s)[i] = s[k]
    BY <1>1, PlaceInOrder
  <2>2. s[k] \in S /\ Cardinality({y \in S : y < s[k]}) = i - 1
    BY <2>1, CountBelow DEF n, Enumerates
  <2>3. ASSUME NEW x \in S, Cardinality({y \in S : y < x}) = i - 1
        PROVE  x = s[k]
    <3>1. PICK j \in 1..n : s[j] = x
      BY DEF n, Enumerates
    <3>2. Rank(s, j) - 1 = i - 1 /\ Rank(s, k) = i
      BY <2>1, <2>3, <3>1, CountBelow DEF n
    <3>3. ~Before(s, j, k) /\ ~Before(s, k, j)
      <4>1. /\ Before(s, j, k) => Rank(s, j) < Rank(s, k)
            /\ Before(s, k, j) => Rank(s, k) < Rank(s, j)
        BY <1>1, RanksDiffer
      <4>2. Rank(s, j) \in Int
        BY <1>1, RankType
      <4> QED
        BY <3>2, <4>1, <4>2
    <3>4. s[j] = s[k]
      BY <1>1, <3>3 DEF Before
    <3> QED
      BY <3>1, <3>4
  <2> QED
    BY <2>1, <2>2, <2>3
<1>4. /\ InOrder(s) = [i \in 1..n |-> InOrder(s)[i]]
      /\ Ascending(S) = [i \in 1..n |->
                           CHOOSE x \in S : Cardinality({y \in S : y < x}) = i - 1]
  BY <1>1, <1>2 DEF InOrder, Ascending
<1> QED
  BY <1>3, <1>4

LEMMA DisjointCardinality ==
  ASSUME NEW S, NEW T, IsFiniteSet(S), IsFiniteSet(T), S \cap T = {}
  PROVE  Cardinality(S \cup T) = Cardinality(S) + Cardinality(T)
<1>1. Cardinality(S \cup T) = Cardinality(S) + Cardinality(T) - Cardinality(S \cap T)
  BY FS_Union
<1>2. Cardinality(S) \in Nat /\ Cardinality(T) \in Nat
  BY FS_CardinalityType
<1>3. Cardinality(S \cap T) = 0
  BY FS_EmptySet
<1> QED
  BY <1>1, <1>2, <1>3

\* Counting bin by bin counts every element whose bin is there.
CountsBins(h, n, bin) ==
  \A b \in DOMAIN h : h[b] = Cardinality({i \in 1..n : bin[i] = b})

LEMMA SumOfCounts ==
  ASSUME NEW n \in Nat, NEW bin, NEW S, IsFiniteSet(S), NEW h, DOMAIN h = S,
         CountsBins(h, n, bin)
  PROVE  AddedUp(h) = Cardinality({i \in 1..n : bin[i] \in S})
<1> DEFINE x(T) == CHOOSE b \in T : TRUE
           In(T) == {i \in 1..n : bin[i] \in T}
           Fold(g, T) == IF T = {} THEN 0 ELSE h[x(T)] + g[T \ {x(T)}]
           G == [T \in SUBSET S |-> Cardinality(In(T))]
           iter == CHOOSE g : g = [T \in SUBSET S |-> Fold(g, T)]
<1>0. \A T : IsFiniteSet(In(T)) /\ Cardinality(In(T)) \in Nat
  <2> SUFFICES ASSUME NEW T
               PROVE  IsFiniteSet(In(T)) /\ Cardinality(In(T)) \in Nat
    OBVIOUS
  <2>1. IsFiniteSet(1..n) /\ In(T) \in SUBSET (1..n)
    BY FS_Interval
  <2> HIDE DEF In
  <2> QED
    BY <2>1, FS_Subset, FS_CardinalityType
<1>1. \A T \in SUBSET S : T # {} => x(T) \in T
  OBVIOUS
<1> HIDE DEF x
<1>2. ASSUME NEW T \in SUBSET S, T # {}
      PROVE  Cardinality(In(T)) = h[x(T)] + Cardinality(In(T \ {x(T)}))
  <2>1. PICK b \in T : b = x(T)
    BY <1>1, <1>2
  <2>2. In(T) = {i \in 1..n : bin[i] = b} \cup In(T \ {b})
    OBVIOUS
  <2>3. {i \in 1..n : bin[i] = b} \cap In(T \ {b}) = {}
    OBVIOUS
  <2>4. {i \in 1..n : bin[i] = b} = In({b})
    OBVIOUS
  <2>5. h[b] = Cardinality({i \in 1..n : bin[i] = b})
    <3>1. \A c \in S : h[c] = Cardinality({i \in 1..n : bin[i] = c})
      BY DEF CountsBins
    <3>2. b \in S
      BY <2>1
    <3> QED
      BY <3>1, <3>2
  <2>6. h[b] = Cardinality(In({b}))
    BY <2>4, <2>5
  <2> HIDE DEF In
  <2>7. In(T) = In({b}) \cup In(T \ {b}) /\ In({b}) \cap In(T \ {b}) = {}
    BY <2>2, <2>3, <2>4
  <2>8. PICK A, B : A = In({b}) /\ B = In(T \ {b})
    OBVIOUS
  <2>9. Cardinality(In(T)) = Cardinality(In({b})) + Cardinality(In(T \ {b}))
    BY <1>0, <2>7, <2>8, DisjointCardinality
  <2> QED
    BY <2>1, <2>6, <2>9
<1>3. \A T \in SUBSET S : G[T] = Fold(G, T)
  <2> SUFFICES ASSUME NEW T \in SUBSET S
               PROVE  G[T] = Fold(G, T)
    OBVIOUS
  <2>1. CASE T = {}
    <3>1. In(T) = {}
      BY <2>1
    <3> QED
      BY <2>1, <3>1, FS_EmptySet
  <2>2. CASE T # {}
    <3>1. G[T \ {x(T)}] = Cardinality(In(T \ {x(T)}))
      OBVIOUS
    <3> QED
      BY <1>2, <2>2, <3>1
  <2> QED
    BY <2>1, <2>2
<1>4. G = [T \in SUBSET S |-> Fold(G, T)]
  <2>1. G = [T \in SUBSET S |-> G[T]]
    OBVIOUS
  <2> HIDE DEF Fold, G
  <2> QED
    BY <1>3, <2>1
<1>5. iter = [T \in SUBSET S |-> Fold(iter, T)]
  <2> HIDE DEF Fold, G
  <2> QED
    BY <1>4
<1>6. \A T \in SUBSET S : iter[T] = Cardinality(In(T))
  <2> DEFINE Wrong == {T \in SUBSET S : iter[T] # Cardinality(In(T))}
  <2> SUFFICES ASSUME Wrong # {}
               PROVE  FALSE
    OBVIOUS
  <2>1. PICK m \in Wrong : \A t \in Wrong : t \subseteq m => t = m
    <3>1. Wrong \subseteq SUBSET S
      OBVIOUS
    <3> HIDE DEF Wrong
    <3> QED
      BY <3>1, MinimalSubset
  <2> HIDE DEF iter, In
  <2>2. m \in SUBSET S /\ iter[m] # Cardinality(In(m))
    BY <2>1
  <2>3. iter[m] = Fold(iter, m)
    BY <1>5, <2>2
  <2>4. CASE m = {}
    <3>1. In({}) = {}
      BY DEF In
    <3> QED
      BY <2>2, <2>3, <2>4, <3>1, FS_EmptySet
  <2>5. CASE m # {}
    <3>1. x(m) \in m
      BY <1>1, <2>2, <2>5
    <3>2. iter[m \ {x(m)}] = Cardinality(In(m \ {x(m)}))
      BY <2>1, <3>1
    <3> QED
      BY <1>2, <2>2, <2>3, <2>5, <3>2
  <2> QED
    BY <2>4, <2>5
<1>7. AddedUp(h) = iter[S]
  BY DEF AddedUp, x, FoldSeq, FoldFunction, FoldFunctionOnSet, MapThenFoldSet
<1>8. S \in SUBSET S
  OBVIOUS
<1> HIDE DEF iter
<1> QED
  BY <1>6, <1>7, <1>8

LEMMA Division ==
  ASSUME NEW a \in Nat, NEW b \in Nat \ {0}
  PROVE  a \div b \in Nat /\ b * (a \div b) <= a /\ a < b * (a \div b) + b
OBVIOUS

-----------------------------------------------------------------------------
(***************************************************************************)
(* The split into a training and a test set.                               *)
(***************************************************************************)

LEMMA SubSeqType ==
  ASSUME NEW S, NEW s, NEW m \in Int, NEW n \in Int, m <= n,
         \A i \in m..n : s[i] \in S
  PROVE  SubSeq(s, m, n) \in [1..(n - m + 1) -> S]
<1>1. PICK q : q = SubSeq(s, m, n)
  OBVIOUS
<1>2. q \in Seq(S) /\ Len(q) = n - m + 1
  BY <1>1, SubSeqProperties
<1>3. q \in [1..(n - m + 1) -> S]
  BY <1>2
<1> QED
  BY <1>1, <1>3

\* Neither set of the split is empty.
LEMMA SplitSizes ==
  ASSUME NEW n \in Nat, n > 1, NEW ratio \in 1..49
  PROVE  TrainSize(n, ratio) \in 1..(n - 1)
<1> DEFINE q == (n * ratio) \div 100
<1>1. n * ratio \in Nat /\ n * ratio <= n * 49
  OBVIOUS
<1>2. q \in Nat /\ 100 * q <= n * ratio
  BY <1>1, Division
<1> HIDE DEF q
<1>3. TestSize(n, ratio) = Larger(1, q)
  BY DEF TestSize, q
<1>4. TestSize(n, ratio) \in 1..(n - 1)
  BY <1>1, <1>2, <1>3 DEF Larger
<1> QED
  BY <1>4 DEF TrainSize

\* The training set is the first k of the n shuffled samples, the test set is
\* the rest.
CutAt(s, n, k, train, test) ==
  /\ \A i \in 1..k : train[i] = s[i]
  /\ \A i \in 1..(n - k) : test[i] = s[k + i]

LEMMA SplitPositions ==
  ASSUME NEW S, NEW n \in Nat, n > 1, NEW s \in [1..n -> S], NEW ratio \in 1..49
  PROVE  \E k \in 1..(n - 1) :
           /\ k = TrainSize(n, ratio)
           /\ Train(s, ratio) \in [1..k -> S]
           /\ Test(s, ratio) \in [1..(n - k) -> S]
           /\ CutAt(s, n, k, Train(s, ratio), Test(s, ratio))
<1>1. PICK k \in 1..(n - 1) : k = TrainSize(n, ratio)
  BY SplitSizes
<1>2. s \in Seq(S) /\ Len(s) = n
  OBVIOUS
<1>3. /\ Train(s, ratio) = SubSeq(s, 1, k)
      /\ Test(s, ratio) = SubSeq(s, k + 1, n)
  BY <1>1, <1>2 DEF Train, Test
<1>4. PICK m \in Int : m = k + 1
  OBVIOUS
<1>5. PICK a : a = SubSeq(s, 1, k)
  OBVIOUS
<1>6. PICK b : b = SubSeq(s, m, n)
  OBVIOUS
<1>7. a \in Seq(S) /\ Len(a) = k /\ \A i \in 1..k : a[i] = s[i]
  <2>1. \A i \in 1..k : s[i] \in S
    OBVIOUS
  <2>2. /\ a \in Seq(S)
        /\ Len(a) = IF 1 <= k THEN k - 1 + 1 ELSE 0
        /\ \A i \in 1..(k - 1 + 1) : a[i] = s[1 + i - 1]
    BY <1>5, <2>1, SubSeqProperties
  <2> QED
    BY <2>2
<1>8. b \in Seq(S) /\ Len(b) = n - k /\ \A i \in 1..(n - k) : b[i] = s[k + i]
  <2>1. \A i \in m..n : s[i] \in S
    BY <1>4
  <2>2. /\ b \in Seq(S)
        /\ Len(b) = IF m <= n THEN n - m + 1 ELSE 0
        /\ \A i \in 1..(n - m + 1) : b[i] = s[m + i - 1]
    BY <1>6, <2>1, SubSeqProperties
  <2> QED
    BY <1>4, <2>2
<1>9. a \in [1..k -> S] /\ b \in [1..(n - k) -> S]
  BY <1>7, <1>8
<1> QED
  BY <1>1, <1>3, <1>4, <1>5, <1>6, <1>7, <1>8, <1>9 DEF CutAt

=============================================================================
