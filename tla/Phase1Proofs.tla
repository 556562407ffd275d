---------------------------- MODULE Phase1Proofs -----------------------------
(***************************************************************************)
(* The programs of phase 1, for every dataset and command line.            *)
(*                                                                         *)
(* MainInv follows main from step to step: the load is LoadInv of          *)
(* LoadProofs while it runs, the training TrainInv of GradientProofs,      *)
(* DataAt says what main holds of the records at each step, and FilesInv   *)
(* that the steps before it, and only they, have left files of this run.   *)
(* Each property is then a fact about what one step computed, by the       *)
(* lemmas about its operators that come first.                             *)
(***************************************************************************)
EXTENDS GradientProofs, LoadProofs

-----------------------------------------------------------------------------
(***************************************************************************)
(* The labels and the normaliser.                                          *)
(***************************************************************************)

\* The 75th percentile.
LEMMA PercentileIsAValue ==
  ASSUME NEW n \in Nat \ {0}, NEW values \in [1..n -> Int]
  PROVE  \E k \in 1..n : /\ Percentile75(values) = values[k]
                         /\ Rank(values, k) = (3 * n + 3) \div 4
<1> DEFINE p == (3 * n + 3) \div 4
<1>1. p \in 1..n
  OBVIOUS
<1>2. Percentile75(values) = InOrder(values)[p]
  BY DEF Percentile75
<1> HIDE DEF p
<1>3. \E k \in 1..n : Rank(values, k) = p /\ InOrder(values)[p] = values[k]
  BY <1>1, PlaceInOrder
<1> QED
  BY <1>2, <1>3 DEF p

LEMMA TopQuarter ==
  ASSUME NEW n \in Nat \ {0}, NEW values \in [1..n -> Int],
         NEW t \in Int, t = Percentile75(values),
         NEW lower \in SUBSET (1..n), \A i \in 1..n : i \in lower <=> values[i] < t,
         NEW upper \in SUBSET (1..n), \A i \in 1..n : i \in upper <=> values[i] <= t
  PROVE  4 * Cardinality(lower) < 3 * n /\ 4 * Cardinality(upper) >= 3 * n
<1> DEFINE p == (3 * n + 3) \div 4
<1>1. p \in 1..n /\ 4 * p >= 3 * n /\ 4 * p <= 3 * n + 3
  OBVIOUS
<1>2. DOMAIN values = 1..n
  OBVIOUS
<1>3. PICK k \in 1..n : Rank(values, k) = p /\ t = values[k]
  BY PercentileIsAValue
<1> HIDE DEF p
<1> DEFINE before == {j \in 1..n : Before(values, j, k)}
<1>4. Cardinality(before) + 1 = p
  BY <1>2, <1>3 DEF Rank
<1>5. IsFiniteSet(1..n)
  BY FS_Interval
<1>6. /\ before \in SUBSET (1..n) /\ lower \in SUBSET before
      /\ upper \in SUBSET (1..n) /\ before \cup {k} \in SUBSET upper /\ k \notin before
  BY <1>3 DEF Before
<1> HIDE DEF before
<1>7. IsFiniteSet(before) /\ IsFiniteSet(upper)
  BY <1>5, <1>6, FS_Subset
<1>8. /\ Cardinality(lower) <= Cardinality(before) /\ Cardinality(lower) \in Nat
      /\ Cardinality(before) \in Nat
  BY <1>6, <1>7, FS_Subset, FS_CardinalityType
<1>9. /\ Cardinality(before \cup {k}) = Cardinality(before) + 1
      /\ Cardinality(before \cup {k}) <= Cardinality(upper)
      /\ Cardinality(upper) \in Nat
  BY <1>6, <1>7, FS_AddElement, FS_Subset, FS_CardinalityType
<1>10. 4 * Cardinality(lower) < 3 * n /\ 4 * Cardinality(upper) >= 3 * n
  BY <1>1, <1>4, <1>8, <1>9
<1> QED
  BY <1>10

\* A record without NaN, and what the normaliser makes of the training set.
LEMMA TrainingSetSpans ==
  ASSUME NEW k \in Nat \ {0}, NEW T \in [1..k -> [x : Int, y : {0, 1}]],
         NEW U, U = TransformSamples(FitMinMax(T), T)
  PROVE  /\ U = [i \in 1..k |-> U[i]]
         /\ \A i \in 1..k :
              /\ U[i].x.num \in Int /\ U[i].x.den \in Int /\ U[i].y \in {0, 1}
              /\ 0 <= U[i].x.num /\ U[i].x.num <= U[i].x.den /\ U[i].x.den > 0
         /\ \E i \in 1..k : U[i].x.num = 0
         /\ \/ \A i \in 1..k : U[i].x.num = 0
            \/ \E i \in 1..k : U[i].x.num = U[i].x.den
<1> DEFINE S == ToSet(Xs(T))
           X(i) == T[i].x
<1>1. /\ S = {X(i) : i \in 1..k} /\ S \subseteq Int
      /\ \A i \in 1..k : X(i) \in Int /\ T[i].y \in {0, 1}
  BY DEF ToSet, Xs
<1>2. IsFiniteSet(S)
  <2>1. PICK f : f = [i \in 1..k |-> X(i)]
    OBVIOUS
  <2>2. f \in Surjection(1..k, S)
    BY <1>1, <2>1 DEF Surjection
  <2>3. IsFiniteSet(1..k)
    BY FS_Interval
  <2> HIDE DEF S
  <2> QED
    BY <2>2, <2>3, FS_Surjection
<1>3. PICK low, high : low = Min(S) /\ high = Max(S)
  OBVIOUS
<1>4. S # {}
  <2>1. X(1) \in S
    <3>1. 1 \in 1..k
      OBVIOUS
    <3> HIDE DEF X, S
    <3> QED
      BY <1>1, <3>1, Zenon
  <2> QED
    BY <2>1, Zenon
<1> HIDE DEF S
<1>5. /\ low \in S /\ high \in S
      /\ \A y \in S : low <= y /\ high >= y
  BY <1>1, <1>2, <1>3, <1>4, LeastElement, GreatestElement
<1>6. PICK a \in 1..k, b \in 1..k : X(a) = low /\ X(b) = high
  BY <1>1, <1>5
<1>7. /\ low \in Int /\ high \in Int
      /\ \A i \in 1..k : low <= X(i) /\ X(i) <= high
  BY <1>1, <1>5
<1>8. FitMinMax(T) = [min |-> low, max |-> high]
  BY <1>3 DEF FitMinMax, S
<1>9. U = [i \in 1..k |-> [x |-> TransformVector([min |-> low, max |-> high], X(i)),
                           y |-> T[i].y]]
  BY <1>8 DEF TransformSamples
<1>10. CASE high - low = 0
  <2>1. \A i \in 1..k : U[i].x = [num |-> 0, den |-> 1] /\ U[i].y = T[i].y
    BY <1>9, <1>10 DEF TransformVector
  <2> QED
    BY <1>1, <1>6, <1>9, <2>1
<1>11. CASE high - low # 0
  <2>1. \A i \in 1..k :
          U[i].x = [num |-> X(i) - low, den |-> high - low] /\ U[i].y = T[i].y
    BY <1>9, <1>11 DEF TransformVector
  <2> HIDE DEF X
  <2>2. \A i \in 1..k : U[i].x.num = X(i) - low /\ U[i].x.den = high - low
    <3> SUFFICES ASSUME NEW i \in 1..k
                 PROVE  U[i].x.num = X(i) - low /\ U[i].x.den = high - low
      OBVIOUS
    <3>1. U[i].x = [num |-> X(i) - low, den |-> high - low]
      BY <2>1
    <3>2. \A num, den : LET f == [num |-> num, den |-> den] IN f.num = num /\ f.den = den
      OBVIOUS
    <3>3. PICK num, den : num = X(i) - low /\ den = high - low
      OBVIOUS
    <3> QED
      BY <3>1, <3>2, <3>3
  <2>3. U[a].x.num = 0 /\ U[b].x.num = U[b].x.den
    BY <1>6, <1>7, <2>2
  <2>4. \A i \in 1..k :
          /\ U[i].x.num \in Int /\ U[i].x.den \in Int
          /\ 0 <= U[i].x.num /\ U[i].x.num <= U[i].x.den /\ U[i].x.den > 0
    <3> SUFFICES ASSUME NEW i \in 1..k
                 PROVE  /\ U[i].x.num \in Int /\ U[i].x.den \in Int
                        /\ 0 <= U[i].x.num /\ U[i].x.num <= U[i].x.den
                        /\ U[i].x.den > 0
      OBVIOUS
    <3>1. PICK xi, num, den : xi = X(i) /\ num = U[i].x.num /\ den = U[i].x.den
      OBVIOUS
    <3>2. xi \in Int /\ low <= xi /\ xi <= high
      BY <1>1, <1>7, <3>1
    <3>3. num = xi - low /\ den = high - low
      BY <2>2, <3>1
    <3>4. num \in Int /\ den \in Int /\ 0 <= num /\ num <= den /\ den > 0
      BY <1>7, <1>11, <3>2, <3>3
    <3> QED
      BY <3>1, <3>4
  <2>5. \A i \in 1..k : U[i].y \in {0, 1}
    BY <1>1, <2>1
  <2>6. U = [i \in 1..k |-> U[i]]
    BY <1>9
  <2> QED
    BY <2>3, <2>4, <2>5, <2>6
<1> QED
  BY <1>10, <1>11

-----------------------------------------------------------------------------
(***************************************************************************)
(* The confusion matrix and the histogram.                                 *)
(***************************************************************************)

Ones(labels) == {i \in DOMAIN labels : labels[i] = 1}

LEMMA MatrixAddsUp ==
  ASSUME NEW m \in Nat, NEW a \in [1..m -> {0, 1}], NEW p \in [1..m -> {0, 1}],
         NEW r, r = ComputeClassification(a, p)
  PROVE  /\ r.tp + r.fn = Cardinality(Ones(a))
         /\ r.tp + r.fp = Cardinality(Ones(p))
         /\ r.tp + r.tn + r.fp + r.fn = Len(a)
<1> DEFINE Cell(u, v) == {i \in DOMAIN a \cap DOMAIN p : a[i] = u /\ p[i] = v}
<1>1. /\ r.tp = Cardinality(Cell(1, 1)) /\ r.tn = Cardinality(Cell(0, 0))
      /\ r.fp = Cardinality(Cell(0, 1)) /\ r.fn = Cardinality(Cell(1, 0))
  BY DEF ComputeClassification
<1>2. IsFiniteSet(1..m) /\ Cardinality(1..m) = m /\ DOMAIN a = 1..m /\ DOMAIN p = 1..m
  BY FS_Interval
<1>3. \A u, v : Cell(u, v) \in SUBSET (1..m)
  OBVIOUS
<1>4. /\ Ones(a) = Cell(1, 1) \cup Cell(1, 0) /\ Cell(1, 1) \cap Cell(1, 0) = {}
      /\ Ones(p) = Cell(1, 1) \cup Cell(0, 1) /\ Cell(1, 1) \cap Cell(0, 1) = {}
  BY DEF Ones
<1>5. /\ 1..m = Ones(a) \cup (Cell(0, 0) \cup Cell(0, 1))
      /\ Ones(a) \cap (Cell(0, 0) \cup Cell(0, 1)) = {}
      /\ Cell(0, 0) \cap Cell(0, 1) = {}
  BY DEF Ones
<1>6. Len(a) = m
  OBVIOUS
<1> HIDE DEF Cell
<1>7. \A u, v : IsFiniteSet(Cell(u, v)) /\ Cardinality(Cell(u, v)) \in Nat
  BY <1>2, <1>3, FS_Subset, FS_CardinalityType
<1>8. /\ Cardinality(Ones(a)) = Cardinality(Cell(1, 1)) + Cardinality(Cell(1, 0))
      /\ Cardinality(Ones(p)) = Cardinality(Cell(1, 1)) + Cardinality(Cell(0, 1))
      /\ IsFiniteSet(Ones(a)) /\ IsFiniteSet(Cell(0, 0) \cup Cell(0, 1))
      /\ Cardinality(Cell(0, 0) \cup Cell(0, 1))
           = Cardinality(Cell(0, 0)) + Cardinality(Cell(0, 1))
  <2>1. Cardinality(Ones(a)) = Cardinality(Cell(1, 1)) + Cardinality(Cell(1, 0))
    BY <1>4, <1>7, DisjointCardinality
  <2>2. Cardinality(Ones(p)) = Cardinality(Cell(1, 1)) + Cardinality(Cell(0, 1))
    BY <1>4, <1>7, DisjointCardinality
  <2>3. Cardinality(Cell(0, 0) \cup Cell(0, 1))
          = Cardinality(Cell(0, 0)) + Cardinality(Cell(0, 1))
    BY <1>5, <1>7, DisjointCardinality
  <2>0. PICK c00, c01, c10, c11 : /\ c00 = Cell(0, 0) /\ c01 = Cell(0, 1)
                                  /\ c10 = Cell(1, 0) /\ c11 = Cell(1, 1)
    OBVIOUS
  <2>00. IsFiniteSet(c00) /\ IsFiniteSet(c01) /\ IsFiniteSet(c10) /\ IsFiniteSet(c11)
    BY <1>7, <2>0
  <2>4. IsFiniteSet(Ones(a))
    <3>1. IsFiniteSet(c11 \cup c10)
      BY <2>00, FS_Union
    <3> QED
      BY <1>4, <2>0, <3>1
  <2>5. IsFiniteSet(Cell(0, 0) \cup Cell(0, 1))
    <3>1. IsFiniteSet(c00 \cup c01)
      BY <2>00, FS_Union
    <3> QED
      BY <2>0, <3>1
  <2> QED
    BY <2>1, <2>2, <2>3, <2>4, <2>5
<1>9. m = Cardinality(Ones(a)) + Cardinality(Cell(0, 0) \cup Cell(0, 1))
  BY <1>2, <1>5, <1>8, DisjointCardinality
<1> QED
  BY <1>1, <1>6, <1>7, <1>8, <1>9

\* Each value is in one of the bins, and the largest in the last.
LEMMA BinsOfValues ==
  ASSUME NEW low \in Int, NEW high \in Int, low < high,
         NEW v \in Int, low <= v, v <= high
  PROVE  /\ Bin(v, low, high, Bins) \in 0..(Bins - 1)
         /\ v = high => Bin(v, low, high, Bins) = Bins - 1
<1>0. Bins \in Nat \ {0}
  BY Phase1Assumption, Zenon
<1>1. PICK w \in Nat \ {0}, d \in Nat : w = high - low /\ d = v - low /\ d <= w
  OBVIOUS
<1>2. PICK q : q = (d * Bins) \div w
  OBVIOUS
<1>3. d * Bins \in Nat
  BY <1>0
<1>4. q \in Nat /\ w * q <= d * Bins /\ d * Bins < w * q + w
  BY <1>1, <1>2, <1>3, Division
<1>5. d = w => q >= Bins
  <2> SUFFICES ASSUME d = w, q < Bins
               PROVE  FALSE
    BY <1>0, <1>4
  <2>1. q + 1 <= Bins
    BY <1>0, <1>4
  <2>2. w * (q + 1) <= w * Bins
    BY <1>0, <1>1, <1>4, <2>1
  <2>3. w * (q + 1) = w * q + w
    BY <1>1, <1>4
  <2> QED
    BY <1>0, <1>1, <1>4, <2>2, <2>3
<1>6. PICK T : T = {q, Bins - 1}
  OBVIOUS
<1>7. /\ Bin(v, low, high, Bins) = Min(T) /\ T \subseteq Int /\ T # {}
      /\ \A y \in T : y = q \/ y = Bins - 1
      /\ q \in T /\ Bins - 1 \in T
  BY <1>0, <1>1, <1>2, <1>4, <1>6 DEF Bin
<1>8. IsFiniteSet(T)
  <2>1. T = {q} \cup {Bins - 1}
    BY <1>6
  <2> QED
    BY <2>1, FS_Singleton, FS_AddElement
<1>9. Min(T) \in T /\ \A y \in T : Min(T) <= y
  BY <1>7, <1>8, LeastElement
<1>10. PICK b : b = Bin(v, low, high, Bins)
  OBVIOUS
<1>11. (b = q \/ b = Bins - 1) /\ b <= q /\ b <= Bins - 1
  BY <1>7, <1>9, <1>10
<1>12. b \in 0..(Bins - 1)
  BY <1>0, <1>4, <1>11
<1>13. v = high => b = Bins - 1
  BY <1>0, <1>1, <1>4, <1>5, <1>11
<1> QED
  BY <1>10, <1>12, <1>13

LEMMA CompleteHistogram ==
  ASSUME NEW n \in Nat \ {0}, NEW values \in [1..n -> Int],
         NEW h, h = Histogram(values, Bins)
  PROVE  AddedUp(h) = n /\ h[Len(h)] > 0
<1>0. Bins \in Nat \ {0}
  BY Phase1Assumption, Zenon
<1>1. PICK S : S = ToSet(values)
  OBVIOUS
<1>2. S \subseteq Int /\ S # {} /\ \A i \in 1..n : values[i] \in S
  BY <1>1 DEF ToSet
<1>3. \A y \in S : \E i \in 1..n : values[i] = y
  BY <1>1 DEF ToSet
<1>4. IsFiniteSet(S)
  <2>1. values \in Surjection(1..n, S)
    BY <1>2, <1>3 DEF Surjection
  <2>2. IsFiniteSet(1..n)
    BY FS_Interval
  <2> QED
    BY <2>1, <2>2, FS_Surjection
<1>5. PICK low, high : low = Min(S) /\ high = Max(S)
  OBVIOUS
<1>6. low \in S /\ high \in S /\ \A y \in S : low <= y /\ high >= y
  BY <1>2, <1>4, <1>5, LeastElement, GreatestElement
<1>7. /\ low \in Int /\ high \in Int /\ low <= high
      /\ \A i \in 1..n : values[i] \in Int /\ low <= values[i] /\ values[i] <= high
  BY <1>2, <1>6
<1>8. IsFiniteSet(1..n) /\ Cardinality(1..n) = n /\ Len(values) = n /\ DOMAIN values = 1..n
  BY FS_Interval
<1>9. CASE low = high
  <2>1. h = <<n>>
    BY <1>1, <1>5, <1>8, <1>9 DEF Histogram
  <2>2. PICK one : one = [i \in 1..n |-> 1]
    OBVIOUS
  <2>3. DOMAIN h = {1} /\ h[1] = n /\ Len(h) = 1 /\ IsFiniteSet({1})
    <3>1. DOMAIN <<n>> = 1..1 /\ <<n>>[1] = n /\ Len(<<n>>) = 1 /\ 1..1 = {1}
      OBVIOUS
    <3> QED
      BY <2>1, <3>1, FS_Singleton
  <2>4. \A b \in {1} : h[b] = Cardinality({i \in 1..n : one[i] = b})
    <3>1. {i \in 1..n : one[i] = 1} = 1..n
      BY <2>2
    <3> QED
      BY <1>8, <2>3, <3>1
  <2>5. PICK T : T = {1}
    OBVIOUS
  <2>6. DOMAIN h = T /\ IsFiniteSet(T)
    BY <2>3, <2>5
  <2>7. CountsBins(h, n, one)
    BY <2>4, <2>5, <2>6 DEF CountsBins
  <2>8. AddedUp(h) = Cardinality({i \in 1..n : one[i] \in T})
    BY <2>6, <2>7, SumOfCounts
  <2>9. {i \in 1..n : one[i] \in T} = 1..n
    BY <2>2, <2>5
  <2>10. AddedUp(h) = n
    BY <1>8, <2>8, <2>9
  <2> QED
    BY <2>3, <2>10
<1>10. CASE low # high
  <2>1. h = [b \in 1..Bins |-> Cardinality({i \in 1..n :
                                  Bin(values[i], low, high, Bins) = b - 1})]
    BY <1>1, <1>5, <1>8, <1>10 DEF Histogram
  <2>2. PICK bin : bin = [i \in 1..n |-> Bin(values[i], low, high, Bins) + 1]
    OBVIOUS
  <2>3. ASSUME NEW i \in 1..n
        PROVE  /\ Bin(values[i], low, high, Bins) \in 0..(Bins - 1)
               /\ values[i] = high => Bin(values[i], low, high, Bins) = Bins - 1
    BY <1>7, <1>10, BinsOfValues
  <2>4. ASSUME NEW i \in 1..n
        PROVE  /\ bin[i] \in 1..Bins
               /\ values[i] = high => bin[i] = Bins
               /\ \A b \in 1..Bins :
                    bin[i] = b <=> Bin(values[i], low, high, Bins) = b - 1
    <3>1. PICK c : c = Bin(values[i], low, high, Bins)
      OBVIOUS
    <3>2. c \in 0..(Bins - 1) /\ (values[i] = high => c = Bins - 1)
      BY <2>3, <3>1
    <3>3. bin[i] = c + 1
      BY <2>2, <3>1
    <3>4. bin[i] \in 1..Bins /\ (values[i] = high => bin[i] = Bins)
      BY <1>0, <3>2, <3>3
    <3>5. \A b \in 1..Bins : bin[i] = b <=> c = b - 1
      BY <1>0, <3>2, <3>3
    <3> QED
      BY <3>1, <3>4, <3>5
  <2>5. \A b \in 1..Bins : h[b] = Cardinality({i \in 1..n : bin[i] = b})
    <3> SUFFICES ASSUME NEW b \in 1..Bins
                 PROVE  h[b] = Cardinality({i \in 1..n : bin[i] = b})
      OBVIOUS
    <3>1. {i \in 1..n : bin[i] = b} =
            {i \in 1..n : Bin(values[i], low, high, Bins) = b - 1}
      BY <2>4
    <3> QED
      BY <2>1, <3>1
  <2>6. DOMAIN h = 1..Bins /\ Len(h) = Bins /\ IsFiniteSet(1..Bins)
    BY <1>0, <2>1, FS_Interval
  <2>7. PICK T : T = 1..Bins
    OBVIOUS
  <2>8. AddedUp(h) = n
    <3>1. DOMAIN h = T /\ IsFiniteSet(T)
      BY <2>6, <2>7
    <3>2. CountsBins(h, n, bin)
      BY <2>5, <2>6 DEF CountsBins
    <3>3. AddedUp(h) = Cardinality({i \in 1..n : bin[i] \in T})
      BY <3>1, <3>2, SumOfCounts
    <3>4. {i \in 1..n : bin[i] \in T} = 1..n
      BY <2>4, <2>7
    <3> QED
      BY <1>8, <3>3, <3>4
  <2>9. h[Bins] > 0
    <3>1. PICK U : U = {i \in 1..n : bin[i] = Bins}
      OBVIOUS
    <3>2. h[Bins] = Cardinality(U)
      BY <1>0, <2>5, <3>1
    <3>3. U # {}
      BY <1>3, <1>6, <2>4, <3>1
    <3>4. U \in SUBSET (1..n)
      BY <3>1
    <3>5. IsFiniteSet(U) /\ Cardinality(U) \in Nat
      BY <1>8, <3>4, FS_Subset, FS_CardinalityType
    <3> QED
      BY <3>2, <3>3, <3>5, FS_EmptySet
  <2> QED
    BY <2>6, <2>8, <2>9
<1> QED
  BY <1>9, <1>10

-----------------------------------------------------------------------------
(***************************************************************************)
(* The steps of the programs.                                              *)
(***************************************************************************)

LEMMA Pc3Steps ==
  ASSUME cfg.program = "pc3"
  PROVE  /\ Len(Main) = 13 /\ DOMAIN Main = 1..13 /\ Completed = 14
         /\ Main[1] = "prepare" /\ Main[2] = "parametros_ejecucion.json"
         /\ Main[3] = "load" /\ Main[4] = "resumen_limpieza.json"
         /\ Main[5] = "build" /\ Main[6] = "normalize"
         /\ Main[7] = "features_high_demand.csv" /\ Main[8] = "train"
         /\ Main[9] = "score" /\ Main[10] = "metricas_modelo.json"
         /\ Main[11] = "modelo_entrenado.json" /\ Main[12] = "predicciones_muestra.csv"
         /\ Main[13] = "benchmark_concurrencia.json"
<1>1. Main = <<"prepare", "parametros_ejecucion.json", "load",
             "resumen_limpieza.json", "build", "normalize",
             "features_high_demand.csv", "train", "score",
             "metricas_modelo.json", "modelo_entrenado.json",
             "predicciones_muestra.csv", "benchmark_concurrencia.json">>
  BY DEF Main, Steps
<1> QED
  BY <1>1 DEF Completed

LEMMA AnalysisSteps ==
  ASSUME cfg.program = "analysis"
  PROVE  /\ Len(Main) = 19 /\ DOMAIN Main = 1..19 /\ Completed = 20
         /\ Main[1] = "prepare" /\ Main[2] = "load" /\ Main[3] = "analyze"
         /\ Main[4] = "estadisticas_descriptivas.json"
         /\ \A i \in 4..19 : /\ Main[i] \notin Computations
                             /\ Main[i] # "features_high_demand.csv"
<1>1. Main = <<"prepare", "load", "analyze",
             "estadisticas_descriptivas.json", "estadisticas_descriptivas.csv",
             "consumo_por_hora.csv", "consumo_por_dia_semana.csv",
             "consumo_por_mes.csv", "matriz_correlacion.csv",
             "distribucion_high_demand.json",
             "histograma_global_active_power.json", "analisis_resumen.md",
             "distribucion_global_active_power.svg",
             "consumo_promedio_por_hora.svg", "consumo_por_dia_semana.svg",
             "consumo_por_mes.svg", "matriz_correlacion.svg",
             "matriz_confusion.svg", "curva_loss.svg">>
  BY DEF Main, Steps
<1>2. \A i \in 4..19 : i \in {4, 5, 6, 7, 8, 9, 10, 11, 12, 13, 14, 15, 16, 17, 18, 19}
  OBVIOUS
<1> QED
  BY <1>1, <1>2 DEF Completed, Computations

\* Where each program stands when it computes, and when it writes.
LoadAt == IF cfg.program = "pc3" THEN 3 ELSE 2
FilesOfPc3 == {2, 4, 7, 10, 11, 12, 13}

LEMMA Places ==
  ASSUME Command, at \in 0..Completed
  PROVE  /\ Completed \in {14, 20} /\ Outputs \subseteq 1..(Completed - 1)
         /\ DOMAIN Main = 1..(Completed - 1)
         /\ Now = "prepare" <=> at = 1
         /\ Now = "load" <=> at = LoadAt
         /\ cfg.program = "pc3" =>
              /\ Completed = 14 /\ Outputs = FilesOfPc3
              /\ Now = "build" <=> at = 5
              /\ Now = "normalize" <=> at = 6
              /\ Now = "features_high_demand.csv" <=> at = 7
              /\ Now = "train" <=> at = 8
              /\ Now = "score" <=> at = 9
              /\ Now # "analyze"
         /\ cfg.program = "analysis" =>
              /\ Completed = 20 /\ Outputs = 4..19
              /\ Now = "analyze" <=> at = 3
              /\ Now \notin {"build", "normalize", "features_high_demand.csv",
                             "train", "score"}
<1>1. CASE cfg.program = "pc3"
  <2>1. \A i : i \in 1..13 <=> i \in {1, 2, 3, 4, 5, 6, 7, 8, 9, 10, 11, 12, 13}
    OBVIOUS
  <2>2. Outputs = FilesOfPc3
    BY <1>1, <2>1, Pc3Steps DEF Outputs, FilesOfPc3, Computations
  <2> QED
    BY <1>1, <2>1, <2>2, Pc3Steps DEF Now, LoadAt, FilesOfPc3
<1>2. CASE cfg.program = "analysis"
  <2>1. \A i : i \in 1..19 <=> i \in {1, 2, 3} \/ i \in 4..19
    OBVIOUS
  <2>2. Outputs = 4..19
    BY <1>2, <2>1, AnalysisSteps DEF Outputs, Computations
  <2> QED
    BY <1>2, <2>1, <2>2, AnalysisSteps DEF Now, LoadAt, Computations
<1> QED
  BY <1>1, <1>2 DEF Command

-----------------------------------------------------------------------------
(***************************************************************************)
(* The invariant of main.  DataAt says what main holds of the records at   *)
(* each step of each program.                                              *)
(***************************************************************************)

Sample == [x : Int, y : {0, 1}]
Labels == UNION {[1..m -> {0, 1}] : m \in Nat}

IsLoaded(d) == d.st = "loaded" /\ d.n \in Sizes

IsBuilt(d) ==
  /\ d.st = "built"
  /\ \E n \in Nat \ {0} : \E values \in [1..n -> Values \cup {NaN}] :
       d.threshold = Percentile75(values) /\ d.all = BuildSamples(values).samples
  /\ \E k \in Nat \ {0} : d.train \in [1..k -> Sample]
  /\ \E m \in Nat : d.test \in [1..m -> Sample]

\* What TrainingSetSpans says of the k normalised training samples.
Spans(U, k) ==
  /\ U = [i \in 1..k |-> U[i]]
  /\ \A i \in 1..k :
       /\ U[i].x.num \in Int /\ U[i].x.den \in Int /\ U[i].y \in {0, 1}
       /\ 0 <= U[i].x.num /\ U[i].x.num <= U[i].x.den /\ U[i].x.den > 0
  /\ \E i \in 1..k : U[i].x.num = 0
  /\ \/ \A i \in 1..k : U[i].x.num = 0
     \/ \E i \in 1..k : U[i].x.num = U[i].x.den

IsNormalized(d) ==
  /\ d.st = "normalized"
  /\ \E k \in Nat \ {0} : Spans(d.train, k)
  /\ Ys(d.test) \in Labels

IsSplit(d) == d.st = "split" /\ d.train \in Nat \ {0} /\ d.actual \in Labels

IsScored(d) ==
  /\ d.st = "scored"
  /\ \E m \in Nat : d.actual \in [1..m -> {0, 1}] /\ d.predicted \in [1..m -> {0, 1}]
  /\ d.report = ComputeClassification(d.actual, d.predicted)

IsAnalyzed(d) ==
  /\ d.st = "analyzed"
  /\ \E n \in Nat \ {0} : d.values \in [1..n -> Int]
  /\ d.histogram = Histogram(d.values, Bins)

DataAt(program, a, d) ==
  /\ program = "pc3" =>
       /\ a \in 0..3 \cup 11..14 => d.st = "none"
       /\ a \in {4, 5} => IsLoaded(d)
       /\ a = 6 => IsBuilt(d)
       /\ a = 7 => IsNormalized(d)
       /\ a \in {8, 9} => IsSplit(d)
       /\ a = 10 => IsScored(d)
  /\ program = "analysis" =>
       /\ a \in 0..2 \cup 5..20 => d.st = "none"
       /\ a = 3 => IsLoaded(d)
       /\ a = 4 => d.st \in {"none", "invalid"} \/ IsAnalyzed(d)

\* Files before the k-th step are of this run, those after it are not; if the
\* program failed it was in that step.
OfThisRun(n) ==
  IF Checked(n) THEN files[n] = "whole" ELSE Main[n] \in Csv => files[n] # "earlier"
Reached(k) ==
  /\ at # Fatal => at = k
  /\ \A n \in Outputs :
       /\ n < k => OfThisRun(n)
       /\ n > k \/ (n = k /\ at # Fatal) => files[n] = "earlier"

FilesInv ==
  /\ files \in [Outputs -> {"earlier", "whole", "cut", "skipped"}]
  /\ \E k \in 1..Completed : Reached(k)

Loading == at \in 1..LoadAt => LoadInv /\ cfg \in Commands

MainInv ==
  /\ Command
  /\ at \in 0..Completed
  /\ TrainInv
  /\ Loading
  /\ DataAt(cfg.program, at, data)
  /\ FilesInv

LEMMA SizesType == Sizes \subseteq Nat
<1>1. \A c \in Commands : c.lines \in Seq(Reasons \cup {"header", "valid", "oversized"})
  BY Phase1Assumption, Zenon
<1>2. \A c \in Commands : Len(c.lines) \in Nat
  BY <1>1
<1> QED
  BY <1>2 DEF Sizes

LEMMA SameProgram ==
  ASSUME cfg'.program = cfg.program
  PROVE  /\ Main' = Main /\ Completed' = Completed /\ Outputs' = Outputs
         /\ LoadAt' = LoadAt
         /\ \A n : Checked(n)' = Checked(n)
<1>1. Main' = Main
  BY DEF Main, Steps
<1> QED
  BY <1>1 DEF Completed, Outputs, LoadAt, Checked

-----------------------------------------------------------------------------
(***************************************************************************)
(* The files.                                                              *)
(***************************************************************************)

LEMMA FilesInit == Command /\ at = 1 /\ files = [n \in Outputs |-> "earlier"] => FilesInv
<1> SUFFICES ASSUME Command, at = 1, files = [n \in Outputs |-> "earlier"]
             PROVE  FilesInv
  OBVIOUS
<1>1. /\ 1 \in 1..Completed /\ Outputs \subseteq 1..(Completed - 1)
      /\ Completed \in {14, 20}
  <2>1. at \in 0..Completed
    BY Pc3Steps, AnalysisSteps DEF Command
  <2> QED
    BY <2>1, Places
<1>2. Reached(1)
  BY <1>1 DEF Reached
<1> QED
  BY <1>1, <1>2 DEF FilesInv

\* A step that writes no file.
LEMMA FilesSame ==
  ASSUME Command, at \in 0..Completed, FilesInv, files' = files, cfg'.program = cfg.program,
         at' = at \/ at' = Fatal \/ (at' = at + 1 /\ at \in DOMAIN Main /\ at \notin Outputs)
  PROVE  FilesInv'
<1>1. PICK k \in 1..Completed : Reached(k)
  BY DEF FilesInv
<1>2. /\ DOMAIN Main = 1..(Completed - 1) /\ Completed \in {14, 20}
      /\ Outputs \subseteq 1..(Completed - 1)
  BY Places
<1>3. \A n \in Outputs : OfThisRun(n)' = OfThisRun(n)
  BY SameProgram DEF OfThisRun
<1>4. CASE at' = at \/ at' = Fatal
  <2>1. Reached(k)'
    BY <1>1, <1>3, <1>4, SameProgram DEF Reached, Fatal
  <2> QED
    BY <2>1, SameProgram DEF FilesInv
<1>5. CASE at' = at + 1 /\ at \in DOMAIN Main /\ at \notin Outputs
  <2>1. PICK j : j = at + 1
    OBVIOUS
  <2>2. k = at /\ at \in 1..(Completed - 1) /\ j \in 1..Completed
    BY <1>1, <1>2, <1>5, <2>1 DEF Reached, Fatal
  <2>3. ASSUME NEW n \in Outputs
        PROVE  /\ n < j => OfThisRun(n)'
               /\ n > j \/ n = j => files'[n] = "earlier"
    <3>1. n \in Int /\ n # k
      BY <1>2, <1>5, <2>2
    <3>2. n < j => n < k
      BY <1>2, <2>1, <2>2, <3>1
    <3>3. n > j \/ n = j => n > k
      BY <1>2, <2>1, <2>2, <3>1
    <3> QED
      BY <1>1, <1>3, <3>2, <3>3 DEF Reached
  <2>4. Reached(j)'
    BY <1>5, <2>1, <2>3, SameProgram DEF Reached
  <2> QED
    BY <2>2, <2>4, SameProgram DEF FilesInv
<1> QED
  BY <1>4, <1>5

\* A step that writes one, or fails to.
LEMMA FilesWritten ==
  ASSUME Command, at \in 0..Completed, FilesInv, cfg'.program = cfg.program,
         at \in Outputs,
         NEW content \in {"earlier", "whole", "cut", "skipped"},
         files' = [files EXCEPT ![at] = content],
         \/ at' = Fatal
         \/ /\ at' = at + 1
            /\ IF Checked(at) THEN content = "whole"
                              ELSE Main[at] \in Csv => content # "earlier"
  PROVE  FilesInv'
<1>1. PICK k \in 1..Completed : Reached(k)
  BY DEF FilesInv
<1>2. /\ Completed \in {14, 20} /\ Outputs \subseteq 1..(Completed - 1)
      /\ at \in 1..(Completed - 1)
  BY Places
<1>3. k = at
  BY <1>1, <1>2 DEF Reached, Fatal
<1>4. /\ files' \in [Outputs -> {"earlier", "whole", "cut", "skipped"}]
      /\ files'[at] = content /\ \A n \in Outputs : n # at => files'[n] = files[n]
  BY DEF FilesInv
<1>5. \A n \in Outputs : n # at => OfThisRun(n)' = OfThisRun(n)
  BY <1>4, SameProgram DEF OfThisRun
<1>6. CASE at' = Fatal
  <2>1. ASSUME NEW n \in Outputs
        PROVE  /\ n < k => OfThisRun(n)'
               /\ n > k => files'[n] = "earlier"
    <3>1. n \in Int /\ (n < k \/ n > k => n # at)
      BY <1>2, <1>3
    <3> QED
      BY <1>1, <1>4, <1>5, <3>1 DEF Reached
  <2>2. Reached(k)'
    BY <1>6, <2>1, SameProgram DEF Reached, Fatal
  <2> QED
    BY <1>4, <2>2, SameProgram DEF FilesInv
<1>7. CASE /\ at' = at + 1
           /\ IF Checked(at) THEN content = "whole"
                             ELSE Main[at] \in Csv => content # "earlier"
  <2>1. \A n \in Outputs : n = at => OfThisRun(n)'
    BY <1>4, <1>7, SameProgram DEF OfThisRun
  <2>2. PICK j : j = at + 1
    OBVIOUS
  <2>3. ASSUME NEW n \in Outputs
        PROVE  /\ n < j => OfThisRun(n)'
               /\ n > j \/ n = j => files'[n] = "earlier"
    <3>1. n \in Int
      BY <1>2
    <3>2. n < j /\ n # at => n < k
      BY <1>2, <1>3, <2>2, <3>1
    <3>3. n > j \/ n = j => n > k /\ n # at
      BY <1>2, <1>3, <2>2, <3>1
    <3> QED
      BY <1>1, <1>4, <1>5, <2>1, <3>2, <3>3 DEF Reached
  <2>4. Reached(j)'
    BY <1>7, <2>2, <2>3, SameProgram DEF Reached
  <2>5. j \in 1..Completed
    BY <1>2, <2>2
  <2> QED
    BY <1>4, <2>4, <2>5, SameProgram DEF FilesInv
<1> QED
  BY <1>6, <1>7

-----------------------------------------------------------------------------
(***************************************************************************)
(* What main holds of the records.                                         *)
(***************************************************************************)

LEMMA KeptAfterFile ==
  ASSUME Command, at \in 0..Completed, at \in Outputs,
         DataAt(cfg.program, at, data), data.st # "invalid"
  PROVE  DataAt(cfg.program, at + 1, Kept)
<1>1. NoData.st = "none"
  BY DEF NoData
<1>2. CASE cfg.program = "pc3"
  <2>1. at \in FilesOfPc3
    BY <1>2, Places
  <2>2. CASE at = 2
    BY <1>2, <2>2 DEF DataAt, Kept
  <2>3. CASE at = 4
    BY <1>2, <2>3 DEF DataAt, Kept, IsLoaded
  <2>4. CASE at = 7
    <3>1. IsNormalized(data)
      BY <1>2, <2>4 DEF DataAt
    <3>2. PICK k \in Nat \ {0} : Spans(data.train, k)
      BY <3>1 DEF IsNormalized
    <3>3. PICK U : U = data.train
      OBVIOUS
    <3>4. PICK labels : labels = Ys(data.test)
      OBVIOUS
    <3>5. Len(U) = k
      BY <3>2, <3>3 DEF Spans
    <3>6. Kept = [st |-> "split", train |-> k, actual |-> labels]
      BY <3>1, <3>3, <3>4, <3>5 DEF IsNormalized, Kept
    <3>7. IsSplit(Kept)
      BY <3>1, <3>4, <3>6 DEF IsSplit, IsNormalized
    <3> HIDE DEF Kept
    <3> QED
      BY <1>2, <2>4, <3>7 DEF DataAt
  <2>5. CASE at \in {10, 11, 12, 13}
    <3>1. Kept.st = "none"
      BY <1>1, <1>2, <2>5 DEF DataAt, Kept, IsScored
    <3> QED
      BY <1>2, <2>5, <3>1 DEF DataAt
  <2> QED
    BY <2>1, <2>2, <2>3, <2>4, <2>5 DEF FilesOfPc3
<1>3. CASE cfg.program = "analysis"
  <2>1. at \in 4..19
    BY <1>3, Places
  <2>2. Kept.st = "none"
    BY <1>1, <1>3, <2>1 DEF DataAt, Kept, IsAnalyzed
  <2> QED
    BY <1>3, <2>1, <2>2 DEF DataAt
<1> QED
  BY <1>2, <1>3 DEF Command

\* The files that are written without looking at the data.
LEMMA DataOfCsv ==
  ASSUME Command, at \in 0..Completed, at \in Outputs,
         DataAt(cfg.program, at, data), Main[at] \in Csv \cup Optional
  PROVE  /\ data.st # "invalid"
         /\ Main[at] \in Optional => data.st = "none" /\ cfg.program = "analysis" /\ at # 4
<1>1. CASE cfg.program = "pc3"
  <2>1. at \in FilesOfPc3
    BY <1>1, Places
  <2>2. Main[at] \notin Optional
    BY <1>1, <2>1, Pc3Steps DEF FilesOfPc3, Optional
  <2>3. data.st # "invalid"
    BY <1>1, <2>1 DEF FilesOfPc3, DataAt, IsLoaded, IsNormalized, IsScored
  <2> QED
    BY <2>2, <2>3
<1>2. CASE cfg.program = "analysis"
  <2>1. at \in 4..19
    BY <1>2, Places
  <2>2. at # 4
    BY <1>2, AnalysisSteps DEF Csv, Optional
  <2>3. data.st = "none"
    BY <1>2, <2>1, <2>2 DEF DataAt
  <2> QED
    BY <1>2, <2>2, <2>3
<1> QED
  BY <1>1, <1>2 DEF Command

LEMMA PowersAreNumbers ==
  ASSUME NEW n, NEW values \in [1..n -> Values \cup {NaN}]
  PROVE  values \in [1..n -> Int]
<1>1. PICK S : S = Values \cup {NaN}
  OBVIOUS
<1>2. \A v \in S : v \in Int
  <2>1. Values \subseteq Nat
    BY Phase1Assumption, Zenon
  <2>2. NaN \in Int
    BY DEF NaN
  <2> QED
    BY <1>1, <2>1, <2>2
<1>3. values \in [1..n -> S]
  BY <1>1
<1> QED
  BY <1>2, <1>3

LEMMA BuiltData ==
  ASSUME IsLoaded(data), data.n >= MinSamples, NEW values \in Powers,
         NEW d, LET built == BuildSamples(values) IN
           d = [st |-> "built", threshold |-> built.threshold,
                all |-> built.samples,
                train |-> At(built.samples, Train(Shuffle(data.n), TestRatio)),
                test |-> At(built.samples, Test(Shuffle(data.n), TestRatio))]
  PROVE  IsBuilt(d)
<1>1. PICK n : n = data.n
  OBVIOUS
<1>2. n \in Sizes /\ n \in Nat /\ n > 1
  <2>1. MinSamples \in Nat /\ MinSamples > 1
    BY Phase1Assumption, Zenon
  <2>2. n \in Sizes
    BY <1>1, Zenon DEF IsLoaded
  <2>3. n \in Nat
    BY <2>2, SizesType, Zenon
  <2>4. n >= MinSamples
    BY <1>1, Zenon
  <2> QED
    BY <2>1, <2>2, <2>3, <2>4
<1>3. values \in [1..n -> Values \cup {NaN}]
  BY <1>1 DEF Powers
<1>4. PICK s : s = Shuffle(n)
  OBVIOUS
<1>5. s \in [1..n -> 1..n]
  BY <1>2, <1>4, ShuffleAssumption
<1>6. PICK k \in 1..(n - 1) : /\ Train(s, TestRatio) \in [1..k -> 1..n]
                              /\ Test(s, TestRatio) \in [1..(n - k) -> 1..n]
  <2>1. TestRatio \in 1..49
    BY Phase1Assumption, Zenon
  <2> QED
    BY <1>2, <1>5, <2>1, SplitPositions
<1>7. PICK samples, t : samples = BuildSamples(values).samples /\ t = Percentile75(values)
  OBVIOUS
<1>8. samples \in [1..n -> Sample]
  <2>1. samples = [i \in 1..n |-> [x |-> values[i],
                                   y |-> IF AtLeast(values[i], t) THEN 1 ELSE 0]]
    BY <1>3, <1>7 DEF BuildSamples
  <2>2. \A i \in 1..n : values[i] \in Int
    <3>1. values \in [1..n -> Int]
      BY <1>3, PowersAreNumbers
    <3> QED
      BY <3>1
  <2> QED
    BY <2>1, <2>2 DEF Sample
<1>9. PICK a, b : a = Train(s, TestRatio) /\ b = Test(s, TestRatio)
  OBVIOUS
<1>10. PICK u, v : u = At(samples, a) /\ v = At(samples, b)
  OBVIOUS
<1>11. u \in [1..k -> Sample] /\ v \in [1..(n - k) -> Sample]
  BY <1>6, <1>8, <1>9, <1>10 DEF At
<1>12. d = [st |-> "built", threshold |-> t, all |-> samples, train |-> u, test |-> v]
  BY <1>1, <1>4, <1>7, <1>9, <1>10 DEF BuildSamples
<1>13. d.st = "built" /\ d.threshold = t /\ d.all = samples /\ d.train = u /\ d.test = v
  BY <1>12
<1>14. \E m \in Nat : d.test \in [1..m -> Sample]
  BY <1>2, <1>11, <1>13
<1>15. \E j \in Nat \ {0} : d.train \in [1..j -> Sample]
  BY <1>11, <1>13
<1>16. n \in Nat \ {0}
  BY <1>2
<1> QED
  BY <1>3, <1>7, <1>13, <1>14, <1>15, <1>16 DEF IsBuilt

LEMMA NormalizedData ==
  ASSUME IsBuilt(data),
         NEW d, LET normalizer == FitMinMax(data.train) IN
           d = [st |-> "normalized", all |-> data.all,
                train |-> TransformSamples(normalizer, data.train),
                test |-> TransformSamples(normalizer, data.test)]
  PROVE  IsNormalized(d)
<1>1. PICK T, V, all : T = data.train /\ V = data.test /\ all = data.all
  OBVIOUS
<1>2. PICK k \in Nat \ {0} : T \in [1..k -> Sample]
  BY <1>1 DEF IsBuilt
<1>3. PICK m \in Nat : V \in [1..m -> Sample]
  BY <1>1 DEF IsBuilt
<1>4. PICK U, X : U = TransformSamples(FitMinMax(T), T) /\ X = TransformSamples(FitMinMax(T), V)
  OBVIOUS
<1>5. Spans(U, k)
  BY <1>2, <1>4, TrainingSetSpans DEF Sample, Spans
<1>6. Ys(X) \in Labels
  <2>1. PICK normalizer : normalizer = FitMinMax(T)
    OBVIOUS
  <2>2. X = [i \in 1..m |-> [x |-> TransformVector(normalizer, V[i].x), y |-> V[i].y]]
    BY <1>3, <1>4, <2>1 DEF TransformSamples
  <2>3. \A i \in 1..m : V[i].y \in {0, 1}
    BY <1>3 DEF Sample
  <2>4. Ys(X) \in [1..m -> {0, 1}]
    BY <2>2, <2>3 DEF Ys
  <2> QED
    BY <2>4 DEF Labels
<1>7. d = [st |-> "normalized", all |-> all, train |-> U, test |-> X]
  BY <1>1, <1>4
<1>8. d.st = "normalized" /\ d.train = U /\ d.test = X
  BY <1>7
<1> QED
  BY <1>5, <1>6, <1>8 DEF IsNormalized

LEMMA ScoredData ==
  ASSUME IsSplit(data), NEW predicted \in [DOMAIN data.actual -> {0, 1}],
         NEW d, d = [st |-> "scored", actual |-> data.actual, predicted |-> predicted,
                     report |-> ComputeClassification(data.actual, predicted)]
  PROVE  IsScored(d)
<1>1. PICK a : a = data.actual
  OBVIOUS
<1>2. PICK m \in Nat : a \in [1..m -> {0, 1}]
  BY <1>1 DEF IsSplit, Labels
<1>3. PICK r : r = ComputeClassification(a, predicted)
  OBVIOUS
<1>4. d = [st |-> "scored", actual |-> a, predicted |-> predicted, report |-> r]
  BY <1>1, <1>3
<1>5. d.st = "scored" /\ d.actual = a /\ d.predicted = predicted /\ d.report = r
  BY <1>4
<1>6. predicted \in [1..m -> {0, 1}]
  BY <1>1, <1>2
<1> QED
  BY <1>2, <1>3, <1>5, <1>6 DEF IsScored

LEMMA AnalyzedData ==
  ASSUME IsLoaded(data), data.n > 0, NEW values \in Powers, NEW high,
         NEW d, d = [st |-> "analyzed", values |-> values, high |-> high,
                     histogram |-> Histogram(values, Bins)]
  PROVE  IsAnalyzed(d)
<1>1. PICK n : n = data.n
  OBVIOUS
<1>2. n \in Nat \ {0}
  <2>1. n \in Sizes /\ n > 0
    BY <1>1, Zenon DEF IsLoaded
  <2>2. n \in Nat
    BY <2>1, SizesType, Zenon
  <2> QED
    BY <2>1, <2>2
<1>3. values \in [1..n -> Values \cup {NaN}]
  BY <1>1 DEF Powers
<1>4. values \in [1..n -> Int]
  BY <1>3, PowersAreNumbers
<1>5. PICK h : h = Histogram(values, Bins)
  OBVIOUS
<1>6. d = [st |-> "analyzed", values |-> values, high |-> high, histogram |-> h]
  BY <1>5
<1>7. d.st = "analyzed" /\ d.values = values /\ d.histogram = h
  BY <1>6
<1> QED
  BY <1>2, <1>4, <1>5, <1>7 DEF IsAnalyzed

\* A load returns as many records as some command has lines, at most.
LEMMA LoadedData ==
  ASSUME LoadInv, cfg \in Commands, loaded.status = "ok",
         NEW d, d = [st |-> "loaded", n |-> Len(loaded.summary.records)]
  PROVE  IsLoaded(d)
<1>1. Command /\ loaded.summary = Load!Reference
  BY DEF LoadInv, Load!SameAsSequential
<1>2. PICK S : S = {n \in Load!Wanted : Load!file[n] = "valid"}
  OBVIOUS
<1>3. PICK size : size = Cardinality(S)
  OBVIOUS
<1>4. PICK length : length = Len(cfg.lines)
  OBVIOUS
<1>5. length \in Nat /\ S \in SUBSET (1..length)
  <2>1. Load!FirstRow \in {1, 2}
    BY <1>1, FirstRowType
  <2>2. length \in Nat
    BY <1>1, <1>4 DEF Command
  <2> QED
    BY <1>2, <1>4, <2>1, <2>2 DEF Load!Wanted, Load!file
<1>6. size \in 0..length
  <2>1. IsFiniteSet(1..length) /\ Cardinality(1..length) = length
    BY <1>5, FS_Interval
  <2>2. PICK T : T = 1..length
    OBVIOUS
  <2>3. IsFiniteSet(T) /\ Cardinality(T) = length /\ S \in SUBSET T
    BY <1>5, <2>1, <2>2
  <2>4. IsFiniteSet(S) /\ Cardinality(S) <= Cardinality(T)
    BY <2>3, FS_Subset
  <2>5. Cardinality(S) \in Nat
    BY <2>4, FS_CardinalityType
  <2> QED
    BY <1>3, <1>5, <2>3, <2>4, <2>5
<1>7. loaded.summary.records = Load!Ascending(S)
  BY <1>1, <1>2 DEF Load!Reference
<1>8. PICK records : records = Load!Ascending(S)
  OBVIOUS
<1>9. records = Ascending(S)
  BY <1>8, SameAscending
<1>10. Len(records) = size
  BY <1>3, <1>6, <1>9 DEF Ascending
<1>11. d = [st |-> "loaded", n |-> size]
  BY <1>7, <1>8, <1>10
<1>12. size \in Sizes
  BY <1>4, <1>6 DEF Sizes
<1>13. d.st = "loaded" /\ d.n = size
  BY <1>11
<1> QED
  BY <1>12, <1>13 DEF IsLoaded

-----------------------------------------------------------------------------
(***************************************************************************)
(* The invariant is one.                                                   *)
(***************************************************************************)

LEMMA MainInit == Init => MainInv
<1> SUFFICES ASSUME Init
             PROVE  MainInv
  OBVIOUS
<1>1. LoadInv /\ cfg \in Commands /\ at = 1
  BY LoadInit DEF Init, Load!Init
<1>2. Command
  BY <1>1 DEF LoadInv
<1>3. at \in 0..Completed
  BY <1>1, <1>2, Pc3Steps, AnalysisSteps DEF Command
<1>4. TrainInv
  BY TrainInit DEF Init
<1>5. FilesInv
  BY <1>2, FilesInit DEF Init
<1>6. DataAt(cfg.program, at, data)
  <2>1. data.st = "none"
    BY DEF Init, NoData
  <2> QED
    BY <1>1, <2>1 DEF DataAt
<1> QED
  BY <1>1, <1>2, <1>3, <1>4, <1>5, <1>6 DEF MainInv, Loading

LEMMA DataNext ==
  ASSUME NEW p, NEW a, NEW d, DataAt(p, a, d),
         cfg'.program = p, at' = a, data' = d
  PROVE  DataAt(cfg.program, at, data)'
OBVIOUS

LEMMA NothingHeld == \A program : DataAt(program, Fatal, NoData)
BY DEF DataAt, Fatal, NoData

\* A step of main on its own, but for the data and the files.
LEMMA AloneRest ==
  ASSUME MainInv, UNCHANGED <<cfg, loaderVars, fitVars>>, at \in DOMAIN Main,
         at' = at + 1 \/ at' = Fatal
  PROVE  Command' /\ at' \in 0..Completed' /\ TrainInv' /\ Loading'
<1>1. Command /\ at \in 0..Completed /\ TrainInv /\ Loading
  BY DEF MainInv
<1>2. Command'
  BY <1>1, SameCall
<1>3. /\ DOMAIN Main = 1..(Completed - 1) /\ Completed \in {14, 20}
      /\ Completed' = Completed /\ LoadAt' = LoadAt /\ LoadAt \in {2, 3}
  BY <1>1, Places, SameProgram DEF LoadAt
<1>4. at' \in 0..Completed'
  BY <1>3 DEF Fatal
<1>5. Loading'
  <2> SUFFICES ASSUME at' \in 1..LoadAt'
               PROVE  LoadInv' /\ cfg' \in Commands
    BY DEF Loading
  <2>1. at \in 1..LoadAt
    BY <1>3 DEF Fatal
  <2> QED
    BY <1>1, <2>1, LoadSame DEF Loading
<1> QED
  BY <1>1, <1>2, <1>4, <1>5, TrainSame

\* A file is written, or the program ends trying.
LEMMA FileStep ==
  ASSUME MainInv, Writing, UNCHANGED <<cfg, loaderVars, fitVars>>,
         NEW content \in {"earlier", "whole", "cut", "skipped"},
         files' = [files EXCEPT ![at] = content],
         \/ at' = Fatal /\ data' = NoData
         \/ /\ at' = at + 1 /\ data' = Kept /\ data.st # "invalid"
            /\ IF Checked(at) THEN content = "whole"
                              ELSE Main[at] \in Csv => content # "earlier"
  PROVE  MainInv'
<1>1. Command /\ at \in 0..Completed /\ FilesInv /\ DataAt(cfg.program, at, data)
  BY DEF MainInv
<1>2. at \in Outputs /\ at \in DOMAIN Main
  BY DEF Writing, Outputs
<1>3. Command' /\ at' \in 0..Completed' /\ TrainInv' /\ Loading'
  BY <1>2, AloneRest
<1>4. FilesInv'
  BY <1>1, <1>2, FilesWritten
<1>5. DataAt(cfg.program, at, data)'
  <2>1. CASE at' = Fatal /\ data' = NoData
    BY <2>1, NothingHeld, DataNext
  <2>2. CASE at' = at + 1 /\ data' = Kept /\ data.st # "invalid"
    <3>1. DataAt(cfg.program, at + 1, Kept)
      BY <1>1, <1>2, <2>2, KeptAfterFile
    <3>2. PICK a, d : a = at + 1 /\ d = Kept
      OBVIOUS
    <3> QED
      BY <2>2, <3>1, <3>2, DataNext
  <2> QED
    BY <2>1, <2>2
<1> QED
  BY <1>3, <1>4, <1>5 DEF MainInv

\* A file is not even opened, and the program ends.
LEMMA DieStep ==
  ASSUME MainInv, at \in DOMAIN Main, UNCHANGED <<cfg, loaderVars, fitVars, files>>,
         at' = Fatal, data' = NoData
  PROVE  MainInv'
<1>1. Command /\ at \in 0..Completed /\ FilesInv
  BY DEF MainInv
<1>2. Command' /\ at' \in 0..Completed' /\ TrainInv' /\ Loading'
  BY AloneRest
<1>3. FilesInv'
  BY <1>1, FilesSame
<1>4. DataAt(cfg.program, at, data)'
  BY NothingHeld, DataNext
<1> QED
  BY <1>2, <1>3, <1>4 DEF MainInv

\* A step that computes.
LEMMA ComputeStep ==
  ASSUME MainInv, at \in DOMAIN Main, at \notin Outputs,
         UNCHANGED <<cfg, loaderVars, fitVars, files>>,
         at' = at + 1, DataAt(cfg.program, at + 1, data')
  PROVE  MainInv'
<1>1. Command /\ at \in 0..Completed /\ FilesInv
  BY DEF MainInv
<1>2. Command' /\ at' \in 0..Completed' /\ TrainInv' /\ Loading'
  BY AloneRest
<1>3. FilesInv'
  BY <1>1, FilesSame
<1>4. DataAt(cfg.program, at, data)'
  <2>1. PICK a, d : a = at + 1 /\ d = data'
    OBVIOUS
  <2> QED
    BY <2>1, DataNext
<1> QED
  BY <1>2, <1>3, <1>4 DEF MainInv


\* Writing leaves the file as it was, or it does not.
LEMMA SameFile ==
  ASSUME FilesInv, at \in Outputs, files' = files
  PROVE  \E content \in {"earlier", "whole", "cut", "skipped"} :
           files' = [files EXCEPT ![at] = content]
BY DEF FilesInv

LEMMA AloneStep ==
  ASSUME MainInv, Alone
  PROVE  MainInv'
<1>0. /\ Command /\ at \in 0..Completed /\ DataAt(cfg.program, at, data) /\ FilesInv
      /\ Now # "ended" => at \in DOMAIN Main
      /\ cfg.program \in {"pc3", "analysis"}
  BY DEF MainInv, Now, Command
<1>1. CASE WriteJson
  <2>1. Writing /\ Checked(at) /\ UNCHANGED <<cfg, loaderVars, fitVars>>
    BY <1>1 DEF WriteJson
  <2>2. CASE /\ data.st # "invalid" /\ files' = [files EXCEPT ![at] = "whole"]
             /\ at' = at + 1 /\ data' = Kept
    <3>1. "whole" \in {"earlier", "whole", "cut", "skipped"}
      OBVIOUS
    <3> QED
      BY <2>1, <2>2, <3>1, FileStep
  <2>3. CASE /\ files' = files \/ files' = [files EXCEPT ![at] = "cut"]
             /\ at' = Fatal /\ data' = NoData
    <3>1. PICK content \in {"earlier", "whole", "cut", "skipped"} :
            files' = [files EXCEPT ![at] = content]
      BY <1>0, <2>1, <2>3, SameFile DEF Writing
    <3> QED
      BY <2>1, <2>3, <3>1, FileStep
  <2> QED
    BY <1>1, <2>2, <2>3 DEF WriteJson
<1>2. CASE WriteCsv
  <2>1. Writing /\ Now \in Csv /\ UNCHANGED <<cfg, loaderVars, fitVars>>
    BY <1>2 DEF WriteCsv
  <2>2. Main[at] \in Csv /\ ~Checked(at) /\ data.st # "invalid"
    <3>1. Main[at] \in Csv
      BY <2>1 DEF Now, Csv
    <3> QED
      BY <1>0, <2>1, <3>1, DataOfCsv DEF Writing, Checked
  <2>3. ASSUME NEW content \in {"whole", "cut"}, files' = [files EXCEPT ![at] = content],
               at' = at + 1, data' = Kept
        PROVE  MainInv'
    <3>1. content \in {"earlier", "whole", "cut", "skipped"} /\ content # "earlier"
      OBVIOUS
    <3> QED
      BY <2>1, <2>2, <2>3, <3>1, FileStep
  <2>4. CASE /\ files' = files \/ files' = [files EXCEPT ![at] = "cut"]
             /\ at' = Fatal /\ data' = NoData
    <3>1. PICK content \in {"earlier", "whole", "cut", "skipped"} :
            files' = [files EXCEPT ![at] = content]
      BY <1>0, <2>1, <2>4, SameFile DEF Writing
    <3> QED
      BY <2>1, <2>4, <3>1, FileStep
  <2> QED
    BY <1>2, <2>3, <2>4 DEF WriteCsv
<1>3. CASE WriteOptional
  <2>1. /\ Writing /\ Now \in Optional /\ UNCHANGED <<cfg, loaderVars, fitVars, data>>
        /\ at' = at + 1
    BY <1>3 DEF WriteOptional
  <2>2. PICK content \in {"earlier", "whole", "cut"} : files' = [files EXCEPT ![at] = content]
    BY <1>3 DEF WriteOptional
  <2>3. Main[at] \in Optional
    BY <2>1 DEF Now, Optional
  <2>4. /\ ~Checked(at) /\ data.st = "none"
    BY <1>0, <2>1, <2>3, DataOfCsv DEF Checked, Writing
  <2>5. Kept = data
    BY <2>4 DEF Kept
  <2>6. Main[at] \notin Csv
    BY <2>3 DEF Optional, Csv
  <2>7. content \in {"earlier", "whole", "cut", "skipped"}
    OBVIOUS
  <2> QED
    BY <2>1, <2>2, <2>4, <2>5, <2>6, <2>7, FileStep
<1>4. CASE SkipProcessed
  <2>1. /\ Now = "features_high_demand.csv" /\ UNCHANGED <<cfg, loaderVars, fitVars>>
        /\ files' = [files EXCEPT ![at] = "skipped"] /\ at' = at + 1 /\ data' = Kept
    BY <1>4 DEF SkipProcessed
  <2>2. Main[at] \in Csv /\ at \in DOMAIN Main
    BY <1>0, <2>1 DEF Now, Csv
  <2>3. Writing /\ ~Checked(at) /\ data.st # "invalid"
    <3>1. Writing
      BY <2>2 DEF Writing, Outputs, Csv, Computations
    <3> QED
      BY <1>0, <2>2, <3>1, DataOfCsv DEF Writing, Checked
  <2>4. "skipped" \in {"earlier", "whole", "cut", "skipped"} /\ "skipped" # "earlier"
    OBVIOUS
  <2> QED
    BY <2>1, <2>2, <2>3, <2>4, FileStep
<1>c. Now \in Computations => at \in DOMAIN Main /\ at \notin Outputs
  BY <1>0 DEF Now, Outputs, Computations
<1>5. CASE Prepare
  <2>1. Now = "prepare" /\ (Step(data) \/ Die)
    BY <1>5 DEF Prepare
  <2>2. at = 1 /\ at \in DOMAIN Main /\ at \notin Outputs
    BY <1>0, <1>c, <2>1, Places DEF Computations
  <2>3. DataAt(cfg.program, at + 1, data)
    BY <1>0, <2>2 DEF DataAt
  <2> QED
    BY <2>1, <2>2, <2>3, ComputeStep, DieStep DEF Step, Die
<1>6. CASE Build
  <2>1. Now = "build"
    BY <1>6 DEF Build
  <2>2. /\ at = 5 /\ cfg.program = "pc3" /\ at \in DOMAIN Main /\ at \notin Outputs
    BY <1>0, <1>c, <2>1, Places DEF Computations
  <2>3. IsLoaded(data)
    BY <1>0, <2>2 DEF DataAt
  <2>4. CASE Die
    BY <2>2, <2>4, DieStep DEF Die
  <2>5. ASSUME data.n >= MinSamples, NEW values \in Powers,
               LET built == BuildSamples(values) IN
                 Step([st |-> "built", threshold |-> built.threshold,
                       all |-> built.samples,
                       train |-> At(built.samples, Train(Shuffle(data.n), TestRatio)),
                       test |-> At(built.samples, Test(Shuffle(data.n), TestRatio))])
        PROVE  MainInv'
    <3>1. at' = at + 1 /\ UNCHANGED <<cfg, loaderVars, fitVars, files>>
      BY <2>5 DEF Step
    <3>2. IsBuilt(data')
      <4>1. PICK d : d = data'
        OBVIOUS
      <4>2. LET built == BuildSamples(values) IN
              d = [st |-> "built", threshold |-> built.threshold,
                   all |-> built.samples,
                   train |-> At(built.samples, Train(Shuffle(data.n), TestRatio)),
                   test |-> At(built.samples, Test(Shuffle(data.n), TestRatio))]
        BY <2>5, <4>1 DEF Step
      <4> QED
        BY <2>3, <2>5, <4>1, <4>2, BuiltData
    <3>3. DataAt(cfg.program, at + 1, data')
      BY <2>2, <3>2 DEF DataAt
    <3> QED
      BY <2>2, <3>1, <3>3, ComputeStep
  <2> QED
    BY <1>6, <2>4, <2>5 DEF Build
<1>7. CASE Normalize
  <2>1. Now = "normalize"
    BY <1>7 DEF Normalize
  <2>2. /\ at = 6 /\ cfg.program = "pc3" /\ at \in DOMAIN Main /\ at \notin Outputs
    BY <1>0, <1>c, <2>1, Places DEF Computations
  <2>3. IsBuilt(data)
    BY <1>0, <2>2 DEF DataAt
  <2>4. CASE Die
    BY <2>2, <2>4, DieStep DEF Die
  <2>5. CASE LET normalizer == FitMinMax(data.train) IN
               Step([st |-> "normalized", all |-> data.all,
                     train |-> TransformSamples(normalizer, data.train),
                     test |-> TransformSamples(normalizer, data.test)])
    <3>1. at' = at + 1 /\ UNCHANGED <<cfg, loaderVars, fitVars, files>>
      BY <2>5 DEF Step
    <3>2. IsNormalized(data')
      <4>1. PICK d : d = data'
        OBVIOUS
      <4>2. LET normalizer == FitMinMax(data.train) IN
              d = [st |-> "normalized", all |-> data.all,
                   train |-> TransformSamples(normalizer, data.train),
                   test |-> TransformSamples(normalizer, data.test)]
        BY <2>5, <4>1 DEF Step
      <4> QED
        BY <2>3, <4>1, <4>2, NormalizedData
    <3>3. DataAt(cfg.program, at + 1, data')
      BY <2>2, <3>2 DEF DataAt
    <3> QED
      BY <2>2, <3>1, <3>3, ComputeStep
  <2> QED
    BY <1>7, <2>4, <2>5 DEF Normalize
<1>8. CASE Score
  <2>1. Now = "score"
    BY <1>8 DEF Score
  <2>2. /\ at = 9 /\ cfg.program = "pc3" /\ at \in DOMAIN Main /\ at \notin Outputs
    BY <1>0, <1>c, <2>1, Places DEF Computations
  <2>3. IsSplit(data)
    BY <1>0, <2>2 DEF DataAt
  <2>4. PICK predicted \in [DOMAIN data.actual -> {0, 1}] :
          Step([st |-> "scored", actual |-> data.actual, predicted |-> predicted,
                report |-> ComputeClassification(data.actual, predicted)])
    BY <1>8 DEF Score
  <2>5. at' = at + 1 /\ UNCHANGED <<cfg, loaderVars, fitVars, files>>
    BY <2>4 DEF Step
  <2>6. IsScored(data')
    <3>1. PICK d : d = data'
      OBVIOUS
    <3>2. d = [st |-> "scored", actual |-> data.actual, predicted |-> predicted,
               report |-> ComputeClassification(data.actual, predicted)]
      BY <2>4, <3>1 DEF Step
    <3> QED
      BY <2>3, <3>1, <3>2, ScoredData
  <2>7. DataAt(cfg.program, at + 1, data')
    BY <2>2, <2>6 DEF DataAt
  <2> QED
    BY <2>2, <2>5, <2>7, ComputeStep
<1>9. CASE Analyze
  <2>1. Now = "analyze"
    BY <1>9 DEF Analyze
  <2>2. /\ at = 3 /\ cfg.program = "analysis" /\ at \in DOMAIN Main /\ at \notin Outputs
    BY <1>0, <1>c, <2>1, Places DEF Computations
  <2>3. IsLoaded(data)
    BY <1>0, <2>2 DEF DataAt
  <2>4. at' = at + 1 /\ UNCHANGED <<cfg, loaderVars, fitVars, files>>
    BY <1>9 DEF Analyze, Step
  <2>5. data'.st \in {"none", "invalid"} \/ IsAnalyzed(data')
    <3>1. CASE data.n = 0 /\ Step(NoData)
      BY <3>1 DEF Step, NoData
    <3>2. CASE data.n > 0 /\ \E values \in Powers :
             Step(IF Finite(values)
                  THEN [st |-> "analyzed", values |-> values,
                        high |-> Cardinality({i \in DOMAIN values :
                                   AtLeast(values[i], Percentile75(values))}),
                        histogram |-> Histogram(values, Bins)]
                  ELSE [st |-> "invalid"])
      <4>1. PICK values \in Powers :
             Step(IF Finite(values)
                  THEN [st |-> "analyzed", values |-> values,
                        high |-> Cardinality({i \in DOMAIN values :
                                   AtLeast(values[i], Percentile75(values))}),
                        histogram |-> Histogram(values, Bins)]
                  ELSE [st |-> "invalid"])
        BY <3>2
      <4>2. PICK d, high : /\ d = data'
                           /\ high = Cardinality({i \in DOMAIN values :
                                       AtLeast(values[i], Percentile75(values))})
        OBVIOUS
      <4>3. d = IF Finite(values)
                THEN [st |-> "analyzed", values |-> values, high |-> high,
                      histogram |-> Histogram(values, Bins)]
                ELSE [st |-> "invalid"]
        BY <4>1, <4>2 DEF Step
      <4>4. CASE Finite(values)
        BY <2>3, <3>2, <4>2, <4>3, <4>4, AnalyzedData
      <4>5. CASE ~Finite(values)
        BY <4>2, <4>3, <4>5
      <4> QED
        BY <4>4, <4>5
    <3> QED
      BY <1>9, <3>1, <3>2 DEF Analyze
  <2>6. DataAt(cfg.program, at + 1, data')
    BY <2>2, <2>5 DEF DataAt
  <2> QED
    BY <2>2, <2>4, <2>6, ComputeStep
<1> QED
  BY <1>1, <1>2, <1>3, <1>4, <1>5, <1>6, <1>7, <1>8, <1>9 DEF Alone


\* The load and the training, with their goroutines.
LEMMA LoadingStep ==
  ASSUME MainInv, Now = "load", UNCHANGED <<at, fitVars, data, files>>,
         Load!Reader \/ \E w \in Load!Workers : Load!Worker(w)
  PROVE  MainInv'
<1>1. /\ Command /\ at \in 0..Completed /\ TrainInv /\ FilesInv /\ Loading
      /\ DataAt(cfg.program, at, data)
  BY DEF MainInv
<1>2. at = LoadAt /\ LoadAt \in {2, 3}
  BY <1>1, Places DEF LoadAt
<1>3. cfg' = cfg
  BY DEF Load!Reader, Load!SkipHeader, Load!Send, Load!CloseJobs, Load!Fail, Load!Reduce,
         Load!Worker, Load!Work, Load!End
<1>4. LoadInv' /\ Command' /\ Loading'
  BY <1>1, <1>2, <1>3, LoadNext DEF Loading, LoadInv
<1>5. TrainInv' /\ FilesInv' /\ Completed' = Completed
  BY <1>1, <1>3, TrainSame, FilesSame, SameProgram
<1>6. DataAt(cfg.program, at, data)'
  BY <1>1, <1>3
<1> QED
  BY <1>1, <1>4, <1>5, <1>6 DEF MainInv

LEMMA LoadReturnsStep ==
  ASSUME MainInv, LoadReturns
  PROVE  MainInv'
<1>1. /\ Command /\ at \in 0..Completed /\ TrainInv /\ FilesInv /\ Loading
      /\ DataAt(cfg.program, at, data) /\ cfg.program \in {"pc3", "analysis"}
  BY DEF MainInv, Command
<1>2. /\ Now = "load" /\ reader = "returned" /\ UNCHANGED <<fitVars, files>>
      /\ cfg' = [cfg EXCEPT !.lines = <<>>, !.limit = 0]
  BY DEF LoadReturns
<1>3. at = LoadAt /\ LoadAt \in {2, 3} /\ at \in DOMAIN Main /\ at \notin Outputs
  BY <1>1, <1>2, Places DEF LoadAt, FilesOfPc3
<1>4. LoadInv /\ cfg \in Commands
  BY <1>1, <1>3 DEF Loading
<1>5. Command' /\ cfg'.program = cfg.program
  <2>1. PICK program, lines, threads, most :
          /\ cfg = [program |-> program, lines |-> lines, workers |-> threads, limit |-> most]
          /\ program \in {"pc3", "analysis"} /\ threads \in Int
    BY <1>1 DEF Command
  <2>2. PICK next : next = [program |-> program, lines |-> <<>>, workers |-> threads, limit |-> 0]
    OBVIOUS
  <2>3. PICK g : g = [cfg EXCEPT !.lines = <<>>, !.limit = 0]
    OBVIOUS
  <2>4. g = next
    <3>1. PICK h : h = cfg
      OBVIOUS
    <3>2. /\ DOMAIN h = {"program", "lines", "workers", "limit"}
          /\ h.program = program /\ h.workers = threads
      BY <2>1, <3>1
    <3>3. g = [h EXCEPT !.lines = <<>>, !.limit = 0]
      BY <2>3, <3>1
    <3>4. /\ DOMAIN g = DOMAIN h /\ g.lines = <<>> /\ g.limit = 0
          /\ g.program = h.program /\ g.workers = h.workers
          /\ g = [x \in DOMAIN h |-> g[x]]
      BY <3>2, <3>3
    <3>5. /\ DOMAIN next = {"program", "lines", "workers", "limit"}
          /\ next = [x \in DOMAIN next |-> next[x]]
          /\ next.program = program /\ next.lines = <<>>
          /\ next.workers = threads /\ next.limit = 0
      BY <2>2
    <3>6. \A x \in DOMAIN h : g[x] = next[x]
      BY <3>2, <3>4, <3>5
    <3> QED
      BY <3>2, <3>4, <3>5, <3>6
  <2>5. cfg' = next
    BY <1>2, <2>3, <2>4
  <2>6. <<>> \in Seq(Load!Kinds)
    OBVIOUS
  <2>7. next.program = program /\ next.lines = <<>> /\ next.workers = threads /\ next.limit = 0
    BY <2>2
  <2>8. cfg.program = program
    BY <2>1
  <2> QED
    BY <2>1, <2>2, <2>5, <2>6, <2>7, <2>8 DEF Command, Load!Kinds
<1>6. TrainInv'
  BY <1>1, <1>2, TrainSame
<1>7. LoadAt' = LoadAt /\ Completed' = Completed /\ Completed \in {14, 20}
  BY <1>1, <1>5, SameProgram, Places
<1>8. CASE loaded.status = "ok"
  <2>1. /\ at' = at + 1
        /\ data' = [st |-> "loaded", n |-> Len(loaded.summary.records)]
    BY <1>8 DEF LoadReturns
  <2>2. IsLoaded(data')
    <3>1. PICK d : d = data'
      OBVIOUS
    <3> QED
      BY <1>4, <1>8, <2>1, <3>1, LoadedData
  <2>3. PICK p, a, d : p = cfg.program /\ a = at + 1 /\ d = data'
    OBVIOUS
  <2>4. DataAt(p, a, d)
    BY <1>1, <1>3, <2>2, <2>3 DEF DataAt, LoadAt
  <2>5. DataAt(cfg.program, at, data)'
    BY <1>5, <2>1, <2>3, <2>4, DataNext
  <2>6. FilesInv'
    BY <1>1, <1>2, <1>3, <1>5, <2>1, FilesSame
  <2>7. Loading'
    BY <1>3, <1>7, <2>1 DEF Loading
  <2>8. at' \in 0..Completed'
    BY <1>3, <1>7, <2>1
  <2> QED
    BY <1>5, <1>6, <2>5, <2>6, <2>7, <2>8 DEF MainInv
<1>9. CASE loaded.status # "ok"
  <2>1. at' = Fatal /\ data' = NoData
    BY <1>9 DEF LoadReturns
  <2>2. PICK p : p = cfg.program
    OBVIOUS
  <2>3. DataAt(cfg.program, at, data)'
    BY <1>5, <2>1, <2>2, NothingHeld, DataNext
  <2>4. FilesInv'
    BY <1>1, <1>2, <1>5, <2>1, FilesSame
  <2>5. Loading' /\ at' \in 0..Completed'
    BY <1>7, <2>1 DEF Loading, Fatal
  <2> QED
    BY <1>5, <1>6, <2>3, <2>4, <2>5 DEF MainInv
<1> QED
  BY <1>8, <1>9

LEMMA TrainingStep ==
  ASSUME MainInv, Now = "train", UNCHANGED <<cfg, loaderVars, data, files>>,
         TrainInv', at' = at \/ at' = at + 1
  PROVE  MainInv'
<1>1. /\ Command /\ at \in 0..Completed /\ FilesInv /\ DataAt(cfg.program, at, data)
      /\ cfg.program \in {"pc3", "analysis"}
  BY DEF MainInv, Command
<1>2. /\ at = 8 /\ cfg.program = "pc3" /\ Completed = 14
      /\ at \in DOMAIN Main /\ at \notin Outputs
  BY <1>1, Places DEF FilesOfPc3
<1>3. Command' /\ Completed' = Completed /\ LoadAt' = LoadAt /\ LoadAt = 3
  BY <1>1, <1>2, SameCall, SameProgram DEF LoadAt
<1>4. Loading' /\ at' \in 0..Completed'
  BY <1>2, <1>3 DEF Loading
<1>5. FilesInv'
  BY <1>1, <1>2, FilesSame
<1>6. DataAt(cfg.program, at, data)'
  <2>1. IsSplit(data)
    BY <1>1, <1>2 DEF DataAt
  <2>2. PICK a : a = at' /\ a \in {8, 9}
    BY <1>2
  <2>3. DataAt(cfg.program, a, data)
    BY <1>2, <2>1, <2>2 DEF DataAt
  <2> QED
    BY <2>2, <2>3, DataNext
<1> QED
  BY <1>3, <1>4, <1>5, <1>6 DEF MainInv

LEMMA CallTrainStep ==
  ASSUME MainInv, CallTrain
  PROVE  MainInv'
<1>1. /\ Command /\ at \in 0..Completed /\ DataAt(cfg.program, at, data) /\ TrainInv
      /\ cfg.program \in {"pc3", "analysis"}
  BY DEF MainInv, Command
<1>2. Now = "train" /\ UNCHANGED <<at, cfg, loaderVars, data, files>>
  BY DEF CallTrain
<1>3. at = 8 /\ cfg.program = "pc3"
  BY <1>1, <1>2, Places
<1>4. data.train \in Nat \ {0}
  BY <1>1, <1>3 DEF DataAt, IsSplit
<1>5. Load!Threads \in Nat \ {0}
  BY <1>1, ThreadsType
<1>6. PICK asked \in IterationsAsked : Fit!Call(data.train, Load!Threads, asked)
  BY DEF CallTrain
<1>7. asked \in Int
  <2>1. IterationsAsked \subseteq Int
    BY Phase1Assumption, Zenon
  <2> QED
    BY <2>1
<1>8. TrainInv'
  BY <1>1, <1>4, <1>5, <1>6, <1>7, TrainCall
<1> QED
  BY <1>2, <1>8, TrainingStep

LEMMA MainNext ==
  ASSUME MainInv, [Next]_vars
  PROVE  MainInv'
<1>1. CASE Alone
  BY <1>1, AloneStep
<1>2. CASE LoadStep
  BY <1>2, LoadingStep DEF LoadStep
<1>3. CASE LoadReturns
  BY <1>3, LoadReturnsStep
<1>4. CASE CallTrain
  BY <1>4, CallTrainStep
<1>5. CASE TrainStep
  <2>1. TrainInv'
    BY <1>5, TrainCaller DEF TrainStep, MainInv
  <2> QED
    BY <1>5, <2>1, TrainingStep DEF TrainStep
<1>6. CASE TrainReturns
  <2>1. TrainInv'
    BY <1>6, TrainForget DEF TrainReturns, MainInv
  <2> QED
    BY <1>6, <2>1, TrainingStep DEF TrainReturns
<1>7. ASSUME NEW g \in Goroutines, LoaderGoroutine(g)
      PROVE  MainInv'
  BY <1>7, LoadingStep DEF LoaderGoroutine
<1>8. ASSUME NEW g \in Goroutines, GradientGoroutine(g - 1)
      PROVE  MainInv'
  <2>1. g - 1 \in Nat
    <3>1. PICK most : g \in 1..most
      BY DEF Goroutines
    <3> QED
      BY <3>1
  <2>2. TrainInv'
    <3>1. PICK w \in Nat : w = g - 1
      BY <2>1
    <3>2. Fit!Worker(w)
      BY <1>8, <3>1 DEF GradientGoroutine
    <3> QED
      BY <3>2, TrainWorker DEF MainInv
  <2> QED
    BY <1>8, <2>2, TrainingStep DEF GradientGoroutine
<1>9. CASE UNCHANGED vars
  <2>1. UNCHANGED <<at, cfg, data, files>> /\ UNCHANGED loaderVars /\ UNCHANGED fitVars
    BY <1>9 DEF vars
  <2>2. /\ Command /\ at \in 0..Completed /\ TrainInv /\ FilesInv /\ Loading
        /\ DataAt(cfg.program, at, data)
    BY DEF MainInv
  <2>3. Command' /\ Completed' = Completed /\ TrainInv' /\ FilesInv' /\ LoadAt' = LoadAt
    BY <2>1, <2>2, SameCall, SameProgram, TrainSame, FilesSame
  <2>4. Loading'
    BY <2>1, <2>2, <2>3, LoadSame DEF Loading
  <2>5. DataAt(cfg.program, at, data)'
    BY <2>1, <2>2
  <2> QED
    BY <2>1, <2>2, <2>3, <2>4, <2>5 DEF MainInv
<1> QED
  BY <1>1, <1>2, <1>3, <1>4, <1>5, <1>6, <1>7, <1>8, <1>9 DEF Next, Caller

LEMMA MainAlways == Spec => []MainInv
<1>1. Init => MainInv
  BY MainInit
<1>2. MainInv /\ [Next]_vars => MainInv'
  BY MainNext
<1> QED
  BY <1>1, <1>2, PTL DEF Spec

-----------------------------------------------------------------------------
(***************************************************************************)
(* What the invariant says.                                                *)
(***************************************************************************)

LEMMA DataByState ==
  ASSUME MainInv
  PROVE  /\ data.st \in {"none", "loaded", "built", "normalized", "analyzed", "split",
                         "scored", "invalid"}
         /\ data.st = "built" => IsBuilt(data)
         /\ data.st = "normalized" => IsNormalized(data)
         /\ data.st = "scored" => IsScored(data)
         /\ data.st = "analyzed" => IsAnalyzed(data)
<1>1. Command /\ at \in 0..Completed /\ DataAt(cfg.program, at, data)
  BY DEF MainInv
<1>2. CASE cfg.program = "pc3"
  <2>1. at \in 0..14
    BY <1>1, <1>2, Places
  <2>2. \/ at \in 0..3 \cup 11..14 \/ at \in {4, 5} \/ at = 6 \/ at = 7
        \/ at \in {8, 9} \/ at = 10
    BY <2>1
  <2> QED
    BY <1>1, <1>2, <2>2
       DEF DataAt, IsLoaded, IsBuilt, IsNormalized, IsSplit, IsScored
<1>3. CASE cfg.program = "analysis"
  <2>1. at \in 0..20
    BY <1>1, <1>3, Places
  <2>2. at \in 0..2 \cup 5..20 \/ at = 3 \/ at = 4
    BY <2>1
  <2> QED
    BY <1>1, <1>3, <2>2 DEF DataAt, IsLoaded, IsAnalyzed
<1> QED
  BY <1>1, <1>2, <1>3 DEF Command

LEMMA Phase1Types == MainInv => Phase1TypeOK
<1> SUFFICES ASSUME MainInv
             PROVE  Phase1TypeOK
  OBVIOUS
<1>1. Command /\ at \in 0..Completed /\ Loading /\ TrainInv /\ FilesInv
  BY DEF MainInv
<1>2. Now = "load" => Load!TypeOK
  <2>1. LoadAt \in {2, 3}
    BY DEF LoadAt
  <2> QED
    BY <1>1, <2>1, Places, LoadTypes DEF Loading
<1> QED
  BY <1>1, <1>2, TrainTypes, DataByState DEF Phase1TypeOK, FilesInv

LEMMA LoadOfMain == MainInv => LoadIsSequential
<1> SUFFICES ASSUME MainInv, Now = "load"
             PROVE  Load!SameAsSequential
  BY DEF LoadIsSequential
<1>1. Command /\ at \in 0..Completed /\ Loading
  BY DEF MainInv
<1>2. at = LoadAt /\ LoadAt \in {2, 3}
  BY <1>1, Places DEF LoadAt
<1> QED
  BY <1>1, <1>2 DEF Loading, LoadInv

LEMMA TopQuarterOfMain == MainInv => HighDemandIsTheTopQuarter
<1> SUFFICES ASSUME MainInv, data.st = "built", Finite(Xs(data.all))
             PROVE  /\ 4 * Cardinality(Below(data.threshold)) < 3 * Len(data.all)
                    /\ 4 * Cardinality(UpTo(data.threshold)) >= 3 * Len(data.all)
                    /\ \A i \in DOMAIN data.all :
                         data.all[i].y = 0 <=> i \in Below(data.threshold)
  BY DEF HighDemandIsTheTopQuarter
<1>1. PICK n \in Nat \ {0} : \E values \in [1..n -> Values \cup {NaN}] :
        data.threshold = Percentile75(values) /\ data.all = BuildSamples(values).samples
  BY DataByState DEF IsBuilt
<1>2. PICK values \in [1..n -> Int] :
        data.threshold = Percentile75(values) /\ data.all = BuildSamples(values).samples
  BY <1>1, PowersAreNumbers
<1>3. PICK k \in 1..n : Percentile75(values) = values[k]
  BY PercentileIsAValue
<1>4. PICK all : all = data.all
  OBVIOUS
<1>t. PICK t \in Int : t = Percentile75(values) /\ t = values[k]
  BY <1>3
<1>5. all = [i \in 1..n |-> [x |-> values[i],
                             y |-> IF AtLeast(values[i], t) THEN 1 ELSE 0]]
  BY <1>2, <1>4, <1>t DEF BuildSamples
<1>6. \A i \in 1..n : /\ all[i].x = values[i]
                      /\ all[i].y = IF AtLeast(values[i], t) THEN 1 ELSE 0
  BY <1>5
<1>7. DOMAIN all = 1..n /\ Len(all) = n
  BY <1>5
<1>8. \A i \in 1..n : values[i] # NaN
  <2>1. Xs(all) = [i \in 1..n |-> values[i]]
    BY <1>6, <1>7 DEF Xs
  <2>2. \A i \in 1..n : values[i] \in ToSet(Xs(all))
    BY <2>1 DEF ToSet
  <2> QED
    BY <1>4, <2>2 DEF Finite
<1>9. PICK lower \in SUBSET (1..n), upper \in SUBSET (1..n) :
        lower = Below(t) /\ upper = UpTo(t)
  BY <1>4, <1>7 DEF Below, UpTo
<1>10. \A i \in 1..n : /\ i \in lower <=> values[i] < t
                       /\ i \in upper <=> values[i] <= t
  BY <1>4, <1>6, <1>7, <1>9 DEF Below, UpTo
<1>11. 4 * Cardinality(lower) < 3 * n /\ 4 * Cardinality(upper) >= 3 * n
  BY <1>t, <1>10, TopQuarter
<1>12. \A i \in 1..n : all[i].y = 0 <=> i \in lower
  BY <1>t, <1>6, <1>8, <1>10 DEF AtLeast
<1> QED
  BY <1>2, <1>4, <1>t, <1>7, <1>9, <1>11, <1>12

LEMMA NormaliserOfMain == MainInv => NormaliserFitsTheTrainingSet
<1> SUFFICES ASSUME MainInv, data.st = "normalized"
             PROVE  NormaliserFitsTheTrainingSet
  BY DEF NormaliserFitsTheTrainingSet
<1>1. PICK k \in Nat \ {0} : Spans(data.train, k)
  BY DataByState DEF IsNormalized
<1>2. PICK U : U = data.train
  OBVIOUS
<1>3. Spans(U, k) /\ DOMAIN U = 1..k
  BY <1>1, <1>2 DEF Spans
<1> QED
  BY <1>2, <1>3 DEF Spans, NormaliserFitsTheTrainingSet

LEMMA MatrixOfMain == MainInv => ConfusionMatrixAddsUp
<1> SUFFICES ASSUME MainInv, data.st = "scored"
             PROVE  ConfusionMatrixAddsUp
  BY DEF ConfusionMatrixAddsUp
<1>1. IsScored(data)
  BY DataByState
<1>2. PICK a, p, r : a = data.actual /\ p = data.predicted /\ r = data.report
  OBVIOUS
<1>3. PICK m \in Nat : a \in [1..m -> {0, 1}] /\ p \in [1..m -> {0, 1}]
  BY <1>1, <1>2 DEF IsScored
<1>4. r = ComputeClassification(a, p)
  BY <1>1, <1>2 DEF IsScored
<1>5. /\ r.tp + r.fn = Cardinality(Ones(a))
      /\ r.tp + r.fp = Cardinality(Ones(p))
      /\ r.tp + r.tn + r.fp + r.fn = Len(a)
  BY <1>3, <1>4, MatrixAddsUp
<1> QED
  BY <1>2, <1>5 DEF ConfusionMatrixAddsUp, Ones

LEMMA HistogramOfMain == MainInv => HistogramIsComplete
<1> SUFFICES ASSUME MainInv, data.st = "analyzed"
             PROVE  HistogramIsComplete
  BY DEF HistogramIsComplete
<1>1. IsAnalyzed(data)
  BY DataByState
<1>2. PICK values, h : values = data.values /\ h = data.histogram
  OBVIOUS
<1>3. PICK n \in Nat \ {0} : values \in [1..n -> Int]
  BY <1>1, <1>2 DEF IsAnalyzed
<1>4. h = Histogram(values, Bins)
  BY <1>1, <1>2 DEF IsAnalyzed
<1>5. AddedUp(h) = n /\ h[Len(h)] > 0
  BY <1>3, <1>4, CompleteHistogram
<1>6. Len(values) = n
  BY <1>3
<1> QED
  BY <1>2, <1>5, <1>6 DEF HistogramIsComplete

LEMMA FilesOfMain == MainInv => FilesVouchForEarlierOnes
<1> SUFFICES ASSUME MainInv
             PROVE  FilesVouchForEarlierOnes
  OBVIOUS
<1>1. Command /\ at \in 0..Completed /\ FilesInv
  BY DEF MainInv
<1>2. PICK k \in 1..Completed : Reached(k)
  BY <1>1 DEF FilesInv
<1>3. Completed \in {14, 20} /\ Outputs \subseteq 1..(Completed - 1)
  BY <1>1, Places
<1>4. ASSUME NEW m \in Outputs, NEW n \in Outputs, m < n, files[n] # "earlier"
      PROVE  OfThisRun(m)
  <2>1. m \in Int /\ n \in Int /\ k \in Int
    BY <1>2, <1>3
  <2>2. ~(n > k)
    BY <1>2, <1>4 DEF Reached
  <2>3. m < k
    BY <1>4, <2>1, <2>2
  <2> QED
    BY <1>2, <2>3 DEF Reached
<1>5. ASSUME at = Completed, NEW n \in Outputs
      PROVE  OfThisRun(n)
  <2>1. k = at /\ n < k
    BY <1>2, <1>3, <1>5 DEF Reached, Fatal
  <2> QED
    BY <1>2, <2>1 DEF Reached
<1> QED
  BY <1>4, <1>5 DEF FilesVouchForEarlierOnes, OfThisRun

-----------------------------------------------------------------------------
(***************************************************************************)
(* Theorems.                                                               *)
(***************************************************************************)

\* The state of both programs, of their loads and of their training keeps its
\* types, jobs and partials their capacities, and no goroutine of the gradient
\* gets a slice beyond the samples.
THEOREM Phase1TypesAlways == Spec => []Phase1TypeOK
BY MainAlways, Phase1Types, PTL

\* loader.Run returns what reading the same file in one loop would return,
\* whatever the number of workers and however they take turns.
THEOREM LoadsAreSequential == Spec => []LoadIsSequential
BY MainAlways, LoadOfMain, PTL

\* Each pass of ml.TrainParallel adds up every sample once, at the weights of
\* the model, for every number of samples and of goroutines.
THEOREM PassesCountEverySample == Spec => []EverySampleOnce
<1>1. MainInv => EverySampleOnce
  BY TrainSums DEF MainInv, EverySampleOnce
<1> QED
  BY <1>1, MainAlways, PTL

\* No two goroutines of a pass share a sample or a cell, and the caller reads
\* the cells when all are written: there is no data race to be had.
THEOREM PassesDoNotRace == Spec => []NoRace
<1>1. MainInv => NoRace
  BY TrainApart DEF MainInv, NoRace
<1> QED
  BY <1>1, MainAlways, PTL

\* The history that TrainParallel reports has a loss for each iteration and one
\* before the first, each at the weights its own update starts from.
THEOREM HistoryIsTheLossCurve == Spec => []LossCurve
<1>1. MainInv => LossCurve
  BY TrainLosses DEF MainInv, LossCurve
<1> QED
  BY <1>1, MainAlways, PTL

\* BuildSamples labels as high demand the records from the 75th percentile up,
\* for every dataset without NaN.
THEOREM HighDemandAlways == Spec => []HighDemandIsTheTopQuarter
BY MainAlways, TopQuarterOfMain, PTL

\* The normaliser is fitted on the training samples: they span 0 to 1, whatever
\* the shuffle put among them.
THEOREM NoLeakage == Spec => []NormaliserFitsTheTrainingSet
BY MainAlways, NormaliserOfMain, PTL

\* The confusion matrix that metricas_modelo.json reports adds up, whatever the
\* model predicts.
THEOREM MatricesAddUp == Spec => []ConfusionMatrixAddsUp
BY MainAlways, MatrixOfMain, PTL

\* The histogram of pc3-analysis has every record in a bin and the largest in
\* the last one.
THEOREM HistogramsAreComplete == Spec => []HistogramIsComplete
BY MainAlways, HistogramOfMain, PTL

\* A file of this run vouches for those the program writes before it, wherever
\* either program dies.
THEOREM FilesVouch == Spec => []FilesVouchForEarlierOnes
BY MainAlways, FilesOfMain, PTL

=============================================================================
