--------------------------- MODULE ShardingProofs ---------------------------
(***************************************************************************)
(* shard-data and the deployment around it, for every dataset, number of   *)
(* nodes, ratio, seed and number of runs.                                  *)
(*                                                                         *)
(* A plan is what one run sets out to write.  ShardInv relates the files,  *)
(* the run under way and the manifest to the plan they follow, and         *)
(* DeployInv relates what the processes hold in memory to the plans begun  *)
(* so far.  The properties follow from what a plan is: a partition of the  *)
(* samples.                                                                *)
(***************************************************************************)
EXTENDS Deployment, OperatorProofs

-----------------------------------------------------------------------------
(***************************************************************************)
(* The round robin: sample i goes to exactly one place of one shard.       *)
(***************************************************************************)

\* The samples of shard g, of n samples over k shards, and their positions.
Share(n, k, g) == (n - g + k) \div k
Position(k, g, j) == g + (j - 1) * k

LEMMA Shares ==
  ASSUME NEW n \in Nat, NEW k \in 1..n, NEW g \in 1..k
  PROVE  /\ Share(n, k, g) \in Nat \ {0}
         /\ \A j \in 1..Share(n, k, g) : Position(k, g, j) \in 1..n
         /\ \A j \in Nat \ {0} : Position(k, g, j) <= n => j <= Share(n, k, g)
<1>1. PICK a \in Nat : a = n - g + k /\ a >= k
  OBVIOUS
<1>2. PICK q \in Nat : q = a \div k /\ k * q <= a /\ a < k * q + k
  BY <1>1, Division
<1>3. Share(n, k, g) = q
  BY <1>1, <1>2 DEF Share
<1>4. q # 0
  BY <1>1, <1>2
<1>5. ASSUME NEW j \in 1..q
      PROVE  Position(k, g, j) \in 1..n
  <2>1. (j - 1) * k <= (q - 1) * k /\ (j - 1) * k >= 0
    OBVIOUS
  <2>2. (q - 1) * k = k * q - k
    OBVIOUS
  <2> QED
    BY <1>1, <1>2, <2>1, <2>2 DEF Position
<1>6. ASSUME NEW j \in Nat \ {0}, Position(k, g, j) <= n
      PROVE  j <= q
  <2>1. (j - 1) * k = j * k - k
    OBVIOUS
  <2>2. j * k <= a
    BY <1>1, <1>6, <2>1 DEF Position
  <2>3. CASE j >= q + 1
    <3>1. j * k >= (q + 1) * k /\ (q + 1) * k = k * q + k
      BY <2>3
    <3> QED
      BY <1>2, <2>2, <3>1
  <2> QED
    BY <2>3
<1> QED
  BY <1>3, <1>4, <1>5, <1>6

LEMMA SharesAreBalanced ==
  ASSUME NEW n \in Nat, NEW k \in 1..n, NEW g \in 1..k, NEW h \in 1..k
  PROVE  Share(n, k, g) <= Share(n, k, h) + 1
<1>1. PICK a \in Nat, b \in Nat : a = n - g + k /\ b = n - h + k /\ a < b + k
  OBVIOUS
<1>2. PICK p \in Nat : p = a \div k /\ k * p <= a
  BY <1>1, Division
<1>3. PICK q \in Nat : q = b \div k /\ b < k * q + k
  BY <1>1, Division
<1>4. ASSUME p >= q + 2
      PROVE  FALSE
  <2>1. k * p >= k * (q + 2) /\ k * (q + 2) = k * q + 2 * k
    BY <1>4
  <2> QED
    BY <1>1, <1>2, <1>3, <2>1
<1>5. p <= q + 1
  BY <1>4
<1> QED
  BY <1>1, <1>2, <1>3, <1>5 DEF Share

LEMMA OnePlace ==
  ASSUME NEW k \in Nat \ {0}, NEW g \in 1..k, NEW h \in 1..k,
         NEW i \in Nat \ {0}, NEW j \in Nat \ {0},
         Position(k, g, i) = Position(k, h, j)
  PROVE  g = h /\ i = j
<1>1. g + (i - 1) * k = h + (j - 1) * k
  BY DEF Position
<1>2. CASE i < j
  <2>1. (j - 1) * k >= i * k /\ (i - 1) * k = i * k - k
    BY <1>2
  <2> QED
    BY <1>1, <2>1
<1>3. CASE j < i
  <2>1. (i - 1) * k >= j * k /\ (j - 1) * k = j * k - k
    BY <1>3
  <2> QED
    BY <1>1, <2>1
<1> QED
  BY <1>1, <1>2, <1>3

LEMMA SomePlace ==
  ASSUME NEW n \in Nat, NEW k \in 1..n, NEW i \in 1..n
  PROVE  \E g \in 1..k : \E j \in 1..Share(n, k, g) : i = Position(k, g, j)
<1>1. PICK q \in Nat : k * q <= i - 1 /\ i - 1 < k * q + k
  <2>1. PICK a \in Nat : a = i - 1
    OBVIOUS
  <2>2. k \in Nat \ {0}
    OBVIOUS
  <2>3. PICK q \in Nat : k * q <= a /\ a < k * q + k
    BY <2>2, Division
  <2> QED
    BY <2>1, <2>3
<1>2. PICK g \in 1..k : g = i - k * q
  BY <1>1
<1>3. PICK j \in Nat \ {0} : j = q + 1
  OBVIOUS
<1>4. Position(k, g, j) = i
  BY <1>2, <1>3 DEF Position
<1>5. j <= Share(n, k, g) /\ Share(n, k, g) \in Nat
  BY <1>4, Shares
<1> QED
  BY <1>4, <1>5

\* This shard is shard g of k.
Deals(shard, samples, n, k, g) ==
  /\ Len(shard) = Share(n, k, g)
  /\ \A j \in 1..Share(n, k, g) : shard[j] = samples[Position(k, g, j)]

LEMMA RobinShards ==
  ASSUME NEW S, NEW n \in Nat, NEW samples \in [1..n -> S], NEW k \in 1..n
  PROVE  /\ RoundRobin(samples, k) \in [1..k -> Seq(S)]
         /\ \A g \in 1..k : Deals(RoundRobin(samples, k)[g], samples, n, k, g)
<1>1. samples \in Seq(S) /\ Len(samples) = n
  OBVIOUS
<1>2. PICK robin : robin = RoundRobin(samples, k)
  OBVIOUS
<1>3. robin = [g \in 1..k |-> [j \in 1..Share(n, k, g) |-> samples[Position(k, g, j)]]]
  BY <1>1, <1>2 DEF RoundRobin, Share, Position
<1>4. ASSUME NEW g \in 1..k
      PROVE  robin[g] \in Seq(S) /\ Deals(robin[g], samples, n, k, g)
  <2>1. PICK m \in Nat : m = Share(n, k, g)
    BY Shares
  <2>2. \A j \in 1..m : Position(k, g, j) \in 1..n
    BY <2>1, Shares
  <2>3. robin[g] = [j \in 1..m |-> samples[Position(k, g, j)]]
    BY <1>3, <2>1
  <2>4. \A j \in 1..m : samples[Position(k, g, j)] \in S
    BY <2>2
  <2>5. PICK s : s = robin[g]
    OBVIOUS
  <2>6. s \in [1..m -> S]
    BY <2>3, <2>4, <2>5
  <2> QED
    BY <2>1, <2>3, <2>5, <2>6 DEF Deals
<1> QED
  BY <1>2, <1>3, <1>4

-----------------------------------------------------------------------------
(***************************************************************************)
(* What a run sets out to write.                                           *)
(***************************************************************************)

\* Shuffled samples are those of the dataset, each once, in another order.
LEMMA ShuffledSamples ==
  ASSUME NEW d \in Datasets, NEW seed \in Seeds, NEW n \in Nat \ {0},
         n = Len(d.samples)
  PROVE  /\ n <= MaxSamples
         /\ Shuffled(d, seed) \in [1..n -> Samples]
         /\ IsInjective(Shuffled(d, seed))
         /\ ToSet(Shuffled(d, seed)) = ToSet(d.samples)
<1>1. d.samples \in Seq(Samples) /\ IsInjective(d.samples) /\ n <= MaxSamples
  BY ShardingAssumption
<1>2. PICK w \in [1..n -> Samples] : w = d.samples /\ IsInjective(w)
  BY <1>1
<1>3. n \in 1..MaxSamples
  BY <1>1, ShardingAssumption
<1>4. PICK perm \in [1..n -> 1..n] : perm = Shuffle[seed][n] /\ IsInjective(perm)
  BY <1>3, ShardingAssumption
<1>5. PICK s : s = Shuffled(d, seed)
  OBVIOUS
<1>6. s = [i \in 1..n |-> w[perm[i]]]
  BY <1>2, <1>4, <1>5 DEF Shuffled
<1>7. s \in [1..n -> Samples] /\ \A i \in 1..n : s[i] = w[perm[i]]
  BY <1>6
<1>8. \A i, j \in 1..n : w[i] = w[j] => i = j
  BY <1>2 DEF IsInjective
<1>9. \A i, j \in 1..n : perm[i] = perm[j] => i = j
  BY <1>4 DEF IsInjective
<1>10. IsInjective(s)
  BY <1>7, <1>8, <1>9 DEF IsInjective
<1>11. perm \in Surjection(1..n, 1..n)
  <2>1. IsFiniteSet(1..n)
    BY FS_Interval
  <2> QED
    BY <1>4, <1>9, <2>1, FS_Injection DEF Injection
<1>12. \A j \in 1..n : \E i \in 1..n : perm[i] = j
  BY <1>11 DEF Surjection
<1>13. ToSet(s) = ToSet(w)
  <2>1. DOMAIN s = 1..n /\ DOMAIN w = 1..n
    BY <1>7
  <2>2. ASSUME NEW x \in ToSet(s)
        PROVE  x \in ToSet(w)
    BY <1>7, <2>1 DEF ToSet
  <2>3. ASSUME NEW x \in ToSet(w)
        PROVE  x \in ToSet(s)
    <3>1. PICK j \in 1..n : x = w[j]
      BY <2>1 DEF ToSet
    <3>2. PICK i \in 1..n : perm[i] = j
      BY <1>12
    <3>3. x = s[i]
      BY <1>7, <3>1, <3>2
    <3> QED
      BY <2>1, <3>3 DEF ToSet
  <2> QED
    BY <2>2, <2>3
<1> QED
  BY <1>1, <1>2, <1>5, <1>7, <1>10, <1>13

\* File f of a plan or of a run.
Whole(p, f) == IF f = 0 THEN p.test ELSE p.shards[f]

\* The first t shuffled samples are dealt out to the shards, the rest is the
\* test set: place j of file f.
Place(p, t, f, j) == IF f = 0 THEN t + j ELSE Position(p.nodes, f, j)

Size(p) == Len(p.flags.dataset.samples)

Layout(p, shuffled, t) ==
  /\ Size(p) \in 1..MaxSamples
  /\ shuffled \in [1..Size(p) -> Samples]
  /\ IsInjective(shuffled)
  /\ ToSet(shuffled) = ToSet(p.flags.dataset.samples)
  /\ t \in 1..(Size(p) - 1)
  /\ p.nodes \in 1..t
  /\ p.shards \in [1..p.nodes -> Seq(Samples)]
  /\ p.test \in Seq(Samples)
  /\ Len(p.test) = Size(p) - t
  /\ \A g \in 1..p.nodes : Len(p.shards[g]) = Share(t, p.nodes, g)
  /\ \A f \in 0..p.nodes : \A j \in 1..Len(Whole(p, f)) :
       Whole(p, f)[j] = shuffled[Place(p, t, f, j)]

LEMMA PlanLayout ==
  ASSUME NEW p \in Plans
  PROVE  \E shuffled, t : Layout(p, shuffled, t)
<1>0. PICK flags \in Flags : Valid(flags) /\ p = Plan(flags)
  BY DEF Plans
<1>1. PICK j \in NodesAsked, d \in Datasets, seed \in Seeds, r \in Ratios :
         /\ j = flags.nodes /\ d = flags.dataset
         /\ seed = flags.seed /\ r = flags.ratio
  BY DEF Flags
<1>v. PICK len : /\ len = Len(d.samples) /\ len >= 2 /\ r > 0 /\ r < 50
                 /\ j > 0 /\ j <= TrainSize(len, r)
  BY <1>0, <1>1 DEF Valid
<1>2. PICK n \in Nat : n = Len(d.samples) /\ n > 1 /\ n = len
  <2>1. d.samples \in Seq(Samples)
    BY ShardingAssumption
  <2>2. PICK n \in Nat : n = Len(d.samples)
    BY <2>1
  <2>3. n = len
    BY <1>v, <2>2
  <2>4. n >= 2
    BY <1>v, <2>3
  <2>5. n > 1
    BY <2>4
  <2> QED
    BY <2>2, <2>3, <2>5
<1>r. PICK a \in Int, b \in Int : a = r /\ b = j
  BY ShardingAssumption
<1>3. PICK ratio \in 1..49 : ratio = r
  <2>1. a > 0 /\ a < 50
    BY <1>v, <1>r
  <2> QED
    BY <1>r, <2>1
<1>4. PICK t \in Nat : t = TrainSize(n, ratio) /\ t \in 1..(n - 1)
  BY <1>2, SplitSizes
<1>5. PICK k \in 1..t : k = j
  <2>1. b > 0 /\ b <= t
    <3>1. TrainSize(len, r) = t
      BY <1>2, <1>3, <1>4
    <3> QED
      BY <1>v, <1>r, <3>1
  <2> QED
    BY <1>r, <2>1
<1>6. PICK S : S = Samples
  OBVIOUS
<1>7. PICK s \in [1..n -> S] : /\ s = Shuffled(d, seed)
                               /\ IsInjective(s)
                               /\ ToSet(s) = ToSet(d.samples)
                               /\ n <= MaxSamples
  <2>1. n \in Nat \ {0}
    BY <1>2
  <2> QED
    BY <1>2, <1>6, <2>1, ShuffledSamples
<1>8. PICK train \in [1..t -> S], test \in [1..(n - t) -> S] :
         /\ train = Train(s, ratio) /\ test = Test(s, ratio)
         /\ \A i \in 1..t : train[i] = s[i]
         /\ \A i \in 1..(n - t) : test[i] = s[t + i]
  <2>0. n \in Nat /\ n > 1 /\ s \in [1..n -> S] /\ ratio \in 1..49
    BY <1>2
  <2>1. PICK m \in 1..(n - 1) :
           /\ m = TrainSize(n, ratio)
           /\ Train(s, ratio) \in [1..m -> S]
           /\ Test(s, ratio) \in [1..(n - m) -> S]
           /\ CutAt(s, n, m, Train(s, ratio), Test(s, ratio))
    BY <2>0, SplitPositions
  <2>2. m = t
    BY <1>4, <2>1
  <2> QED
    BY <2>1, <2>2 DEF CutAt
<1>9. PICK shards : shards = RoundRobin(train, k)
  OBVIOUS
<1>10. p.nodes = k /\ p.shards = shards /\ p.test = test /\ p.flags = flags
  <2>1. p = [flags |-> flags, nodes |-> j, shards |-> RoundRobin(Train(s, r), j),
             test |-> Test(s, r)]
    BY <1>0, <1>1, <1>7 DEF Plan
  <2>2. p = [flags |-> flags, nodes |-> k, shards |-> shards, test |-> test]
    BY <1>3, <1>5, <1>8, <1>9, <2>1
  <2> QED
    BY <2>2
<1>11. /\ shards \in [1..k -> Seq(S)]
       /\ \A g \in 1..k :
            /\ Len(shards[g]) = Share(t, k, g)
            /\ \A i \in 1..Share(t, k, g) : shards[g][i] = train[Position(k, g, i)]
  <2>0. t \in Nat /\ train \in [1..t -> S] /\ k \in 1..t
    OBVIOUS
  <2>1. /\ RoundRobin(train, k) \in [1..k -> Seq(S)]
        /\ \A g \in 1..k : Deals(RoundRobin(train, k)[g], train, t, k, g)
    BY <2>0, RobinShards
  <2> QED
    BY <1>9, <2>1 DEF Deals
<1>12. test \in Seq(S) /\ Len(test) = n - t
  BY <1>4
<1>13. ASSUME NEW f \in 0..k, NEW i \in 1..Len(Whole(p, f))
       PROVE  Whole(p, f)[i] = s[Place(p, t, f, i)]
  <2>1. CASE f = 0
    BY <1>8, <1>10, <1>12, <2>1 DEF Whole, Place
  <2>2. CASE f # 0
    <3>1. PICK g \in 1..k : g = f
      BY <2>2
    <3>2. Whole(p, f) = shards[g] /\ Place(p, t, f, i) = Position(k, g, i)
      BY <1>10, <2>2, <3>1 DEF Whole, Place
    <3>3. i \in 1..Share(t, k, g)
      BY <1>11, <3>1, <3>2
    <3>4. Position(k, g, i) \in 1..t
      BY <3>3, Shares
    <3> QED
      BY <1>8, <1>11, <3>1, <3>2, <3>3, <3>4
  <2> QED
    BY <2>1, <2>2
<1>14. Size(p) = n /\ p.flags.dataset = d
  BY <1>1, <1>2, <1>10 DEF Size
<1>15. /\ p.shards \in [1..p.nodes -> Seq(Samples)]
       /\ p.test \in Seq(Samples)
       /\ Len(p.test) = Size(p) - t
       /\ \A g \in 1..p.nodes : Len(p.shards[g]) = Share(t, p.nodes, g)
  BY <1>6, <1>10, <1>11, <1>12, <1>14
<1>16. \A f \in 0..p.nodes : \A i \in 1..Len(Whole(p, f)) :
         Whole(p, f)[i] = s[Place(p, t, f, i)]
  BY <1>10, <1>13
<1>17. /\ Size(p) \in 1..MaxSamples /\ t \in 1..(Size(p) - 1) /\ p.nodes \in 1..t
       /\ s \in [1..Size(p) -> Samples] /\ IsInjective(s)
       /\ ToSet(s) = ToSet(p.flags.dataset.samples)
  BY <1>2, <1>4, <1>6, <1>7, <1>10, <1>14, ShardingAssumption
<1>18. Layout(p, s, t)
  BY <1>15, <1>16, <1>17 DEF Layout
<1> QED
  BY <1>18

LEMMA LayoutPlaces ==
  ASSUME NEW p, NEW shuffled, NEW t, Layout(p, shuffled, t)
  PROVE  /\ \A f \in 0..p.nodes :
              /\ Whole(p, f) \in Seq(Samples)
              /\ Len(Whole(p, f)) \in Nat \ {0}
              /\ \A j \in 1..Len(Whole(p, f)) :
                   /\ Place(p, t, f, j) \in 1..Size(p)
                   /\ Place(p, t, f, j) <= t <=> f # 0
         /\ \A i \in 1..Size(p) : \E f \in 0..p.nodes :
              \E j \in 1..Len(Whole(p, f)) : i = Place(p, t, f, j)
         /\ \A f, g \in 0..p.nodes : \A i \in 1..Len(Whole(p, f)) :
              \A j \in 1..Len(Whole(p, g)) :
                Place(p, t, f, i) = Place(p, t, g, j) => f = g /\ i = j
<1>0. PICK n \in Nat, m \in Nat : n = Size(p) /\ m = t /\ m \in 1..(n - 1)
  BY ShardingAssumption DEF Layout
<1>1. PICK k \in 1..m : k = p.nodes
  BY <1>0 DEF Layout
<1>2. PICK S : S = Samples
  OBVIOUS
<1>3. /\ p.shards \in [1..k -> Seq(S)]
      /\ p.test \in Seq(S)
      /\ Len(p.test) = n - m
      /\ \A g \in 1..k : Len(p.shards[g]) = Share(m, k, g)
  BY <1>0, <1>1, <1>2 DEF Layout
<1>4. ASSUME NEW f \in 1..k
      PROVE  /\ Whole(p, f) \in Seq(S)
             /\ Len(Whole(p, f)) = Share(m, k, f)
             /\ Share(m, k, f) \in Nat \ {0}
             /\ \A j \in 1..Share(m, k, f) : /\ Place(p, t, f, j) = Position(k, f, j)
                                             /\ Position(k, f, j) \in 1..m
  <2>1. f # 0
    OBVIOUS
  <2>3. /\ Share(m, k, f) \in Nat \ {0}
        /\ \A j \in 1..Share(m, k, f) : Position(k, f, j) \in 1..m
    BY Shares
  <2>2. Whole(p, f) = p.shards[f]
    BY <2>1 DEF Whole
  <2> QED
    BY <1>0, <1>1, <1>3, <2>1, <2>2, <2>3 DEF Place
<1>5. /\ Whole(p, 0) \in Seq(S)
      /\ Len(Whole(p, 0)) = n - m
      /\ \A j : Place(p, t, 0, j) = m + j
  BY <1>0, <1>1, <1>3 DEF Whole, Place
<1>6. ASSUME NEW f \in 0..p.nodes
      PROVE  /\ Whole(p, f) \in Seq(Samples)
             /\ Len(Whole(p, f)) \in Nat \ {0}
             /\ \A j \in 1..Len(Whole(p, f)) :
                  /\ Place(p, t, f, j) \in 1..n
                  /\ Place(p, t, f, j) <= t <=> f # 0
  <2>1. CASE f = 0
    BY <1>0, <1>1, <1>2, <1>5, <2>1
  <2>2. CASE f \in 1..k
    BY <1>0, <1>1, <1>2, <1>4, <2>2
  <2> QED
    BY <1>0, <1>1, <2>1, <2>2
<1>7. ASSUME NEW i \in 1..n
      PROVE  \E f \in 0..p.nodes : \E j \in 1..Len(Whole(p, f)) : i = Place(p, t, f, j)
  <2>1. CASE i <= m
    <3>0. PICK h \in 1..m : h = i
      BY <1>0, <2>1
    <3>1. PICK f \in 1..k : \E j \in 1..Share(m, k, f) : h = Position(k, f, j)
      BY SomePlace
    <3>2. f \in 0..p.nodes
      BY <1>0, <1>1
    <3> QED
      BY <1>4, <3>0, <3>1, <3>2
  <2>2. CASE i > m
    <3>1. PICK j \in 1..(n - m) : j = i - m
      BY <1>0, <1>1, <2>2
    <3>2. 0 \in 0..p.nodes
      BY <1>0, <1>1
    <3>3. j \in 1..Len(Whole(p, 0))
      BY <1>5
    <3>4. i = Place(p, t, 0, j)
      BY <1>0, <1>5, <3>1
    <3> QED
      BY <3>2, <3>3, <3>4
  <2> QED
    BY <1>0, <1>1, <2>1, <2>2
<1>8. ASSUME NEW f \in 0..p.nodes, NEW g \in 0..p.nodes,
             NEW i \in 1..Len(Whole(p, f)), NEW j \in 1..Len(Whole(p, g)),
             Place(p, t, f, i) = Place(p, t, g, j)
      PROVE  f = g /\ i = j
  <2>1. f = 0 <=> g = 0
    BY <1>6, <1>8
  <2>2. CASE f = 0
    BY <1>0, <1>1, <1>5, <1>8, <2>1, <2>2
  <2>3. CASE f # 0
    <3>1. f \in 1..k /\ g \in 1..k
      BY <1>0, <1>1, <2>1, <2>3
    <3>2. i \in Nat \ {0} /\ j \in Nat \ {0}
      BY <1>4, <3>1
    <3>3. Position(k, f, i) = Position(k, g, j)
      BY <1>4, <1>8, <3>1
    <3> QED
      BY <1>0, <1>1, <3>1, <3>2, <3>3, OnePlace
  <2> QED
    BY <2>2, <2>3
<1> QED
  BY <1>0, <1>1, <1>6, <1>7, <1>8

LEMMA PlanTypes ==
  ASSUME NEW p \in Plans
  PROVE  /\ p.nodes \in NodesAsked
         /\ p.nodes \in 1..MaxSamples
         /\ p.shards \in [1..p.nodes -> Seq(Samples)]
         /\ p.test \in Seq(Samples)
         /\ \A f \in 0..p.nodes : Whole(p, f) \in Seq(Samples) /\ Whole(p, f) # << >>
<1>1. PICK shuffled, t : Layout(p, shuffled, t)
  BY PlanLayout
<1>2. p.nodes \in NodesAsked
  BY DEF Plans, Plan, Flags
<1>3. p.nodes \in 1..MaxSamples
  <2>1. PICK n \in Nat, max \in Nat : n = Size(p) /\ max = MaxSamples /\ n <= max
    BY <1>1, ShardingAssumption DEF Layout
  <2>2. t \in 1..(n - 1) /\ p.nodes \in 1..t
    BY <1>1, <2>1 DEF Layout
  <2> QED
    BY <2>1, <2>2
<1>4. ASSUME NEW f \in 0..p.nodes
      PROVE  Whole(p, f) \in Seq(Samples) /\ Whole(p, f) # << >>
  <2>1. Whole(p, f) \in Seq(Samples) /\ Len(Whole(p, f)) \in Nat \ {0}
    BY <1>1, LayoutPlaces
  <2> QED
    BY <2>1
<1> QED
  BY <1>1, <1>2, <1>3, <1>4 DEF Layout

\* Each sample is in exactly one file, and the shards are balanced.
LEMMA PlanPartition ==
  ASSUME NEW p \in Plans
  PROVE  /\ \A f \in 0..p.nodes : IsInjective(Whole(p, f))
         /\ \A f, g \in 0..p.nodes : f # g => ToSet(Whole(p, f)) \cap ToSet(Whole(p, g)) = {}
         /\ UNION {ToSet(Whole(p, f)) : f \in 0..p.nodes} = ToSet(p.flags.dataset.samples)
         /\ p.flags.dataset \in Datasets /\ p.flags.dataset.p75 = ArtifactP75
         /\ \A f, g \in 1..p.nodes : Len(Whole(p, f)) <= Len(Whole(p, g)) + 1
<1>1. PICK shuffled, t : Layout(p, shuffled, t)
  BY PlanLayout
<1>2. /\ \A f \in 0..p.nodes :
           /\ Whole(p, f) \in Seq(Samples)
           /\ \A j \in 1..Len(Whole(p, f)) : Place(p, t, f, j) \in 1..Size(p)
      /\ \A i \in 1..Size(p) : \E f \in 0..p.nodes :
           \E j \in 1..Len(Whole(p, f)) : i = Place(p, t, f, j)
      /\ \A f, g \in 0..p.nodes : \A i \in 1..Len(Whole(p, f)) :
           \A j \in 1..Len(Whole(p, g)) :
             Place(p, t, f, i) = Place(p, t, g, j) => f = g /\ i = j
  BY <1>1, LayoutPlaces
<1>c. \A f \in 0..p.nodes : \A j \in 1..Len(Whole(p, f)) :
         Whole(p, f)[j] = shuffled[Place(p, t, f, j)]
  BY <1>1 DEF Layout
<1>3. /\ shuffled \in [1..Size(p) -> Samples] /\ IsInjective(shuffled)
      /\ ToSet(shuffled) = ToSet(p.flags.dataset.samples)
  BY <1>1 DEF Layout
<1>4. \A i, j \in 1..Size(p) : shuffled[i] = shuffled[j] => i = j
  BY <1>3 DEF IsInjective
<1>5. ASSUME NEW f \in 0..p.nodes, NEW g \in 0..p.nodes,
             NEW i \in 1..Len(Whole(p, f)), NEW j \in 1..Len(Whole(p, g)),
             Whole(p, f)[i] = Whole(p, g)[j]
      PROVE  f = g /\ i = j
  <2>1. PICK a \in 1..Size(p), b \in 1..Size(p) :
          a = Place(p, t, f, i) /\ b = Place(p, t, g, j)
    BY <1>2
  <2>2. shuffled[a] = shuffled[b]
    BY <1>5, <1>c, <2>1
  <2>3. a = b
    BY <1>4, <2>2
  <2>4. Place(p, t, f, i) = Place(p, t, g, j)
    BY <2>1, <2>3
  <2> QED
    BY <1>2, <2>4
<1>6. \A f \in 0..p.nodes : DOMAIN Whole(p, f) = 1..Len(Whole(p, f))
  BY <1>2
<1>7. \A f \in 0..p.nodes : IsInjective(Whole(p, f))
  BY <1>5, <1>6 DEF IsInjective
<1>8. \A f, g \in 0..p.nodes : f # g => ToSet(Whole(p, f)) \cap ToSet(Whole(p, g)) = {}
  BY <1>5, <1>6 DEF ToSet
<1>9. ASSUME NEW x \in ToSet(shuffled)
      PROVE  \E f \in 0..p.nodes : x \in ToSet(Whole(p, f))
  <2>3. PICK i \in 1..Size(p) : shuffled[i] = x
    BY <1>3 DEF ToSet
  <2>4. PICK f \in 0..p.nodes : \E j \in 1..Len(Whole(p, f)) : i = Place(p, t, f, j)
    BY <1>2
  <2>5. PICK j \in 1..Len(Whole(p, f)) : i = Place(p, t, f, j)
    BY <2>4
  <2>6. Whole(p, f)[j] = x
    BY <1>c, <2>3, <2>5
  <2> QED
    BY <1>6, <2>6 DEF ToSet
<1>10. ASSUME NEW f \in 0..p.nodes, NEW x \in ToSet(Whole(p, f))
       PROVE  x \in ToSet(shuffled)
  <2>1. PICK j \in 1..Len(Whole(p, f)) : x = Whole(p, f)[j]
    BY <1>6 DEF ToSet
  <2>2. PICK i \in 1..Size(p) : i = Place(p, t, f, j)
    BY <1>2
  <2>3. x = shuffled[i]
    BY <1>c, <2>1, <2>2
  <2> QED
    BY <1>3, <2>3 DEF ToSet
<1>11. UNION {ToSet(Whole(p, f)) : f \in 0..p.nodes} = ToSet(p.flags.dataset.samples)
  BY <1>3, <1>9, <1>10
<1>13. p.flags.dataset \in Datasets /\ p.flags.dataset.p75 = ArtifactP75
  BY DEF Plans, Plan, Flags, Valid
<1>12. ASSUME NEW f \in 1..p.nodes, NEW g \in 1..p.nodes
       PROVE  Len(Whole(p, f)) <= Len(Whole(p, g)) + 1
  <2>1. PICK m \in Nat : m = t
    BY <1>1 DEF Layout
  <2>2. PICK k \in 1..m : k = p.nodes
    BY <1>1, <2>1 DEF Layout
  <2>3. PICK a \in 1..k, b \in 1..k : a = f /\ b = g
    BY <2>2
  <2>4. Share(m, k, a) <= Share(m, k, b) + 1
    BY SharesAreBalanced
  <2>5. a # 0 /\ b # 0
    OBVIOUS
  <2>6. Len(Whole(p, a)) = Share(m, k, a) /\ Len(Whole(p, b)) = Share(m, k, b)
    BY <1>1, <2>1, <2>2, <2>3, <2>5 DEF Layout, Whole
  <2> QED
    BY <2>3, <2>4, <2>6
<1> QED
  BY <1>7, <1>8, <1>11, <1>12, <1>13

-----------------------------------------------------------------------------
(***************************************************************************)
(* The files and the manifest.                                             *)
(*                                                                         *)
(* A run that got as far as file f left it as it hashed it: whole, or cut  *)
(* by a flush that failed.  A whole manifest has such hashes and the full  *)
(* numbers of rows of one plan, whatever happened to the files since.      *)
(***************************************************************************)

Kept(file, samples) == file = Rows(samples) \/ file \in Cut(samples)

IsRun(r) ==
  /\ r = [st |-> r.st, nodes |-> r.nodes, overwrite |-> r.overwrite,
          shards |-> r.shards, test |-> r.test, at |-> r.at, hashes |-> r.hashes]
  /\ r.st \in {"opening", "writing"}
  /\ r.overwrite \in BOOLEAN

Follows(r, p) == r.nodes = p.nodes /\ r.shards = p.shards /\ r.test = p.test

\* Without -overwrite the directory was empty.
Fresh(r, files, written) ==
  /\ written = Absent
  /\ \A f \in Files \ Written(r) :
       files[f] = Absent \/ (r.st = "writing" /\ f = FileAt(r))

Underway(r, files, written) ==
  r # NoRun =>
    /\ IsRun(r)
    /\ \E p \in Plans : Follows(r, p)
    /\ r.at \in 1..(r.nodes + (IF r.st = "writing" THEN 1 ELSE 2))
    /\ r.hashes \in [Written(r) -> File]
    /\ \A f \in Written(r) : files[f] = r.hashes[f] /\ Kept(files[f], Whole(r, f))
    /\ ~r.overwrite => Fresh(r, files, written)

Lists(m, p) ==
  /\ m.nodes = p.nodes
  /\ m.hashes \in [0..p.nodes -> File]
  /\ m.counts \in [0..p.nodes -> Nat]
  /\ \A f \in 0..p.nodes : /\ Kept(m.hashes[f], Whole(p, f))
                           /\ m.counts[f] = Len(Whole(p, f))

Vouches(m) ==
  m \notin {Absent, Torn} => m.st = "whole" /\ \E p \in Plans : Lists(m, p)

ShardInv ==
  /\ Underway(run, disk, manifest)
  /\ Vouches(manifest)
  /\ disk \in [Files -> File]
  /\ runs \in 0..MaxRuns

LEMMA RunChanged ==
  ASSUME NEW r, IsRun(r), NEW st \in {"opening", "writing"}
  PROVE  LET q == [r EXCEPT !.st = st] IN
           /\ IsRun(q) /\ q # NoRun /\ q.st = st /\ q.nodes = r.nodes
           /\ q.overwrite = r.overwrite /\ q.shards = r.shards
           /\ q.test = r.test /\ q.at = r.at /\ q.hashes = r.hashes
<1>1. PICK q : q = [r EXCEPT !.st = st]
  OBVIOUS
<1>2. r = [st |-> r.st, nodes |-> r.nodes, overwrite |-> r.overwrite,
           shards |-> r.shards, test |-> r.test, at |-> r.at, hashes |-> r.hashes]
  BY DEF IsRun
<1>3. q = [st |-> st, nodes |-> r.nodes, overwrite |-> r.overwrite,
           shards |-> r.shards, test |-> r.test, at |-> r.at, hashes |-> r.hashes]
  BY <1>1, <1>2
<1>4. /\ q.st = st /\ q.nodes = r.nodes
      /\ q.overwrite = r.overwrite /\ q.shards = r.shards
      /\ q.test = r.test /\ q.at = r.at /\ q.hashes = r.hashes
  BY <1>3
<1>5. q # NoRun
  BY <1>4 DEF NoRun
<1> QED
  BY <1>1, <1>3, <1>4, <1>5 DEF IsRun

Advanced(r, at, hashes) ==
  [r EXCEPT !.st = "opening", !.at = at, !.hashes = hashes]

LEMMA RunAdvanced ==
  ASSUME NEW r, IsRun(r), NEW at, NEW hashes, NEW q, q = Advanced(r, at, hashes)
  PROVE  /\ IsRun(q) /\ q # NoRun /\ q.st = "opening" /\ q.nodes = r.nodes
         /\ q.overwrite = r.overwrite /\ q.shards = r.shards
         /\ q.test = r.test /\ q.at = at /\ q.hashes = hashes
<1>1. q = [r EXCEPT !.st = "opening", !.at = at, !.hashes = hashes]
  BY DEF Advanced
<1>2. r = [st |-> r.st, nodes |-> r.nodes, overwrite |-> r.overwrite,
           shards |-> r.shards, test |-> r.test, at |-> r.at, hashes |-> r.hashes]
  BY DEF IsRun
<1>3. q = [st |-> "opening", nodes |-> r.nodes, overwrite |-> r.overwrite,
           shards |-> r.shards, test |-> r.test, at |-> at, hashes |-> hashes]
  BY <1>1, <1>2
<1>4. /\ q.st = "opening" /\ q.nodes = r.nodes
      /\ q.overwrite = r.overwrite /\ q.shards = r.shards
      /\ q.test = r.test /\ q.at = at /\ q.hashes = hashes
  BY <1>3
<1>5. q # NoRun
  BY <1>4 DEF NoRun
<1> QED
  BY <1>1, <1>3, <1>4, <1>5 DEF IsRun

LEMMA RunningIsNoNil ==
  ASSUME NEW r, IsRun(r)
  PROVE  r # NoRun
BY DEF IsRun, NoRun

LEMMA WrittenFiles ==
  ASSUME NEW r, r.nodes \in 1..MaxSamples, r.at \in 1..(r.nodes + 2)
  PROVE  /\ Written(r) \subseteq 0..r.nodes /\ 0..r.nodes \subseteq Files
         /\ r.at = r.nodes + 2 => Written(r) = 0..r.nodes
         /\ r.at <= r.nodes + 1 =>
              /\ FileAt(r) \in 0..r.nodes
              /\ FileAt(r) \notin Written(r)
              /\ Content(r) = Whole(r, FileAt(r))
              /\ \A q : q.nodes = r.nodes /\ q.at = r.at + 1 =>
                   Written(q) = Written(r) \cup {FileAt(r)}
<1>n. PICK n \in Nat : n = MaxSamples
  BY ShardingAssumption
<1>k. PICK k \in Nat : k = r.nodes /\ k \in 1..n
  BY <1>n
<1>1. PICK at \in Nat : at = r.at /\ at \in 1..(k + 2) /\ n = MaxSamples /\ k = r.nodes
                        /\ k \in 1..n
  BY <1>n, <1>k
<1>2. 0..k \subseteq Files
  BY <1>1 DEF Files
<1>3. CASE at = k + 2
  BY <1>1, <1>2, <1>3 DEF Written
<1>4. CASE at = k + 1
  <2>1. Written(r) = 1..k /\ FileAt(r) = 0
    BY <1>1, <1>4 DEF Written, FileAt
  <2>2. Content(r) = Whole(r, 0)
    BY <1>1, <1>4 DEF Content, Whole
  <2>3. ASSUME NEW q, q.nodes = r.nodes, q.at = r.at + 1
        PROVE  Written(q) = 0..k
    <3>0. r.at + 1 = k + 2
      BY <1>1, <1>4
    <3>1. q.nodes = k /\ q.at = k + 2
      BY <1>1, <2>3, <3>0
    <3>2. k + 2 > k + 1
      OBVIOUS
    <3> QED
      BY <3>1, <3>2 DEF Written
  <2>4. 0..k = 1..k \cup {0}
    BY <1>1
  <2> QED
    BY <1>1, <1>2, <1>4, <2>1, <2>2, <2>3, <2>4
<1>5. CASE at <= k
  <2>1. Written(r) = 1..(at - 1) /\ FileAt(r) = at
    BY <1>1, <1>5 DEF Written, FileAt
  <2>2. Content(r) = Whole(r, at)
    BY <1>1, <1>5 DEF Content, Whole
  <2>3. \A q : q.nodes = r.nodes /\ q.at = r.at + 1 => Written(q) = 1..at
    BY <1>1, <1>5 DEF Written
  <2>4. 1..at = 1..(at - 1) \cup {at}
    BY <1>1
  <2> QED
    BY <1>1, <1>2, <1>5, <2>1, <2>2, <2>3, <2>4
<1> QED
  BY <1>1, <1>3, <1>4, <1>5

LEMMA KeptFiles ==
  ASSUME NEW samples \in Seq(Samples), NEW file, Kept(file, samples)
  PROVE  file \in File
<1>1. CASE file = Rows(samples)
  BY <1>1 DEF Rows, File
<1>2. CASE file = Torn
  BY <1>2 DEF File
<1>3. CASE \E m \in 0..(Len(samples) - 1) : file = Rows(SubSeq(samples, 1, m))
  <2>1. PICK m \in 0..(Len(samples) - 1) : file = Rows(SubSeq(samples, 1, m))
    BY <1>3
  <2>2. \A i \in 1..m : samples[i] \in Samples
    OBVIOUS
  <2>3. SubSeq(samples, 1, m) \in Seq(Samples)
    BY <2>2, SubSeqProperties
  <2> QED
    BY <2>1, <2>3 DEF Rows, File
<1> QED
  BY <1>1, <1>2, <1>3 DEF Kept, Cut

LEMMA RunFacts ==
  ASSUME NEW r, NEW files, NEW written, Underway(r, files, written), r # NoRun
  PROVE  /\ IsRun(r)
         /\ r.nodes \in 1..MaxSamples
         /\ r.at \in 1..(r.nodes + 2)
         /\ r.st = "writing" => r.at <= r.nodes + 1
         /\ \E p \in Plans : Follows(r, p)
         /\ \A f \in 0..r.nodes : Whole(r, f) \in Seq(Samples)
<1>1. PICK p \in Plans : Follows(r, p)
  BY DEF Underway
<1>2. r.nodes \in 1..MaxSamples /\ \A f \in 0..r.nodes : Whole(p, f) \in Seq(Samples)
  BY <1>1, PlanTypes DEF Follows
<1>3. \A f : Whole(r, f) = Whole(p, f)
  BY <1>1 DEF Follows, Whole
<1>4. PICK k \in Nat : k = r.nodes
  BY <1>2, ShardingAssumption
<1>5. r.at \in 1..(k + (IF r.st = "writing" THEN 1 ELSE 2))
  BY <1>4 DEF Underway
<1>6. r.at \in 1..(k + 2) /\ (r.st = "writing" => r.at <= k + 1)
  BY <1>5
<1> QED
  BY <1>1, <1>2, <1>3, <1>4, <1>6 DEF Underway

LEMMA ShardInit == Init => ShardInv
<1> SUFFICES ASSUME Init
             PROVE  ShardInv
  OBVIOUS
<1>1. Underway(run, disk, manifest)
  BY DEF Init, Underway
<1>2. Vouches(manifest)
  BY DEF Init, Vouches
<1>3. disk \in [Files -> File]
  BY DEF Init, File
<1>4. runs \in 0..MaxRuns
  BY ShardingAssumption DEF Init
<1> QED
  BY <1>1, <1>2, <1>3, <1>4 DEF ShardInv

LEMMA BeginStep ==
  ASSUME ShardInv, NEW f \in Flags, NEW overwrite \in BOOLEAN, Begin(f, overwrite)
  PROVE  /\ ShardInv'
         /\ run' # NoRun => Plan(f) \in Plans /\ Follows(run', Plan(f))
<1>1. run' = IF Usable(overwrite) /\ Valid(f)
             THEN [st |-> "opening", nodes |-> f.nodes, overwrite |-> overwrite,
                   shards |-> Plan(f).shards, test |-> Plan(f).test,
                   at |-> 1, hashes |-> << >>]
             ELSE NoRun
  BY DEF Begin
<1>2. UNCHANGED <<disk, manifest>> /\ runs' = runs + 1 /\ runs < MaxRuns
  BY DEF Begin
<1>3. CASE ~(Usable(overwrite) /\ Valid(f))
  BY <1>1, <1>2, <1>3, ShardingAssumption DEF ShardInv, Underway
<1>4. CASE Usable(overwrite) /\ Valid(f)
  <2>1. PICK p : p = Plan(f)
    OBVIOUS
  <2>2. p \in Plans
    BY <1>4, <2>1 DEF Plans
  <2>3. PICK r : r = run'
    OBVIOUS
  <2>4. PICK k, shards, test : k = f.nodes /\ shards = p.shards /\ test = p.test
    OBVIOUS
  <2>5. r = [st |-> "opening", nodes |-> k, overwrite |-> overwrite,
             shards |-> shards, test |-> test, at |-> 1, hashes |-> << >>]
    BY <1>1, <1>4, <2>1, <2>3, <2>4
  <2>6. /\ r.st = "opening" /\ r.nodes = k /\ r.overwrite = overwrite
        /\ r.shards = shards /\ r.test = test /\ r.at = 1 /\ r.hashes = << >>
    BY <2>5
  <2>7. IsRun(r)
    BY <2>5, <2>6 DEF IsRun
  <2>a. p.nodes = k
    BY <2>1, <2>4 DEF Plan
  <2>8. Follows(r, p)
    BY <2>4, <2>6, <2>a DEF Follows
  <2>9. k \in 1..MaxSamples /\ k \in Nat
    BY <2>2, <2>a, PlanTypes, ShardingAssumption
  <2>10. Written(r) = {}
    BY <2>6, <2>9 DEF Written
  <2>11. r.at \in 1..(r.nodes + (IF r.st = "writing" THEN 1 ELSE 2))
    BY <2>6, <2>9
  <2>12. r.hashes \in [Written(r) -> File]
    BY <2>6, <2>10
  <2>13. ~r.overwrite => Fresh(r, disk, manifest)
    BY <1>4, <2>6 DEF Usable, DirectoryEmpty, Fresh
  <2>14. Underway(r, disk, manifest)
    BY <2>2, <2>7, <2>8, <2>10, <2>11, <2>12, <2>13 DEF Underway
  <2>15. ShardInv'
    BY <1>2, <2>3, <2>14, ShardingAssumption DEF ShardInv
  <2> QED
    BY <2>1, <2>2, <2>3, <2>8, <2>15
<1> QED
  BY <1>3, <1>4

LEMMA OpenStep == ShardInv /\ Open => ShardInv'
<1> SUFFICES ASSUME ShardInv, Open
             PROVE  ShardInv'
  OBVIOUS
<1>1. PICK r, q, d, f : /\ r = run /\ q = [r EXCEPT !.st = "writing"]
                        /\ f = FileAt(r) /\ d = [disk EXCEPT ![f] = Rows(<< >>)]
  OBVIOUS
<1>2. /\ r.st = "opening" /\ r.at <= r.nodes + 1
      /\ run' = q /\ disk' = d /\ manifest' = manifest /\ runs' = runs
  BY <1>1 DEF Open
<1>3. r # NoRun
  BY <1>2 DEF NoRun
<1>4. Underway(r, disk, manifest)
  BY <1>1 DEF ShardInv
<1>5. /\ IsRun(r) /\ r.nodes \in 1..MaxSamples /\ r.at \in 1..(r.nodes + 2)
      /\ \E p \in Plans : Follows(r, p)
  BY <1>3, <1>4, RunFacts
<1>6. /\ IsRun(q) /\ q # NoRun /\ q.st = "writing" /\ q.nodes = r.nodes
      /\ q.overwrite = r.overwrite /\ q.shards = r.shards
      /\ q.test = r.test /\ q.at = r.at /\ q.hashes = r.hashes
  BY <1>1, <1>5, RunChanged
<1>7. Written(r) \subseteq Files /\ f \in Files /\ f \notin Written(r)
  BY <1>1, <1>2, <1>5, WrittenFiles
<1>8. Written(q) = Written(r) /\ FileAt(q) = f
  BY <1>1, <1>6 DEF Written, FileAt
<1>9. \A g : Whole(q, g) = Whole(r, g)
  BY <1>6 DEF Whole
<1>10. Rows(<< >>) \in File
  BY DEF Rows, File
<1>11. disk \in [Files -> File]
  BY DEF ShardInv
<1>12. d \in [Files -> File] /\ \A g \in Files : g # f => d[g] = disk[g]
  BY <1>1, <1>7, <1>10, <1>11
<1>13. q.at \in 1..(q.nodes + (IF q.st = "writing" THEN 1 ELSE 2))
  <2>1. PICK k \in Nat : k = r.nodes
    BY <1>5, ShardingAssumption
  <2> QED
    BY <1>2, <1>5, <1>6, <2>1
<1>14. \A g \in Written(q) : d[g] = q.hashes[g] /\ Kept(d[g], Whole(q, g))
  BY <1>3, <1>4, <1>6, <1>7, <1>8, <1>9, <1>12 DEF Underway
<1>15. ~q.overwrite => Fresh(q, d, manifest)
  BY <1>2, <1>3, <1>4, <1>6, <1>8, <1>12 DEF Underway, Fresh
<1>16. \E p \in Plans : Follows(q, p)
  BY <1>5, <1>6 DEF Follows
<1>17. q.hashes \in [Written(q) -> File]
  BY <1>3, <1>4, <1>6, <1>8 DEF Underway
<1>18. Underway(q, d, manifest)
  BY <1>6, <1>13, <1>14, <1>15, <1>16, <1>17 DEF Underway
<1> QED
  BY <1>2, <1>12, <1>18 DEF ShardInv

LEMMA FlushStep == ShardInv /\ Flush => ShardInv'
<1> SUFFICES ASSUME ShardInv, Flush
             PROVE  ShardInv'
  OBVIOUS
<1>1. PICK file \in {Rows(Content(run))} \cup Cut(Content(run)) :
         /\ disk' = [disk EXCEPT ![FileAt(run)] = file]
         /\ run' = [run EXCEPT !.st = "opening", !.at = @ + 1, !.hashes = Hashed(file)]
  BY DEF Flush
<1>2. PICK r, h, f : r = run /\ h = Hashed(file) /\ f = FileAt(r)
  OBVIOUS
<1>3. r.st = "writing" /\ manifest' = manifest /\ runs' = runs
  BY <1>2 DEF Flush
<1>4. r # NoRun
  BY <1>3 DEF NoRun
<1>5. Underway(r, disk, manifest)
  BY <1>2 DEF ShardInv
<1>6. /\ IsRun(r) /\ r.nodes \in 1..MaxSamples /\ r.at \in 1..(r.nodes + 2)
      /\ r.at <= r.nodes + 1
      /\ \E p \in Plans : Follows(r, p)
      /\ \A g \in 0..r.nodes : Whole(r, g) \in Seq(Samples)
  BY <1>3, <1>4, <1>5, RunFacts
<1>7. PICK k \in Nat, at \in Nat : k = r.nodes /\ at = r.at
  BY <1>6, ShardingAssumption
<1>x. PICK next \in Int : next = at + 1
  OBVIOUS
<1>8. PICK q : next = at + 1 /\ q = Advanced(r, next, h)
  BY <1>x
<1>9. q = run'
  <2>1. [run EXCEPT !.st = "opening", !.at = @ + 1, !.hashes = Hashed(file)]
          = [run EXCEPT !.st = "opening", !.at = run.at + 1, !.hashes = Hashed(file)]
    OBVIOUS
  <2>2. run.at + 1 = next
    BY <1>2, <1>7, <1>8
  <2> QED
    BY <1>1, <1>2, <1>8, <2>1, <2>2 DEF Advanced
<1>10. /\ IsRun(q) /\ q # NoRun /\ q.st = "opening" /\ q.nodes = r.nodes
       /\ q.overwrite = r.overwrite /\ q.shards = r.shards
       /\ q.test = r.test /\ q.at = next /\ q.hashes = h
  BY <1>6, <1>8, RunAdvanced
<1>11. /\ Written(r) \subseteq Files /\ f \in Files /\ f \in 0..r.nodes
       /\ f \notin Written(r) /\ Content(r) = Whole(r, f)
       /\ Written(q) = Written(r) \cup {f}
  <2>1. q.nodes = r.nodes /\ q.at = r.at + 1
    BY <1>7, <1>8, <1>10
  <2> QED
    BY <1>2, <1>6, <2>1, WrittenFiles
<1>12. \A g : Whole(q, g) = Whole(r, g)
  BY <1>10 DEF Whole
<1>13. Kept(file, Whole(r, f))
  BY <1>1, <1>2, <1>11 DEF Kept
<1>14. file \in File
  BY <1>6, <1>11, <1>13, KeptFiles
<1>15. PICK d : d = disk' /\ d = [disk EXCEPT ![f] = file]
  BY <1>1, <1>2
<1>16. disk \in [Files -> File]
  BY DEF ShardInv
<1>17. d \in [Files -> File] /\ d[f] = file /\ \A g \in Files : g # f => d[g] = disk[g]
  BY <1>11, <1>14, <1>15, <1>16
<1>18. r.hashes \in [Written(r) -> File]
  BY <1>4, <1>5 DEF Underway
<1>19. h \in [Written(q) -> File] /\ h[f] = file /\ \A g \in Written(r) : h[g] = r.hashes[g]
  <2>1. PICK W, s : W = Written(r) /\ s = r.hashes
    OBVIOUS
  <2>2. s \in [W -> File] /\ DOMAIN s = W /\ f \notin W
    BY <1>11, <1>18, <2>1
  <2>3. h = [g \in W \cup {f} |-> IF g = f THEN file ELSE s[g]]
    BY <1>2, <2>1, <2>2 DEF Hashed
  <2>4. h \in [W \cup {f} -> File] /\ h[f] = file /\ \A g \in W : h[g] = s[g]
    BY <1>14, <2>2, <2>3
  <2> QED
    BY <1>11, <2>1, <2>4
<1>20. \A g \in Written(q) : d[g] = q.hashes[g] /\ Kept(d[g], Whole(q, g))
  <2>1. \A g \in Written(r) : /\ disk[g] = r.hashes[g] /\ Kept(disk[g], Whole(r, g))
                              /\ d[g] = disk[g]
    BY <1>4, <1>5, <1>11, <1>17 DEF Underway
  <2> QED
    BY <1>10, <1>11, <1>12, <1>13, <1>17, <1>19, <2>1
<1>21. q.at \in 1..(q.nodes + (IF q.st = "writing" THEN 1 ELSE 2))
  BY <1>6, <1>7, <1>8, <1>10
<1>22. ~q.overwrite => Fresh(q, d, manifest)
  <2>1. \A g \in Files \ Written(q) : g # f /\ d[g] = disk[g] /\ g \notin Written(r)
    BY <1>11, <1>17
  <2> QED
    BY <1>2, <1>4, <1>5, <1>10, <2>1 DEF Underway, Fresh
<1>23. \E p \in Plans : Follows(q, p)
  BY <1>6, <1>10 DEF Follows
<1>24. Underway(q, d, manifest)
  BY <1>10, <1>19, <1>20, <1>21, <1>22, <1>23 DEF Underway
<1> QED
  BY <1>3, <1>9, <1>15, <1>17, <1>24 DEF ShardInv

LEMMA EndedStep ==
  ShardInv /\ (StopWriting \/ Stop \/ WriteManifest) => ShardInv'
<1> SUFFICES ASSUME ShardInv, StopWriting \/ Stop \/ WriteManifest
             PROVE  ShardInv'
  OBVIOUS
<1>1. run' = NoRun /\ runs' = runs
  BY DEF StopWriting, Stop, WriteManifest
<1>2. Underway(run', disk', manifest')
  BY <1>1 DEF Underway
<1>3. disk \in [Files -> File] /\ Vouches(manifest) /\ runs \in 0..MaxRuns
  BY DEF ShardInv
<1>4. PICK r : r = run
  OBVIOUS
<1>5. Underway(r, disk, manifest)
  BY <1>4 DEF ShardInv
<1>6. CASE StopWriting
  <2>1. PICK file \in Cut(Content(run)) \cup {Rows(Content(run))} :
           disk' = [disk EXCEPT ![FileAt(run)] = file]
    BY <1>6 DEF StopWriting
  <2>2. r.st = "writing" /\ manifest' = manifest
    BY <1>4, <1>6 DEF StopWriting
  <2>3. r # NoRun
    BY <2>2 DEF NoRun
  <2>4. /\ r.nodes \in 1..MaxSamples /\ r.at \in 1..(r.nodes + 2)
        /\ r.at <= r.nodes + 1
        /\ \A g \in 0..r.nodes : Whole(r, g) \in Seq(Samples)
    BY <1>5, <2>2, <2>3, RunFacts
  <2>5. PICK f : f = FileAt(r)
    OBVIOUS
  <2>6. f \in 0..r.nodes /\ Content(r) = Whole(r, f)
    BY <2>4, <2>5, WrittenFiles
  <2>7. Kept(file, Whole(r, f))
    BY <1>4, <2>1, <2>6 DEF Kept
  <2>8. file \in File
    BY <2>4, <2>6, <2>7, KeptFiles
  <2>9. disk' = [disk EXCEPT ![f] = file]
    BY <1>4, <2>1, <2>5
  <2>10. disk' \in [Files -> File]
    BY <1>3, <2>8, <2>9
  <2> QED
    BY <1>1, <1>2, <1>3, <2>2, <2>10 DEF ShardInv
<1>7. CASE Stop
  BY <1>1, <1>2, <1>3, <1>7 DEF Stop, ShardInv
<1>8. CASE WriteManifest
  <2>1. r.st = "opening" /\ r.at = r.nodes + 2 /\ disk' = disk
    BY <1>4, <1>8 DEF WriteManifest
  <2>2. r # NoRun
    BY <2>1 DEF NoRun
  <2>3. /\ r.nodes \in 1..MaxSamples /\ r.at \in 1..(r.nodes + 2)
        /\ \A g \in 0..r.nodes : Whole(r, g) \in Seq(Samples)
    BY <1>5, <2>2, RunFacts
  <2>4. Written(r) = 0..r.nodes
    BY <2>1, <2>3, WrittenFiles
  <2>5. PICK p \in Plans : Follows(r, p)
    BY <1>5, <2>2 DEF Underway
  <2>6. p.nodes = r.nodes /\ \A g : Whole(p, g) = Whole(r, g)
    BY <2>5 DEF Follows, Whole
  <2>7. /\ r.hashes \in [0..r.nodes -> File]
        /\ \A g \in 0..r.nodes : Kept(r.hashes[g], Whole(r, g))
    BY <1>5, <2>2, <2>4 DEF Underway
  <2>8. CASE manifest' = Torn
    BY <1>1, <1>2, <1>3, <2>1, <2>8 DEF ShardInv, Vouches
  <2>9. CASE manifest' = [st |-> "whole", nodes |-> run.nodes, hashes |-> run.hashes,
                          counts |-> [f \in 0..run.nodes |->
                                        IF f = 0 THEN Len(run.test)
                                                 ELSE Len(run.shards[f])]]
    <3>1. PICK m, n, h, c :
             /\ m = manifest' /\ n = r.nodes /\ h = r.hashes
             /\ c = [f \in 0..n |-> IF f = 0 THEN Len(r.test) ELSE Len(r.shards[f])]
      OBVIOUS
    <3>2. m = [st |-> "whole", nodes |-> n, hashes |-> h, counts |-> c]
      BY <1>4, <2>9, <3>1
    <3>3. m.st = "whole" /\ m.nodes = n /\ m.hashes = h /\ m.counts = c
      BY <3>2
    <3>4. \A f \in 0..n : c[f] = Len(Whole(r, f)) /\ Len(Whole(r, f)) \in Nat
      <4>1. ASSUME NEW f \in 0..n
            PROVE  c[f] = Len(Whole(r, f)) /\ Len(Whole(r, f)) \in Nat
        <5>1. c[f] = IF f = 0 THEN Len(r.test) ELSE Len(r.shards[f])
          BY <3>1
        <5>2. Whole(r, f) \in Seq(Samples)
          BY <2>3, <3>1
        <5>3. c[f] = Len(Whole(r, f))
          BY <5>1 DEF Whole
        <5>4. Len(Whole(r, f)) \in Nat
          BY <5>2
        <5> QED
          BY <5>3, <5>4
      <4> QED
        BY <4>1
    <3>5. c \in [0..n -> Nat]
      <4>1. c = [f \in 0..n |-> c[f]]
        BY <3>1
      <4> QED
        BY <3>4, <4>1
    <3>6. Lists(m, p)
      BY <2>6, <2>7, <3>1, <3>3, <3>4, <3>5 DEF Lists
    <3> QED
      BY <1>1, <1>2, <1>3, <2>1, <3>1, <3>3, <3>6 DEF ShardInv, Vouches
  <2> QED
    BY <1>8, <2>8, <2>9 DEF WriteManifest
<1> QED
  BY <1>6, <1>7, <1>8

LEMMA ShardNext == ShardInv /\ [Next]_vars => ShardInv'
<1>1. ShardInv /\ UNCHANGED vars => ShardInv'
  BY DEF ShardInv, vars
<1>2. ASSUME ShardInv, NEW f \in Flags, NEW overwrite \in BOOLEAN, Begin(f, overwrite)
      PROVE  ShardInv'
  BY <1>2, BeginStep
<1> QED
  BY <1>1, <1>2, OpenStep, FlushStep, EndedStep DEF Next

LEMMA ShardAlways == Spec => []ShardInv
<1> QED
  BY ShardInit, ShardNext, PTL DEF Spec

-----------------------------------------------------------------------------
(***************************************************************************)
(* What the invariant gives.                                               *)
(***************************************************************************)

LEMMA ShardTypes == ShardInv => TypeOK
<1> SUFFICES ASSUME ShardInv
             PROVE  TypeOK
  OBVIOUS
<1>1. ASSUME run # NoRun
      PROVE  /\ run.nodes \in 1..MaxSamples
             /\ run.shards \in [1..run.nodes -> Seq(Samples)]
             /\ run.test \in Seq(Samples)
             /\ run.at \in 1..(run.nodes + 2)
             /\ run.hashes \in [Written(run) -> File]
  <2>1. Underway(run, disk, manifest)
    BY DEF ShardInv
  <2>2. PICK p \in Plans : Follows(run, p)
    BY <1>1, <2>1, RunFacts
  <2>3. run.at \in 1..(run.nodes + 2)
    BY <1>1, <2>1, RunFacts
  <2>4. run.hashes \in [Written(run) -> File]
    BY <1>1, <2>1 DEF Underway
  <2> QED
    BY <2>2, <2>3, <2>4, PlanTypes DEF Follows
<1>2. ASSUME manifest \notin {Absent, Torn}
      PROVE  /\ manifest.nodes \in 1..MaxSamples
             /\ manifest.hashes \in [0..manifest.nodes -> File]
             /\ manifest.counts \in [0..manifest.nodes -> Nat]
  <2>1. PICK p \in Plans : Lists(manifest, p)
    BY <1>2 DEF ShardInv, Vouches
  <2> QED
    BY <2>1, PlanTypes DEF Lists
<1> QED
  BY <1>1, <1>2 DEF ShardInv, TypeOK

LEMMA RowsOfKept ==
  ASSUME NEW samples \in Seq(Samples), NEW file, Kept(file, samples),
         file.st = "rows", Len(file.samples) = Len(samples)
  PROVE  file.samples = samples
<1>1. CASE file = Rows(samples)
  BY <1>1 DEF Rows
<1>2. CASE file = Torn
  BY <1>2 DEF Torn
<1>3. CASE \E m \in 0..(Len(samples) - 1) : file = Rows(SubSeq(samples, 1, m))
  <2>1. PICK m \in 0..(Len(samples) - 1) : file = Rows(SubSeq(samples, 1, m))
    BY <1>3
  <2>2. PICK s : s = SubSeq(samples, 1, m)
    OBVIOUS
  <2>3. \A i \in 1..m : samples[i] \in Samples
    OBVIOUS
  <2>4. Len(s) = IF 1 <= m THEN m - 1 + 1 ELSE 0
    BY <2>2, <2>3, SubSeqProperties
  <2>5. file.samples = s
    BY <2>1, <2>2 DEF Rows
  <2> QED
    BY <2>4, <2>5
<1> QED
  BY <1>1, <1>2, <1>3 DEF Kept, Cut

LEMMA VouchedFiles == ShardInv => ManifestVouches
<1> SUFFICES ASSUME ShardInv, Matches, Counted(0..manifest.nodes)
             PROVE  /\ \A f \in 0..manifest.nodes :
                         Readable(disk[f]) /\ IsInjective(disk[f].samples)
                    /\ \A f, g \in 0..manifest.nodes :
                         f # g => SamplesOf(f) \cap SamplesOf(g) = {}
                    /\ \E d \in Datasets :
                         /\ d.p75 = ArtifactP75
                         /\ UNION {SamplesOf(f) : f \in 0..manifest.nodes} = ToSet(d.samples)
                    /\ \A f, g \in 1..manifest.nodes :
                         Len(disk[f].samples) <= Len(disk[g].samples) + 1
  BY DEF ManifestVouches
<1>1. manifest.st = "whole" /\ \A f \in 0..manifest.nodes : disk[f] = manifest.hashes[f]
  BY DEF Matches
<1>2. PICK p \in Plans : Lists(manifest, p)
  BY <1>1 DEF ShardInv, Vouches, Absent, Torn
<1>3. manifest.nodes = p.nodes
  BY <1>2 DEF Lists
<1>4. ASSUME NEW f \in 0..p.nodes
      PROVE  disk[f].st = "rows" /\ disk[f].samples = Whole(p, f) /\ Whole(p, f) # << >>
  <2>1. Whole(p, f) \in Seq(Samples) /\ Whole(p, f) # << >>
    BY PlanTypes
  <2>2. Kept(disk[f], Whole(p, f)) /\ manifest.counts[f] = Len(Whole(p, f))
    BY <1>1, <1>2, <1>3 DEF Lists
  <2>3. disk[f].st = "rows" /\ Len(disk[f].samples) = Len(Whole(p, f))
    BY <1>3, <2>2 DEF Counted
  <2> QED
    BY <2>1, <2>2, <2>3, RowsOfKept
<1>5. \A f \in 0..p.nodes : SamplesOf(f) = ToSet(Whole(p, f))
  BY <1>4 DEF SamplesOf
<1>6. UNION {SamplesOf(f) : f \in 0..p.nodes} = UNION {ToSet(Whole(p, f)) : f \in 0..p.nodes}
  BY <1>5
<1>7. 1..p.nodes \subseteq 0..p.nodes
  BY PlanTypes, ShardingAssumption
<1> QED
  BY <1>3, <1>4, <1>5, <1>6, <1>7, PlanPartition DEF Readable

LEMMA OnlyFilesChange ==
  ASSUME Next, ~WriteManifest
  PROVE  manifest' = manifest
BY DEF Next, Begin, Open, Flush, StopWriting, Stop

LEMMA CompleteStep ==
  ASSUME ShardInv, [Next]_vars, run # NoRun, manifest' # manifest, manifest'.st = "whole"
  PROVE  Matches'
<1>1. WriteManifest
  BY OnlyFilesChange DEF vars
<1>2. PICK r, m : r = run /\ m = manifest'
  OBVIOUS
<1>3. r.st = "opening" /\ r.at = r.nodes + 2 /\ disk' = disk
  BY <1>1, <1>2 DEF WriteManifest
<1>4. Underway(r, disk, manifest) /\ r # NoRun
  BY <1>2 DEF ShardInv
<1>5. r.nodes \in 1..MaxSamples /\ r.at \in 1..(r.nodes + 2)
  BY <1>4, RunFacts
<1>6. Written(r) = 0..r.nodes
  BY <1>3, <1>5, WrittenFiles
<1>7. m.nodes = r.nodes /\ m.hashes = r.hashes
  <2>1. m # Torn
    BY <1>2 DEF Torn
  <2>2. PICK c : m = [st |-> "whole", nodes |-> run.nodes, hashes |-> run.hashes,
                      counts |-> c]
    BY <1>1, <1>2, <2>1 DEF WriteManifest
  <2> QED
    BY <1>2, <2>2
<1>8. \A f \in 0..m.nodes : disk[f] = m.hashes[f]
  BY <1>4, <1>6, <1>7 DEF Underway
<1> QED
  BY <1>2, <1>3, <1>8 DEF Matches

LEMMA KeepingStep ==
  ASSUME ShardInv, [Next]_vars, run # NoRun, ~run.overwrite
  PROVE  /\ \A f \in Files : disk'[f] # disk[f] =>
              (disk[f] = Absent \/ (f = FileAt(run) /\ run.st = "writing"))
         /\ manifest' # manifest => manifest = Absent
<1>1. Underway(run, disk, manifest)
  BY DEF ShardInv
<1>2. Fresh(run, disk, manifest)
  BY <1>1 DEF Underway
<1>3. disk \in [Files -> File]
  BY DEF ShardInv
<1>4. CASE Open
  <2>1. /\ run.st = "opening" /\ run.at <= run.nodes + 1
        /\ disk' = [disk EXCEPT ![FileAt(run)] = Rows(<< >>)] /\ manifest' = manifest
    BY <1>4 DEF Open
  <2>2. FileAt(run) \notin Written(run)
    BY <1>1, <2>1, RunFacts, WrittenFiles
  <2>3. \A f \in Files : f = FileAt(run) => disk[f] = Absent
    BY <1>2, <2>1, <2>2 DEF Fresh
  <2>4. \A f \in Files : f # FileAt(run) => disk'[f] = disk[f]
    BY <1>3, <2>1
  <2> QED
    BY <2>1, <2>3, <2>4
<1>5. CASE Flush \/ StopWriting
  <2>1. run.st = "writing" /\ manifest' = manifest
    BY <1>5 DEF Flush, StopWriting
  <2>2. PICK file : disk' = [disk EXCEPT ![FileAt(run)] = file]
    BY <1>5 DEF Flush, StopWriting
  <2>3. \A f \in Files : f # FileAt(run) => disk'[f] = disk[f]
    BY <1>3, <2>2
  <2> QED
    BY <2>1, <2>3
<1>6. CASE \/ WriteManifest \/ Stop \/ UNCHANGED vars
           \/ \E f \in Flags, overwrite \in BOOLEAN : Begin(f, overwrite)
  <2>1. disk' = disk
    BY <1>6 DEF WriteManifest, Stop, Begin, vars
  <2> QED
    BY <1>2, <2>1 DEF Fresh
<1> QED
  BY <1>4, <1>5, <1>6 DEF Next

\* The types of shard-data's variables, whatever the dataset, the numbers of
\* nodes, the ratios and the seeds, however often it is run and wherever it
\* stops.
THEOREM ShardingTypes == Spec => []TypeOK
<1> QED
  BY ShardAlways, ShardTypes, PTL

\* Files that match their manifest in hash and in number of rows are one
\* complete generation (manifest, PartitionRoundRobin, SplitTrainTest): every
\* file loads, each sample of the dataset is in exactly one file once, and the
\* shards are balanced, after any runs, interrupted ones too.
THEOREM ManifestsVouch == Spec => []ManifestVouches
<1> QED
  BY ShardAlways, VouchedFiles, PTL

\* A run of shard-data that writes its manifest leaves files that match it.
THEOREM CompleteRuns == Spec => CompleteRunMatches
<1>1. ShardInv /\ [Next]_vars =>
        [run # NoRun /\ manifest' # manifest /\ manifest'.st = "whole" => Matches']_vars
  BY CompleteStep
<1> QED
  BY <1>1, ShardAlways, PTL DEF Spec, CompleteRunMatches

\* ensureOutputDir: without -overwrite, a run touches no file and no manifest
\* that was there before it.
THEOREM NothingOverwritten == Spec => KeepsWhatItFound
<1>1. ShardInv /\ [Next]_vars =>
        [run # NoRun /\ ~run.overwrite =>
           /\ \A f \in Files : disk'[f] # disk[f] =>
                (disk[f] = Absent \/ (f = FileAt(run) /\ run.st = "writing"))
           /\ manifest' # manifest => manifest = Absent]_vars
  BY KeepingStep
<1> QED
  BY <1>1, ShardAlways, PTL DEF Spec, KeepsWhatItFound

-----------------------------------------------------------------------------
(***************************************************************************)
(* The deployment.                                                         *)
(*                                                                         *)
(* The rows that a file holds, that a node has loaded or that went into a  *)
(* round are a beginning of one file of one plan that some run began: the  *)
(* file of the same number.  What the API evaluates on are rows of test    *)
(* files, and what its weights were computed from is none of them.         *)
(***************************************************************************)

Begins(samples, w) ==
  /\ samples \in Seq(Samples)
  /\ Len(samples) <= Len(w)
  /\ \A i \in 1..Len(samples) : samples[i] = w[i]

Comes(plans, f, samples) ==
  \/ samples = << >>
  \/ \E b \in plans : f \in 0..b.nodes /\ Begins(samples, Whole(b, f))

Tested(plans, samples) ==
  \A x \in ToSet(samples) : \E b \in plans : x \in ToSet(b.test)

Trained(plans, used) ==
  \A x \in used : x \in ToSet(Phase1Train) \/ \E b \in plans : x \notin ToSet(b.test)

StoredInv ==
  /\ ShardInv
  /\ begun \subseteq Plans
  /\ run # NoRun => \E b \in begun : Follows(run, b)
  /\ \A f \in Files : disk[f].st = "rows" => Comes(begun, f, disk[f].samples)

LoadedInv ==
  /\ node \in [Node -> Seq(Samples)]
  /\ \A n \in Node : Comes(begun, n, node[n])
  /\ summed \in [Node -> Seq(Samples)]
  /\ \A n \in Node : Comes(begun, n, summed[n])

ApiInv ==
  /\ api \in Api \cup {NoApi}
  /\ api # NoApi => Tested(begun, api.test) /\ Trained(begun, api.used)

DeployInv == StoredInv /\ LoadedInv /\ ApiInv

LEMMA KeptBegins ==
  ASSUME NEW w \in Seq(Samples), NEW file, Kept(file, w), file.st = "rows"
  PROVE  Begins(file.samples, w)
<1>1. CASE file = Rows(w)
  BY <1>1 DEF Rows, Begins
<1>2. CASE file = Torn
  BY <1>2 DEF Torn
<1>3. CASE \E m \in 0..(Len(w) - 1) : file = Rows(SubSeq(w, 1, m))
  <2>1. PICK m \in 0..(Len(w) - 1) : file = Rows(SubSeq(w, 1, m))
    BY <1>3
  <2>2. PICK s : s = SubSeq(w, 1, m)
    OBVIOUS
  <2>3. \A i \in 1..m : w[i] \in Samples
    OBVIOUS
  <2>4. /\ s \in Seq(Samples)
        /\ Len(s) = IF 1 <= m THEN m - 1 + 1 ELSE 0
        /\ \A i \in 1..(m - 1 + 1) : s[i] = w[1 + i - 1]
    BY <2>2, <2>3, SubSeqProperties
  <2>5. Len(s) = m /\ \A i \in 1..m : s[i] = w[i]
    BY <2>4
  <2>6. file.samples = s
    BY <2>1, <2>2 DEF Rows
  <2> QED
    BY <2>4, <2>5, <2>6 DEF Begins
<1> QED
  BY <1>1, <1>2, <1>3 DEF Kept, Cut

LEMMA ComesTyped ==
  ASSUME NEW plans, NEW f, NEW samples, Comes(plans, f, samples)
  PROVE  samples \in Seq(Samples)
<1>1. CASE samples = << >>
  <2>1. << >> \in Seq(Samples)
    OBVIOUS
  <2> QED
    BY <1>1, <2>1, Zenon
<1>2. CASE samples # << >>
  BY <1>2 DEF Comes, Begins
<1> QED
  BY <1>1, <1>2

LEMMA ComesMore ==
  ASSUME NEW A, NEW B, A \subseteq B, NEW f, NEW samples, Comes(A, f, samples)
  PROVE  Comes(B, f, samples)
BY DEF Comes

LEMMA KeptComes ==
  ASSUME StoredInv, run # NoRun, NEW f \in 0..run.nodes,
         NEW file, Kept(file, Whole(run, f)), file.st = "rows"
  PROVE  Comes(begun, f, file.samples)
<1>1. PICK b \in begun : Follows(run, b)
  BY DEF StoredInv
<1>2. Underway(run, disk, manifest)
  BY DEF StoredInv, ShardInv
<1>3. Whole(run, f) \in Seq(Samples)
  BY <1>2, RunFacts
<1>4. Whole(b, f) = Whole(run, f) /\ b.nodes = run.nodes
  BY <1>1 DEF Follows, Whole
<1> QED
  BY <1>3, <1>4, KeptBegins DEF Comes

LEMMA WritingAt ==
  ASSUME ShardInv, run.st = "writing"
  PROVE  /\ run # NoRun
         /\ FileAt(run) \in 0..run.nodes
         /\ FileAt(run) \in Files
         /\ Content(run) = Whole(run, FileAt(run))
<1>1. run # NoRun
  BY DEF NoRun
<1>2. Underway(run, disk, manifest)
  BY DEF ShardInv
<1> QED
  BY <1>1, <1>2, RunFacts, WrittenFiles

\* What a reader finds in file f.
LEMMA VisibleComes ==
  ASSUME StoredInv, NEW f, NEW file \in Visible(f), Readable(file)
  PROVE  file.samples \in Seq(Samples) /\ Comes(begun, f, file.samples)
<1>1. file.st = "rows" /\ ShardInv
  BY DEF Readable, StoredInv
<1>2. CASE run.st = "writing" /\ FileAt(run) = f
  <2>1. /\ run # NoRun /\ f \in 0..run.nodes /\ Content(run) = Whole(run, f)
    BY <1>1, <1>2, WritingAt
  <2>2. Kept(file, Whole(run, f))
    BY <1>2, <2>1 DEF Visible, Kept
  <2>3. Comes(begun, f, file.samples)
    BY <1>1, <2>1, <2>2, KeptComes
  <2> QED
    BY <2>3, ComesTyped
<1>3. CASE ~(run.st = "writing" /\ FileAt(run) = f)
  <2>1. f \in Files /\ file = disk[f]
    BY <1>3 DEF Visible
  <2>2. Comes(begun, f, file.samples)
    BY <1>1, <2>1 DEF StoredInv
  <2> QED
    BY <2>2, ComesTyped
<1> QED
  BY <1>2, <1>3

-----------------------------------------------------------------------------

LEMMA DeployInitInv == DeploymentInit => DeployInv
<1> SUFFICES ASSUME DeploymentInit
             PROVE  DeployInv
  OBVIOUS
<1>1. StoredInv
  BY ShardInit DEF DeploymentInit, StoredInv, Init, Absent
<1>2. LoadedInv
  BY DEF DeploymentInit, LoadedInv, NotYet, Comes
<1>3. ApiInv
  BY DEF DeploymentInit, ApiInv
<1> QED
  BY <1>1, <1>2, <1>3 DEF DeployInv

\* The processes that a step leaves alone keep what they have.
LEMMA LoadedSame ==
  ASSUME LoadedInv, UNCHANGED <<node, summed>>, begun \subseteq begun'
  PROVE  LoadedInv'
<1>1. \A n \in Node : Comes(begun', n, node[n]) /\ Comes(begun', n, summed[n])
  BY ComesMore DEF LoadedInv
<1> QED
  BY <1>1 DEF LoadedInv

LEMMA ApiSame ==
  ASSUME ApiInv, UNCHANGED api, begun \subseteq begun'
  PROVE  ApiInv'
BY DEF ApiInv, Tested, Trained

LEMMA StoredSame ==
  ASSUME StoredInv, UNCHANGED vars, UNCHANGED begun
  PROVE  StoredInv'
<1>1. ShardInv'
  BY ShardNext DEF StoredInv
<1> QED
  BY <1>1 DEF StoredInv, vars

LEMMA BeginRunInv ==
  ASSUME DeployInv, BeginRun
  PROVE  DeployInv'
<1>1. PICK f \in Flags, overwrite \in BOOLEAN :
         /\ Begin(f, overwrite)
         /\ begun' = IF run' = NoRun THEN begun ELSE begun \cup {Plan(f)}
  BY DEF BeginRun
<1>2. UNCHANGED <<node, api, summed>> /\ disk' = disk
  BY <1>1 DEF BeginRun, Begin
<1>3. PICK b : b = Plan(f)
  OBVIOUS
<1>4. ShardInv' /\ (run' # NoRun => b \in Plans /\ Follows(run', b))
  BY <1>1, <1>3, BeginStep DEF DeployInv, StoredInv
<1>5. begun \subseteq begun' /\ begun' \subseteq Plans
  BY <1>1, <1>3, <1>4 DEF DeployInv, StoredInv
<1>6. run' # NoRun => b \in begun'
  BY <1>1, <1>3
<1>7. \A g \in Files : disk[g].st = "rows" => Comes(begun', g, disk[g].samples)
  BY <1>5, ComesMore DEF DeployInv, StoredInv
<1>8. StoredInv'
  BY <1>2, <1>4, <1>5, <1>6, <1>7 DEF StoredInv
<1> QED
  BY <1>2, <1>5, <1>8, LoadedSame, ApiSame DEF DeployInv

LEMMA RunStepInv ==
  ASSUME DeployInv, RunStep
  PROVE  DeployInv'
<1>1. UNCHANGED <<node, api, summed, begun>>
  BY DEF RunStep, deployVars
<1>2. ShardInv /\ StoredInv
  BY DEF DeployInv, StoredInv
<1>3. ShardInv'
  BY <1>2, ShardNext DEF RunStep, Next
<1>4. \A r : r = run' /\ r # NoRun =>
        r.nodes = run.nodes /\ r.shards = run.shards /\ r.test = run.test /\ run # NoRun
  <2>1. CASE Open
    <3>1. run.st = "opening" /\ run' = [run EXCEPT !.st = "writing"]
      BY <2>1 DEF Open
    <3>2. run # NoRun
      BY <3>1 DEF NoRun
    <3>3. IsRun(run)
      BY <1>2, <3>2 DEF ShardInv, Underway
    <3> QED
      BY <3>1, <3>2, <3>3, RunChanged
  <2>2. CASE Flush
    <3>1. PICK h : run' = [run EXCEPT !.st = "opening", !.at = @ + 1, !.hashes = h]
      BY <2>2 DEF Flush
    <3>2. run.st = "writing"
      BY <2>2 DEF Flush
    <3>3. run # NoRun
      BY <3>2 DEF NoRun
    <3>4. IsRun(run)
      BY <1>2, <3>3 DEF ShardInv, Underway
    <3>5. PICK at : at = run.at + 1
      OBVIOUS
    <3>6. run' = Advanced(run, at, h)
      BY <3>1, <3>5 DEF Advanced
    <3> QED
      BY <3>3, <3>4, <3>6, RunAdvanced
  <2>3. CASE StopWriting \/ Stop \/ WriteManifest
    BY <2>3 DEF StopWriting, Stop, WriteManifest
  <2> QED
    BY <2>1, <2>2, <2>3 DEF RunStep
<1>5. run' # NoRun => \E b \in begun' : Follows(run', b)
  <2> SUFFICES ASSUME run' # NoRun
               PROVE  \E b \in begun' : Follows(run', b)
    OBVIOUS
  <2>1. PICK r : r = run'
    OBVIOUS
  <2>2. PICK b \in begun : Follows(run, b)
    BY <1>2, <1>4, <2>1 DEF StoredInv
  <2>3. Follows(r, b)
    BY <1>4, <2>1, <2>2 DEF Follows
  <2> QED
    BY <1>1, <2>1, <2>3
<1>6. PICK d : d = disk'
  OBVIOUS
<1>7. ASSUME NEW f \in Files, d[f].st = "rows"
      PROVE  Comes(begun, f, d[f].samples)
  <2>1. disk \in [Files -> File]
    BY <1>2 DEF ShardInv
  <2>2. CASE Open
    <3>1. d = [disk EXCEPT ![FileAt(run)] = Rows(<< >>)]
      BY <1>6, <2>2 DEF Open
    <3>2. d[f] = disk[f] \/ d[f] = Rows(<< >>)
      BY <2>1, <3>1
    <3>3. d[f] = Rows(<< >>) => d[f].samples = << >>
      BY DEF Rows
    <3> QED
      BY <1>2, <1>7, <3>2, <3>3 DEF StoredInv, Comes
  <2>3. CASE Flush \/ StopWriting
    <3>1. run.st = "writing"
      BY <2>3 DEF Flush, StopWriting
    <3>2. PICK file \in {Rows(Content(run))} \cup Cut(Content(run)) :
             disk' = [disk EXCEPT ![FileAt(run)] = file]
      BY <2>3 DEF Flush, StopWriting
    <3>3. d[f] = disk[f] \/ (f = FileAt(run) /\ d[f] = file)
      BY <1>6, <2>1, <3>2
    <3>4. /\ run # NoRun /\ FileAt(run) \in 0..run.nodes
          /\ Content(run) = Whole(run, FileAt(run))
      BY <1>2, <3>1, WritingAt
    <3>5. Kept(file, Whole(run, FileAt(run)))
      BY <3>2, <3>4 DEF Kept
    <3> QED
      BY <1>2, <1>7, <3>3, <3>4, <3>5, KeptComes DEF StoredInv
  <2>4. CASE Stop \/ WriteManifest
    BY <1>2, <1>6, <1>7, <2>4 DEF Stop, WriteManifest, StoredInv
  <2> QED
    BY <2>2, <2>3, <2>4 DEF RunStep
<1>8. StoredInv'
  BY <1>1, <1>2, <1>3, <1>5, <1>6, <1>7 DEF StoredInv
<1> QED
  BY <1>1, <1>8, LoadedSame, ApiSame DEF DeployInv

\* Phase 1's split: its sets are apart and no sample is twice in one.
LEMMA Phase1Split ==
  \E t \in Nat :
    /\ Phase1Train \in [1..t -> Samples]
    /\ IsInjective(Phase1Train)
    /\ ToSet(Phase1Train) \subseteq Samples
    /\ ToSet(Phase1Train) \cap ToSet(Phase1Test) = {}
<1>1. PICK n \in Nat : n = Len(Phase1Dataset.samples) /\ n > 1
  <2>1. Phase1Dataset.samples \in Seq(Samples)
    BY ShardingAssumption, DeploymentAssumption
  <2>2. Len(Phase1Dataset.samples) \in Nat
    BY <2>1
  <2> QED
    BY <2>2, DeploymentAssumption
<1>2. PICK S : S = Samples
  OBVIOUS
<1>3. PICK s \in [1..n -> S] : s = Shuffled(Phase1Dataset, Phase1Seed) /\ IsInjective(s)
  <2>1. n \in Nat \ {0}
    BY <1>1
  <2> QED
    BY <1>1, <1>2, <2>1, ShuffledSamples, DeploymentAssumption
<1>4. PICK ratio \in 1..49 : ratio = Phase1Ratio
  BY DeploymentAssumption DEF Phase1Ratio
<1>5. PICK t \in 1..(n - 1) :
         /\ t = TrainSize(n, ratio)
         /\ Train(s, ratio) \in [1..t -> S]
         /\ Test(s, ratio) \in [1..(n - t) -> S]
         /\ CutAt(s, n, t, Train(s, ratio), Test(s, ratio))
  BY <1>1, SplitPositions
<1>6. PICK a, b : a = Train(s, ratio) /\ b = Test(s, ratio)
  OBVIOUS
<1>7. /\ a \in [1..t -> S] /\ b \in [1..(n - t) -> S]
      /\ \A i \in 1..t : a[i] = s[i]
      /\ \A i \in 1..(n - t) : b[i] = s[t + i]
  BY <1>5, <1>6 DEF CutAt
<1>8. \A i, j \in 1..n : s[i] = s[j] => i = j
  BY <1>3 DEF IsInjective
<1>9. IsInjective(a)
  <2>1. \A i \in 1..t : i \in 1..n
    BY <1>1
  <2> QED
    BY <1>7, <1>8, <2>1 DEF IsInjective
<1>10. ASSUME NEW i \in 1..t, NEW j \in 1..(n - t), a[i] = b[j]
       PROVE  FALSE
  <2>1. PICK m \in 1..n : m = t + j /\ m > t
    BY <1>1
  <2>2. i \in 1..n /\ s[i] = s[m]
    BY <1>1, <1>7, <1>10, <2>1
  <2>3. i = m
    BY <1>8, <2>2
  <2> QED
    BY <2>1, <2>3
<1>11. ToSet(a) \cap ToSet(b) = {}
  BY <1>7, <1>10 DEF ToSet
<1>12. ToSet(a) \subseteq S
  BY <1>7 DEF ToSet
<1>13. a = Phase1Train /\ b = Phase1Test
  BY <1>3, <1>4, <1>6 DEF Phase1Train, Phase1Test
<1>14. t \in Nat
  OBVIOUS
<1> QED
  BY <1>2, <1>7, <1>9, <1>11, <1>12, <1>13, <1>14

\* A run with the dataset, the seed and the ratio of phase 1 sets out to write
\* phase 1's test set and to deal out its training set.
LEMMA Repeated ==
  ASSUME NEW b \in Plans, RepeatsPhase1(b)
  PROVE  /\ b.test = Phase1Test
         /\ b.shards = RoundRobin(Phase1Train, b.nodes)
<1>1. PICK f \in Flags : b = Plan(f)
  BY DEF Plans
<1>2. b.flags = f /\ b.nodes = f.nodes
  BY <1>1 DEF Plan
<1>3. f.dataset = Phase1Dataset /\ f.seed = Phase1Seed /\ f.ratio = Phase1Ratio
  BY <1>2 DEF RepeatsPhase1
<1> QED
  BY <1>1, <1>2, <1>3 DEF Plan, Phase1Train, Phase1Test

\* The rows of a beginning are rows of the file.
LEMMA BeginsWithin ==
  ASSUME NEW w \in Seq(Samples), NEW samples, Begins(samples, w)
  PROVE  ToSet(samples) \subseteq ToSet(w)
<1>1. \A i \in DOMAIN samples : i \in DOMAIN w /\ samples[i] = w[i]
  BY DEF Begins
<1> QED
  BY <1>1 DEF ToSet

\* The rows of file f belong to the files of that number.
LEMMA RowsOfPlans ==
  ASSUME StoredInv, NEW f, NEW samples, Comes(begun, f, samples),
         NEW x \in ToSet(samples)
  PROVE  \E b \in begun : f \in 0..b.nodes /\ x \in ToSet(Whole(b, f))
<1>1. samples # << >>
  BY DEF ToSet
<1>2. PICK b \in begun : f \in 0..b.nodes /\ Begins(samples, Whole(b, f))
  BY <1>1 DEF Comes
<1>3. Whole(b, f) \in Seq(Samples)
  BY <1>2, PlanTypes DEF StoredInv
<1> QED
  BY <1>2, <1>3, BeginsWithin

LEMMA NodeSteps ==
  ASSUME DeployInv, NEW n \in Node, NodeStart(n) \/ NodeStop(n)
  PROVE  DeployInv'
<1>1. UNCHANGED vars /\ UNCHANGED <<api, summed, begun>>
  BY DEF NodeStart, NodeStop
<1>2. StoredInv'
  BY <1>1, StoredSame DEF DeployInv
<1>3. ApiInv'
  BY <1>1, ApiSame DEF DeployInv
<1>4. PICK samples : /\ node' = [node EXCEPT ![n] = samples]
                     /\ samples \in Seq(Samples) /\ Comes(begun, n, samples)
  <2>1. CASE NodeStart(n)
    <3>1. PICK file \in Visible(n) :
             Readable(file) /\ node' = [node EXCEPT ![n] = file.samples]
      BY <2>1 DEF NodeStart
    <3>2. file.samples \in Seq(Samples) /\ Comes(begun, n, file.samples)
      BY <3>1, VisibleComes DEF DeployInv
    <3> QED
      BY <3>1, <3>2
  <2>2. CASE NodeStop(n)
    <3>1. node' = [node EXCEPT ![n] = << >>]
      BY <2>2 DEF NodeStop
    <3>2. << >> \in Seq(Samples) /\ Comes(begun, n, << >>)
      BY DEF Comes
    <3> QED
      BY <3>1, <3>2
  <2> QED
    BY <2>1, <2>2
<1>5. /\ node \in [Node -> Seq(Samples)] /\ \A k \in Node : Comes(begun, k, node[k])
      /\ summed \in [Node -> Seq(Samples)] /\ \A k \in Node : Comes(begun, k, summed[k])
  BY DEF DeployInv, LoadedInv
<1>6. PICK g : g = node'
  OBVIOUS
<1>7. g \in [Node -> Seq(Samples)] /\ \A k \in Node : Comes(begun, k, g[k])
  BY <1>4, <1>5, <1>6
<1>8. LoadedInv'
  BY <1>1, <1>5, <1>6, <1>7 DEF LoadedInv
<1> QED
  BY <1>2, <1>3, <1>8 DEF DeployInv

LEMMA ContributeStep ==
  ASSUME DeployInv, NEW n \in Node, Contribute(n)
  PROVE  DeployInv'
<1>1. UNCHANGED vars /\ UNCHANGED <<node, api, begun>>
      /\ summed' = [summed EXCEPT ![n] = node[n]]
  BY DEF Contribute
<1>2. StoredInv' /\ ApiInv'
  BY <1>1, StoredSame, ApiSame DEF DeployInv
<1>3. /\ node \in [Node -> Seq(Samples)] /\ \A k \in Node : Comes(begun, k, node[k])
      /\ summed \in [Node -> Seq(Samples)] /\ \A k \in Node : Comes(begun, k, summed[k])
  BY DEF DeployInv, LoadedInv
<1>4. PICK g : g = summed'
  OBVIOUS
<1>5. g \in [Node -> Seq(Samples)] /\ \A k \in Node : Comes(begun, k, g[k])
  BY <1>1, <1>3, <1>4
<1>6. LoadedInv'
  BY <1>1, <1>3, <1>4, <1>5 DEF LoadedInv
<1> QED
  BY <1>2, <1>6 DEF DeployInv

\* Nothing is summed up any more.
LEMMA RoundForgotten ==
  ASSUME LoadedInv, UNCHANGED <<node, begun>>, summed' = [n \in Node |-> NotYet]
  PROVE  LoadedInv'
<1>1. \A k \in Node : Comes(begun, k, << >>) /\ << >> \in Seq(Samples)
  BY DEF Comes
<1>2. PICK g : g = summed'
  OBVIOUS
<1>3. g = [n \in Node |-> << >>]
  BY <1>2 DEF NotYet
<1>4. g \in [Node -> Seq(Samples)] /\ \A k \in Node : Comes(begun, k, g[k])
  BY <1>1, <1>3
<1> QED
  BY <1>2, <1>4 DEF LoadedInv

LEMMA ApiStartStep ==
  ASSUME DeployInv, ApiStart
  PROVE  DeployInv'
<1>1. UNCHANGED vars /\ UNCHANGED <<node, summed, begun>>
  BY DEF ApiStart
<1>2. PICK file \in Visible(0) :
         /\ Readable(file)
         /\ api' = [st |-> "up", test |-> file.samples, used |-> ToSet(Phase1Train)]
  BY DEF ApiStart
<1>3. file.samples \in Seq(Samples) /\ Comes(begun, 0, file.samples)
  BY <1>2, VisibleComes DEF DeployInv
<1>4. PICK a, samples, used :
         a = api' /\ samples = file.samples /\ used = ToSet(Phase1Train)
  OBVIOUS
<1>5. a = [st |-> "up", test |-> samples, used |-> used]
  BY <1>2, <1>4
<1>6. used \subseteq Samples
  BY <1>4, Phase1Split
<1>7. a \in Api /\ a.test = samples /\ a.used = used
  BY <1>3, <1>4, <1>5, <1>6 DEF Api
<1>8. Tested(begun, samples)
  <2>1. \A b : Whole(b, 0) = b.test
    BY DEF Whole
  <2> QED
    BY <1>3, <1>4, <2>1, RowsOfPlans DEF Tested, DeployInv
<1>9. Trained(begun, used)
  BY <1>4 DEF Trained
<1>10. ApiInv'
  BY <1>1, <1>4, <1>7, <1>8, <1>9 DEF ApiInv
<1>11. StoredInv' /\ LoadedInv'
  BY <1>1, StoredSame, LoadedSame DEF DeployInv
<1> QED
  BY <1>10, <1>11 DEF DeployInv

\* What a round adds is in no test file.
LEMMA ContributionsTrained ==
  ASSUME StoredInv, LoadedInv
  PROVE  Contributions \subseteq Samples /\ Trained(begun, Contributions)
<1>1. ASSUME NEW x \in Contributions
      PROVE  x \in Samples /\ \E b \in begun : x \notin ToSet(b.test)
  <2>1. PICK n \in Node : x \in ToSet(summed[n])
    BY <1>1 DEF Contributions
  <2>2. PICK b \in begun : n \in 0..b.nodes /\ x \in ToSet(Whole(b, n))
    BY <2>1, RowsOfPlans DEF LoadedInv
  <2>3. PICK p \in Plans : p = b
    BY DEF StoredInv
  <2>4. n # 0 /\ 0 \in 0..p.nodes
    BY <2>2, <2>3, PlanTypes, ShardingAssumption DEF Node
  <2>5. ToSet(Whole(p, n)) \cap ToSet(Whole(p, 0)) = {}
    BY <2>2, <2>3, <2>4, PlanPartition
  <2>6. Whole(p, 0) = b.test
    BY <2>3 DEF Whole
  <2>7. x \in Samples
    <3>1. Whole(p, n) \in Seq(Samples)
      BY <2>2, <2>3, PlanTypes
    <3>2. \A i \in DOMAIN Whole(p, n) : Whole(p, n)[i] \in Samples
      BY <3>1
    <3> QED
      BY <2>2, <2>3, <3>2 DEF ToSet
  <2> QED
    BY <2>2, <2>3, <2>5, <2>6, <2>7
<1> QED
  BY <1>1 DEF Trained

LEMMA ApiStopStep ==
  ASSUME DeployInv, ApiStop \/ FailRound
  PROVE  DeployInv'
<1>1. UNCHANGED vars /\ UNCHANGED <<node, begun>> /\ (api' = NoApi \/ api' = api)
      /\ summed' = [n \in Node |-> NotYet]
  BY DEF ApiStop, FailRound
<1>2. StoredInv' /\ LoadedInv'
  BY <1>1, StoredSame, RoundForgotten DEF DeployInv
<1>3. ApiInv'
  BY <1>1 DEF DeployInv, ApiInv
<1> QED
  BY <1>2, <1>3 DEF DeployInv

LEMMA EndRoundStep ==
  ASSUME DeployInv, EndRound
  PROVE  DeployInv'
<1>1. UNCHANGED vars /\ UNCHANGED <<node, begun>> /\ api # NoApi
      /\ summed' = [n \in Node |-> NotYet]
  BY DEF EndRound
<1>2. StoredInv' /\ LoadedInv'
  BY <1>1, StoredSame, RoundForgotten DEF DeployInv
<1>3. PICK base \in {api.used, {}} : api' = [api EXCEPT !.used = base \cup Contributions]
  BY DEF EndRound
<1>4. api \in Api /\ Tested(begun, api.test) /\ Trained(begun, api.used)
  BY <1>1 DEF DeployInv, ApiInv
<1>5. Contributions \subseteq Samples /\ Trained(begun, Contributions)
  BY ContributionsTrained DEF DeployInv
<1>6. PICK a, used : a = api' /\ used = base \cup Contributions
  OBVIOUS
<1>7. used \subseteq Samples /\ Trained(begun, used)
  BY <1>3, <1>4, <1>5, <1>6 DEF Trained, Api
<1>8. a = [api EXCEPT !.used = used]
  BY <1>3, <1>6
<1>9. a \in Api /\ a.test = api.test /\ a.used = used
  BY <1>4, <1>7, <1>8 DEF Api
<1>10. ApiInv'
  BY <1>1, <1>4, <1>6, <1>7, <1>9 DEF ApiInv
<1> QED
  BY <1>2, <1>10 DEF DeployInv

LEMMA DeployNext ==
  ASSUME DeployInv, [DeploymentNext]_<<vars, deployVars>>
  PROVE  DeployInv'
<1>1. CASE UNCHANGED <<vars, deployVars>>
  <2>1. UNCHANGED vars /\ UNCHANGED <<node, api, summed, begun>>
    BY <1>1 DEF deployVars
  <2> QED
    BY <2>1, StoredSame, LoadedSame, ApiSame DEF DeployInv
<1> QED
  BY <1>1, BeginRunInv, RunStepInv, NodeSteps, ContributeStep, ApiStartStep, ApiStopStep,
     EndRoundStep DEF DeploymentNext

LEMMA DeployAlways == DeploymentSpec => []DeployInv
<1>1. DeployInv /\ [DeploymentNext]_<<vars, deployVars>> => DeployInv'
  BY DeployNext
<1> QED
  BY <1>1, DeployInitInv, PTL DEF DeploymentSpec

-----------------------------------------------------------------------------

LEMMA DeployTypes == DeployInv => DeploymentTypeOK
<1> SUFFICES ASSUME DeployInv
             PROVE  DeploymentTypeOK
  OBVIOUS
<1>1. TypeOK
  BY ShardTypes DEF DeployInv, StoredInv
<1>2. begun \subseteq Plans
  BY DEF DeployInv, StoredInv
<1> QED
  BY <1>1, <1>2 DEF DeployInv, LoadedInv, ApiInv, DeploymentTypeOK

LEMMA HoldOut == DeployInv => HoldOutIfPhase1Repeated
<1> SUFFICES ASSUME DeployInv, \A b \in begun : RepeatsPhase1(b), api # NoApi,
                    NEW x \in Evaluated, x \in api.used
             PROVE  FALSE
  BY DEF HoldOutIfPhase1Repeated, EvaluationIsHoldOut
<1>1. Tested(begun, api.test) /\ Trained(begun, api.used)
  BY DEF DeployInv, ApiInv
<1>2. \A b \in begun : b.test = Phase1Test
  BY Repeated DEF DeployInv, StoredInv
<1>3. x \in ToSet(Phase1Test)
  BY <1>1, <1>2 DEF Tested, Evaluated
<1>4. x \in ToSet(Phase1Train)
  BY <1>1, <1>2, <1>3 DEF Trained
<1> QED
  BY <1>3, <1>4, Phase1Split

\* The places that a shard's first samples came from, counted.
LEMMA PlacesOfBeginning ==
  ASSUME NEW k \in Nat \ {0}, NEW g \in 1..k, NEW m \in Nat
  PROVE  Cardinality({Position(k, g, j) : j \in 1..m}) = m
<1>1. PICK S, T : S = 1..m /\ T = {Position(k, g, j) : j \in 1..m}
  OBVIOUS
<1>2. PICK h : h = [j \in S |-> Position(k, g, j)]
  OBVIOUS
<1>3. h \in [S -> T]
  BY <1>1, <1>2
<1>4. \A i, j \in S : h[i] = h[j] => i = j
  BY <1>1, <1>2, OnePlace
<1>5. h \in Injection(S, T)
  BY <1>3, <1>4 DEF Injection, IsInjective
<1>6. \A y \in T : \E j \in S : h[j] = y
  BY <1>1, <1>2
<1>7. h \in Bijection(S, T)
  BY <1>3, <1>5, <1>6 DEF Bijection, Surjection
<1>8. ExistsBijection(S, T)
  BY <1>7 DEF ExistsBijection
<1>9. IsFiniteSet(S) /\ Cardinality(S) = m
  BY <1>1, FS_Interval
<1> QED
  BY <1>1, <1>8, <1>9, FS_Bijection

\* Beginnings of the shards that add up to all the samples hold every sample.
Beginnings(m, t, k) ==
  m \in [1..k -> Nat] /\ \A g \in 1..k : m[g] <= Share(t, k, g)

Complete(m, t, k) ==
  \A i \in 1..t : \E g \in 1..k : \E j \in 1..m[g] : i = Position(k, g, j)

LEMMA FullShares ==
  ASSUME NEW t \in Nat, NEW k \in 1..t, NEW m, Beginnings(m, t, k), AddedUp(m) = t
  PROVE  Complete(m, t, k)
<1> DEFINE Of(i, g) == g \in 1..k /\ \E j \in 1..m[g] : i = Position(k, g, j)
           owner == [i \in 1..t |-> IF \E g : Of(i, g) THEN CHOOSE g : Of(i, g) ELSE 0]
<1>0. m \in [1..k -> Nat] /\ k \in Nat \ {0}
  BY DEF Beginnings
<1>1. ASSUME NEW i, NEW g, NEW h, Of(i, g), Of(i, h)
      PROVE  g = h
  <2>1. PICK a \in 1..m[g], b \in 1..m[h] : i = Position(k, g, a) /\ i = Position(k, h, b)
    BY <1>1
  <2>2. PICK x \in 1..k, y \in 1..k : x = g /\ y = h
    BY <1>1
  <2>3. m[g] \in Nat /\ m[h] \in Nat
    BY <1>0, <2>2
  <2>4. PICK c \in Nat \ {0}, d \in Nat \ {0} : c = a /\ d = b
    BY <2>3
  <2>5. Position(k, x, c) = Position(k, y, d)
    BY <2>1, <2>2, <2>4
  <2> QED
    BY <1>0, <2>2, <2>5, OnePlace
<1>2. ASSUME NEW i \in 1..t, NEW g \in 1..k
      PROVE  owner[i] = g <=> Of(i, g)
  <2> HIDE DEF Of
  <2>1. CASE \E h : Of(i, h)
    <3>1. PICK o : o = CHOOSE h : Of(i, h)
      OBVIOUS
    <3>2. Of(i, o)
      BY <2>1, <3>1
    <3>3. owner[i] = o
      BY <2>1, <3>1
    <3> QED
      BY <1>1, <3>2, <3>3
  <2>2. CASE ~ \E h : Of(i, h)
    <3>1. owner[i] = 0
      BY <2>2
    <3> QED
      BY <2>2, <3>1
  <2> QED
    BY <2>1, <2>2
<1>3. \A i \in 1..t : owner[i] \in 1..k => Of(i, owner[i])
  <2> HIDE DEF owner, Of
  <2> QED
    BY <1>2
<1>4. PICK bin : bin = owner
  OBVIOUS
<1> HIDE DEF owner
<1>5. ASSUME NEW g \in 1..k
      PROVE  m[g] = Cardinality({i \in 1..t : bin[i] = g})
  <2>1. PICK n \in Nat : n = m[g] /\ n <= Share(t, k, g)
    BY DEF Beginnings
  <2>2. ASSUME NEW j \in 1..n
        PROVE  Position(k, g, j) \in 1..t
    <3>1. Share(t, k, g) \in Nat
      BY Shares
    <3>2. j \in 1..Share(t, k, g)
      BY <2>1, <3>1
    <3> QED
      BY <3>2, Shares
  <2>3. {i \in 1..t : bin[i] = g} = {Position(k, g, j) : j \in 1..n}
    <3>1. \A i \in 1..t : bin[i] = g <=> \E j \in 1..n : i = Position(k, g, j)
      BY <1>2, <1>4, <2>1
    <3> QED
      BY <2>2, <3>1
  <2>4. k \in Nat \ {0}
    OBVIOUS
  <2>5. Cardinality({Position(k, g, j) : j \in 1..n}) = n
    BY <2>4, PlacesOfBeginning
  <2> QED
    BY <2>1, <2>3, <2>5
<1>6. PICK S : S = 1..k
  OBVIOUS
<1>7. AddedUp(m) = Cardinality({i \in 1..t : bin[i] \in S})
  <2>1. IsFiniteSet(S) /\ DOMAIN m = S
    BY <1>0, <1>6, FS_Interval
  <2>2. CountsBins(m, t, bin)
    BY <1>5, <1>6, <2>1 DEF CountsBins
  <2> QED
    BY <2>1, <2>2, SumOfCounts
<1>8. PICK T, U : T = {i \in 1..t : bin[i] \in S} /\ U = 1..t
  OBVIOUS
<1>9. IsFiniteSet(U) /\ Cardinality(U) = t /\ T \in SUBSET U
  BY <1>8, FS_Interval
<1>10. Cardinality(T) = t
  BY <1>7, <1>8
<1>11. U = T
  BY <1>9, <1>10, FS_Subset
<1>12. ASSUME NEW i \in 1..t
       PROVE  \E g \in 1..k : \E j \in 1..m[g] : i = Position(k, g, j)
  <2>1. bin[i] \in 1..k
    BY <1>6, <1>8, <1>11
  <2>2. Of(i, bin[i])
    BY <1>3, <1>4, <2>1
  <2> QED
    BY <2>2
<1> QED
  BY <1>12 DEF Complete

LEMMA FullRound == DeployInv => FullRoundIsTheTrainingSet
<1> SUFFICES ASSUME DeployInv, RoundComplete,
                    \A b \in begun : RepeatsPhase1(b) /\ b.nodes = Endpoints,
                    TotalSamples = Len(Phase1Train)
             PROVE  /\ Contributions = ToSet(Phase1Train)
                    /\ \A n \in Node : IsInjective(summed[n])
  BY DEF FullRoundIsTheTrainingSet
<1>1. PICK t \in Nat : Phase1Train \in [1..t -> Samples] /\ IsInjective(Phase1Train)
  BY Phase1Split
<1>2. PICK S : S = Samples
  OBVIOUS
<1>3. PICK train \in [1..t -> S] : train = Phase1Train /\ IsInjective(train)
  BY <1>1, <1>2
<1>4. PICK e \in Nat \ {0} : e = Endpoints
  BY DeploymentAssumption
<1>5. PICK robin : robin = RoundRobin(train, e)
  OBVIOUS
<1>6. ASSUME NEW n \in 1..e
      PROVE  \E b \in Plans : /\ b.nodes = e /\ b.shards = robin
                              /\ Begins(summed[n], robin[n])
  <2>1. n \in Node /\ n # 0
    BY <1>4 DEF Node
  <2>2. summed[n] # << >> /\ Comes(begun, n, summed[n])
    BY <2>1 DEF RoundComplete, NotYet, DeployInv, LoadedInv
  <2>3. PICK b \in begun : Begins(summed[n], Whole(b, n))
    BY <2>2 DEF Comes
  <2>6. b \in Plans
    BY DEF DeployInv, StoredInv
  <2>4. b.nodes = e /\ b.shards = robin
    BY <1>3, <1>4, <1>5, <2>6, Repeated
  <2>5. Whole(b, n) = robin[n]
    BY <2>1, <2>4 DEF Whole
  <2> QED
    BY <2>3, <2>4, <2>5, <2>6
<1>7. e \in 1..t
  <2>1. PICK b \in Plans : b.nodes = e /\ b.shards = robin
    BY <1>4, <1>6
  <2>2. e \in 0..b.nodes /\ e # 0
    BY <2>1
  <2>3. robin[e] # << >>
    BY <2>1, <2>2, PlanTypes DEF Whole
  <2>4. SUFFICES ASSUME e > t
                 PROVE  FALSE
    BY <1>4
  <2>5. train \in Seq(S) /\ Len(train) = t
    OBVIOUS
  <2>6. PICK q \in Nat : q = t \div e /\ e * q <= t
    BY Division
  <2>7. q = 0
    <3>1. q >= 1 => e * q >= e
      OBVIOUS
    <3> QED
      BY <2>4, <2>6, <3>1
  <2>8. t - e + e = t
    OBVIOUS
  <2>9. robin[e] = [j \in 1..((t - e + e) \div e) |-> train[e + (j - 1) * e]]
    BY <1>5, <2>5 DEF RoundRobin
  <2>10. robin[e] = [j \in 1..0 |-> train[e + (j - 1) * e]]
    BY <2>6, <2>7, <2>8, <2>9
  <2>11. robin[e] = << >>
    BY <2>10
  <2> QED
    BY <2>3, <2>11
<1>8. PICK k \in 1..t : k = e
  BY <1>7
<1>9. /\ RoundRobin(train, k) \in [1..k -> Seq(S)]
      /\ \A g \in 1..k : Deals(RoundRobin(train, k)[g], train, t, k, g)
  BY RobinShards
<1>10. PICK m : m = [n \in Node |-> Len(summed[n])]
  OBVIOUS
<1>11. ASSUME NEW n \in 1..k
       PROVE  /\ n \in Node /\ summed[n] \in Seq(Samples)
              /\ m[n] = Len(summed[n]) /\ m[n] \in Nat /\ m[n] <= Share(t, k, n)
              /\ \A j \in 1..m[n] : /\ Position(k, n, j) \in 1..t
                                    /\ summed[n][j] = train[Position(k, n, j)]
  <2>1. n \in Node
    BY <1>4, <1>8 DEF Node
  <2>2. m[n] = Len(summed[n])
    BY <1>10, <2>1
  <2>3. Begins(summed[n], robin[n])
    BY <1>6, <1>8
  <2>4. summed[n] \in Seq(Samples)
    BY <2>3 DEF Begins
  <2>5. Deals(robin[n], train, t, k, n)
    BY <1>5, <1>8, <1>9
  <2>6. m[n] \in Nat /\ m[n] <= Share(t, k, n)
    BY <2>2, <2>3, <2>4, <2>5 DEF Begins, Deals
  <2>7. ASSUME NEW j \in 1..m[n]
        PROVE  /\ Position(k, n, j) \in 1..t
               /\ summed[n][j] = train[Position(k, n, j)]
    <3>1. Share(t, k, n) \in Nat
      BY Shares
    <3>2. j \in 1..Share(t, k, n)
      BY <2>6, <3>1
    <3>3. Position(k, n, j) \in 1..t
      BY <3>2, Shares
    <3>4. summed[n][j] = robin[n][j]
      BY <2>2, <2>3 DEF Begins
    <3>5. robin[n][j] = train[Position(k, n, j)]
      BY <2>5, <3>2 DEF Deals
    <3> QED
      BY <3>3, <3>4, <3>5
  <2> QED
    BY <2>1, <2>2, <2>4, <2>6, <2>7
<1>12. Node = 1..k
  BY <1>4, <1>8 DEF Node
<1>13. m \in [1..k -> Nat]
  BY <1>10, <1>11, <1>12
<1>14. AddedUp(m) = t
  <2>1. Len(train) = t
    OBVIOUS
  <2>2. AddedUp(m) = TotalSamples
    BY <1>10 DEF TotalSamples
  <2> QED
    BY <1>3, <2>1, <2>2
<1>15. \A i \in 1..t : \E g \in 1..k : \E j \in 1..m[g] : i = Position(k, g, j)
  <2>1. Beginnings(m, t, k)
    BY <1>11, <1>13 DEF Beginnings
  <2> QED
    BY <1>14, <2>1, FullShares DEF Complete
<1>16. ASSUME NEW n \in Node
       PROVE  DOMAIN summed[n] = 1..m[n]
  BY <1>11, <1>12
<1>17. \A i, j \in 1..t : train[i] = train[j] => i = j
  BY <1>3 DEF IsInjective
<1>18. ASSUME NEW n \in Node
       PROVE  IsInjective(summed[n])
  <2>1. SUFFICES ASSUME NEW i \in 1..m[n], NEW j \in 1..m[n], summed[n][i] = summed[n][j]
                 PROVE  i = j
    BY <1>16 DEF IsInjective
  <2>2. PICK g \in 1..k : g = n
    BY <1>12
  <2>3. PICK a \in 1..t, b \in 1..t : a = Position(k, g, i) /\ b = Position(k, g, j)
    BY <1>11, <2>2
  <2>4. train[a] = train[b]
    BY <1>11, <2>1, <2>2, <2>3
  <2>5. Position(k, g, i) = Position(k, g, j)
    BY <1>17, <2>3, <2>4
  <2>6. m[g] \in Nat
    BY <1>11
  <2>7. PICK c \in Nat \ {0}, d \in Nat \ {0} : c = i /\ d = j
    BY <2>2, <2>6
  <2>8. k \in Nat \ {0}
    OBVIOUS
  <2> QED
    BY <2>5, <2>7, <2>8, OnePlace
<1>19. ASSUME NEW x \in Contributions
       PROVE  x \in ToSet(train)
  <2>1. PICK n \in Node : x \in ToSet(summed[n])
    BY DEF Contributions
  <2>2. PICK j \in 1..m[n] : x = summed[n][j]
    BY <1>16, <2>1 DEF ToSet
  <2>3. Position(k, n, j) \in 1..t /\ x = train[Position(k, n, j)]
    BY <1>11, <1>12, <2>2
  <2> QED
    BY <2>3 DEF ToSet
<1>20. ASSUME NEW x \in ToSet(train)
       PROVE  x \in Contributions
  <2>1. PICK i \in 1..t : x = train[i]
    BY DEF ToSet
  <2>2. PICK n \in 1..k : \E j \in 1..m[n] : i = Position(k, n, j)
    BY <1>15
  <2>3. PICK j \in 1..m[n] : i = Position(k, n, j)
    BY <2>2
  <2>4. x = summed[n][j]
    BY <1>11, <2>1, <2>3
  <2>5. x \in ToSet(summed[n])
    BY <1>12, <1>16, <2>4 DEF ToSet
  <2> QED
    BY <1>12, <2>5 DEF Contributions
<1> QED
  BY <1>3, <1>18, <1>19, <1>20

\* In a deployment the files are still written by shard-data alone: its
\* processes only read them.  What holds of Spec, then, holds in a deployment.
THEOREM OnlyShardDataWrites == DeploymentSpec => Spec
<1>1. DeploymentInit => Init
  BY DEF DeploymentInit
<1>2. [DeploymentNext]_<<vars, deployVars>> => [Next]_vars
  <2>1. BeginRun => Next
    BY DEF BeginRun, Next
  <2>2. RunStep => Next
    BY DEF RunStep, Next
  <2>3. ASSUME NEW n \in Node, NodeStart(n) \/ NodeStop(n) \/ Contribute(n)
        PROVE  UNCHANGED vars
    BY <2>3 DEF NodeStart, NodeStop, Contribute
  <2>4. ApiStart \/ ApiStop \/ EndRound \/ FailRound => UNCHANGED vars
    BY DEF ApiStart, ApiStop, EndRound, FailRound
  <2>5. UNCHANGED <<vars, deployVars>> => UNCHANGED vars
    OBVIOUS
  <2> QED
    BY <2>1, <2>2, <2>3, <2>4, <2>5 DEF DeploymentNext
<1> QED
  BY <1>1, <1>2, PTL DEF DeploymentSpec, Spec

\* The types of the variables of a deployment.
THEOREM DeploymentTypes == DeploymentSpec => []DeploymentTypeOK
<1> QED
  BY DeployAlways, DeployTypes, PTL

\* EvaluateCurrentModel's report is on samples that no weight was computed from
\* if every run of shard-data repeats -input, -limit, -seed and -test-ratio of
\* phase 1, whatever runs stop, are repeated or lose a flush, and whichever
\* files the nodes and the API were started on.  That is more than shard-data
\* compares: DeploymentLimit shows what an equal threshold alone lets through.
THEOREM EvaluatesHoldOut == DeploymentSpec => []HoldOutIfPhase1Repeated
<1> QED
  BY DeployAlways, HoldOut, PTL

\* total_samples is enough of a check: a round whose total is the size of the
\* training set sums each training sample exactly once, if every run repeats
\* phase 1 and deals to as many nodes as the API has.
THEOREM FullRounds == DeploymentSpec => []FullRoundIsTheTrainingSet
<1> QED
  BY DeployAlways, FullRound, PTL

=============================================================================
