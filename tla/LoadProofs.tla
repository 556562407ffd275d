----------------------------- MODULE LoadProofs ------------------------------
(***************************************************************************)
(* The load of phase 1 returns what one loop would, for every file, limit  *)
(* and number of workers.                                                  *)
(*                                                                         *)
(* LoadInv follows each row: it is in jobs, or counted once in the partial *)
(* result of one worker, and each partial result is sent once.  When the   *)
(* reader returns, no row is in jobs and every result was received, so     *)
(* the rows counted are the rows wanted, each of them once.                *)
(***************************************************************************)
EXTENDS Phase1, OperatorProofs

\* A partial result p of the file with these lines counts the rows R, once each.
Counts(lines, p, R) ==
  /\ p = [total |-> Cardinality(R),
          discarded |-> [r \in Reasons |->
                           Cardinality({n \in R : Load!Fault(lines[n]) = r})],
          records |-> p.records]
  /\ Enumerates(p.records, {n \in R : lines[n] = "valid"})

LEMMA CountsType ==
  ASSUME NEW lines, NEW p, NEW R, IsFiniteSet(R), Counts(lines, p, R)
  PROVE  p \in Load!Partial
<1>1. Cardinality(R) \in Nat
  BY FS_CardinalityType
<1>2. \A r \in Reasons : Cardinality({n \in R : Load!Fault(lines[n]) = r}) \in Nat
  <2> SUFFICES ASSUME NEW r \in Reasons
               PROVE  Cardinality({n \in R : Load!Fault(lines[n]) = r}) \in Nat
    OBVIOUS
  <2>1. IsFiniteSet({n \in R : Load!Fault(lines[n]) = r})
    BY FS_Subset
  <2> QED
    BY <2>1, FS_CardinalityType
<1>3. p.records \in Seq(Nat)
  BY DEF Counts, Enumerates
<1>4. PICK total, discarded, records :
        /\ p = [total |-> total, discarded |-> discarded, records |-> records]
        /\ total \in Nat /\ discarded \in [Reasons -> Nat] /\ records \in Seq(Nat)
  <2>1. p = [total |-> p.total, discarded |-> p.discarded, records |-> p.records]
    BY DEF Counts
  <2>2. p.total \in Nat
    BY <1>1 DEF Counts
  <2>3. p.discarded \in [Reasons -> Nat]
    <3> DEFINE D == [r \in Reasons |->
                       Cardinality({n \in R : Load!Fault(lines[n]) = r})]
    <3>1. D \in [Reasons -> Nat]
      BY <1>2
    <3>2. p = [total |-> Cardinality(R), discarded |-> D, records |-> p.records]
      BY DEF Counts
    <3> HIDE DEF D
    <3> QED
      BY <3>1, <3>2
  <2> QED
    BY <1>3, <2>1, <2>2, <2>3
<1> QED
  BY <1>4 DEF Load!Partial

LEMMA MergedCounts ==
  ASSUME NEW lines, NEW p, NEW P, IsFiniteSet(P), Counts(lines, p, P),
         NEW q, NEW Q, IsFiniteSet(Q), Counts(lines, q, Q), P \cap Q = {}
  PROVE  Counts(lines, Load!Merged(p, q), P \cup Q)
<1> DEFINE faulty(R, r) == {n \in R : Load!Fault(lines[n]) = r}
           valid(R) == {n \in R : lines[n] = "valid"}
           m == Load!Merged(p, q)
<1>1. m = [total |-> p.total + q.total,
           discarded |-> [r \in Reasons |-> p.discarded[r] + q.discarded[r]],
           records |-> p.records \o q.records]
  BY DEF Load!Merged
<1>2. p.total = Cardinality(P) /\ q.total = Cardinality(Q)
  BY DEF Counts
<1>3. ASSUME NEW r \in Reasons
      PROVE  p.discarded[r] + q.discarded[r] = Cardinality(faulty(P \cup Q, r))
  <2>1. /\ p.discarded[r] = Cardinality(faulty(P, r))
        /\ q.discarded[r] = Cardinality(faulty(Q, r))
    BY DEF Counts
  <2>2. /\ faulty(P \cup Q, r) = faulty(P, r) \cup faulty(Q, r)
        /\ faulty(P, r) \cap faulty(Q, r) = {}
        /\ faulty(P, r) \in SUBSET P /\ faulty(Q, r) \in SUBSET Q
    OBVIOUS
  <2> HIDE DEF faulty
  <2>3. IsFiniteSet(faulty(P, r)) /\ IsFiniteSet(faulty(Q, r))
    BY <2>2, FS_Subset
  <2> QED
    BY <2>1, <2>2, <2>3, DisjointCardinality
<1>4. Enumerates(p.records \o q.records, valid(P \cup Q))
  <2>1. /\ valid(P \cup Q) = valid(P) \cup valid(Q)
        /\ valid(P) \cap valid(Q) = {}
    OBVIOUS
  <2>2. Enumerates(p.records, valid(P)) /\ Enumerates(q.records, valid(Q))
    BY DEF Counts
  <2> HIDE DEF valid
  <2> QED
    BY <2>1, <2>2, EnumeratesConcat
<1>5. p.total + q.total = Cardinality(P \cup Q)
  BY <1>2, DisjointCardinality
<1>6. m.records = p.records \o q.records
  BY Zenon DEF Load!Merged
<1>7. [r \in Reasons |-> p.discarded[r] + q.discarded[r]]
        = [r \in Reasons |-> Cardinality(faulty(P \cup Q, r))]
  BY <1>3
<1> QED
  BY <1>1, <1>4, <1>5, <1>6, <1>7 DEF Counts

LEMMA NothingCounts ==
  ASSUME NEW lines
  PROVE  Counts(lines, Load!Nothing, {})
<1>1. Cardinality({}) = 0
  BY FS_EmptySet
<1>2. \A r : {n \in {} : Load!Fault(lines[n]) = r} = {}
  OBVIOUS
<1>3. {n \in {} : lines[n] = "valid"} = {}
  OBVIOUS
<1>4. Load!Nothing = [total |-> 0, discarded |-> [r \in Reasons |-> 0], records |-> <<>>]
  BY DEF Load!Nothing
<1> QED
  BY <1>1, <1>2, <1>3, <1>4, EnumeratesNothing DEF Counts

\* What a worker adds for a row.
LEMMA RowCounts ==
  ASSUME NEW n \in Nat, cfg.lines[n] \in Load!Kinds, cfg.lines[n] # "oversized"
  PROVE  Counts(cfg.lines, Load!Parsed(n), {n})
<1> DEFINE kind == cfg.lines[n]
           none == [r \in Reasons |-> 0]
<1>0. /\ "invalid_datetime" \in Reasons /\ "valid" \notin Reasons
      /\ "header" \notin Reasons
  BY Phase1Assumption
<1>1. PICK h : h = Load!Nothing
  OBVIOUS
<1>2. /\ h.total = 0 /\ h.discarded = none /\ h.records = <<>>
      /\ DOMAIN h = {"total", "discarded", "records"}
  BY <1>1 DEF Load!Nothing
<1>3. Cardinality({n}) = 1 /\ Cardinality({}) = 0
  BY FS_Singleton, FS_EmptySet
<1>4. ASSUME kind = "valid"
      PROVE  Counts(cfg.lines, Load!Parsed(n), {n})
  <2>1. PICK g : g = [h EXCEPT !.total = 1, !.records = <<n>>]
    OBVIOUS
  <2>2. /\ g = [x \in DOMAIN h |-> g[x]]
        /\ g.total = 1 /\ g.discarded = none /\ g.records = <<n>>
    BY <1>2, <2>1
  <2>3. g = [total |-> 1, discarded |-> none, records |-> <<n>>]
    <3> HIDE DEF none
    <3> QED
      BY <1>2, <2>2
  <2>4. Load!Parsed(n) = g
    BY <1>1, <1>4, <2>1 DEF Load!Parsed, Load!file
  <2>5. \A r \in Reasons : {i \in {n} : Load!Fault(cfg.lines[i]) = r} = {}
    BY <1>0, <1>4 DEF Load!Fault
  <2>6. {i \in {n} : cfg.lines[i] = "valid"} = {n}
    BY <1>4
  <2>7. Enumerates(<<n>>, {n})
    BY EnumeratesOne
  <2>8. none = [r \in Reasons |-> Cardinality({i \in {n} : Load!Fault(cfg.lines[i]) = r})]
    BY <1>3, <2>5
  <2> HIDE DEF none
  <2> QED
    BY <1>3, <2>2, <2>3, <2>4, <2>6, <2>7, <2>8 DEF Counts
<1>5. ASSUME kind # "valid"
      PROVE  Counts(cfg.lines, Load!Parsed(n), {n})
  <2>0. PICK f : f = Load!Fault(kind)
    OBVIOUS
  <2>a. f \in Reasons
    BY <1>0, <1>5, <2>0 DEF Load!Fault, Load!Kinds
  <2>1. PICK g : g = [h EXCEPT !.total = 1, !.discarded[f] = 1]
    OBVIOUS
  <2>2. /\ g = [x \in DOMAIN h |-> g[x]]
        /\ g.total = 1 /\ g.discarded = [none EXCEPT ![f] = 1] /\ g.records = <<>>
    BY <1>2, <2>1
  <2>3. g = [total |-> 1, discarded |-> [none EXCEPT ![f] = 1], records |-> <<>>]
    <3> HIDE DEF none
    <3> QED
      BY <1>2, <2>2
  <2>4. Load!Parsed(n) = g
    BY <1>1, <1>5, <2>0, <2>1 DEF Load!Parsed, Load!file
  <2>5. \A r \in Reasons : {i \in {n} : Load!Fault(cfg.lines[i]) = r}
                             = IF r = f THEN {n} ELSE {}
    BY <2>0
  <2>6. {i \in {n} : cfg.lines[i] = "valid"} = {}
    BY <1>5
  <2>7. [none EXCEPT ![f] = 1]
          = [r \in Reasons |-> Cardinality({i \in {n} : Load!Fault(cfg.lines[i]) = r})]
    BY <1>3, <2>a, <2>5
  <2> HIDE DEF none
  <2> QED
    BY <1>3, <2>2, <2>3, <2>4, <2>6, <2>7, EnumeratesNothing DEF Counts
<1> QED
  BY <1>4, <1>5

-----------------------------------------------------------------------------
(***************************************************************************)
(* The sum of the partial results.                                         *)
(***************************************************************************)

Rows(R, T) == UNION {R[i] : i \in T}

LEMMA FiniteRows ==
  ASSUME NEW S, IsFiniteSet(S), NEW R, \A i \in S : IsFiniteSet(R[i])
  PROVE  IsFiniteSet(Rows(R, S))
<1> DEFINE Wrong == {T \in SUBSET S : ~IsFiniteSet(Rows(R, T))}
<1> SUFFICES ASSUME Wrong # {}
             PROVE  FALSE
  OBVIOUS
<1>1. PICK m \in Wrong : \A t \in Wrong : t \subseteq m => t = m
  <2>1. Wrong \subseteq SUBSET S
    OBVIOUS
  <2> HIDE DEF Wrong
  <2> QED
    BY <2>1, MinimalSubset
<1>2. m # {}
  BY <1>1, FS_EmptySet DEF Rows
<1>3. PICK x : x \in m
  BY <1>2
<1>4. IsFiniteSet(Rows(R, m \ {x}))
  BY <1>1, <1>3
<1>5. Rows(R, m) = Rows(R, m \ {x}) \cup R[x]
  BY <1>3 DEF Rows
<1>6. IsFiniteSet(R[x])
  BY <1>1, <1>3
<1>7. IsFiniteSet(Rows(R, m))
  BY <1>4, <1>5, <1>6, FS_Union
<1> QED
  BY <1>1, <1>7

\* Whatever the order in which the fold adds them.
LEMMA SumCounts ==
  ASSUME NEW lines, NEW s \in Seq(Load!Partial), NEW R,
         \A i \in 1..Len(s) : IsFiniteSet(R[i]) /\ Counts(lines, s[i], R[i]),
         \A i, j \in 1..Len(s) : i # j => R[i] \cap R[j] = {}
  PROVE  Counts(lines, Load!FoldSeq(Load!Merged, Load!Nothing, s), Rows(R, 1..Len(s)))
<1> DEFINE S == 1..Len(s)
           x(T) == CHOOSE i \in T : TRUE
           Fold(g, T) == IF T = {} THEN Load!Nothing
                         ELSE Load!Merged(s[x(T)], g[T \ {x(T)}])
           iter == CHOOSE g : g = [T \in SUBSET S |-> Fold(g, T)]
           pick == [T \in SUBSET S |-> x(T)]
           step == [T \in SUBSET S |-> [p \in Load!Partial |->
                      IF T = {} THEN p ELSE Load!Merged(s[x(T)], p)]]
<1>0. /\ IsFiniteSet(S) /\ DOMAIN s = S
      /\ \A i \in S : s[i] \in Load!Partial
  BY FS_Interval
<1>1. \A T \in SUBSET S : T # {} => x(T) \in T
  OBVIOUS
<1> HIDE DEF x
<1>2. \E g : g = [T \in SUBSET S |-> Fold(g, T)]
  <2>1. ASSUME NEW p \in Load!Partial, NEW q \in Load!Partial
        PROVE  Load!Merged(p, q) \in Load!Partial
    BY DEF Load!Merged, Load!Partial
  <2>2. step \in [SUBSET S -> [Load!Partial -> Load!Partial]]
    <3>1. ASSUME NEW T \in SUBSET S
          PROVE  [p \in Load!Partial |-> IF T = {} THEN p ELSE Load!Merged(s[x(T)], p)]
                   \in [Load!Partial -> Load!Partial]
      BY <1>0, <1>1, <2>1
    <3> QED
      BY <3>1
  <2>3. Load!Nothing \in Load!Partial
    BY DEF Load!Nothing, Load!Partial
  <2>4. \A T \in SUBSET S : T # {} => pick[T] \in T
    BY <1>1
  <2>5. PICK g : Solves(g, S, Load!Partial, Load!Nothing, step, pick)
    <3> HIDE DEF S, step, pick
    <3> QED
      BY <1>0, <2>2, <2>3, <2>4, SubsetRecursion
  <2>6. ASSUME NEW T \in SUBSET S
        PROVE  g[T] = Fold(g, T)
    <3>1. CASE T = {}
      BY <2>5, <3>1 DEF Solves
    <3>2. CASE T # {}
      <4>1. x(T) \in T /\ g[T \ {x(T)}] \in Load!Partial
        BY <1>1, <2>5, <3>2 DEF Solves
      <4>2. g[T] = step[T][g[T \ {x(T)}]]
        BY <2>5, <3>2 DEF Solves
      <4>3. step[T][g[T \ {x(T)}]] = Load!Merged(s[x(T)], g[T \ {x(T)}])
        BY <3>2, <4>1
      <4> QED
        BY <3>2, <4>2, <4>3
    <3> QED
      BY <3>1, <3>2
  <2>7. g = [T \in SUBSET S |-> Fold(g, T)]
    <3> HIDE DEF Fold
    <3> QED
      BY <2>5, <2>6 DEF Solves
  <2> QED
    BY <2>7
<1>3. iter = [T \in SUBSET S |-> Fold(iter, T)]
  <2> HIDE DEF Fold
  <2> QED
    BY <1>2
<1> HIDE DEF iter
<1>4. \A T \in SUBSET S : Counts(lines, iter[T], Rows(R, T))
  <2> DEFINE Wrong == {T \in SUBSET S : ~Counts(lines, iter[T], Rows(R, T))}
  <2> SUFFICES ASSUME Wrong # {}
               PROVE  FALSE
    OBVIOUS
  <2>1. PICK m \in Wrong : \A t \in Wrong : t \subseteq m => t = m
    <3>1. Wrong \subseteq SUBSET S
      OBVIOUS
    <3> HIDE DEF Wrong, S
    <3> QED
      BY <1>0, <3>1, MinimalSubset
  <2>2. m \in SUBSET S /\ ~Counts(lines, iter[m], Rows(R, m))
    BY <2>1
  <2>3. iter[m] = Fold(iter, m)
    BY <1>3, <2>2
  <2>4. m # {}
    <3> SUFFICES ASSUME m = {}
                 PROVE  FALSE
      OBVIOUS
    <3>1. iter[m] = Load!Nothing /\ Rows(R, m) = {}
      BY <2>3 DEF Rows
    <3> QED
      BY <2>2, <3>1, NothingCounts
  <2>5. PICK i \in m : i = x(m)
    BY <1>1, <2>2, <2>4
  <2>6. Counts(lines, iter[m \ {i}], Rows(R, m \ {i}))
    BY <2>1, <2>5
  <2>7. Rows(R, m) = R[i] \cup Rows(R, m \ {i}) /\ R[i] \cap Rows(R, m \ {i}) = {}
    BY <2>2 DEF Rows
  <2>8. iter[m] = Load!Merged(s[i], iter[m \ {i}])
    BY <2>3, <2>4, <2>5
  <2>9. IsFiniteSet(Rows(R, m \ {i})) /\ IsFiniteSet(R[i]) /\ Counts(lines, s[i], R[i])
    <3>1. m \ {i} \in SUBSET S
      BY <2>2
    <3>2. IsFiniteSet(m \ {i})
      BY <1>0, <3>1, FS_Subset
    <3>3. i \in S /\ \A j \in m \ {i} : IsFiniteSet(R[j])
      BY <2>2
    <3> QED
      BY <3>2, <3>3, FiniteRows
  <2>10. PICK Q : Q = Rows(R, m \ {i})
    OBVIOUS
  <2>11. PICK q : q = iter[m \ {i}]
    OBVIOUS
  <2>12. /\ IsFiniteSet(Q) /\ Counts(lines, q, Q) /\ R[i] \cap Q = {}
         /\ IsFiniteSet(R[i]) /\ Counts(lines, s[i], R[i])
    BY <2>6, <2>7, <2>9, <2>10, <2>11
  <2>13. Counts(lines, Load!Merged(s[i], q), R[i] \cup Q)
    BY <2>12, MergedCounts
  <2> QED
    BY <2>2, <2>7, <2>8, <2>10, <2>11, <2>13
<1>5. Load!FoldSeq(Load!Merged, Load!Nothing, s) = iter[S]
  BY <1>0 DEF iter, x, Load!FoldSeq, Load!FoldFunction, Load!FoldFunctionOnSet,
              Load!MapThenFoldSet
<1>6. S \in SUBSET S
  OBVIOUS
<1> QED
  BY <1>4, <1>5, <1>6

-----------------------------------------------------------------------------
(***************************************************************************)
(* The load.  owner says who has each row that was sent: a worker, or 0    *)
(* when it is still in jobs; who says whose partial result each one in     *)
(* partials is.                                                            *)
(***************************************************************************)

Command ==
  /\ cfg = [program |-> cfg.program, lines |-> cfg.lines,
            workers |-> cfg.workers, limit |-> cfg.limit]
  /\ cfg.program \in {"pc3", "analysis"}
  /\ cfg.lines \in Seq(Load!Kinds) /\ cfg.workers \in Int /\ cfg.limit \in Int

SentRows == Load!FirstRow..lineNumber

Reading ==
  /\ lineNumber \in 0..Len(cfg.lines)
  /\ sent = IF lineNumber < Load!FirstRow THEN 0 ELSE lineNumber - Load!FirstRow + 1
  /\ cfg.limit > 0 => sent <= cfg.limit
  /\ \A n \in 1..lineNumber : cfg.lines[n] # "oversized"

Of(owner, w) == {n \in DOMAIN owner : owner[n] = w}

Owned(owner) ==
  /\ owner \in [SentRows -> 0..Load!Threads]
  /\ Enumerates(jobs, Of(owner, 0))
  /\ \A w \in Load!Workers : Counts(cfg.lines, worker[w].partial, Of(owner, w))

Delivered(who) ==
  /\ who \in [1..Len(parsed) -> Load!Workers]
  /\ \A i, j \in 1..Len(parsed) : who[i] = who[j] => i = j
  /\ \A i \in 1..Len(parsed) :
       worker[who[i]].ended /\ parsed[i] = worker[who[i]].partial
  /\ \A w \in Load!Workers : worker[w].ended => \E i \in 1..Len(parsed) : who[i] = w

AllRead == SentRows = Load!Wanted /\ Load!Readable

LoadInv ==
  /\ Command
  /\ Reading
  /\ reader \in {"scanning", "waiting", "returned"}
  /\ jobs \in Seq(Nat) /\ Len(jobs) <= 4 * Load!Threads
  /\ parsed \in Seq(Load!Partial) /\ Len(parsed) <= Load!Threads
  /\ worker \in [Load!Workers -> [ended : BOOLEAN, partial : Load!Partial]]
  /\ \E owner : Owned(owner)
  /\ \E who : Delivered(who)
  /\ \A w \in Load!Workers : worker[w].ended => jobs = <<>> /\ reader # "scanning"
  /\ reader = "waiting" => AllRead
  /\ loaded.status \in {"pending", "failed", "empty", "ok"}
  /\ loaded = IF loaded.status = "ok"
              THEN [status |-> "ok", summary |-> loaded.summary]
              ELSE [status |-> loaded.status]
  /\ loaded.status = "ok" => loaded.summary \in Load!Partial
  /\ Load!SameAsSequential

LEMMA ThreadsType == Command => Load!Threads \in Nat \ {0}
BY DEF Command, Load!Threads

LEMMA FirstRowType ==
  Command => Load!FirstRow \in {1, 2} /\ (Load!FirstRow = 2 => Len(cfg.lines) > 0)
BY DEF Command, Load!FirstRow, Load!file

LEMMA OwnedRows ==
  ASSUME Command, Reading, NEW owner, Owned(owner), NEW w
  PROVE  /\ IsFiniteSet(Of(owner, w)) /\ Of(owner, w) \subseteq 1..lineNumber
         /\ \A v : v # w => Of(owner, v) \cap Of(owner, w) = {}
<1>1. SentRows \subseteq 1..lineNumber
  BY FirstRowType DEF SentRows, Reading
<1>2. IsFiniteSet(1..lineNumber)
  BY FS_Interval DEF Reading
<1>3. Of(owner, w) \in SUBSET (1..lineNumber)
  BY <1>1 DEF Of, Owned
<1>4. IsFiniteSet(Of(owner, w))
  BY <1>2, <1>3, FS_Subset
<1> QED
  BY <1>3, <1>4 DEF Of

LEMMA LoadInit == Load!Init => LoadInv
<1> SUFFICES ASSUME Load!Init
             PROVE  LoadInv
  OBVIOUS
<1>1. Command
  BY Phase1Assumption DEF Load!Init, Command, Load!Kinds
<1>2. /\ reader = "scanning" /\ lineNumber = 0 /\ sent = 0 /\ jobs = <<>>
      /\ parsed = <<>> /\ loaded = [status |-> "pending"]
      /\ worker = [w \in Load!Workers |-> [ended |-> FALSE, partial |-> Load!Nothing]]
  BY DEF Load!Init
<1>3. Reading
  BY <1>1, <1>2, FirstRowType DEF Reading, Command
<1>4. \E owner : Owned(owner)
  <2>1. PICK owner : owner = [n \in {} |-> 0]
    OBVIOUS
  <2>2. SentRows = {}
    BY <1>1, <1>2, FirstRowType DEF SentRows
  <2>3. \A w : Of(owner, w) = {}
    BY <2>1 DEF Of
  <2>4. owner \in [SentRows -> 0..Load!Threads]
    BY <2>1, <2>2
  <2> QED
    BY <1>2, <2>3, <2>4, EnumeratesNothing, NothingCounts DEF Owned
<1>5. \E who : Delivered(who)
  <2>1. PICK who : who = [i \in {} |-> 0]
    OBVIOUS
  <2>2. 1..Len(parsed) = {}
    BY <1>2
  <2>3. \A w \in Load!Workers : ~worker[w].ended
    BY <1>2
  <2>4. who \in [1..Len(parsed) -> Load!Workers]
    BY <2>1, <2>2
  <2>5. Delivered(who)
    BY <2>2, <2>3, <2>4 DEF Delivered
  <2> QED
    BY <2>5
<1>6. Load!Nothing \in Load!Partial
  BY DEF Load!Nothing, Load!Partial
<1>7. worker \in [Load!Workers -> [ended : BOOLEAN, partial : Load!Partial]]
  BY <1>2, <1>6
<1> QED
  BY <1>1, <1>2, <1>3, <1>4, <1>5, <1>7, ThreadsType DEF LoadInv, Load!SameAsSequential

\* What depends on the call only.
LEMMA SameCall ==
  ASSUME UNCHANGED cfg
  PROVE  /\ Command' = Command /\ Load!file' = Load!file /\ Load!limit' = Load!limit
         /\ Load!Threads' = Load!Threads /\ Load!Workers' = Load!Workers
         /\ Load!FirstRow' = Load!FirstRow /\ Load!Wanted' = Load!Wanted
         /\ Load!Readable' = Load!Readable /\ Load!Reference' = Load!Reference
         /\ AllRead' = (SentRows' = Load!Wanted /\ Load!Readable)
<1>1. /\ Command' = Command /\ Load!file' = Load!file /\ Load!limit' = Load!limit
      /\ Load!Threads' = Load!Threads
  BY DEF Command, Load!file, Load!limit, Load!Threads
<1>2. Load!Workers' = Load!Workers /\ Load!FirstRow' = Load!FirstRow
  BY <1>1 DEF Load!Workers, Load!FirstRow
<1>3. Load!Wanted' = Load!Wanted /\ Load!Readable' = Load!Readable
  BY <1>1, <1>2 DEF Load!Wanted, Load!Readable
<1>4. Load!Reference' = Load!Reference
  BY <1>1, <1>3 DEF Load!Reference
<1> QED
  BY <1>1, <1>2, <1>3, <1>4 DEF AllRead

LEMMA SameOwners ==
  ASSUME UNCHANGED <<cfg, jobs, worker>>, SentRows' = SentRows, NEW owner, Owned(owner)
  PROVE  Owned(owner)'
BY SameCall DEF Owned, Of

LEMMA SameDeliveries ==
  ASSUME UNCHANGED <<cfg, parsed, worker>>, NEW who, Delivered(who)
  PROVE  Delivered(who)'
BY SameCall DEF Delivered

LEMMA LoadSame ==
  ASSUME LoadInv, UNCHANGED <<cfg, loaderVars>>
  PROVE  LoadInv'
<1>1. UNCHANGED <<cfg, reader, lineNumber, sent, jobs, parsed, worker, loaded>>
  BY DEF loaderVars
<1>2. SentRows' = SentRows
  BY <1>1, SameCall DEF SentRows
<1>3. (\E owner : Owned(owner))' /\ (\E who : Delivered(who))'
  BY <1>1, <1>2, SameOwners, SameDeliveries DEF LoadInv
<1>4. Reading'
  BY <1>1, SameCall DEF LoadInv, Reading
<1>5. Load!SameAsSequential'
  BY <1>1, SameCall DEF LoadInv, Load!SameAsSequential
<1>6. reader' = "waiting" => AllRead'
  BY <1>1, <1>2, SameCall DEF LoadInv, AllRead
<1> QED
  BY <1>1, <1>3, <1>4, <1>5, <1>6, SameCall DEF LoadInv

-----------------------------------------------------------------------------
(***************************************************************************)
(* The steps of the reader.                                                *)
(***************************************************************************)

LEMMA SkipHeaderStep ==
  ASSUME LoadInv, Load!SkipHeader
  PROVE  LoadInv'
<1>1. /\ reader = "scanning" /\ lineNumber = 0 /\ lineNumber' = 1
      /\ Len(cfg.lines) >= 1 /\ cfg.lines[1] = "header"
      /\ UNCHANGED <<cfg, reader, sent, jobs, parsed, worker, loaded>>
  BY DEF Load!SkipHeader, Load!Scans, Load!Unwanted, Load!NextLine, Load!file,
         LoadInv, Reading
<1>2. Load!FirstRow = 2 /\ Load!FirstRow' = 2
  BY <1>1, SameCall DEF Load!FirstRow, Load!file, LoadInv, Command
<1>3. SentRows = {} /\ SentRows' = {}
  BY <1>1, <1>2 DEF SentRows
<1>4. (\E owner : Owned(owner))' /\ (\E who : Delivered(who))'
  BY <1>1, <1>3, SameOwners, SameDeliveries DEF LoadInv
<1>5. Reading'
  BY <1>1, <1>2 DEF LoadInv, Reading
<1>6. Load!SameAsSequential'
  BY <1>1, SameCall DEF LoadInv, Load!SameAsSequential
<1> QED
  BY <1>1, <1>4, <1>5, <1>6, SameCall DEF LoadInv

LEMMA SendStep ==
  ASSUME LoadInv, Load!Send
  PROVE  LoadInv'
<1>n. PICK n : n = lineNumber + 1
  OBVIOUS
<1>1. /\ reader = "scanning" /\ n <= Len(cfg.lines) /\ cfg.lines[n] # "oversized"
      /\ ~(n = 1 /\ cfg.lines[1] = "header")
      /\ ~(cfg.limit > 0 /\ sent >= cfg.limit)
      /\ Len(jobs) < 4 * Load!Threads
      /\ lineNumber' = n /\ sent' = sent + 1 /\ jobs' = Append(jobs, n)
      /\ UNCHANGED <<cfg, reader, parsed, worker, loaded>>
  BY <1>n DEF Load!Send, Load!Scans, Load!Unwanted, Load!LimitReached, Load!NextLine,
              Load!file, Load!limit
<1>2. /\ Command /\ Reading /\ lineNumber \in Nat /\ n \in Nat \ {0}
      /\ jobs \in Seq(Nat) /\ Len(cfg.lines) \in Nat
  BY <1>n DEF LoadInv, Reading, Command
<1>3. Load!FirstRow \in {1, 2} /\ Load!FirstRow <= n
  BY <1>1, <1>2, <1>n, FirstRowType DEF Load!FirstRow, Load!file
<1>4. SentRows' = SentRows \cup {n} /\ n \notin SentRows
  BY <1>1, <1>2, <1>3, <1>n, SameCall DEF SentRows
<1>5. Reading'
  <2>1. sent = lineNumber - Load!FirstRow + 1
    BY <1>2, <1>3, <1>n DEF Reading
  <2> QED
    BY <1>1, <1>2, <1>3, <1>n, <2>1, SameCall DEF Reading, Command
<1>6. (\E owner : Owned(owner))'
  <2>1. PICK owner : Owned(owner)
    BY DEF LoadInv
  <2>2. PICK next : next = [i \in SentRows' |-> IF i = n THEN 0 ELSE owner[i]]
    OBVIOUS
  <2>3. DOMAIN owner = SentRows /\ Load!Threads \in Nat
    BY <1>2, <2>1, ThreadsType DEF Owned
  <2>4. Of(next, 0) = Of(owner, 0) \cup {n} /\ n \notin Of(owner, 0)
    BY <1>4, <2>2, <2>3 DEF Of
  <2>5. \A w \in Load!Workers : Of(next, w) = Of(owner, w)
    BY <1>4, <2>2, <2>3 DEF Of, Load!Workers
  <2>6. Enumerates(Append(jobs, n), Of(next, 0))
    <3>1. Enumerates(<<n>>, {n})
      BY <1>2, EnumeratesOne
    <3>2. Enumerates(jobs, Of(owner, 0))
      BY <2>1 DEF Owned
    <3>3. Enumerates(jobs \o <<n>>, Of(owner, 0) \cup {n})
      BY <2>4, <3>1, <3>2, EnumeratesConcat
    <3>4. Append(jobs, n) = jobs \o <<n>>
      BY <1>2
    <3> QED
      BY <2>4, <3>3, <3>4
  <2>7. next \in [SentRows' -> 0..Load!Threads]
    BY <1>4, <2>1, <2>2, <2>3 DEF Owned
  <2>8. Owned(next)'
    BY <1>1, <2>1, <2>5, <2>6, <2>7, SameCall DEF Owned, Of
  <2> QED
    BY <2>8
<1>7. (\E who : Delivered(who))'
  BY <1>1, SameDeliveries DEF LoadInv
<1>8. Load!SameAsSequential'
  BY <1>1, SameCall DEF LoadInv, Load!SameAsSequential
<1>9. jobs' \in Seq(Nat) /\ Len(jobs') <= 4 * Load!Threads
  BY <1>1, <1>2, ThreadsType
<1> QED
  BY <1>1, <1>5, <1>6, <1>7, <1>8, <1>9, SameCall DEF LoadInv

\* When the reader stops, the rows it has sent are those that were wanted.
LEMMA CloseJobsStep ==
  ASSUME LoadInv, Load!CloseJobs
  PROVE  LoadInv'
<1>1. /\ reader' = "waiting"
      /\ UNCHANGED <<cfg, lineNumber, sent, jobs, parsed, worker, loaded>>
      /\ reader = "scanning"
  BY DEF Load!CloseJobs, Load!Scans
<1>2. /\ Command /\ Reading /\ lineNumber \in Nat
      /\ cfg.limit \in Int /\ Len(cfg.lines) \in Nat
      /\ Load!FirstRow \in {1, 2}
  BY FirstRowType DEF LoadInv, Reading, Command
<1>3. \A n \in Load!Wanted : n \in SentRows
  <2> SUFFICES ASSUME NEW n \in Load!Wanted
               PROVE  n <= lineNumber
    BY DEF Load!Wanted, SentRows
  <2>1. n \in Load!FirstRow..Len(cfg.lines) /\ (cfg.limit > 0 => n < Load!FirstRow + cfg.limit)
    BY DEF Load!Wanted, Load!file, Load!limit
  <2>2. CASE lineNumber = Len(cfg.lines)
    BY <1>2, <2>1, <2>2
  <2>3. CASE Load!LimitReached
    <3>1. cfg.limit > 0 /\ sent = cfg.limit
      BY <1>2, <2>3 DEF Load!LimitReached, Load!limit, Reading
    <3>2. lineNumber = Load!FirstRow + cfg.limit - 1
      BY <1>2, <3>1 DEF Reading
    <3> QED
      BY <1>2, <2>1, <3>1, <3>2
  <2> QED
    BY <2>2, <2>3 DEF Load!CloseJobs, Load!file
<1>4. \A n \in SentRows : n \in Load!Wanted
  BY <1>2 DEF SentRows, Load!Wanted, Load!file, Load!limit, Reading
<1>5. Load!Readable
  <2> SUFFICES ASSUME NEW n \in 1..Len(cfg.lines), cfg.lines[n] = "oversized"
               PROVE  cfg.limit > 0 /\ n > Load!FirstRow + cfg.limit
    BY DEF Load!Readable, Load!file, Load!limit
  <2>1. n > lineNumber
    BY <1>2 DEF Reading
  <2>2. /\ Load!LimitReached
        /\ lineNumber + 1 <= Len(cfg.lines) /\ cfg.lines[lineNumber + 1] # "oversized"
    BY <1>2, <2>1 DEF Load!CloseJobs, Load!Scans, Load!NextLine, Load!file
  <2>3. cfg.limit > 0 /\ sent = cfg.limit
    BY <1>2, <2>2 DEF Load!LimitReached, Load!limit, Reading
  <2>4. lineNumber = Load!FirstRow + cfg.limit - 1
    BY <1>2, <2>3 DEF Reading
  <2> QED
    BY <1>2, <2>1, <2>2, <2>3, <2>4
<1>6. AllRead
  BY <1>3, <1>4, <1>5 DEF AllRead
<1>7. SentRows' = SentRows
  BY <1>1, SameCall DEF SentRows
<1>8. (\E owner : Owned(owner))' /\ (\E who : Delivered(who))'
  BY <1>1, <1>7, SameOwners, SameDeliveries DEF LoadInv
<1>9. Reading'
  BY <1>1, SameCall DEF LoadInv, Reading
<1>10. Load!SameAsSequential'
  BY <1>1, SameCall DEF LoadInv, Load!SameAsSequential
<1> QED
  BY <1>1, <1>6, <1>7, <1>8, <1>9, <1>10, SameCall DEF LoadInv, AllRead

\* An unreadable line is among those a sequential reading would have met.
LEMMA FailStep ==
  ASSUME LoadInv, Load!Fail
  PROVE  LoadInv'
<1>1. /\ reader' = "returned" /\ loaded' = [status |-> "failed"]
      /\ lineNumber < Len(cfg.lines) /\ cfg.lines[lineNumber + 1] = "oversized"
      /\ UNCHANGED <<cfg, lineNumber, sent, jobs, parsed, worker>>
  BY DEF Load!Fail, Load!file, Load!NextLine
<1>2. /\ Command /\ Reading /\ lineNumber \in Nat
      /\ cfg.limit \in Int /\ Len(cfg.lines) \in Nat
      /\ Load!FirstRow \in {1, 2}
  BY FirstRowType DEF LoadInv, Reading, Command
<1>3. ~Load!Readable
  <2> SUFFICES ASSUME cfg.limit > 0, lineNumber + 1 > Load!FirstRow + cfg.limit
               PROVE  FALSE
    BY <1>1, <1>2 DEF Load!Readable, Load!file, Load!limit
  <2> QED
    BY <1>2 DEF Reading
<1>4. SentRows' = SentRows
  BY <1>1, SameCall DEF SentRows
<1>5. (\E owner : Owned(owner))' /\ (\E who : Delivered(who))'
  BY <1>1, <1>4, SameOwners, SameDeliveries DEF LoadInv
<1>6. Reading'
  BY <1>1, SameCall DEF LoadInv, Reading
<1>7. Load!SameAsSequential'
  BY <1>1, <1>3, SameCall DEF Load!SameAsSequential
<1> QED
  BY <1>1, <1>5, <1>6, <1>7, SameCall DEF LoadInv

\* Every row that was sent is in one partial result when all workers have ended.
LEMMA SumOfAll ==
  ASSUME LoadInv, reader = "waiting", \A w \in Load!Workers : worker[w].ended
  PROVE  Counts(cfg.lines, Load!FoldSeq(Load!Merged, Load!Nothing, parsed), Load!Wanted)
<1>1. PICK owner : Owned(owner)
  BY DEF LoadInv
<1>2. PICK who : Delivered(who)
  BY DEF LoadInv
<1>3. Load!Threads \in Nat \ {0} /\ Load!Workers = 1..Load!Threads
  BY ThreadsType DEF LoadInv, Load!Workers
<1>4. jobs = <<>>
  <2>1. 1 \in Load!Workers
    BY <1>3
  <2> QED
    BY <2>1 DEF LoadInv
<1>5. Of(owner, 0) = {}
  BY <1>1, <1>4 DEF Owned, Enumerates
<1>6. PICK R : R = [i \in 1..Len(parsed) |-> Of(owner, who[i])]
  OBVIOUS
<1>7. \A i \in 1..Len(parsed) : IsFiniteSet(R[i]) /\ Counts(cfg.lines, parsed[i], R[i])
  <2> SUFFICES ASSUME NEW i \in 1..Len(parsed)
               PROVE  IsFiniteSet(R[i]) /\ Counts(cfg.lines, parsed[i], R[i])
    OBVIOUS
  <2>1. who[i] \in Load!Workers /\ parsed[i] = worker[who[i]].partial
    BY <1>2 DEF Delivered
  <2>2. R[i] = Of(owner, who[i])
    BY <1>6
  <2>3. IsFiniteSet(R[i])
    BY <1>1, <2>2, OwnedRows DEF LoadInv
  <2> QED
    BY <1>1, <2>1, <2>2, <2>3 DEF Owned
<1>8. \A i, j \in 1..Len(parsed) : i # j => R[i] \cap R[j] = {}
  BY <1>2, <1>6 DEF Delivered, Of
<1>9. Rows(R, 1..Len(parsed)) = SentRows
  <2>1. \A i \in 1..Len(parsed) : R[i] \subseteq SentRows
    BY <1>1, <1>6 DEF Of, Owned
  <2>2. ASSUME NEW n \in SentRows
        PROVE  \E i \in 1..Len(parsed) : n \in R[i]
    <3>1. owner[n] \in Load!Workers
      BY <1>1, <1>3, <1>5 DEF Owned, Of
    <3>2. PICK i \in 1..Len(parsed) : who[i] = owner[n]
      BY <1>2, <3>1 DEF Delivered
    <3> QED
      BY <1>1, <1>6, <3>2 DEF Of, Owned
  <2> QED
    BY <2>1, <2>2 DEF Rows
<1>10. SentRows = Load!Wanted
  BY DEF LoadInv, AllRead
<1>11. parsed \in Seq(Load!Partial)
  BY DEF LoadInv
<1> QED
  BY <1>7, <1>8, <1>9, <1>10, <1>11, SumCounts

LEMMA SameCardinality ==
  ASSUME NEW S
  PROVE  Load!Cardinality(S) = Cardinality(S)
BY DEF Load!Cardinality, Cardinality

LEMMA SameOrder ==
  ASSUME NEW s
  PROVE  Load!InOrder(s) = InOrder(s)
BY DEF Load!InOrder, InOrder, Load!Rank, Rank, Load!Before, Before,
       Load!Cardinality, Cardinality

LEMMA SameAscending ==
  ASSUME NEW S
  PROVE  Load!Ascending(S) = Ascending(S)
BY DEF Load!Ascending, Ascending, Load!Cardinality, Cardinality

LEMMA ReduceRowsStep ==
  ASSUME LoadInv, Load!Reduce
  PROVE  LoadInv'
<1> DEFINE sum == Load!FoldSeq(Load!Merged, Load!Nothing, parsed)
<1>1. /\ reader = "waiting" /\ \A w \in Load!Workers : worker[w].ended
      /\ reader' = "returned"
      /\ loaded' = IF sum.total = 0 THEN [status |-> "empty"]
                                    ELSE [status |-> "ok", summary |-> Load!Sorted(sum)]
      /\ UNCHANGED <<cfg, lineNumber, sent, jobs, parsed, worker>>
  BY DEF Load!Reduce
<1>2. Counts(cfg.lines, sum, Load!Wanted)
  BY <1>1, SumOfAll
<1>3. AllRead
  BY <1>1 DEF LoadInv
<1>4. IsFiniteSet(Load!Wanted) /\ Load!Wanted \subseteq 1..Len(cfg.lines)
  <2>0. Len(cfg.lines) \in Int
    BY DEF LoadInv, Command
  <2>1. IsFiniteSet(1..Len(cfg.lines))
    BY <2>0, FS_Interval
  <2>2. Load!Wanted \in SUBSET (1..Len(cfg.lines))
    BY FirstRowType DEF LoadInv, Load!Wanted, Load!file
  <2> QED
    BY <2>1, <2>2, FS_Subset
<1> HIDE DEF sum
<1>5. PICK p : p = Load!Sorted(sum)
  OBVIOUS
<1>6. /\ sum.total = Cardinality(Load!Wanted)
      /\ sum = [total |-> Load!Reference.total, discarded |-> Load!Reference.discarded,
                records |-> sum.records]
      /\ Enumerates(sum.records, {n \in Load!Wanted : cfg.lines[n] = "valid"})
  <2> DEFINE D == [r \in Reasons |->
                     Cardinality({n \in Load!Wanted : Load!Fault(cfg.lines[n]) = r})]
  <2>1. /\ sum = [total |-> Cardinality(Load!Wanted), discarded |-> D,
                  records |-> sum.records]
        /\ Enumerates(sum.records, {n \in Load!Wanted : cfg.lines[n] = "valid"})
    BY <1>2 DEF Counts
  <2>2. Load!Reference.total = Cardinality(Load!Wanted) /\ Load!Reference.discarded = D
    <3>1. \A r : Load!Cardinality({n \in Load!Wanted : Load!Fault(cfg.lines[n]) = r})
                 = Cardinality({n \in Load!Wanted : Load!Fault(cfg.lines[n]) = r})
      BY SameCardinality
    <3>2. Load!Cardinality(Load!Wanted) = Cardinality(Load!Wanted)
      BY SameCardinality
    <3> QED
      BY <3>1, <3>2 DEF Load!Reference, Load!file
  <2> HIDE DEF D
  <2> QED
    BY <2>1, <2>2
<1>7. p = Load!Reference
  <2>1. PICK h : h = sum
    OBVIOUS
  <2>2. p = [h EXCEPT !.records = InOrder(h.records)]
    <3>1. Load!InOrder(h.records) = InOrder(h.records)
      BY SameOrder
    <3>2. p = [h EXCEPT !.records = Load!InOrder(h.records)]
      BY <1>5, <2>1 DEF Load!Sorted
    <3> QED
      BY <3>1, <3>2
  <2>3. InOrder(h.records) = Ascending({n \in Load!Wanted : cfg.lines[n] = "valid"})
    BY <1>6, <2>1, SortedEnumeration
  <2>4. Load!Reference.records = InOrder(h.records)
    <3>1. Load!Reference.records = Load!Ascending({n \in Load!Wanted : cfg.lines[n] = "valid"})
      BY DEF Load!Reference, Load!file
    <3> QED
      BY <2>3, <3>1, SameAscending
  <2>5. /\ h = [total |-> Load!Reference.total,
                discarded |-> Load!Reference.discarded, records |-> h.records]
        /\ Load!Reference = [total |-> Load!Reference.total,
                             discarded |-> Load!Reference.discarded,
                             records |-> Load!Reference.records]
    BY <1>6, <2>1 DEF Load!Reference
  <2> QED
    BY <2>2, <2>4, <2>5
<1>8. sum.total = 0 => Load!Wanted = {}
  BY <1>4, <1>6, FS_EmptySet
<1>9. Load!SameAsSequential'
  BY <1>1, <1>3, <1>5, <1>7, <1>8, SameCall DEF Load!SameAsSequential, AllRead
<1>10. p \in Load!Partial
  <2>1. sum \in Load!Partial
    BY <1>2, <1>4, CountsType
  <2>2. p.records \in Seq(Nat)
    <3>1. PICK s : s = sum.records
      OBVIOUS
    <3>2. s \in Seq(Nat)
      BY <2>1, <3>1 DEF Load!Partial
    <3>3. \A i \in 1..Len(s) : InOrder(s)[i] \in Nat
      <4> SUFFICES ASSUME NEW i \in 1..Len(s)
                   PROVE  InOrder(s)[i] \in Nat
        OBVIOUS
      <4>1. Len(s) \in Nat /\ s \in [1..Len(s) -> Int]
        BY <3>2
      <4>2. \E k \in 1..Len(s) : InOrder(s)[i] = s[k]
        BY <4>1, PlaceInOrder
      <4> QED
        BY <3>2, <4>2
    <3>4. InOrder(s) = [i \in 1..Len(s) |-> InOrder(s)[i]]
      BY <3>2 DEF InOrder
    <3>5. InOrder(s) \in Seq(Nat)
      BY <3>2, <3>3, <3>4
    <3>6. PICK h : h = sum
      OBVIOUS
    <3>7. p = [h EXCEPT !.records = InOrder(s)]
      <4>1. Load!InOrder(h.records) = InOrder(s)
        BY <3>1, <3>6, SameOrder
      <4>2. p = [h EXCEPT !.records = Load!InOrder(h.records)]
        BY <1>5, <3>6 DEF Load!Sorted
      <4> QED
        BY <4>1, <4>2
    <3>8. h \in Load!Partial
      BY <2>1, <3>6
    <3> QED
      BY <3>5, <3>7, <3>8 DEF Load!Partial
  <2>3. p.total \in Nat /\ p.discarded \in [Reasons -> Nat]
    BY <1>6, <1>7, <2>1 DEF Load!Partial
  <2>4. p = [total |-> p.total, discarded |-> p.discarded, records |-> p.records]
    BY <1>7 DEF Load!Reference
  <2> QED
    BY <2>2, <2>3, <2>4 DEF Load!Partial
<1>11. SentRows' = SentRows
  BY <1>1, SameCall DEF SentRows
<1>12. (\E owner : Owned(owner))' /\ (\E who : Delivered(who))'
  BY <1>1, <1>11, SameOwners, SameDeliveries DEF LoadInv
<1>13. Reading'
  BY <1>1, SameCall DEF LoadInv, Reading
<1>14. /\ loaded'.status \in {"empty", "ok"}
       /\ loaded' = IF loaded'.status = "ok"
                    THEN [status |-> "ok", summary |-> loaded'.summary]
                    ELSE [status |-> loaded'.status]
       /\ loaded'.status = "ok" => loaded'.summary \in Load!Partial
  BY <1>1, <1>5, <1>10
<1> QED
  BY <1>1, <1>9, <1>12, <1>13, <1>14, SameCall DEF LoadInv

-----------------------------------------------------------------------------
(***************************************************************************)
(* The steps of a worker.                                                  *)
(***************************************************************************)

LEMMA WorkStep ==
  ASSUME LoadInv, NEW w \in Load!Workers, Load!Work(w)
  PROVE  LoadInv'
<1>n. PICK n : n = Head(jobs)
  OBVIOUS
<1>p. PICK p : p = Load!Merged(worker[w].partial, Load!Parsed(n))
  OBVIOUS
<1>1. /\ ~worker[w].ended /\ jobs # <<>> /\ jobs' = Tail(jobs)
      /\ worker' = [worker EXCEPT ![w].partial = p]
      /\ UNCHANGED <<cfg, reader, lineNumber, sent, parsed, loaded>>
  BY <1>n, <1>p DEF Load!Work
<1>2. PICK owner : Owned(owner)
  BY DEF LoadInv
<1>3. Command /\ Reading /\ Load!Threads \in Nat \ {0} /\ Load!Workers = 1..Load!Threads
  BY ThreadsType DEF LoadInv, Load!Workers
<1>4. /\ n \in Of(owner, 0) /\ n \in Nat
      /\ Enumerates(Tail(jobs), Of(owner, 0) \ {n})
  BY <1>n, <1>1, <1>2, EnumeratesTail DEF Owned
<1>5. /\ n \in 1..lineNumber /\ \A v : IsFiniteSet(Of(owner, v))
      /\ n \notin Of(owner, w)
  <2>1. Of(owner, 0) \subseteq 1..lineNumber /\ \A v : IsFiniteSet(Of(owner, v))
    BY <1>2, <1>3, OwnedRows
  <2>2. w # 0
    BY <1>3
  <2> QED
    BY <1>4, <2>1, <2>2 DEF Of
<1>6. cfg.lines[n] \in Load!Kinds /\ cfg.lines[n] # "oversized"
  BY <1>3, <1>5 DEF Command, Reading
<1>7. Counts(cfg.lines, p, Of(owner, w) \cup {n})
  <2>1. Counts(cfg.lines, Load!Parsed(n), {n}) /\ IsFiniteSet({n})
    BY <1>4, <1>6, RowCounts, FS_Singleton
  <2>2. Counts(cfg.lines, worker[w].partial, Of(owner, w))
    BY <1>2 DEF Owned
  <2>3. Of(owner, w) \cap {n} = {}
    BY <1>5
  <2> QED
    BY <1>p, <1>5, <2>1, <2>2, <2>3, MergedCounts
<1>8. p \in Load!Partial
  <2>1. IsFiniteSet(Of(owner, w) \cup {n})
    BY <1>5, FS_AddElement
  <2> QED
    BY <1>7, <2>1, CountsType
<1>9. /\ worker' \in [Load!Workers -> [ended : BOOLEAN, partial : Load!Partial]]
      /\ worker'[w].partial = p /\ worker'[w].ended = worker[w].ended
      /\ \A v \in Load!Workers : v # w => worker'[v] = worker[v]
  <2>1. worker \in [Load!Workers -> [ended : BOOLEAN, partial : Load!Partial]]
    BY DEF LoadInv
  <2>2. PICK h \in [ended : BOOLEAN, partial : Load!Partial] : h = worker[w]
    BY <2>1
  <2>3. PICK g : g = [h EXCEPT !.partial = p]
    OBVIOUS
  <2>4. g \in [ended : BOOLEAN, partial : Load!Partial] /\ g.partial = p /\ g.ended = h.ended
    BY <1>8, <2>3
  <2>5. worker' = [worker EXCEPT ![w] = g]
    BY <1>1, <2>2, <2>3
  <2> QED
    BY <2>1, <2>2, <2>4, <2>5
<1>10. (\E o : Owned(o))'
  <2>1. PICK next : next = [owner EXCEPT ![n] = w]
    OBVIOUS
  <2>2. DOMAIN owner = SentRows /\ n \in SentRows /\ owner[n] = 0 /\ w # 0
    BY <1>2, <1>3, <1>4 DEF Owned, Of
  <2>3. next \in [SentRows -> 0..Load!Threads]
    BY <1>2, <1>3, <2>1, <2>2 DEF Owned
  <2>4. /\ Of(next, 0) = Of(owner, 0) \ {n}
        /\ Of(next, w) = Of(owner, w) \cup {n}
        /\ \A v \in Load!Workers : v # w => Of(next, v) = Of(owner, v)
    BY <1>3, <2>1, <2>2 DEF Of
  <2>5. \A v \in Load!Workers : Counts(cfg.lines, worker'[v].partial, Of(next, v))
    BY <1>2, <1>7, <1>9, <2>4 DEF Owned
  <2>6. SentRows' = SentRows
    BY <1>1, SameCall DEF SentRows
  <2>7. Owned(next)'
    BY <1>1, <1>4, <2>3, <2>4, <2>5, <2>6, SameCall DEF Owned, Of
  <2> QED
    BY <2>7
<1>11. (\E who : Delivered(who))'
  <2>1. PICK who : Delivered(who)
    BY DEF LoadInv
  <2>2. \A i \in 1..Len(parsed) : who[i] \in Load!Workers /\ who[i] # w
    BY <1>1, <2>1 DEF Delivered
  <2>3. Delivered(who)'
    BY <1>1, <1>9, <2>1, <2>2, SameCall DEF Delivered
  <2> QED
    BY <2>3
<1>12. /\ jobs' \in Seq(Nat) /\ Len(jobs') <= 4 * Load!Threads
       /\ \A v \in Load!Workers : ~worker'[v].ended
  <2>1. \A v \in Load!Workers : ~worker[v].ended
    BY <1>1 DEF LoadInv
  <2>2. jobs \in Seq(Nat) /\ Len(jobs) <= 4 * Load!Threads
    BY DEF LoadInv
  <2> QED
    BY <1>1, <1>3, <1>9, <2>1, <2>2
<1>13. Reading'
  BY <1>1, SameCall DEF LoadInv, Reading
<1>14. Load!SameAsSequential'
  BY <1>1, SameCall DEF LoadInv, Load!SameAsSequential
<1>15. SentRows' = SentRows
  BY <1>1, SameCall DEF SentRows
<1> QED
  BY <1>1, <1>9, <1>10, <1>11, <1>12, <1>13, <1>14, <1>15, SameCall DEF LoadInv, AllRead

LEMMA EndStep ==
  ASSUME LoadInv, NEW w \in Load!Workers, Load!End(w)
  PROVE  LoadInv'
<1>1. /\ ~worker[w].ended /\ jobs = <<>> /\ reader # "scanning"
      /\ Len(parsed) < Load!Threads
      /\ parsed' = Append(parsed, worker[w].partial)
      /\ worker' = [worker EXCEPT ![w].ended = TRUE]
      /\ UNCHANGED <<cfg, reader, lineNumber, sent, jobs, loaded>>
  BY DEF Load!End, Load!Closed
<1>2. /\ worker \in [Load!Workers -> [ended : BOOLEAN, partial : Load!Partial]]
      /\ parsed \in Seq(Load!Partial) /\ Load!Threads \in Nat
  BY ThreadsType DEF LoadInv
<1>3. /\ worker' \in [Load!Workers -> [ended : BOOLEAN, partial : Load!Partial]]
      /\ \A v \in Load!Workers : worker'[v].partial = worker[v].partial
      /\ worker'[w].ended
      /\ \A v \in Load!Workers : v # w => worker'[v] = worker[v]
  <2>1. PICK h \in [ended : BOOLEAN, partial : Load!Partial] : h = worker[w]
    BY <1>2
  <2>2. PICK g : g = [h EXCEPT !.ended = TRUE]
    OBVIOUS
  <2>3. g \in [ended : BOOLEAN, partial : Load!Partial] /\ g.partial = h.partial /\ g.ended
    BY <2>2
  <2>4. worker' = [worker EXCEPT ![w] = g]
    BY <1>1, <2>1, <2>2
  <2> QED
    BY <1>2, <2>1, <2>3, <2>4
<1>4. SentRows' = SentRows
  BY <1>1, SameCall DEF SentRows
<1>5. (\E owner : Owned(owner))'
  <2>1. PICK owner : Owned(owner)
    BY DEF LoadInv
  <2>2. Owned(owner)'
    BY <1>1, <1>3, <1>4, <2>1, SameCall DEF Owned, Of
  <2> QED
    BY <2>2
<1>6. (\E who : Delivered(who))'
  <2>1. PICK who : Delivered(who)
    BY DEF LoadInv
  <2>2. PICK k \in Nat : k = Len(parsed)
    BY <1>2
  <2>3. PICK next : next = [i \in 1..(k + 1) |-> IF i = k + 1 THEN w ELSE who[i]]
    OBVIOUS
  <2>4. Len(parsed') = k + 1 /\ \A i \in 1..k : parsed'[i] = parsed[i]
    BY <1>1, <1>2, <2>2
  <2>5. parsed'[k + 1] = worker[w].partial
    BY <1>1, <1>2, <2>2
  <2>6. \A i \in 1..k : /\ who[i] \in Load!Workers /\ who[i] # w /\ worker[who[i]].ended
                        /\ parsed[i] = worker[who[i]].partial
    BY <1>1, <2>1, <2>2 DEF Delivered
  <2>7. next \in [1..(k + 1) -> Load!Workers]
    BY <2>2, <2>3, <2>6
  <2>8. \A i, j \in 1..(k + 1) : next[i] = next[j] => i = j
    <3>1. \A i, j \in 1..k : who[i] = who[j] => i = j
      BY <2>1, <2>2 DEF Delivered
    <3>2. \A i \in 1..(k + 1) : i # k + 1 => i \in 1..k
      BY <2>2
    <3> QED
      BY <2>3, <2>6, <3>1, <3>2
  <2>9. \A i \in 1..(k + 1) :
          worker'[next[i]].ended /\ parsed'[i] = worker'[next[i]].partial
    <3> SUFFICES ASSUME NEW i \in 1..(k + 1)
                 PROVE  worker'[next[i]].ended /\ parsed'[i] = worker'[next[i]].partial
      OBVIOUS
    <3>1. CASE i = k + 1
      BY <1>3, <2>3, <2>5, <3>1
    <3>2. CASE i # k + 1
      <4>1. i \in 1..k
        BY <2>2, <3>2
      <4> QED
        BY <1>3, <2>3, <2>4, <2>6, <3>2, <4>1
    <3> QED
      BY <3>1, <3>2
  <2>10. \A v \in Load!Workers : worker'[v].ended => \E i \in 1..(k + 1) : next[i] = v
    <3> SUFFICES ASSUME NEW v \in Load!Workers, worker'[v].ended
                 PROVE  \E i \in 1..(k + 1) : next[i] = v
      OBVIOUS
    <3>1. CASE v = w
      BY <2>2, <2>3, <3>1
    <3>2. CASE v # w
      <4>1. PICK i \in 1..k : who[i] = v
        BY <1>3, <2>1, <2>2, <3>2 DEF Delivered
      <4>2. i \in 1..(k + 1) /\ i # k + 1
        BY <2>2
      <4> QED
        BY <2>3, <4>1, <4>2
    <3> QED
      BY <3>1, <3>2
  <2>11. Delivered(next)'
    BY <1>1, <2>4, <2>7, <2>8, <2>9, <2>10, SameCall DEF Delivered
  <2> QED
    BY <2>11
<1>7. parsed' \in Seq(Load!Partial) /\ Len(parsed') <= Load!Threads
  BY <1>1, <1>2
<1>8. Reading'
  BY <1>1, SameCall DEF LoadInv, Reading
<1>9. Load!SameAsSequential'
  BY <1>1, SameCall DEF LoadInv, Load!SameAsSequential
<1> QED
  BY <1>1, <1>3, <1>4, <1>5, <1>6, <1>7, <1>8, <1>9, SameCall DEF LoadInv, AllRead

LEMMA LoadNext ==
  ASSUME LoadInv, Load!Reader \/ \E w \in Load!Workers : Load!Worker(w)
  PROVE  LoadInv'
BY SkipHeaderStep, SendStep, CloseJobsStep, FailStep, ReduceRowsStep, WorkStep, EndStep
   DEF Load!Reader, Load!Worker

LEMMA LoadTypes == LoadInv => Load!TypeOK
<1> SUFFICES ASSUME LoadInv
             PROVE  Load!TypeOK
  OBVIOUS
<1>1. Command /\ Reading
  BY DEF LoadInv
<1>2. /\ cfg.lines \in Seq(Load!Kinds) /\ cfg.workers \in Int /\ cfg.limit \in Int
      /\ Len(cfg.lines) \in Nat
  BY <1>1 DEF Command
<1>3. lineNumber \in 0..Len(cfg.lines) /\ sent \in 0..lineNumber /\ lineNumber <= sent + 1
  BY <1>1, <1>2, FirstRowType DEF Reading
<1>4. jobs \in Seq(1..sent + 1)
  <2>1. PICK owner : Owned(owner)
    BY DEF LoadInv
  <2>2. Of(owner, 0) \subseteq 1..lineNumber
    BY <1>1, <2>1, OwnedRows
  <2>3. jobs \in Seq(Nat) /\ \A i \in 1..Len(jobs) : jobs[i] \in 1..sent + 1
    BY <1>2, <1>3, <2>1, <2>2 DEF Owned, Enumerates
  <2>4. PICK S : S = 1..sent + 1
    OBVIOUS
  <2>5. Len(jobs) \in Nat /\ jobs \in [1..Len(jobs) -> S]
    BY <2>3, <2>4
  <2>6. jobs \in Seq(S)
    BY <2>5
  <2> QED
    BY <2>4, <2>6
<1>5. loaded \in [status : {"pending", "failed", "empty"}]
                   \cup [status : {"ok"}, summary : Load!Partial]
  BY DEF LoadInv
<1> QED
  BY <1>2, <1>3, <1>4, <1>5 DEF LoadInv, Load!TypeOK, Load!file

=============================================================================
