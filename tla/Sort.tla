-------------------------------- MODULE Sort ---------------------------------
(***************************************************************************)
(* sort.Slice and sort.Float64s of Go's library, as the loader and the     *)
(* features use them.  Each element goes to the place that its rank gives  *)
(* it; the order of equal elements, which is not specified, does not show. *)
(***************************************************************************)
EXTENDS Integers, FiniteSets

Before(s, j, k) == s[j] < s[k] \/ (s[j] = s[k] /\ j < k)
Rank(s, k) == Cardinality({j \in DOMAIN s : Before(s, j, k)}) + 1
InOrder(s) == [i \in DOMAIN s |-> s[CHOOSE k \in DOMAIN s : Rank(s, k) = i]]

\* The numbers of a finite set, the least first.
Ascending(S) == [k \in 1..Cardinality(S) |->
                   CHOOSE x \in S : Cardinality({y \in S : y < x}) = k - 1]

=============================================================================
