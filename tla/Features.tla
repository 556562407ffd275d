------------------------------ MODULE Features ------------------------------
(***************************************************************************)
(* What phase 1 computes from the records of a load: the label of each     *)
(* (features.BuildSamples), the min-max normalisation, the confusion       *)
(* matrix, and the histogram of pc3-analysis.  Nothing here runs           *)
(* concurrently: these are functions.                                      *)
(*                                                                         *)
(* A record is abstracted to its active power, which decides the label and *)
(* from which the feature other_consumption follows: the one feature kept. *)
(***************************************************************************)
EXTENDS Split, Sort, Sums

\* Numbers are natural, since validateRanges refuses a negative one.  It lets
\* NaN through, which strconv.ParseFloat reads without error and which no
\* comparison refuses; sort.Float64s puts it first.
NaN == -1
Finite(values) == NaN \notin ToSet(values)
AtLeast(v, w) == v # NaN /\ w # NaN /\ v >= w

\* Mutation: the position is rounded down.
PercentileFloor(values) ==
  InOrder(values)[Larger(1, (3 * Len(values)) \div 4)]

\* percentile75: the value at position ceil(0.75 n), from 1.
Percentile75(values) == InOrder(values)[(3 * Len(values) + 3) \div 4]

\* BuildSamples: the threshold, and a sample for each record.
BuildSamples(values) ==
  LET threshold == Percentile75(values) IN
    [threshold |-> threshold,
     samples |-> [i \in DOMAIN values |->
                    [x |-> values[i],
                     y |-> IF AtLeast(values[i], threshold) THEN 1 ELSE 0]]]

Xs(samples) == [i \in DOMAIN samples |-> samples[i].x]
Ys(samples) == [i \in DOMAIN samples |-> samples[i].y]

\* The samples at these positions.
At(samples, positions) == [i \in DOMAIN positions |-> samples[positions[i]]]

\* FitMinMax, of samples whose feature is finite.
FitMinMax(samples) ==
  [min |-> Min(ToSet(Xs(samples))), max |-> Max(ToSet(Xs(samples)))]

\* TransformVector: a fraction; a feature without width becomes 0.
TransformVector(normalizer, x) ==
  LET width == normalizer.max - normalizer.min IN
    IF width = 0 THEN [num |-> 0, den |-> 1]
                 ELSE [num |-> x - normalizer.min, den |-> width]

TransformSamples(normalizer, samples) ==
  [i \in DOMAIN samples |->
     [x |-> TransformVector(normalizer, samples[i].x), y |-> samples[i].y]]

\* Mutation: false positives and false negatives are confused.
ClassifySwapped(actual, predicted) ==
  LET cell(a, p) == Cardinality({i \in DOMAIN actual \cap DOMAIN predicted :
                                   actual[i] = a /\ predicted[i] = p})
  IN  [tp |-> cell(1, 1), tn |-> cell(0, 0), fp |-> cell(1, 0), fn |-> cell(0, 1)]

\* The counts of ComputeClassification, up to the length of the shorter one.
ComputeClassification(actual, predicted) ==
  LET cell(a, p) == Cardinality({i \in DOMAIN actual \cap DOMAIN predicted :
                                   actual[i] = a /\ predicted[i] = p})
  IN  [tp |-> cell(1, 1), tn |-> cell(0, 0), fp |-> cell(0, 1), fn |-> cell(1, 0)]

\* Mutation: the largest value has a bin of its own.
BinUnclipped(v, low, high, bins) == ((v - low) * bins) \div (high - low)

\* int((v - min) / width); the largest value goes into the last bin.  The
\* division is exact here: in float64 a value on an edge may fall in the bin
\* below it.
Bin(v, low, high, bins) == Min({((v - low) * bins) \div (high - low), bins - 1})

\* Histogram: how many values each bin has; one bin when all are equal.
Histogram(values, bins) ==
  LET low == Min(ToSet(values))
      high == Max(ToSet(values))
  IN  IF low = high THEN <<Len(values)>>
      ELSE [b \in 1..bins |-> Cardinality({i \in DOMAIN values :
                                  Bin(values[i], low, high, bins) = b - 1})]

=============================================================================
