------------------------------ MODULE Statistics ------------------------------
(***************************************************************************)
(* The statistics of summary.json (metrics/Statistics.cpp and              *)
(* WelfordAccumulator.hpp) over integer samples.                           *)
(*                                                                         *)
(* The code computes in doubles.  Here a percentile is in thousandths of a *)
(* unit and a running mean in units of 1/Scale, which is exact as long as  *)
(* every number of samples divides Scale; rounding is left out.            *)
(***************************************************************************)
EXTENDS Integers, Sequences, FiniteSets, Functions, SequencesExt

CONSTANT Scale   \* a common multiple of the numbers of samples

ASSUME StatisticsAssumption == Scale \in Nat \ {0}

AbsDiff(a, b) == IF a < b THEN b - a ELSE a - b
Least(a, b) == IF a < b THEN a ELSE b
Greatest(a, b) == IF a < b THEN b ELSE a

-----------------------------------------------------------------------------
(* Welford's update of the mean and of the sum of squared deviations.      *)

NoSamples == [n |-> 0, mean |-> 0, m2 |-> 0, min |-> 0, max |-> 0]

(* Mutant: both factors of the square are against the old mean.            *)
UpdateOldMean(acc, x) ==
  LET n == acc.n + 1
      delta == Scale * x - acc.mean
      mean == acc.mean + delta \div n
  IN [n |-> n, mean |-> mean, m2 |-> acc.m2 + delta * delta,
      min |-> IF n = 1 THEN x ELSE Least(acc.min, x),
      max |-> IF n = 1 THEN x ELSE Greatest(acc.max, x)]

Update(acc, x) ==
  LET n == acc.n + 1
      delta == Scale * x - acc.mean
      mean == acc.mean + delta \div n
  IN [n |-> n, mean |-> mean, m2 |-> acc.m2 + delta * (Scale * x - mean),
      min |-> IF n = 1 THEN x ELSE Least(acc.min, x),
      max |-> IF n = 1 THEN x ELSE Greatest(acc.max, x)]

Welford(samples) == FoldLeft(Update, NoSamples, samples)

(* stddev is the root of this quotient.                                    *)
Variance(acc) ==
  IF acc.n > 1 THEN acc.m2 \div (acc.n - 1) ELSE 0

-----------------------------------------------------------------------------
(* Percentiles, jitter and the whole of LatencyStats                       *)

(* std::ranges::sort: fewer than k samples are below the one at place k,   *)
(* and k or more are not above it.                                         *)
Below(samples, v) == {i \in DOMAIN samples : samples[i] < v}
UpTo(samples, v) == {i \in DOMAIN samples : samples[i] <= v}

Sorted(samples) ==
  [k \in DOMAIN samples |->
     CHOOSE v \in Range(samples) :
       Cardinality(Below(samples, v)) < k /\ k <= Cardinality(UpTo(samples, v))]

(* Mutant: the rank is p * n.                                              *)
PercentileOfCount(sorted, permille) ==
  LET n == Len(sorted)
      idx == permille * n
      lo == idx \div 1000
  IN IF n = 0 THEN 0
     ELSE IF lo + 1 >= n THEN 1000 * sorted[n]
     ELSE (1000 - (idx % 1000)) * sorted[lo + 1] + (idx % 1000) * sorted[lo + 2]

(* Linear interpolation between the two samples around p * (n - 1).        *)
Percentile(sorted, permille) ==
  LET n == Len(sorted)
      idx == permille * (n - 1)
      lo == idx \div 1000
  IN IF n = 0 THEN 0
     ELSE IF lo + 1 >= n THEN 1000 * sorted[n]
     ELSE (1000 - (idx % 1000)) * sorted[lo + 1] + (idx % 1000) * sorted[lo + 2]

(* The sum of the steps; the code divides it by their number.              *)
JitterSum(samples) ==
  FoldLeft(LAMBDA sum, i : sum + AbsDiff(samples[i], samples[i - 1]), 0,
           [k \in 1 .. Len(samples) - 1 |-> k + 1])

Jitter(samples) ==
  IF Len(samples) < 2 THEN [sum |-> 0, steps |-> 1]
  ELSE [sum |-> JitterSum(samples), steps |-> Len(samples) - 1]

NoStats ==
  [mean |-> 0, variance |-> 0, min |-> 0, max |-> 0,
   p50 |-> 0, p95 |-> 0, p99 |-> 0, p999 |-> 0, jitter |-> [sum |-> 0, steps |-> 1]]

(* stats::compute: the jitter is that of the samples as sorted.            *)
Compute(samples) ==
  LET sorted == Sorted(samples)
      acc == Welford(sorted)
  IN IF samples = <<>> THEN NoStats
     ELSE [mean |-> acc.mean, variance |-> Variance(acc), min |-> acc.min, max |-> acc.max,
           p50 |-> Percentile(sorted, 500), p95 |-> Percentile(sorted, 950),
           p99 |-> Percentile(sorted, 990), p999 |-> Percentile(sorted, 999),
           jitter |-> Jitter(sorted)]
===============================================================================
