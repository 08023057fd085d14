-------------------------------- MODULE Tail --------------------------------
(***************************************************************************)
(* How sure a measured percentile is: polyserve/calibrate/tail.py, and the *)
(* screen close_call_level of objectives.py makes of it.                   *)
(*                                                                         *)
(* For samples x(1) <= ... <= x(n) of any distribution, the number of them *)
(* below its q-quantile is binomial; the interval is a pair of the order   *)
(* statistics, an unknown end being rank 0 or n + 1.  Probabilities are    *)
(* exact: q is q/Den, a probability over n samples a number of parts of    *)
(* Den^n, and a confidence a percentage.  The code computes them in        *)
(* floating point.                                                         *)
(***************************************************************************)
EXTENDS Integers, Sequences, FiniteSets, Combinatorics, FiniteSetsExt

CONSTANT Den       \* the denominator of the quantiles

ASSUME DenAssumption == Den \in Nat \ {0, 1}

\* _binomial_cdf: the parts of Den^n in which at most i of n samples are below the quantile.
Cdf(n, q, i) == FoldSet(LAMBDA j, sum : sum + choose(n, j) * q^j * (Den - q)^(n - j), 0, 0..i)

\* A number of parts of Den^n is at most (100 - c) / 2 percent of them.
InTail(parts, n, c) == 200 * parts <= (100 - c) * Den^n

Lows(n, q, c) == {r \in 1..n : InTail(Cdf(n, q, r - 1), n, c)}
Highs(n, q, c) == {r \in 1..n : InTail(Den^n - Cdf(n, q, r - 1), n, c)}

\* A lower end one order statistic too high.
LowRank_Above(n, q, c, unbounded) ==
  IF Lows(n, q, c) # {} THEN Min({Max(Lows(n, q, c)) + 1, n}) ELSE IF unbounded THEN 0 ELSE 1

\* quantile_interval: the innermost order statistics that leave no more than a tail outside,
\* and where the samples have none, an unknown end or the extreme sample.
LowRank(n, q, c, unbounded) ==
  IF Lows(n, q, c) # {} THEN Max(Lows(n, q, c)) ELSE IF unbounded THEN 0 ELSE 1

HighRank(n, q, c, unbounded) ==
  IF Highs(n, q, c) # {} THEN Min(Highs(n, q, c)) ELSE IF unbounded THEN n + 1 ELSE n

\* attained_confidence, two-sided: the parts of Den^n in which the quantile is between the
\* smallest and the largest sample.
Attained(n, q) == Max({0, Den^n - q^n - (Den - q)^n})

\* samples_needed, two-sided: both extreme samples leave no more than a tail outside.
SamplesNeeded(n, q, c) == InTail(q^n, n, c) /\ InTail((Den - q)^n, n, c)

\* The sample that is r-th from below, of n samples in any order.
Nth(s, r) == CHOOSE v \in Range(s) :
  Cardinality({k \in DOMAIN s : s[k] < v}) < r /\ Cardinality({k \in DOMAIN s : s[k] <= v}) >= r

\* close_call_level: the ceiling is inside the interval of the samples.
CloseCall(s, q, c, ceiling) ==
  LET n == Len(s)
  IN  Nth(s, LowRank(n, q, c, FALSE)) <= ceiling /\ ceiling <= Nth(s, HighRank(n, q, c, FALSE))

\* _metrics_from: twice the percentile of a level, the median or the sample nearest to the rank.
TwiceMeasured(s, q) ==
  LET n == Len(s)
  IN  IF 2 * q = Den THEN Nth(s, (n + 1) \div 2) + Nth(s, (n + 2) \div 2)
      ELSE 2 * Nth(s, ((2 * q * (n - 1) + Den) \div (2 * Den)) + 1)

-----------------------------------------------------------------------------
(* A reference: what a population holds, and every sample of n of it.      *)

\* The q-quantile of a population: the least of its values that q of it do not exceed.
TrueQuantile(population, q) ==
  LET D == DOMAIN population
      Share(v) == Cardinality({i \in D : population[i] <= v})
  IN  Min({v \in Range(population) : Den * Share(v) >= q * Cardinality(D)})

\* The samples of n of a population, and how many of them a predicate holds of.
Draws(population, n) == [1..n -> DOMAIN population]
HowMany(population, n, Holds(_)) ==
  Cardinality({d \in Draws(population, n) : Holds([k \in 1..n |-> population[d[k]]])})

\* Whatever the times to first token are taken from, the interval of n of them holds their
\* true quantile with the confidence it was asked for, and both its ends are known from
\* samples_needed on.
Covers(population, n, q, c) ==
  LET low == LowRank(n, q, c, TRUE)
      high == HighRank(n, q, c, TRUE)
      Inside(s) == /\ low >= 1 => Nth(s, low) <= TrueQuantile(population, q)
                   /\ high <= n => TrueQuantile(population, q) <= Nth(s, high)
  IN  /\ 100 * HowMany(population, n, Inside) >= c * Len(population)^n
      /\ (low >= 1 /\ high <= n) <=> SamplesNeeded(n, q, c)

\* A level that is not measured again, since its ceiling is outside the interval, is judged
\* on the wrong side of it no more often than the tail allows or, where the samples are too
\* few, than the quantile is beyond all of them.
Judged(population, n, q, c, ceiling) ==
  LET meets == TrueQuantile(population, q) <= ceiling
      Wrong(s) == ~CloseCall(s, q, c, ceiling) /\ (TwiceMeasured(s, q) <= 2 * ceiling) # meets
      beyond == IF meets THEN (Den - q)^n ELSE q^n
      wrong == HowMany(population, n, Wrong)
  IN  200 * wrong * Den^n <= Len(population)^n * Max({200 * beyond, (100 - c) * Den^n})

\* The clamped interval holds the true quantile with the confidence of the extreme samples.
AsAttained(population, n, q, c) ==
  LET Inside(s) == /\ Nth(s, LowRank(n, q, c, FALSE)) <= TrueQuantile(population, q)
                   /\ TrueQuantile(population, q) <= Nth(s, HighRank(n, q, c, FALSE))
  IN  Den^n * HowMany(population, n, Inside) >= Attained(n, q) * Len(population)^n
=============================================================================
