------------------------------ MODULE Scoring -------------------------------
(***************************************************************************)
(* The estimators of scoring/estimators.ts, the resolving power of mrd.ts  *)
(* and the intervals of intervals.ts, in exact fractions <<num, den>>.     *)
(*                                                                         *)
(* What the code computes in floating point, by logarithms or by bisection *)
(* is computed here by the same formula without rounding; a probability of *)
(* success is a step of a grid.  The generator's picks are an argument.    *)
(***************************************************************************)
EXTENDS Integers, Sequences, FiniteSetsExt, SequencesExt, Functions, Combinatorics

CONSTANTS Halvings,      \* of the unit interval in a bisection: 200
          GridPoints,    \* of the search for the worst case: 201
          Refinements,   \* of that search: 20
          LargeSample,   \* observations for the normal approximation: 300
          ManyClusters,  \* clusters for it: 30
          Alone          \* the cluster of an observation that names none

ASSUME ScoringAssumption ==
  {Halvings, GridPoints, Refinements, LargeSample, ManyClusters} \subseteq Nat \ {0}

-----------------------------------------------------------------------------
(* Fractions *)

Less(x, y) == IF x[2] = y[2] THEN x[1] < y[1] ELSE x[1] * y[2] < y[1] * x[2]
AtMost(x, y) == ~Less(y, x)
SameAs(x, y) == x[1] * y[2] = y[1] * x[2]
AtMostOne(x) == IF x[1] > x[2] THEN <<1, 1>> ELSE x
CeilDiv(a, b) == -((-a) \div b)
Power(base, e) == IF e = 0 THEN 1 ELSE base ^ e

-----------------------------------------------------------------------------
(* Estimators over n samples, c of them successes, k attempts *)

LogChoose(n, k) == IF k < 0 \/ k > n THEN 0 ELSE choose(n, k)

AssertSample(n, c, k) == n > 0 /\ c \in 0..n /\ k \in 1..n

PassAtK(n, c, k) ==
  IF n - c < k THEN <<1, 1>>
  ELSE LET all == ProductSet({i : i \in n - c + 1..n})
       IN  <<all - ProductSet({i - k : i \in n - c + 1..n}), all>>

PassPowK(n, c, k) ==
  IF c < k THEN <<0, 1>>
  ELSE <<ProductSet({c - i : i \in 0..k - 1}), ProductSet({n - i : i \in 0..k - 1})>>

\* Seeded fault: the tail starts one success too late.
GPassAtKStrict(n, c, k, tau) ==
  LET threshold == CeilDiv(tau[1] * k, tau[2]) + 1
      Term(j) == LogChoose(c, j) * LogChoose(n - c, k - j)
  IN  IF threshold > k THEN <<0, 1>>
      ELSE <<MapThenSumSet(Term, threshold..Min({k, c})), LogChoose(n, k)>>

\* At least ceil(tau * k) of k attempts succeed.
GPassAtK(n, c, k, tau) ==
  LET threshold == CeilDiv(tau[1] * k, tau[2])
      Term(j) == LogChoose(c, j) * LogChoose(n - c, k - j)
  IN  IF threshold <= 0 THEN <<1, 1>>
      ELSE IF threshold > k THEN <<0, 1>>
      ELSE <<MapThenSumSet(Term, threshold..Min({k, c})), LogChoose(n, k)>>

MGPassAtK(n, c, k) ==
  LET TailAt(i) == GPassAtK(n, c, k, <<i, k>>)
      Scaled(i) == (TailAt(i)[1] * LogChoose(n, k)) \div TailAt(i)[2]
  IN  AtMostOne(<<2 * MapThenSumSet(Scaled, (k \div 2) + 1..k), k * LogChoose(n, k)>>)

\* The variance of a value, over a common denominator, under the weights of its cases.
VarianceOf(weight, value, weights) ==
  LET First(c) == weight[c] * value[c]
      Second(c) == weight[c] * value[c] * value[c]
  IN  weights * MapThenSumSet(Second, DOMAIN weight) - MapThenSumSet(First, DOMAIN weight) ^ 2

\* The variance of pass@k where each sample succeeds with probability p.
PassAtKVariance(n, k, p) ==
  LET Weight(c) == LogChoose(n, c) * Power(p[1], c) * Power(p[2] - p[1], n - c)
      Numerator(estimate) == (estimate[1] * LogChoose(n, k)) \div estimate[2]
  IN  <<VarianceOf([c \in 0..n |-> Weight(c)], [c \in 0..n |-> Numerator(PassAtK(n, c, k))],
                   p[2] ^ n),
        (p[2] ^ n * LogChoose(n, k)) ^ 2>>

\* The grid's best point, then a step left and a step right, each half the last.
WorstOf(varianceAt) ==
  LET Better(best, i) ==
        IF i \in DOMAIN varianceAt /\ Less(varianceAt[best], varianceAt[i]) THEN i ELSE best
      Refine[r \in 0..Refinements] ==
        IF r = 0
        THEN FoldLeft(Better, 0, [g \in 1..GridPoints + 1 |-> (g - 1) * 2 ^ Refinements])
        ELSE LET best == Refine[r - 1]
                 step == 2 ^ (Refinements - r)
             IN  Better(Better(best, best - step), best + step)
  IN  Refine[Refinements]

MaxPassAtKVariance(n, k) ==
  LET scale == GridPoints * 2 ^ Refinements
      varianceAt == [i \in 0..scale |-> PassAtKVariance(n, k, <<i, scale>>)]
      atWorst == WorstOf(varianceAt)
  IN  [variance |-> varianceAt[atWorst], atP |-> <<atWorst, scale>>]

-----------------------------------------------------------------------------
(* Resolving power; "noise" is z * z * 2 * (1 - correlation) * variance *)

DesignEffect(clusterSizes, correlation) ==
  IF clusterSizes = <<>> THEN <<1, 1>>
  ELSE LET total == FoldLeft(+, 0, clusterSizes)
           g == Len(clusterSizes)
           deff == <<g * correlation[2] + (total - g) * correlation[1], g * correlation[2]>>
       IN  IF Less(deff, <<1, 1>>) THEN <<1, 1>> ELSE deff

\* The square of pairedMrd.
PairedMrd(noise, tasks, deff) == <<noise[1] * deff[1], noise[2] * tasks * deff[2]>>

\* For a target difference d, with d * d as target.
RequiredTasks(noise, target, deff) ==
  LET effective == CeilDiv(noise[1] * target[2], noise[2] * target[1])
  IN  CeilDiv(effective * deff[1], deff[2])

\* The least number of tasks that resolves the gap, by bisection, or 0.
TasksRequiredToResolve(noise, gap, deff, maxTasks) ==
  LET Search[range \in (1..maxTasks) \X (1..maxTasks)] ==
        LET mid == (range[1] + range[2]) \div 2
        IN  IF range[1] >= range[2] THEN range[1]
            ELSE IF Less(PairedMrd(noise, mid, deff), gap) THEN Search[<<range[1], mid>>]
            ELSE Search[<<mid + 1, range[2]>>]
  IN  IF gap[1] <= 0 \/ ~Less(PairedMrd(noise, maxTasks, deff), gap) THEN 0
      ELSE Search[<<1, maxTasks>>]

-----------------------------------------------------------------------------
(* Intervals over observations [value, cluster] *)

\* Seeded fault: observations that name no cluster are one cluster.
ClusterOfJoined(observations, i) ==
  {j \in DOMAIN observations : observations[j].cluster = observations[i].cluster}

\* The observations of i's cluster; one that names none is a cluster of its own.
ClusterOf(observations, i) ==
  IF observations[i].cluster = Alone THEN {i}
  ELSE {j \in DOMAIN observations : observations[j].cluster = observations[i].cluster}

GroupByCluster(observations) == {ClusterOf(observations, i) : i \in DOMAIN observations}

SumOf(observations, S) == LET Value(i) == observations[i].value IN MapThenSumSet(Value, S)

\* The squares of the standard errors; none where one cluster says nothing.
ClusteredVariance(observations) ==
  LET m == Len(observations)
      groups == GroupByCluster(observations)
      g == Cardinality(groups)
      sum == SumOf(observations, DOMAIN observations)
      Square(group) ==
        (m * SumOf(observations, group) - Cardinality(group) * sum) ^ 2
  IN  IF g < 2 THEN <<1, 0>>
      ELSE <<g * MapThenSumSet(Square, groups), (g - 1) * m ^ 4>>

NaiveVariance(observations) ==
  LET m == Len(observations)
      sum == SumOf(observations, DOMAIN observations)
      Square(i) == (m * observations[i].value - sum) ^ 2
  IN  IF m < 2 THEN <<0, 1>>
      ELSE <<MapThenSumSet(Square, DOMAIN observations), m ^ 3 * (m - 1)>>

\* Clusters in the order of their first observation.
Clusters(observations) ==
  LET Opens(i) == i = Min(ClusterOf(observations, i))
      opening == SelectSeq([i \in DOMAIN observations |-> i], Opens)
  IN  [g \in DOMAIN opening |-> ClusterOf(observations, opening[g])]

\* The mean of one resample, which takes each cluster picked as a whole.
ResampleMean(observations, picked) ==
  LET groups == Clusters(observations)
      Taken(g) == Cardinality({i \in DOMAIN picked : picked[i] = g})
      Total(g) == Taken(g) * SumOf(observations, groups[g])
      Count(g) == Taken(g) * Cardinality(groups[g])
  IN  <<MapThenSumSet(Total, DOMAIN groups), MapThenSumSet(Count, DOMAIN groups)>>

\* The interval between two of the sorted means.
ClusterBootstrapInterval(observations, resamples, alpha) ==
  LET Mean(r) == ResampleMean(observations, resamples[r])
      means == SortSeq([r \in DOMAIN resamples |-> Mean(r)], Less)
      last == Len(resamples) - 1
  IN  IF Cardinality(GroupByCluster(observations)) < 2
      THEN [lower |-> <<0, 1>>, upper |-> <<1, 1>>]
      ELSE [lower |-> means[1 + (alpha[1] * last) \div (2 * alpha[2])],
            upper |-> means[1 + CeilDiv((2 * alpha[2] - alpha[1]) * last, 2 * alpha[2])]]

-----------------------------------------------------------------------------
(* The exact interval of a proportion *)

Steps == 2 ^ Halvings

\* Probabilities over Steps ^ n of at least, and of at most, c successes.
BinomialUpperTail(n, c, p) ==
  LET Term(j) == LogChoose(n, j) * Power(p, j) * Power(Steps - p, n - j)
  IN  MapThenSumSet(Term, c..n)
BinomialLowerTail(n, c, p) ==
  LET Term(j) == LogChoose(n, j) * Power(p, j) * Power(Steps - p, n - j)
  IN  MapThenSumSet(Term, 0..c)

\* The step below the bound: the tail crosses alpha / 2 in the step after it.
Bisect(n, c, alpha, increasing) ==
  LET Crossed(p) ==
        IF increasing
        THEN 2 * alpha[2] * BinomialUpperTail(n, c, p) >= alpha[1] * Steps ^ n
        ELSE 2 * alpha[2] * BinomialLowerTail(n, c, p) <= alpha[1] * Steps ^ n
      Lo[i \in 0..Halvings] ==
        IF i = 0 THEN 0
        ELSE LET mid == Lo[i - 1] + 2 ^ (Halvings - i)
             IN  IF Crossed(mid) THEN Lo[i - 1] ELSE mid
  IN  Lo[Halvings]

ClopperPearsonInterval(successes, trials, alpha) ==
  [lower |-> IF successes = 0 THEN 0 ELSE Bisect(trials, successes, alpha, TRUE),
   upper |-> IF successes = trials THEN Steps
             ELSE Bisect(trials, successes, alpha, FALSE) + 1]

\* Which interval describes the observations; scores are in 0..unit.
ScoreInterval(observations, binary, unit) ==
  LET n == Len(observations)
      clusters == Cardinality(GroupByCluster(observations))
      isBinaryData == \A i \in 1..n : observations[i].value \in {0, unit}
  IN  IF n = 0 THEN "none"
      ELSE IF (binary \/ isBinaryData) /\ clusters = n
      THEN IF SumOf(observations, 1..n) % unit = 0 THEN "clopper-pearson" ELSE "error"
      ELSE IF n >= LargeSample /\ clusters >= ManyClusters THEN "clustered-clt"
      ELSE "cluster-bootstrap"

-----------------------------------------------------------------------------
(* What the statistics promise *)

\* Of the k-subsets of n samples, those with at least so many successes.
Draws(n, c, k, least) ==
  Cardinality({S \in kSubset(k, 1..n) : Cardinality(S \cap 1..c) >= least})

\* pass@k, pass^k and G-pass are the shares of k-subsets of the samples that have
\* one success, only successes, and enough of them; the bound of a resolvable
\* difference is the worst over every success rate the search visits, and no rate
\* of the grid is worse; for one attempt the variance is that of a proportion.
EstimatorsExact(n, c, k, tau, p) ==
  LET all == Cardinality(kSubset(k, 1..n))
      worst == MaxPassAtKVariance(n, k)
  IN  AssertSample(n, c, k) =>
        /\ SameAs(PassAtK(n, c, k), <<Draws(n, c, k, 1), all>>)
        /\ SameAs(PassPowK(n, c, k), <<Draws(n, c, k, k), all>>)
        /\ SameAs(GPassAtK(n, c, k, tau), <<Draws(n, c, k, CeilDiv(tau[1] * k, tau[2])), all>>)
        /\ SameAs(GPassAtK(n, c, k, <<1, k>>), PassAtK(n, c, k))
        /\ AtMost(PassPowK(n, c, k), MGPassAtK(n, c, k))
        /\ AtMost(PassAtKVariance(n, k, p), worst.variance)
        /\ k = 1 => SameAs(PassAtKVariance(n, 1, p), <<p[1] * (p[2] - p[1]), p[2] ^ 2 * n>>)

\* The tasks asked for are enough for the difference they are asked for, and the
\* least number that resolves a gap is one that resolves it where one less does not.
TasksSuffice(noise, gap, deff, maxTasks) ==
  LET required == RequiredTasks(noise, gap, deff)
      least == TasksRequiredToResolve(noise, gap, deff, maxTasks)
      Resolves(tasks) == Less(PairedMrd(noise, tasks, deff), gap)
  IN  /\ required > 0 => AtMost(PairedMrd(noise, required, deff), gap)
      /\ (least = 0) <=> \A tasks \in 1..maxTasks : ~Resolves(tasks)
      /\ least # 0 => Resolves(least) /\ \A tasks \in 1..least - 1 : ~Resolves(tasks)

\* Each observation twice, within its own cluster.
Doubled(observations) ==
  FlattenSeq([i \in DOMAIN observations |->
    LET o == [value |-> observations[i].value,
              cluster |-> IF observations[i].cluster = Alone THEN <<"own", i>>
                          ELSE <<"named", observations[i].cluster>>]
    IN  <<o, o>>])

\* With every observation on its own the clustered error is the plain one; observing
\* each cluster twice over adds no precision; a bootstrap interval is ordered and
\* stays within the clusters' own range; an interval that ignores correlation is
\* used only where nothing is correlated.
IntervalsHonest(observations, resamples, alpha, unit) ==
  LET groups == GroupByCluster(observations)
      boot == ClusterBootstrapInterval(observations, resamples, alpha)
      means == {ResampleMean(observations, [i \in 1..Cardinality(groups) |-> g]) :
                  g \in 1..Cardinality(groups)}
  IN  observations # <<>> =>
        /\ (Cardinality(groups) = Len(observations) /\ Len(observations) > 1) =>
             SameAs(ClusteredVariance(observations), NaiveVariance(observations))
        /\ Cardinality(groups) > 1 =>
             /\ SameAs(ClusteredVariance(observations), ClusteredVariance(Doubled(observations)))
             /\ AtMost(boot.lower, boot.upper)
             /\ \E x \in means : AtMost(x, boot.lower)
             /\ \E x \in means : AtMost(boot.upper, x)
        /\ ScoreInterval(observations, FALSE, unit) \in {"clopper-pearson", "clustered-clt"} =>
             \/ \A i, j \in DOMAIN observations :
                  i # j => \/ observations[i].cluster = Alone
                           \/ observations[i].cluster # observations[j].cluster
             \/ Len(observations) >= LargeSample /\ Cardinality(groups) >= ManyClusters

\* The exact interval holds the estimate, and the two tails mirror each other
\* to a step; a rate
\* below the bound, or above the other, would leave the count in a tail of alpha / 2.
ExactIntervalCovers(successes, trials, alpha) ==
  LET exact == ClopperPearsonInterval(successes, trials, alpha)
      mirror == ClopperPearsonInterval(trials - successes, trials, alpha)
      Rejected(p) ==
        \/ 2 * alpha[2] * BinomialUpperTail(trials, successes, p) < alpha[1] * Steps ^ trials
        \/ 2 * alpha[2] * BinomialLowerTail(trials, successes, p) < alpha[1] * Steps ^ trials
  IN  trials > 0 /\ successes \in 0..trials =>
        /\ AtMost(<<exact.lower, Steps>>, <<successes, trials>>)
        /\ AtMost(<<successes, trials>>, <<exact.upper, Steps>>)
        /\ exact.lower - (Steps - mirror.upper) \in {-1, 0}
        /\ \A p \in 0..Steps : (p < exact.lower \/ p > exact.upper) <=>
             (Rejected(p) /\ p \notin {exact.lower, exact.upper})

=============================================================================
