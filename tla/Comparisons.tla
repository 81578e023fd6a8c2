---------------------------- MODULE Comparisons -----------------------------
(***************************************************************************)
(* Comparing models: the paired comparison, Holm's correction and the      *)
(* tiers of scoring/comparison.ts, the head-to-head verdict of             *)
(* finance/verdict.ts, and the composite score of scoring/composite.ts.    *)
(*                                                                         *)
(* Scores are integers.  A generator seeded alike picks the same clusters  *)
(* for the interval and for the p-value, so both take the same resamples;  *)
(* Pearson's correlation only scales the resolvable difference, which is   *)
(* an argument.                                                            *)
(***************************************************************************)
EXTENDS Scoring

-----------------------------------------------------------------------------
(* One pair of models; scores are records [taskId, value, cluster] *)

\* b.scores by task: of two scores of a task the last one counts.
ByTask(scores, taskId) ==
  LET last == Max({i \in DOMAIN scores : scores[i].taskId = taskId}) IN scores[last]

Shared(a, b) == SelectSeq(a, LAMBDA s : \E i \in DOMAIN b : b[i].taskId = s.taskId)

\* One observation per score of a on a task that b ran too.
PairedDifferences(a, b) ==
  [i \in DOMAIN Shared(a, b) |->
     [value |-> Shared(a, b)[i].value - ByTask(b, Shared(a, b)[i].taskId).value,
      cluster |-> Shared(a, b)[i].cluster]]

\* Seeded fault: only resamples at or below zero count against the difference.
BootstrapPValueOneTail(differences, resamples) ==
  LET Mean(r) == ResampleMean(differences, resamples[r])
      atOrBelow == Cardinality({r \in DOMAIN resamples : Mean(r)[1] <= 0})
      R == Len(resamples)
  IN  IF Cardinality(GroupByCluster(differences)) < 2 THEN R
      ELSE Min({R, Max({1, 2 * atOrBelow})})

\* The p-value, in resamples of Len(resamples).
BootstrapPValue(differences, resamples) ==
  LET Mean(r) == ResampleMean(differences, resamples[r])
      atOrBelow == Cardinality({r \in DOMAIN resamples : Mean(r)[1] <= 0})
      atOrAbove == Cardinality({r \in DOMAIN resamples : Mean(r)[1] >= 0})
      R == Len(resamples)
  IN  IF Cardinality(GroupByCluster(differences)) < 2 THEN R
      ELSE Min({R, Max({1, 2 * Min({atOrBelow, atOrAbove})})})

\* The difference is a sum over tasksCompared tasks; without a shared task all is 0.
PairedComparison(a, b, resamples, alpha) ==
  LET differences == PairedDifferences(a, b)
      interval == ClusterBootstrapInterval(differences, resamples, alpha)
  IN  IF differences = <<>>
      THEN [difference |-> 0, lower |-> <<0, 1>>, upper |-> <<0, 1>>,
            pValue |-> Len(resamples), tasksCompared |-> 0]
      ELSE [difference |-> SumOf(differences, DOMAIN differences),
            lower |-> interval.lower, upper |-> interval.upper,
            pValue |-> BootstrapPValue(differences, resamples),
            tasksCompared |-> Len(differences)]

\* The verdict on two models, given the square of the resolvable difference.
HeadToHead(comparison, mrdSquared, minimumTasks, resamples, alpha) ==
  LET tasks == comparison.tasksCompared
      gapSquared == <<comparison.difference ^ 2, tasks ^ 2>>
      significant == comparison.pValue * alpha[2] < alpha[1] * Len(resamples)
      resolvable == Less(mrdSquared, gapSquared)
  IN  IF tasks = 0 \/ tasks < minimumTasks
      THEN [relationship |-> "INSUFFICIENT_DATA", confidence |-> "LOW"]
      ELSE IF ~significant \/ ~resolvable
      THEN [relationship |-> "INDISTINGUISHABLE", confidence |-> "LOW"]
      ELSE [relationship |-> IF comparison.difference > 0 THEN "A_BETTER" ELSE "B_BETTER",
            confidence |-> IF Less(<<4 * mrdSquared[1], mrdSquared[2]>>, gapSquared)
                           THEN "HIGH" ELSE "MEDIUM"]

-----------------------------------------------------------------------------
(* A family of comparisons *)

\* Positions of the p-values, smallest first; equal ones in their own order.
Ascending(pValues) ==
  SetToSortSeq(DOMAIN pValues, LAMBDA i, j :
    pValues[i] < pValues[j] \/ (pValues[i] = pValues[j] /\ i < j))

\* Seeded fault: the correction starts from m - 1 comparisons.
HolmAdjustLoose(pValues, one) ==
  LET order == Ascending(pValues)
      Running[i \in 0..Len(pValues)] ==
        IF i = 0 THEN 0 ELSE Max({Running[i - 1], (Len(pValues) - i) * pValues[order[i]]})
  IN  [j \in DOMAIN pValues |->
         Min({one, Running[CHOOSE i \in DOMAIN order : order[i] = j]})]

\* Holm's step-down correction, in the caller's order; p-values are of one.
HolmAdjust(pValues, one) ==
  LET order == Ascending(pValues)
      Running[i \in 0..Len(pValues)] ==
        IF i = 0 THEN 0 ELSE Max({Running[i - 1], (Len(pValues) - i + 1) * pValues[order[i]]})
  IN  [j \in DOMAIN pValues |->
         Min({one, Running[CHOOSE i \in DOMAIN order : order[i] = j]})]

\* The pairs of 1..n, in the order the comparisons are made.
Pairs(n) == SetToSortSeq({p \in (1..n) \X (1..n) : p[1] < p[2]},
              LAMBDA x, y : x[1] < y[1] \/ (x[1] = y[1] /\ x[2] < y[2]))

\* Models 1..n by falling estimate: a model opens a tier when its comparison with
\* the tier's leader is significant.
Tiers(n, Significant) ==
  LET Join(tiers, model) ==
        IF Significant[<<Head(Last(tiers)), model>>] THEN Append(tiers, <<model>>)
        ELSE Append(Front(tiers), Append(Last(tiers), model))
  IN  IF n = 0 THEN <<>>
      ELSE FoldLeft(Join, <<<<1>>>>, [i \in 1..n - 1 |-> i + 1])

\* The ranking of models 1..n from the p-values of their comparisons.
RankModels(n, pValues, one, alpha) ==
  LET adjusted == HolmAdjust(pValues, one)
      Significant == [p \in Range(Pairs(n)) |->
        LET i == CHOOSE i \in DOMAIN Pairs(n) : Pairs(n)[i] = p
        IN  adjusted[i] * alpha[2] < alpha[1] * one]
  IN  [tiers |-> Tiers(n, Significant), significant |-> Significant]

-----------------------------------------------------------------------------
(* The composite score, in units of a base estimate's unit to the third *)

FactorNames == <<"contamination", "gaming", "verifier">>

\* What a factor multiplies by, in units.
Multiplier(name, value, unit) == IF name = "verifier" THEN value ELSE unit - value

\* The factors that were assessed, in order, and the multiplier each leaves.
CompositeScore(base, factors, unit, unassessed) ==
  LET assessed == SelectSeq(FactorNames, LAMBDA f : factors[f] # unassessed)
      After[i \in 0..Len(assessed)] ==
        IF i = 0 THEN 1 ELSE After[i - 1] * Multiplier(assessed[i], factors[assessed[i]], unit)
      scale == unit ^ Len(assessed)
      inflation == IF factors["verifier"] = unassessed THEN unit
                   ELSE 2 * unit - factors["verifier"]
      score == 2 * unit * base.estimate * After[Len(assessed)]
      halfWidth == (base.upper - base.lower) * After[Len(assessed)] * inflation
  IN  [applied |-> [i \in DOMAIN assessed |->
                      [factor |-> assessed[i],
                       effect |-> base.estimate * (After[i] - unit * After[i - 1])
                                    * unit ^ (Len(assessed) - i)]],
       omitted |-> {f \in Range(FactorNames) : factors[f] = unassessed},
       provisional |-> \E f \in Range(FactorNames) : factors[f] = unassessed,
       \* all three are over 2 * unit * unit * scale
       score |-> score, lower |-> Max({0, score - halfWidth}),
       upper |-> Min({2 * unit * unit * scale, score + halfWidth}),
       after |-> After[Len(assessed)], scale |-> scale]

-----------------------------------------------------------------------------
(* What comparisons promise *)

SameOrder(a, b) ==
  [i \in DOMAIN Shared(a, b) |-> Shared(a, b)[i].taskId] =
    [i \in DOMAIN Shared(b, a) |-> Shared(b, a)[i].taskId]

\* A model is called better only on enough shared tasks, by a gap the design can
\* resolve, with an interval that excludes zero; where significance is what is
\* missing, the interval includes zero, as the explanation says.  Exchanging two models
\* that list their shared tasks alike exchanges the verdict.
VerdictSupported(a, b, mrdSquared, minimumTasks, resamples, alpha) ==
  LET there == PairedComparison(a, b, resamples, alpha)
      back == PairedComparison(b, a, resamples, alpha)
      verdict == HeadToHead(there, mrdSquared, minimumTasks, resamples, alpha)
      reverse == HeadToHead(back, mrdSquared, minimumTasks, resamples, alpha)
      zero == <<0, 1>>
      mirrored == [A_BETTER |-> "B_BETTER", B_BETTER |-> "A_BETTER",
                   INDISTINGUISHABLE |-> "INDISTINGUISHABLE",
                   INSUFFICIENT_DATA |-> "INSUFFICIENT_DATA"]
  IN  /\ verdict.relationship \in {"A_BETTER", "B_BETTER"} =>
           /\ Less(zero, there.lower) \/ Less(there.upper, zero)
           /\ there.tasksCompared >= minimumTasks
           /\ Less(mrdSquared, <<there.difference ^ 2, there.tasksCompared ^ 2>>)
      /\ verdict.relationship = "INDISTINGUISHABLE" =>
           \/ AtMost(<<there.difference ^ 2, there.tasksCompared ^ 2>>, mrdSquared)
           \/ AtMost(there.lower, zero) /\ AtMost(zero, there.upper)
      /\ SameOrder(a, b) => /\ reverse.relationship = mirrored[verdict.relationship]
                             /\ reverse.confidence = verdict.confidence

\* A comparison is significant exactly when every family of comparisons it belongs to
\* holds one that Bonferroni's correction of that family rejects; the tiers hold every
\* model once in order, nobody shares a tier with a leader it differs from, and every
\* new tier opens with a model that differs from the leader above.
RankingSupported(n, pValues, one, alpha) ==
  LET ranking == RankModels(n, pValues, one, alpha)
      tiers == ranking.tiers
      Rejected(J) == \E j \in J : Cardinality(J) * pValues[j] * alpha[2] < alpha[1] * one
  IN  /\ \A i \in DOMAIN pValues :
           ranking.significant[Pairs(n)[i]] <=>
             \A J \in SUBSET DOMAIN pValues : i \in J => Rejected(J)
      /\ FlattenSeq(tiers) = [i \in 1..n |-> i]
      /\ \A t \in DOMAIN tiers :
           /\ \A i \in 2..Len(tiers[t]) : ~ranking.significant[<<tiers[t][1], tiers[t][i]>>]
           /\ t > 1 => ranking.significant[<<tiers[t - 1][1], tiers[t][1]>>]

\* "EVERY MULTIPLIER STAYS VISIBLE": the effects account for all of what separates the
\* score from its base; the interval holds the score and never claims more than the
\* base allows; a factor nobody assessed is listed, and makes the score provisional.
CompositeRecomputes(base, factors, unit, unassessed) ==
  LET composite == CompositeScore(base, factors, unit, unassessed)
      Effect(i) == composite.applied[i].effect
  IN  /\ base.estimate * composite.scale + MapThenSumSet(Effect, DOMAIN composite.applied)
           = base.estimate * composite.after
      /\ composite.lower <= composite.score /\ composite.score <= composite.upper
      /\ composite.score <= 2 * unit * base.estimate * composite.scale
      /\ composite.provisional <=> composite.omitted # {}
      /\ composite.omitted \union {composite.applied[i].factor : i \in DOMAIN composite.applied}
           = Range(FactorNames)

=============================================================================
