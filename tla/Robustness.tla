----------------------------- MODULE Robustness -----------------------------
(***************************************************************************)
(* The assessment of a grader: robustness/assess.ts with canaries.ts,      *)
(* perturbations.ts, fuzzer.ts and statistics.ts.                          *)
(*                                                                         *)
(* The grader answers as it likes, one action per probe: assessVerifier    *)
(* awaits each call before it makes the next, so a probe's calls are taken *)
(* together.  A task says which probes apply to it.  Means are fractions   *)
(* <<sum, count>>, rewards whole steps of one.                             *)
(***************************************************************************)
EXTENDS Integers, Sequences, FiniteSetsExt, Functions

CONSTANTS Options,   \* what an assessment is configured with
          Rewards,   \* a grader's or an oracle's answers
          FewTasks,  \* below this many tasks the sample is called small
          Nothing    \* null

IsList(s) == s \in Seq(Range(s))

\* Budgets and limits are whole numbers, and no canary or rewrite has the fuzzer's channel.
ASSUME OptionsAssumption ==
  \A o \in Options :
    /\ IsList(o.tasks) /\ IsList(o.canaries) /\ IsList(o.perturbations)
    /\ "fuzz" \notin Range(o.canaries) \union Range(o.perturbations)
    /\ o.maxGraderCalls \in Nat /\ o.repeats \in Int /\ o.determinismSamples \in Int
    /\ o.fuzz # Nothing => o.fuzz.maxGraderCallsPerTask \in Nat
ASSUME RewardsAssumption == Rewards \subseteq Int
ASSUME NothingAssumption == Nothing \notin [gap : Int]

VARIABLES options, step, graderCalls, budgetExhausted, nondeterministic, perTask,
          climb,     \* the fuzzer's own state for the task at hand
          seen       \* every gap the fuzzer measured on it

robustnessVars ==
  <<options, step, graderCalls, budgetExhausted, nondeterministic, perTask, climb, seen>>

-----------------------------------------------------------------------------
(* Answers *)

Sum(rewards) ==
  LET sum[n \in 0..Len(rewards)] == IF n = 0 THEN 0 ELSE sum[n - 1] + rewards[n]
  IN  sum[Len(rewards)]
Mean(rewards) == <<Sum(rewards), Len(rewards)>>
Varies(rewards) == \E i, j \in DOMAIN rewards : rewards[i] # rewards[j]
Exceeds(x, y) == x[1] * y[2] > y[1] * x[2]
Largest(gaps) == CHOOSE g \in gaps : \A other \in gaps : ~Exceeds(other, g)

Remaining == options.maxGraderCalls - graderCalls

\* The answers of up to n calls, as many as the budget allows; taking fewer says so.
Take(n, rewards) ==
  /\ rewards \in [1..Min({n, Remaining}) -> Rewards]
  /\ graderCalls' = graderCalls + Len(rewards)
  /\ budgetExhausted' = (budgetExhausted \/ Len(rewards) < n)

Repeats == Max({1, options.repeats})

-----------------------------------------------------------------------------
(* Findings *)

NotTested(channel) ==
  [channel |-> channel, status |-> "not-tested", gap |-> Nothing, repeats |-> 0]

CanaryFinding(channel, rewards) ==
  [channel |-> channel, gap |-> Mean(rewards), repeats |-> Len(rewards),
   status |-> IF Exceeds(Mean(rewards), options.rewardThreshold) THEN "open" ELSE "closed"]

PerturbationFinding(channel, before, after) ==
  [channel |-> channel, gap |-> Nothing, repeats |-> Len(after),
   status |-> IF Exceeds(Mean(before), Mean(after)) \/ Exceeds(Mean(after), Mean(before))
              THEN "open" ELSE "closed"]

\* Open only when an oracle measured the solve; a small best gap is no finding.
FuzzFinding(best) ==
  IF best = Nothing \/ ~Exceeds(<<best.gap, 1>>, options.rewardThreshold) THEN Nothing
  ELSE [channel |-> "fuzz", gap |-> <<best.gap, 1>>, repeats |-> 1,
        status |-> IF options.oracle THEN "open" ELSE "suspected"]

-----------------------------------------------------------------------------
(* The assessment; step says which probe of which task is next *)

Probing(probe, task, index) == [probe |-> probe, task |-> task, index |-> index, baseline |-> <<>>]

RobustnessInit ==
  /\ options \in Options
  /\ step = Probing("determinism", 1, 1)
  /\ graderCalls = 0 /\ budgetExhausted = FALSE /\ nondeterministic = FALSE
  /\ perTask = <<>> /\ climb = Nothing /\ seen = {}

Task == options.tasks[step.task]
ApplicableCanaries(task) == SelectSeq(options.canaries, LAMBDA c : c \in task.applies)
NewAssessment == [canaries |-> <<>>, perturbations |-> <<>>, fuzz |-> Nothing]

\* The task after the one at hand, or the report.
NextTask == IF step.task < Len(options.tasks) THEN Probing("canary", step.task + 1, 1)
            ELSE Probing("report", step.task, 1)

\* Repeated identical grades of one submission of the first task, if it has one.
ProbeDeterminism ==
  /\ step.probe = "determinism"
  /\ \E rewards \in UNION {[1..n -> Rewards] : n \in 0..options.determinismSamples} :
       LET first == options.tasks[1]
           probed == \/ first.reference
                     \/ options.canaries # <<>> /\ options.canaries[1] \in first.applies
       IN  IF options.tasks # <<>> /\ options.determinismSamples > 1 /\ probed
           THEN /\ Take(options.determinismSamples, rewards)
                /\ nondeterministic' = Varies(rewards)
           ELSE /\ rewards = <<>>
                /\ UNCHANGED <<graderCalls, budgetExhausted, nondeterministic>>
  /\ step' = IF options.tasks = <<>> THEN Probing("report", 1, 1) ELSE Probing("canary", 1, 1)
  /\ perTask' = IF options.tasks = <<>> THEN perTask ELSE <<NewAssessment>>
  /\ UNCHANGED <<options, climb, seen>>

ProbeCanary ==
  /\ step.probe = "canary"
  /\ step.index <= Len(options.canaries)
  /\ LET canary == options.canaries[step.index]
         Record(finding) == perTask' = [perTask EXCEPT ![step.task].canaries =
                                          Append(@, finding)]
     IN  IF canary \notin Task.applies
         THEN Record(NotTested(canary)) /\ UNCHANGED <<graderCalls, budgetExhausted>>
         ELSE \E rewards \in UNION {[1..n -> Rewards] : n \in 0..Repeats} :
                /\ Take(Repeats, rewards)
                /\ Record(IF rewards = <<>> THEN NotTested(canary)
                          ELSE CanaryFinding(canary, rewards))
  /\ step' = [step EXCEPT !.index = @ + 1]
  /\ UNCHANGED <<options, nondeterministic, climb, seen>>

\* The canaries are through: grade the reference, if the task has one.
ProbeBaseline ==
  /\ step.probe = "canary"
  /\ step.index > Len(options.canaries)
  /\ IF Task.reference
     THEN \E rewards \in UNION {[1..n -> Rewards] : n \in 0..Repeats} :
            /\ Take(Repeats, rewards)
            /\ step' = [Probing("rewrite", step.task, 1) EXCEPT !.baseline = rewards]
     ELSE /\ step' = Probing("rewrite", step.task, 1)
          /\ UNCHANGED <<graderCalls, budgetExhausted>>
  /\ UNCHANGED <<options, nondeterministic, perTask, climb, seen>>

ProbePerturbation ==
  /\ step.probe = "rewrite"
  /\ step.index <= Len(options.perturbations)
  /\ LET perturbation == options.perturbations[step.index]
         Record(finding) == perTask' = [perTask EXCEPT ![step.task].perturbations =
                                          Append(@, finding)]
     IN  IF step.baseline = <<>> \/ perturbation \notin Task.applies
         THEN Record(NotTested(perturbation)) /\ UNCHANGED <<graderCalls, budgetExhausted>>
         ELSE \E rewards \in UNION {[1..n -> Rewards] : n \in 0..Repeats} :
                /\ Take(Repeats, rewards)
                /\ Record(IF rewards = <<>> THEN NotTested(perturbation)
                          ELSE PerturbationFinding(perturbation, step.baseline, rewards))
  /\ step' = [step EXCEPT !.index = @ + 1]
  /\ UNCHANGED <<options, nondeterministic, climb, seen>>

-----------------------------------------------------------------------------
(* The fuzzer, which counts its calls itself *)

Seeds == ApplicableCanaries(Task)

\* After the perturbations: fuzz if there is a budget and a seed, else go on.
EnterFuzz ==
  /\ step.probe = "rewrite"
  /\ step.index > Len(options.perturbations)
  /\ IF options.fuzz # Nothing /\ Remaining > 0 /\ Seeds # <<>>
     THEN /\ step' = Probing("seed", step.task, 1)
          /\ climb' = [calls |-> 0, most |-> Min({options.fuzz.maxGraderCallsPerTask, Remaining}),
                       current |-> Nothing, best |-> Nothing, steps |-> 0]
          /\ UNCHANGED perTask
     ELSE /\ step' = NextTask
          /\ perTask' = IF NextTask.probe = "report" THEN perTask
                        ELSE Append(perTask, NewAssessment)
          /\ UNCHANGED climb
  /\ seen' = {}
  /\ UNCHANGED <<options, graderCalls, budgetExhausted, nondeterministic>>

\* A point: what was paid, less what the oracle says was solved.
Points == IF options.oracle
          THEN {[gap |-> reward - solve] : reward, solve \in Rewards}
          ELSE {[gap |-> reward] : reward \in Rewards}

\* Seeded fault: the last neighbour leads, whatever its gap.
WiderLast(leader, points) == IF points = <<>> THEN leader ELSE points[Len(points)]

\* The first of the points with the widest gap, after one that leads so far.
Wider(leader, points) ==
  LET Better(i) == \/ leader = Nothing
                   \/ points[i].gap > leader.gap
      top == {i \in DOMAIN points : Better(i) /\ \A j \in DOMAIN points :
                                      points[j].gap <= points[i].gap}
  IN  IF top = {} THEN leader ELSE points[Min(top)]

Scored(points) ==
  /\ graderCalls' = graderCalls + Len(points)
  /\ seen' = seen \union {points[i].gap : i \in DOMAIN points}

FuzzSeed ==
  /\ step.probe = "seed"
  /\ step.index <= Len(Seeds) /\ climb.calls < climb.most
  /\ \E point \in Points :
       /\ Scored(<<point>>)
       /\ climb' = [climb EXCEPT !.calls = @ + 1, !.current = point, !.steps = 0,
                                 !.best = Wider(@, <<point>>)]
  /\ step' = [step EXCEPT !.probe = "climb"]
  /\ UNCHANGED <<options, budgetExhausted, nondeterministic, perTask>>

\* One step up: the neighbours that some of the mutators make, as many as the budget
\* allows; it stops at a local maximum.
FuzzClimb ==
  /\ step.probe = "climb"
  /\ climb.steps < options.fuzz.maxStepsPerSeed /\ climb.calls < climb.most
  /\ \E made \in 0..options.fuzz.mutators :
       \E points \in [1..Min({made, climb.most - climb.calls}) -> Points] :
         LET neighbour == Wider(Nothing, points)
             stuck == neighbour = Nothing \/ neighbour.gap <= climb.current.gap
         IN  /\ Scored(points)
             /\ climb' = [climb EXCEPT !.calls = @ + Len(points), !.steps = @ + 1,
                                       !.best = Wider(@, points),
                                       !.current = IF stuck THEN @ ELSE neighbour]
             /\ step' = IF stuck THEN Probing("seed", step.task, step.index + 1) ELSE step
  /\ UNCHANGED <<options, budgetExhausted, nondeterministic, perTask>>

NextSeed ==
  /\ step.probe = "climb"
  /\ climb.steps = options.fuzz.maxStepsPerSeed \/ climb.calls = climb.most
  /\ step' = Probing("seed", step.task, step.index + 1)
  /\ UNCHANGED <<options, graderCalls, budgetExhausted, nondeterministic, perTask, climb, seen>>

LeaveFuzz ==
  /\ step.probe = "seed"
  /\ step.index > Len(Seeds) \/ climb.calls = climb.most
  /\ LET judged == [perTask EXCEPT ![step.task].fuzz = FuzzFinding(climb.best)]
     IN  perTask' = IF NextTask.probe = "report" THEN judged ELSE Append(judged, NewAssessment)
  /\ step' = NextTask
  /\ climb' = Nothing /\ seen' = {}
  /\ UNCHANGED <<options, graderCalls, budgetExhausted, nondeterministic>>

RobustnessNext ==
  \/ ProbeDeterminism
  \/ ProbeCanary
  \/ ProbeBaseline
  \/ ProbePerturbation
  \/ EnterFuzz
  \/ FuzzSeed
  \/ FuzzClimb
  \/ NextSeed
  \/ LeaveFuzz

RobustnessSpec == RobustnessInit /\ [][RobustnessNext]_robustnessVars

-----------------------------------------------------------------------------
(* The report *)

Fuzzed(task) == IF task.fuzz = Nothing THEN <<>> ELSE <<task.fuzz>>
AllFindings(task) == Range(task.canaries \o task.perturbations \o Fuzzed(task))

\* A suspected fuzz gap counts with the confirmed ones.
Gaps(task) ==
  {f.gap : f \in {g \in Range(task.canaries \o Fuzzed(task)) :
                    g.gap # Nothing /\ g.gap[1] > 0}}
WorstGap(task) == IF Gaps(task) = {} THEN Nothing ELSE Largest(Gaps(task))
OpenChannels(task) ==
  {f.channel : f \in {g \in Range(task.canaries \o Fuzzed(task)) : g.status = "open"}}

MeasuredGaps == {WorstGap(perTask[t]) : t \in DOMAIN perTask} \ {Nothing}
ExploitableGap == IF MeasuredGaps = {} THEN <<0, 1>> ELSE Largest(MeasuredGaps)

Gameability == Cardinality({t \in DOMAIN perTask : OpenChannels(perTask[t]) # {}})
PerturbationTested ==
  {t \in DOMAIN perTask : \E f \in Range(perTask[t].perturbations) : f.status # "not-tested"}

ExploitableGapBasis ==
  IF \E t \in DOMAIN perTask : "fuzz" \in OpenChannels(perTask[t]) THEN "measured-with-oracle"
  ELSE IF \E t \in DOMAIN perTask : OpenChannels(perTask[t]) # {} THEN "canary-construction"
  ELSE "not-established"

Untested ==
  {f.channel : f \in {g \in UNION {AllFindings(perTask[t]) : t \in DOMAIN perTask} :
                        g.status = "not-tested"}}

Limitations ==
  LET named == {l \in {"no oracle", "no perturbation", "no fuzzing", "budget",
                       "nondeterministic", "few tasks", "untested"} :
                  \/ l = "no oracle" /\ ~options.oracle
                  \/ l = "no perturbation" /\ PerturbationTested = {}
                  \/ l = "no fuzzing" /\ options.fuzz = Nothing
                  \/ l = "budget" /\ budgetExhausted
                  \/ l = "nondeterministic" /\ nondeterministic
                  \/ l = "few tasks" /\ Len(options.tasks) < FewTasks
                  \/ l = "untested" /\ Untested # {}}
  IN  IF named = {} THEN {"every probe ran"} ELSE named

-----------------------------------------------------------------------------
(* What an assessment promises *)

\* The assessment never spends more calls than it was given, and the fuzzer leads with
\* the widest gap it measured.  In the report every probe of every task has a finding;
\* one that was closed was graded, and one graded fewer times than asked, or not at
\* all, is owned up to; nothing is called open by fuzzing without an oracle; and the
\* gap is no narrower than what any canary was paid on any task.
AssessmentHonest ==
  /\ graderCalls <= options.maxGraderCalls
  /\ climb # Nothing /\ seen # {} => climb.best.gap = Max(seen)
  /\ step.probe = "report" =>
       /\ \A t \in DOMAIN options.tasks :
            /\ [i \in DOMAIN perTask[t].canaries |-> perTask[t].canaries[i].channel]
                 = options.canaries
            /\ [i \in DOMAIN perTask[t].perturbations |-> perTask[t].perturbations[i].channel]
                 = options.perturbations
            /\ \A f \in AllFindings(perTask[t]) :
                 /\ f.status = "closed" => f.repeats > 0
                 /\ (f.channel # "fuzz" /\ f.repeats < Repeats) =>
                      Limitations \intersect {"budget", "untested"} # {}
                 /\ f.channel = "fuzz" /\ f.status = "open" => options.oracle
            /\ \A f \in Range(perTask[t].canaries) :
                 f.gap # Nothing => ~Exceeds(f.gap, ExploitableGap)
       /\ Limitations = {"every probe ran"} =>
            \A t \in DOMAIN perTask : \A f \in AllFindings(perTask[t]) : f.status # "not-tested"
       /\ ExploitableGapBasis = "not-established" <=> Gameability = 0

=============================================================================
