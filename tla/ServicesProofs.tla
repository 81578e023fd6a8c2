--------------------------- MODULE ServicesProofs ---------------------------
(***************************************************************************)
(* The policy gate, the keys and credentials, the calls of a provider, the *)
(* signing keys, the assessment of graders and the pages of a list keep    *)
(* what they promise, for any number of calls, requests, keys, downloads,  *)
(* tasks and rows.                                                         *)
(***************************************************************************)
EXTENDS Gate, Credentials, Providers, Pages, Robustness, Selection, SequenceTheorems,
        FiniteSetTheorems, TLAPS

-----------------------------------------------------------------------------
(* The gate *)

Questions == {"budget", "egress", "approval"}

Decision ==
  [rule: Questions, evaluated: BOOLEAN, value: BOOLEAN, digest: {"unloaded", "bundle"}]

Continuation ==
  [at: Questions \union {"done"},
   outcome: {"none", "allow", "deny", "require_approval", "terminate_run"},
   rule: Questions \union {"none"}]

GateRecord ==
  [at: Questions \union {"done"}, ctx: Contexts, strict: BOOLEAN, decisions: Seq(Decision),
   outcome: {"none", "allow", "deny", "require_approval", "terminate_run"},
   rule: Questions \union {"none"}]

IdleGate == [at |-> "idle"]

\* What the rule says of the call, and what is taken for it when it gives nothing.
Says(rule, ctx) ==
  CASE rule = "budget"   -> DenyBudget(ctx)
    [] rule = "egress"   -> AllowEgress(ctx)
    [] rule = "approval" -> RequireApproval(ctx)
SafeValue(rule, strict) == IF rule = "egress" THEN ~strict ELSE strict

\* A decision is the rule's own or the safe one, under the bundle that is loaded.
Sound(made, ctx, strict) ==
  /\ made.digest = digest
  /\ made.evaluated => (made.value <=> Says(made.rule, ctx))
  /\ ~made.evaluated => (made.value <=> SafeValue(made.rule, strict))

\* The rule let the call pass.
Passed(made) == made.value <=> made.rule = "egress"

\* A call has asked, and passed, the rules before the one it is at.
CallInv(g) ==
  /\ gates[g].decisions # <<>> => Loaded
  /\ \A i \in 1..Len(gates[g].decisions) :
       /\ Sound(gates[g].decisions[i], gates[g].ctx, gates[g].strict)
       /\ gates[g].at # "done" => Passed(gates[g].decisions[i])
  /\ gates[g].at = "egress" => AskEgress(gates[g].ctx)
  /\ gates[g].at \in {"egress", "approval"} /\ AskBudget(gates[g].ctx) => Asked(g, "budget")
  /\ gates[g].at = "approval" /\ AskEgress(gates[g].ctx) => Asked(g, "egress")
  /\ gates[g].at = "done" => FailsClosed(g)

GateTyped ==
  /\ bundle \in {"unloaded", "loading", "loaded", "failed"}
  /\ digest \in {"unloaded", "bundle"}
  /\ gates \in [GateCalls -> GateRecord \union {IdleGate}]

GateInv ==
  /\ GateTyped
  /\ \A g \in GateCalls : gates[g].at # "idle" => CallInv(g)

\* What asking one rule does to the call that asks it, and to no other.
LEMMA DecidedCall ==
  ASSUME GateTyped, NEW g \in GateCalls, gates[g].at # "idle",
         NEW rule \in Questions,
         NEW decision \in [result: BOOLEAN, evaluated: BOOLEAN],
         NEW next \in Continuation,
         Decided(g, rule, decision, next)
  PROVE  /\ gates' \in [GateCalls -> GateRecord \union {IdleGate}]
         /\ \A h \in GateCalls : h # g => gates'[h] = gates[h]
         /\ gates'[g] \in GateRecord
         /\ gates'[g].at = next.at /\ gates'[g].outcome = next.outcome
         /\ gates'[g].rule = next.rule
         /\ gates'[g].ctx = gates[g].ctx /\ gates'[g].strict = gates[g].strict
         /\ gates'[g].decisions =
              Append(gates[g].decisions, [rule |-> rule, evaluated |-> decision.evaluated,
                                          value |-> decision.result, digest |-> digest])
<1> DEFINE made == [rule |-> rule, evaluated |-> decision.evaluated,
                    value |-> decision.result, digest |-> digest]
           after == [at |-> next.at, ctx |-> gates[g].ctx, strict |-> gates[g].strict,
                     decisions |-> Append(gates[g].decisions, made),
                     outcome |-> next.outcome, rule |-> next.rule]
<1>1. made \in Decision
  BY DEF Decision, GateTyped
<1>2. gates[g] \in GateRecord
  BY DEF GateTyped, IdleGate
<1>3. Append(gates[g].decisions, made) \in Seq(Decision)
  BY <1>1, <1>2, AppendProperties DEF GateRecord
<1>4. gates' = [gates EXCEPT ![g] = after]
  BY <1>2 DEF Decided, GateRecord, GateTyped
<1>5. after \in GateRecord
  BY <1>2, <1>3 DEF GateRecord, Continuation
<1> QED
  BY <1>4, <1>5 DEF GateTyped

\* A decision is the value of the rule, or the direction in which it is safe.
LEMMA DecisionMade ==
  ASSUME NEW value \in BOOLEAN, NEW safe \in BOOLEAN, NEW answer \in Evaluate(value)
  PROVE  /\ DecideBoolean(answer, safe) \in [result: BOOLEAN, evaluated: BOOLEAN]
         /\ DecideBoolean(answer, safe).evaluated => (DecideBoolean(answer, safe).result <=> value)
         /\ ~DecideBoolean(answer, safe).evaluated => (DecideBoolean(answer, safe).result <=> safe)
<1>1. CASE answer = Boolean(value)
  <2>1. DecideBoolean(answer, safe) = [result |-> value, evaluated |-> TRUE]
    BY <1>1 DEF Boolean, DecideBoolean
  <2> QED
    BY <2>1
<1>2. CASE answer \in {NotBoolean, Unavailable}
  <2>1. DecideBoolean(answer, safe) = [result |-> safe, evaluated |-> FALSE]
    BY <1>2 DEF NotBoolean, Unavailable, DecideBoolean
  <2> QED
    BY <2>1
<1> QED
  BY <1>1, <1>2 DEF Evaluate

\* One more decision: those before it stay, and it is the last.
LEMMA OneMore ==
  ASSUME NEW s \in Seq(Decision), NEW d \in Decision
  PROVE  /\ Append(s, d) # <<>>
         /\ 1 \in 1..Len(Append(s, d))
         /\ DOMAIN Append(s, d) = 1..Len(Append(s, d))
         /\ \A i \in 1..Len(s) : i \in 1..Len(Append(s, d)) /\ Append(s, d)[i] = s[i]
         /\ \A i \in 1..Len(Append(s, d)) : i \in 1..Len(s) \/ Append(s, d)[i] = d
         /\ Len(Append(s, d)) \in 1..Len(Append(s, d)) /\ Append(s, d)[Len(Append(s, d))] = d
BY AppendProperties, LenProperties

\* A call that is not stepped keeps what holds of it, while the bundle behind its
\* decisions stays.
LEMMA CallFrame ==
  ASSUME GateTyped, NEW g \in GateCalls, gates[g].at # "idle", CallInv(g), gates'[g] = gates[g],
         gates[g].decisions # <<>> => Loaded' /\ digest' = digest
  PROVE  CallInv(g)'
<1>1. gates[g].decisions \in Seq(Decision)
  BY DEF GateTyped, GateRecord, IdleGate
<1>2. \A i \in 1..Len(gates[g].decisions) : gates[g].decisions # <<>>
  BY <1>1
<1>3. FailsClosed(g)' = FailsClosed(g) /\ \A r \in Questions : Asked(g, r)' = Asked(g, r)
  BY DEF FailsClosed, AuditPayload, Asked
<1> QED
  BY <1>2, <1>3 DEF CallInv, Sound, Passed, Questions

\* What the rules passed so far say of the call.
LEMMA BudgetCleared ==
  ASSUME GateTyped, NEW g \in GateCalls, CallInv(g), gates[g].at \in {"egress", "approval"},
         \A i \in 1..Len(gates[g].decisions) : gates[g].decisions[i].evaluated
  PROVE  ~DenyBudget(gates[g].ctx)
<1>1. gates[g].decisions \in Seq(Decision)
  BY DEF GateTyped, GateRecord, IdleGate
<1>2. CASE AskBudget(gates[g].ctx)
  <2>1. PICK i \in 1..Len(gates[g].decisions) : gates[g].decisions[i].rule = "budget"
    BY <1>1, <1>2 DEF CallInv, Asked
  <2> QED
    BY <2>1 DEF CallInv, Sound, Passed, Says
<1> QED
  BY <1>2 DEF AskBudget, DenyBudget

\* The same of the egress rule.
LEMMA EgressCleared ==
  ASSUME GateTyped, NEW g \in GateCalls, CallInv(g), gates[g].at = "approval",
         \A i \in 1..Len(gates[g].decisions) : gates[g].decisions[i].evaluated,
         AskEgress(gates[g].ctx)
  PROVE  AllowEgress(gates[g].ctx)
<1>1. gates[g].decisions \in Seq(Decision)
  BY DEF GateTyped, GateRecord, IdleGate
<1>2. PICK i \in 1..Len(gates[g].decisions) : gates[g].decisions[i].rule = "egress"
  BY <1>1 DEF CallInv, Asked
<1> QED
  BY <1>2 DEF CallInv, Sound, Passed, Says

\* A strict gate passes no rule that gave nothing.
LEMMA StrictCleared ==
  ASSUME NEW g \in GateCalls, CallInv(g), gates[g].at # "done", gates[g].strict
  PROVE  \A i \in 1..Len(gates[g].decisions) : gates[g].decisions[i].evaluated
BY DEF CallInv, Sound, Passed, SafeValue

\* A rule is asked of a call: what then holds of the decisions made.
LEMMA QuestionAsked ==
  ASSUME GateInv, NEW g \in GateCalls, gates[g].at \in Questions, Loaded,
         NEW rule \in Questions, NEW decision \in [result: BOOLEAN, evaluated: BOOLEAN],
         decision.evaluated => (decision.result <=> Says(rule, gates[g].ctx)),
         ~decision.evaluated => (decision.result <=> SafeValue(rule, gates[g].strict)),
         NEW next \in Continuation,
         Decided(g, rule, decision, next), UNCHANGED <<bundle, digest>>
  PROVE  /\ GateTyped'
         /\ \A h \in GateCalls : h # g /\ gates'[h].at # "idle" => CallInv(h)'
         /\ gates'[g].at = next.at /\ gates'[g].outcome = next.outcome
         /\ gates'[g].ctx = gates[g].ctx /\ gates'[g].strict = gates[g].strict
         /\ DOMAIN gates'[g].decisions = 1..Len(gates'[g].decisions)
         /\ Loaded'
         /\ gates'[g].decisions # <<>>
         /\ 1 \in 1..Len(gates'[g].decisions)
         /\ \A i \in 1..Len(gates'[g].decisions) :
              /\ Sound(gates'[g].decisions[i], gates[g].ctx, gates[g].strict)
              /\ (decision.result <=> rule = "egress") => Passed(gates'[g].decisions[i])
         /\ \A r \in Questions : Asked(g, r) \/ r = rule => Asked(g, r)'
         /\ (\A i \in 1..Len(gates'[g].decisions) : gates'[g].decisions[i].evaluated)
              <=> /\ decision.evaluated
                  /\ \A i \in 1..Len(gates[g].decisions) : gates[g].decisions[i].evaluated
<1> DEFINE made == [rule |-> rule, evaluated |-> decision.evaluated,
                    value |-> decision.result, digest |-> digest]
<1>1. /\ CallInv(g) /\ GateTyped /\ gates[g].at # "idle" /\ gates[g].at # "done"
      /\ gates[g].decisions \in Seq(Decision)
      /\ DOMAIN gates[g].decisions = 1..Len(gates[g].decisions)
      /\ made \in Decision
  BY DEF GateInv, GateTyped, GateRecord, IdleGate, Questions, Decision
<1>2. /\ gates' \in [GateCalls -> GateRecord \union {IdleGate}]
      /\ \A h \in GateCalls : h # g => gates'[h] = gates[h]
      /\ gates'[g].at = next.at /\ gates'[g].outcome = next.outcome
      /\ gates'[g].ctx = gates[g].ctx /\ gates'[g].strict = gates[g].strict
      /\ gates'[g].decisions = Append(gates[g].decisions, made)
  BY <1>1, DecidedCall
<1>3. GateTyped'
  BY <1>1, <1>2 DEF GateTyped
<1>4. \A h \in GateCalls : h # g /\ gates'[h].at # "idle" => CallInv(h)'
  BY <1>1, <1>2, CallFrame DEF GateInv, Loaded
<1>5. Loaded'
  BY DEF Loaded
<1>6. /\ Sound(made, gates[g].ctx, gates[g].strict)
      /\ (decision.result <=> rule = "egress") => Passed(made)
  BY DEF Sound, Passed
<1>7. \A i \in 1..Len(gates[g].decisions) :
        /\ Sound(gates[g].decisions[i], gates[g].ctx, gates[g].strict)
        /\ Passed(gates[g].decisions[i])
  BY <1>1 DEF CallInv
<1> DEFINE decisions == gates'[g].decisions
<1>8. /\ decisions # <<>> /\ 1 \in 1..Len(decisions)
      /\ DOMAIN decisions = 1..Len(decisions)
      /\ \A i \in 1..Len(gates[g].decisions) :
           i \in 1..Len(decisions) /\ decisions[i] = gates[g].decisions[i]
      /\ \A i \in 1..Len(decisions) :
           i \in 1..Len(gates[g].decisions) \/ decisions[i] = made
      /\ Len(decisions) \in 1..Len(decisions) /\ decisions[Len(decisions)] = made
  BY <1>1, <1>2, OneMore
<1>9. \A i \in 1..Len(decisions) :
        /\ Sound(decisions[i], gates[g].ctx, gates[g].strict)
        /\ (decision.result <=> rule = "egress") => Passed(decisions[i])
  BY <1>6, <1>7, <1>8
<1>10. \A r \in Questions : Asked(g, r) \/ r = rule => Asked(g, r)'
  BY <1>1, <1>8 DEF Asked
<1>11. (\A i \in 1..Len(decisions) : decisions[i].evaluated)
         <=> /\ decision.evaluated
             /\ \A i \in 1..Len(gates[g].decisions) : gates[g].decisions[i].evaluated
  <2>1. made.evaluated <=> decision.evaluated
    OBVIOUS
  <2> HIDE DEF made, decisions
  <2>2. ASSUME NEW i \in 1..Len(gates[g].decisions),
               \A j \in 1..Len(decisions) : decisions[j].evaluated
        PROVE  gates[g].decisions[i].evaluated
    BY <1>8, <2>2, Zenon
  <2>3. (\A j \in 1..Len(decisions) : decisions[j].evaluated) => made.evaluated
    BY <1>8, Zenon
  <2>4. ASSUME made.evaluated, \A i \in 1..Len(gates[g].decisions) : gates[g].decisions[i].evaluated,
               NEW j \in 1..Len(decisions)
        PROVE  decisions[j].evaluated
    BY <1>8, <2>4, Zenon
  <2> QED
    BY <2>1, <2>2, <2>3, <2>4, Zenon
<1> QED
  BY <1>2, <1>3, <1>4, <1>5, <1>8, <1>9, <1>10, <1>11

\* A call whose last rule gave it an outcome.
LEMMA OutcomeHolds ==
  ASSUME NEW g \in GateCalls, NEW ctx, gates'[g].ctx = ctx, gates'[g].at = "done",
         gates'[g].decisions # <<>>,
         DOMAIN gates'[g].decisions = 1..Len(gates'[g].decisions),
         1 \in 1..Len(gates'[g].decisions),
         \A i \in 1..Len(gates'[g].decisions) :
           Sound(gates'[g].decisions[i], ctx, gates'[g].strict),
         Loaded', digest' = digest,
         LET evaluated == \A i \in 1..Len(gates'[g].decisions) : gates'[g].decisions[i].evaluated
             answered == gates'[g].outcome
         IN  /\ evaluated => answered = Verdict(ctx)
             /\ ~evaluated /\ gates'[g].strict => answered # "allow"
             /\ ctx.action \in KnownDestructive => answered # "allow"
             /\ answered \in {"allow", "require_approval"} =>
                  (AskBudget(ctx) => Asked(g, "budget")') /\ (AskEgress(ctx) => Asked(g, "egress")')
  PROVE  CallInv(g)'
<1>1. /\ AuditPayload(g)'.outcome = gates'[g].outcome
      /\ AuditPayload(g)'.evaluations = gates'[g].decisions
      /\ AuditPayload(g)'.policyBundle = gates'[g].decisions[1].digest
  BY DEF AuditPayload
<1>2. \A i \in 1..Len(gates'[g].decisions) : gates'[g].decisions[i].digest = digest
  BY DEF Sound
<1>3. FailsClosed(g)'
  BY <1>1, <1>2 DEF FailsClosed
<1> QED
  BY <1>3 DEF CallInv, Sound

\* The budget rule is asked: every call keeps what holds of it.
LEMMA BudgetStep == ASSUME GateInv, NEW g \in GateCalls, GateBudget(g) PROVE GateInv'
<1> DEFINE ctx == gates[g].ctx
<1>1. PICK answer \in Evaluate(DenyBudget(gates[g].ctx)) :
        LET decision == DecideBoolean(answer, gates[g].strict)
        IN  Decided(g, "budget", decision,
              IF decision.result THEN Outcome("terminate_run", "budget")
              ELSE IF AskEgress(gates[g].ctx) THEN Ask("egress") ELSE Ask("approval"))
  BY DEF GateBudget
<1> DEFINE decision == DecideBoolean(answer, gates[g].strict)
           next == IF decision.result THEN Outcome("terminate_run", "budget")
                   ELSE IF AskEgress(gates[g].ctx) THEN Ask("egress") ELSE Ask("approval")
<1>2. /\ gates[g].at = "budget" /\ Loaded /\ CallInv(g) /\ GateTyped
      /\ gates[g].strict \in BOOLEAN /\ DenyBudget(gates[g].ctx) \in BOOLEAN
  BY DEF GateBudget, GateInv, GateTyped, GateRecord, IdleGate, DenyBudget
<1>3. /\ decision \in [result: BOOLEAN, evaluated: BOOLEAN]
      /\ decision.evaluated => (decision.result <=> Says("budget", gates[g].ctx))
      /\ ~decision.evaluated => (decision.result <=> SafeValue("budget", gates[g].strict))
  BY <1>2, DecisionMade DEF Says, SafeValue
<1>4. next \in Continuation /\ Decided(g, "budget", decision, next)
  BY <1>1 DEF Outcome, Ask, Continuation, Questions
<1>5. /\ decision.result => next = Outcome("terminate_run", "budget")
      /\ ~decision.result =>
           next = IF AskEgress(gates[g].ctx) THEN Ask("egress") ELSE Ask("approval")
  OBVIOUS
<1> HIDE DEF decision, next
<1>6. gates[g].at \in Questions /\ "budget" \in Questions /\ UNCHANGED <<bundle, digest>>
  BY <1>2 DEF Questions, GateBudget
<1>7. CASE decision.result
  <2>1. Says("budget", ctx) <=> DenyBudget(ctx)
    BY DEF Says
  <2>2. /\ gates'[g].at = "done" /\ gates'[g].outcome = "terminate_run"
        /\ decision.evaluated => Verdict(ctx) = "terminate_run"
    BY <1>2, <1>3, <1>4, <1>5, <1>6, <1>7, <2>1, QuestionAsked DEF Outcome, Verdict
  <2>3. CallInv(g)'
    BY <1>2, <1>3, <1>4, <1>6, <2>2, QuestionAsked, OutcomeHolds
  <2> QED
    BY <1>2, <1>3, <1>4, <1>6, <2>3, QuestionAsked DEF GateInv
<1>8. CASE ~decision.result
  <2>1. /\ gates'[g].at \in {"egress", "approval"}
        /\ gates'[g].at = "egress" <=> AskEgress(ctx)
        /\ gates'[g].ctx = ctx /\ gates'[g].strict = gates[g].strict
        /\ \A i \in 1..Len(gates'[g].decisions) :
             /\ Sound(gates'[g].decisions[i], ctx, gates[g].strict)
             /\ Passed(gates'[g].decisions[i])
        /\ Asked(g, "budget")' /\ Loaded'
    BY <1>2, <1>3, <1>4, <1>5, <1>6, <1>8, QuestionAsked DEF Ask
  <2>2. CallInv(g)'
    BY <1>6, <2>1 DEF CallInv, Sound, Passed
  <2> QED
    BY <1>2, <1>3, <1>4, <1>6, <2>2, QuestionAsked DEF GateInv
<1> QED
  BY <1>3, <1>7, <1>8

\* The egress rule is asked, or passed over.
LEMMA EgressStep == ASSUME GateInv, NEW g \in GateCalls, GateEgress(g) PROVE GateInv'
<1> DEFINE ctx == gates[g].ctx
           evaluated == \A i \in 1..Len(gates[g].decisions) : gates[g].decisions[i].evaluated
<1>1. PICK answer \in Evaluate(AllowEgress(gates[g].ctx)) :
        LET decision == DecideBoolean(answer, ~gates[g].strict)
        IN  Decided(g, "egress", decision,
              IF decision.result THEN Ask("approval") ELSE Outcome("deny", "egress"))
  BY DEF GateEgress
<1> DEFINE decision == DecideBoolean(answer, ~gates[g].strict)
           next == IF decision.result THEN Ask("approval") ELSE Outcome("deny", "egress")
<1>2. /\ gates[g].at = "egress" /\ Loaded /\ CallInv(g) /\ GateTyped
      /\ gates[g].strict \in BOOLEAN /\ AllowEgress(gates[g].ctx) \in BOOLEAN
  BY DEF GateEgress, GateInv, GateTyped, GateRecord, IdleGate, AllowEgress
<1>3. /\ decision \in [result: BOOLEAN, evaluated: BOOLEAN]
      /\ decision.evaluated => (decision.result <=> Says("egress", gates[g].ctx))
      /\ ~decision.evaluated => (decision.result <=> SafeValue("egress", gates[g].strict))
  BY <1>2, DecisionMade DEF Says, SafeValue
<1>4. next \in Continuation /\ Decided(g, "egress", decision, next)
  BY <1>1 DEF Outcome, Ask, Continuation, Questions
<1>5. /\ decision.result => next = Ask("approval")
      /\ ~decision.result => next = Outcome("deny", "egress")
  OBVIOUS
<1> HIDE DEF decision, next
<1>6. gates[g].at \in Questions /\ "egress" \in Questions /\ UNCHANGED <<bundle, digest>>
  BY <1>2 DEF Questions, GateEgress
<1>7. CASE ~decision.result
  <2>1. Says("egress", ctx) <=> AllowEgress(ctx)
    BY DEF Says
  <2>2. AskEgress(ctx) /\ (evaluated => ~DenyBudget(ctx))
    BY <1>2, BudgetCleared DEF CallInv
  <2>3. /\ gates'[g].at = "done" /\ gates'[g].outcome = "deny"
        /\ decision.evaluated /\ evaluated => Verdict(ctx) = "deny"
    BY <1>2, <1>3, <1>4, <1>5, <1>6, <1>7, <2>1, <2>2, QuestionAsked DEF Outcome, Verdict
  <2>4. CallInv(g)'
    BY <1>2, <1>3, <1>4, <1>6, <2>3, QuestionAsked, OutcomeHolds
  <2> QED
    BY <1>2, <1>3, <1>4, <1>6, <2>4, QuestionAsked DEF GateInv
<1>8. CASE decision.result
  <2>1. /\ gates'[g].at = "approval"
        /\ gates'[g].ctx = ctx /\ gates'[g].strict = gates[g].strict
        /\ \A i \in 1..Len(gates'[g].decisions) :
             /\ Sound(gates'[g].decisions[i], ctx, gates[g].strict)
             /\ Passed(gates'[g].decisions[i])
        /\ AskBudget(ctx) => Asked(g, "budget")'
        /\ Asked(g, "egress")' /\ Loaded'
    BY <1>2, <1>3, <1>4, <1>5, <1>6, <1>8, QuestionAsked DEF Ask, CallInv, Questions
  <2>2. CallInv(g)'
    BY <1>6, <2>1 DEF CallInv, Sound, Passed
  <2> QED
    BY <1>2, <1>3, <1>4, <1>6, <2>2, QuestionAsked DEF GateInv
<1> QED
  BY <1>3, <1>7, <1>8

\* The approval rule is asked, which ends the call.
LEMMA ApprovalStep == ASSUME GateInv, NEW g \in GateCalls, GateApproval(g) PROVE GateInv'
<1> DEFINE ctx == gates[g].ctx
           evaluated == \A i \in 1..Len(gates[g].decisions) : gates[g].decisions[i].evaluated
           Referred(result) == result \/ ctx.action \in KnownDestructive
<1>1. PICK answer \in Evaluate(RequireApproval(gates[g].ctx)) :
        LET decision == DecideBoolean(answer, gates[g].strict)
        IN  Decided(g, "approval", decision,
              IF decision.result \/ gates[g].ctx.action \in KnownDestructive
              THEN Outcome("require_approval", "approval") ELSE Outcome("allow", "none"))
  BY DEF GateApproval
<1> DEFINE decision == DecideBoolean(answer, gates[g].strict)
           next == IF Referred(decision.result)
                   THEN Outcome("require_approval", "approval") ELSE Outcome("allow", "none")
<1>2. /\ gates[g].at = "approval" /\ Loaded /\ CallInv(g) /\ GateTyped
      /\ gates[g].strict \in BOOLEAN /\ RequireApproval(gates[g].ctx) \in BOOLEAN
  BY DEF GateApproval, GateInv, GateTyped, GateRecord, IdleGate, RequireApproval
<1>3. /\ decision \in [result: BOOLEAN, evaluated: BOOLEAN]
      /\ decision.evaluated => (decision.result <=> Says("approval", gates[g].ctx))
      /\ ~decision.evaluated => (decision.result <=> SafeValue("approval", gates[g].strict))
  BY <1>2, DecisionMade DEF Says, SafeValue
<1>4. next \in Continuation /\ Decided(g, "approval", decision, next)
  BY <1>1 DEF Outcome, Continuation, Questions
<1>5. /\ Referred(decision.result) => next = Outcome("require_approval", "approval")
      /\ ~Referred(decision.result) => next = Outcome("allow", "none")
  OBVIOUS
<1> HIDE DEF decision, next
<1>6. gates[g].at \in Questions /\ "approval" \in Questions /\ UNCHANGED <<bundle, digest>>
  BY <1>2 DEF Questions, GateApproval
<1>7. /\ evaluated => ~DenyBudget(ctx)
      /\ evaluated /\ AskEgress(ctx) => AllowEgress(ctx)
      /\ gates[g].strict => evaluated
  BY <1>2, BudgetCleared, EgressCleared, StrictCleared
<1>8. /\ AskBudget(ctx) => Asked(g, "budget")'
      /\ AskEgress(ctx) => Asked(g, "egress")'
  BY <1>2, <1>3, <1>4, <1>6, QuestionAsked DEF CallInv, Questions
<1>9. /\ gates'[g].at = "done"
      /\ gates'[g].outcome = IF Referred(decision.result) THEN "require_approval" ELSE "allow"
  BY <1>2, <1>3, <1>4, <1>5, <1>6, QuestionAsked DEF Outcome
<1>10. evaluated /\ decision.evaluated => gates'[g].outcome = Verdict(ctx)
  <2>1. Says("approval", ctx) <=> RequireApproval(ctx)
    BY DEF Says
  <2> QED
    BY <1>3, <1>7, <1>9, <2>1 DEF Verdict
<1>11. gates[g].strict /\ ~decision.evaluated => gates'[g].outcome # "allow"
  BY <1>3, <1>9 DEF SafeValue
<1>12. CallInv(g)'
  BY <1>2, <1>3, <1>4, <1>6, <1>7, <1>8, <1>9, <1>10, <1>11, QuestionAsked, OutcomeHolds
<1> QED
  BY <1>2, <1>3, <1>4, <1>6, <1>12, QuestionAsked DEF GateInv

\* Before the bundle is loaded no call has asked anything.
LEMMA GateInitially == GateInit => GateInv
BY DEF GateInit, GateInv, GateTyped, IdleGate

\* No call, load or failed load undoes what holds of a call.
LEMMA GateStepKeeps == GateInv /\ [GateNext]_gateVars => GateInv'
<1> SUFFICES ASSUME GateInv, [GateNext]_gateVars PROVE GateInv'
  OBVIOUS
<1>1. CASE UNCHANGED gateVars
  <2>1. \A g \in GateCalls : gates[g].at # "idle" => CallInv(g)'
    BY <1>1, CallFrame DEF GateInv, gateVars, CallInv, Loaded
  <2> QED
    BY <1>1, <2>1 DEF GateInv, GateTyped, gateVars
<1>2. CASE Preload \/ LoadEnds
  <2>1. /\ GateTyped' /\ UNCHANGED gates
        /\ Loaded => Loaded' /\ digest' = digest
    BY <1>2 DEF Preload, LoadEnds, Load, Loaded, GateInv, GateTyped
  <2>2. \A g \in GateCalls : gates[g].at # "idle" => CallInv(g)'
    BY <2>1, CallFrame DEF GateInv, CallInv
  <2> QED
    BY <2>1, <2>2 DEF GateInv
<1>3. ASSUME NEW g \in GateCalls, NEW ctx \in Contexts, NEW strict \in BOOLEAN,
             GateCall(g, ctx, strict)
      PROVE  GateInv'
  <2> DEFINE call == [at |-> FirstQuestion(ctx), ctx |-> ctx, strict |-> strict,
                      decisions |-> <<>>, outcome |-> "none", rule |-> "none"]
  <2>1. gates' = [gates EXCEPT ![g] = call] /\ call \in GateRecord
    BY <1>3 DEF GateCall, FirstQuestion, GateRecord, Questions
  <2>2. GateTyped' /\ (Loaded => Loaded') /\ digest' = digest
    BY <1>3, <2>1 DEF GateCall, GateInv, GateTyped, Load, Loaded
  <2>3. CallInv(g)'
    BY <2>1 DEF CallInv, FirstQuestion, GateInv, GateTyped
  <2>4. ASSUME NEW h \in GateCalls, h # g, gates'[h].at # "idle" PROVE CallInv(h)'
    BY <2>1, <2>2, <2>4, CallFrame DEF GateInv, CallInv, GateTyped
  <2> QED
    BY <2>2, <2>3, <2>4 DEF GateInv
<1>4. ASSUME NEW g \in GateCalls, GateBudget(g) \/ GateEgress(g) \/ GateApproval(g)
      PROVE  GateInv'
  BY <1>4, BudgetStep, EgressStep, ApprovalStep
<1> QED
  BY <1>1, <1>2, <1>3, <1>4 DEF GateNext, GateStep

\* What PolicyGate.check has decided of a call at each rule is recorded in order, with the
\* value the rule gave or the safe one, under the bundle that is loaded; a call is at a rule only
\* if every rule before it was asked and let it pass.
THEOREM GateInvariant == GateSpec => []GateInv
<1> QED
  BY GateInitially, GateStepKeeps, PTL DEF GateSpec

\* A call the gate of policy/gate.ts allows was let pass by every rule that had to be asked of
\* it: a strict gate allows nothing a rule did not clear, whatever fails in the bundle or in a
\* rule, and a destructive action is never allowed: GateFailsClosed, for any number of calls
\* and any contexts.
THEOREM GateAlwaysFailsClosed == GateSpec => []GateFailsClosed
<1>1. GateInv => GateFailsClosed
  BY DEF GateInv, GateFailsClosed, CallInv
<1> QED
  BY <1>1, GateInvariant, PTL

-----------------------------------------------------------------------------
(* Credentials *)

Bearer == [tenant: Tenants, actor: KeyIds \union Tenants, scopes: SUBSET Scopes]

Steps ==
  {"keyCreated", "keyRead", "keyRevoked", "credentialCreated", "credentialRevoked", "calling"}

\* A request under way is of a bearer; one at a step of a route has its subject, which
\* the caller's tenant owns, and a step on a key found the key there.
RequestsTyped ==
  \A q \in Requests :
    /\ requests[q].at \in Steps \union {"idle", "answered", "in"}
    /\ requests[q].at \in Steps \union {"in"} =>
         /\ requests[q].tenant \in Tenants
         /\ requests[q].actor \in KeyIds \union Tenants
         /\ requests[q].actor \in KeyIds => keys[requests[q].actor] # NoKey
    /\ requests[q].at \in {"keyCreated", "keyRead", "keyRevoked"} =>
         /\ requests[q].subject \in KeyIds
         /\ keys[requests[q].subject] # NoKey
         /\ keys[requests[q].subject].tenant = requests[q].tenant
    /\ requests[q].at = "keyCreated" =>
         keys[requests[q].subject].createdBy = requests[q].actor

CredentialsIInv ==
  /\ CredentialsInv
  /\ now \in Nat
  /\ DOMAIN requests = Requests
  /\ RequestsTyped
  /\ \A k \in handedOut : keys[k] # NoKey

\* No key, no credential and no request is there at the start.
LEMMA CredentialsInitially == CredentialsInit => CredentialsIInv
BY CredentialsAssumption, TenancyAssumption
DEF CredentialsInit, CredentialsIInv, CredentialsInv, RequestsTyped, Underway, NoKey, NoCredential, Steps

\* A key, once made, keeps its maker, its scopes and its tenant.
KeysKept ==
  \A k \in KeyIds : keys[k] # NoKey =>
    /\ keys'[k] # NoKey
    /\ keys'[k].tenant = keys[k].tenant /\ keys'[k].createdBy = keys[k].createdBy
    /\ keys'[k].scopes = keys[k].scopes

\* The absence of a credential is none.
LEMMA NoCredentialIsNone == NoCredential \notin Credential
BY DEF NoCredential, Credential

\* Every step of a request on keys and credentials, and every day, keeps the invariant.
LEMMA CredentialsStepKeeps == CredentialsIInv /\ [CredentialsNext]_credentialVars => CredentialsIInv'
<1> SUFFICES ASSUME CredentialsIInv, [CredentialsNext]_credentialVars PROVE CredentialsIInv'
  OBVIOUS
<1> USE CredentialsAssumption, TenancyAssumption
<1>a. /\ CredentialsInv /\ RequestsTyped /\ now \in Nat /\ DOMAIN requests = Requests
      /\ \A k \in handedOut : keys[k] # NoKey /\ k \in KeyIds
      /\ keys \in [KeyIds -> Key \union {NoKey}]
      /\ \A k \in KeyIds : keys[k] # NoKey => keys[k] \in Key
  BY DEF CredentialsIInv, CredentialsInv
<1>1. CASE UNCHANGED credentialVars
  BY <1>1 DEF CredentialsIInv, CredentialsInv, RequestsTyped, credentialVars, Underway
<1>2. CASE DayPasses
  BY <1>2 DEF CredentialsIInv, CredentialsInv, RequestsTyped, DayPasses, Underway
<1>3. ASSUME NEW q \in Requests, NEW tenant \in Tenants, NEW scopes \in SUBSET Scopes,
             AuthenticateToken(q, tenant, scopes)
      PROVE  CredentialsIInv'
  <2>1. RequestsTyped'
    BY <1>a, <1>3 DEF AuthenticateToken, RequestsTyped, Steps
  <2>2. CredentialsInv'
    BY <1>a, <1>3 DEF AuthenticateToken, CredentialsInv, Underway
  <2> QED
    BY <1>a, <1>3, <2>1, <2>2 DEF AuthenticateToken, CredentialsIInv
<1>4. ASSUME NEW q \in Requests, NEW k \in KeyIds, Authenticate(q, k)
      PROVE  CredentialsIInv'
  <2>1. CASE AuthenticateKey(k) # "ok"
    <3>1. RequestsTyped'
      BY <1>a, <1>4, <2>1 DEF Authenticate, Answer, RequestsTyped, Steps
    <3>2. CredentialsInv'
      BY <1>a, <1>4, <2>1 DEF Authenticate, Answer, CredentialsInv, Underway
    <3> QED
      BY <1>a, <1>4, <2>1, <3>1, <3>2 DEF Authenticate, Answer, CredentialsIInv
  <2>2. CASE AuthenticateKey(k) = "ok"
    <3>1. keys[k] # NoKey /\ keys[k] \in Key
      BY <1>a, <2>2 DEF AuthenticateKey
    <3>2. /\ keys' \in [KeyIds -> Key \union {NoKey}]
          /\ \A j \in KeyIds : j # k => keys'[j] = keys[j]
          /\ keys'[k] = [keys[k] EXCEPT !.lastUsedAt = now]
          /\ keys'[k] \in Key
      BY <1>a, <1>4, <2>2, <3>1 DEF Authenticate, Key
    <3>3. KeysKept /\ \A j \in KeyIds : /\ keys[j] = NoKey <=> keys'[j] = NoKey
                                        /\ keys[j] # NoKey => keys'[j].revokedBy = keys[j].revokedBy
      BY <1>a, <3>1, <3>2 DEF KeysKept, Key, NoKey
    <3>4. RequestsTyped'
      BY <1>a, <1>4, <2>2, <3>1, <3>3 DEF Authenticate, RequestsTyped, Steps, KeysKept, Key
    <3>5. CredentialsInv'
      BY <1>a, <1>4, <2>2, <3>1, <3>2, <3>3 DEF Authenticate, CredentialsInv, Underway, KeysKept
    <3> QED
      BY <1>a, <1>4, <2>2, <3>3, <3>4, <3>5 DEF Authenticate, CredentialsIInv, KeysKept
  <2> QED
    BY <2>1, <2>2
<1>5. ASSUME NEW q \in Requests, Forbidden(q) PROVE CredentialsIInv'
  <2>1. RequestsTyped'
    BY <1>a, <1>5 DEF Forbidden, Answer, RequestsTyped, Steps
  <2>2. CredentialsInv'
    BY <1>a, <1>5 DEF Forbidden, Answer, CredentialsInv, Underway
  <2> QED
    BY <1>a, <1>5, <2>1, <2>2 DEF Forbidden, Answer, CredentialsIInv
<1>6. ASSUME NEW q \in Requests, NEW k \in KeyIds, NEW scopes \in SUBSET Scopes,
             NEW days \in {None, 1}, CreateKey(q, k, scopes, days)
      PROVE  CredentialsIInv'
  <2>1. CASE ~Grantable(q, scopes)
    <3>1. RequestsTyped'
      BY <1>a, <1>6, <2>1 DEF CreateKey, Holds, Answer, RequestsTyped, Steps
    <3>2. CredentialsInv'
      BY <1>a, <1>6, <2>1 DEF CreateKey, Holds, Answer, CredentialsInv, Underway
    <3> QED
      BY <1>a, <1>6, <2>1, <3>1, <3>2 DEF CreateKey, Holds, Answer, CredentialsIInv
  <2>2. CASE Grantable(q, scopes)
    <3>1. keys[k] = NoKey /\ requests[q].at = "in" /\ scopes \subseteq requests[q].scopes
          /\ scopes # {} /\ scopes \subseteq Scopes
          /\ requests[q].tenant \in Tenants /\ requests[q].actor \in KeyIds \union Tenants
          /\ requests[q].actor # k
      BY <1>a, <1>6, <2>2 DEF CreateKey, Holds, Grantable, RequestsTyped
    <3>2. /\ keys' \in [KeyIds -> Key \union {NoKey}]
          /\ \A j \in KeyIds : j # k => keys'[j] = keys[j]
          /\ keys'[k] \in Key /\ keys'[k].tenant = requests[q].tenant
          /\ keys'[k].createdBy = requests[q].actor /\ keys'[k].scopes = scopes
          /\ keys'[k].revokedBy = None
      <4> DEFINE made(expiry) ==
            [tenant |-> requests[q].tenant, createdBy |-> requests[q].actor,
             scopes |-> scopes, expiresAt |-> expiry, revokedBy |-> None, lastUsedAt |-> None]
      <4>1. PICK expiry \in Nat \union {None} : keys' = [keys EXCEPT ![k] = made(expiry)]
        <5>1. (IF days = None THEN None ELSE now + days) \in Nat \union {None}
          BY <1>a
        <5> QED
          BY <1>6, <2>2, <5>1 DEF CreateKey
      <4>2. made(expiry) \in Key
        BY <3>1 DEF Key
      <4> QED
        BY <1>a, <4>1, <4>2
    <3>3. KeysKept /\ keys'[k] # NoKey
      BY <1>a, <3>1, <3>2 DEF KeysKept, Key, NoKey
    <3>4. RequestsTyped'
      BY <1>a, <1>6, <2>2, <3>1, <3>2, <3>3 DEF CreateKey, GoOn, RequestsTyped, Steps, KeysKept
    <3>5. CredentialsInv'
      <4>1. \A j \in KeyIds : keys'[j] # NoKey /\ keys'[j].createdBy \in KeyIds =>
              LET maker == keys'[keys'[j].createdBy]
              IN  /\ maker # NoKey /\ keys'[j].scopes \subseteq maker.scopes
                  /\ keys'[j].tenant = maker.tenant
        <5>1. CASE requests[q].actor \in KeyIds
          BY <1>a, <3>1, <3>2, <3>3, <5>1 DEF CredentialsInv, KeysKept, RequestsTyped, Underway
        <5>2. CASE requests[q].actor \notin KeyIds
          BY <1>a, <3>1, <3>2, <3>3, <5>2 DEF CredentialsInv, KeysKept
        <5> QED
          BY <5>1, <5>2
      <4>2. \A p \in Requests : Underway(p)' /\ requests'[p].actor \in KeyIds =>
              /\ requests'[p].scopes = keys'[requests'[p].actor].scopes
              /\ requests'[p].tenant = keys'[requests'[p].actor].tenant
        BY <1>a, <1>6, <2>2, <3>1, <3>3
        DEF CreateKey, GoOn, CredentialsInv, Underway, KeysKept, RequestsTyped, Steps
      <4>3. \A j \in KeyIds : j # k => keys'[j] = keys[j]
        BY <3>2
      <4>4. /\ k \notin handedOut /\ keys'[k].revokedBy = None
            /\ UNCHANGED <<credentials, credTrail, handedOut>>
            /\ \A p \in Requests : requests[p].at = "keyRevoked" => requests'[p] = requests[p]
        BY <1>a, <1>6, <2>2, <3>1, <3>2 DEF CreateKey, GoOn
      <4>5. \A j \in KeyIds : keys'[j] # NoKey =>
              /\ j \in handedOut' =>
                   [action |-> "api-key.created", subject |-> j, actor |-> keys'[j].createdBy,
                    tenant |-> keys'[j].tenant] \in credTrail'
              /\ keys'[j].revokedBy # None =>
                   \/ [action |-> "api-key.revoked", subject |-> j, actor |-> keys'[j].revokedBy,
                       tenant |-> keys'[j].tenant] \in credTrail'
                   \/ \E p \in Requests : /\ requests'[p].at = "keyRevoked"
                                          /\ requests'[p].subject = j
                                          /\ requests'[p].actor = keys'[j].revokedBy
        BY <1>a, <4>3, <4>4 DEF CredentialsInv
      <4> QED
        BY <1>a, <3>2, <4>1, <4>2, <4>4, <4>5 DEF CredentialsInv
    <3> QED
      BY <1>a, <1>6, <2>2, <3>3, <3>4, <3>5 DEF CreateKey, GoOn, CredentialsIInv, KeysKept
  <2> QED
    BY <2>1, <2>2
<1>7. ASSUME NEW q \in Requests, RecordKey(q) PROVE CredentialsIInv'
  <2>1. RequestsTyped'
    BY <1>a, <1>7 DEF RecordKey, RecordAndAnswer, Answer, RequestsTyped, Steps
  <2>2. CredentialsInv'
    BY <1>a, <1>7 DEF RecordKey, RecordAndAnswer, Entry, Answer, CredentialsInv, Underway, RequestsTyped, Steps
  <2> QED
    BY <1>a, <1>7, <2>1, <2>2 DEF RecordKey, RecordAndAnswer, Answer, CredentialsIInv, RequestsTyped
<1>8. ASSUME NEW q \in Requests, NEW k \in KeyIds, RevokeKeyRead(q, k) PROVE CredentialsIInv'
  <2>1. RequestsTyped'
    BY <1>a, <1>8 DEF RevokeKeyRead, Holds, Seen, GoOn, Answer, RequestsTyped, Steps
  <2>2. CredentialsInv'
    BY <1>a, <1>8 DEF RevokeKeyRead, Holds, Seen, GoOn, Answer, CredentialsInv, Underway
  <2> QED
    BY <1>a, <1>8, <2>1, <2>2 DEF RevokeKeyRead, GoOn, Answer, CredentialsIInv
<1>9. ASSUME NEW q \in Requests, RevokeKeyWrite(q) PROVE CredentialsIInv'
  <2>1. PICK j \in KeyIds : j = requests[q].subject
    BY <1>a, <1>9 DEF RevokeKeyWrite, RequestsTyped
  <2>2. /\ keys[j] # NoKey /\ keys[j] \in Key /\ keys[j].tenant = requests[q].tenant
        /\ requests[q].actor \in KeyIds \union Tenants
    BY <1>a, <1>9, <2>1 DEF RevokeKeyWrite, RequestsTyped, Steps
  <2>3. /\ keys' \in [KeyIds -> Key \union {NoKey}]
        /\ \A i \in KeyIds : i # j => keys'[i] = keys[i]
        /\ keys'[j] = [keys[j] EXCEPT !.revokedBy = requests[q].actor]
        /\ keys'[j] \in Key
    BY <1>a, <1>9, <2>1, <2>2 DEF RevokeKeyWrite, Key
  <2>4. KeysKept /\ \A i \in KeyIds : keys[i] = NoKey <=> keys'[i] = NoKey
    BY <1>a, <2>2, <2>3 DEF KeysKept, Key, NoKey
  <2>5. RequestsTyped'
    BY <1>a, <1>9, <2>1, <2>2, <2>4 DEF RevokeKeyWrite, GoOn, RequestsTyped, Steps, KeysKept
  <2>6. CredentialsInv'
    <3>1. /\ UNCHANGED <<credentials, credTrail, handedOut>>
          /\ \A p \in Requests : p # q => requests'[p] = requests[p]
          /\ requests'[q].at = "keyRevoked" /\ requests'[q].subject = j
          /\ requests'[q].actor = requests[q].actor /\ requests'[q].scopes = requests[q].scopes
          /\ requests'[q].tenant = requests[q].tenant /\ requests[q].at = "keyRead"
      BY <1>a, <1>9, <2>1 DEF RevokeKeyWrite, GoOn
    <3>2. keys'[j].revokedBy = requests[q].actor
      BY <2>2, <2>3 DEF Key
    <3>3. \A i \in KeyIds : keys'[i] # NoKey /\ keys'[i].createdBy \in KeyIds =>
            LET maker == keys'[keys'[i].createdBy]
            IN  /\ maker # NoKey /\ keys'[i].scopes \subseteq maker.scopes
                /\ keys'[i].tenant = maker.tenant
      BY <1>a, <2>4 DEF CredentialsInv, KeysKept
    <3>4. \A p \in Requests : Underway(p)' /\ requests'[p].actor \in KeyIds =>
            /\ requests'[p].scopes = keys'[requests'[p].actor].scopes
            /\ requests'[p].tenant = keys'[requests'[p].actor].tenant
      BY <1>a, <2>4, <3>1 DEF CredentialsInv, Underway, KeysKept, RequestsTyped, Steps
    <3>5. \A i \in KeyIds : keys'[i] # NoKey =>
            /\ i \in handedOut' =>
                 [action |-> "api-key.created", subject |-> i, actor |-> keys'[i].createdBy,
                  tenant |-> keys'[i].tenant] \in credTrail'
            /\ keys'[i].revokedBy # None =>
                 \/ [action |-> "api-key.revoked", subject |-> i, actor |-> keys'[i].revokedBy,
                     tenant |-> keys'[i].tenant] \in credTrail'
                 \/ \E p \in Requests : /\ requests'[p].at = "keyRevoked"
                                        /\ requests'[p].subject = i
                                        /\ requests'[p].actor = keys'[i].revokedBy
      <4>1. ASSUME NEW i \in KeyIds, i # j
            PROVE  /\ keys'[i] = keys[i]
                   /\ \A p \in Requests : requests[p].at = "keyRevoked" => requests'[p] = requests[p]
        BY <2>3, <3>1, <4>1
      <4>2. ASSUME NEW i \in KeyIds, i # j, keys'[i] # NoKey, keys'[i].revokedBy # None
            PROVE  \/ [action |-> "api-key.revoked", subject |-> i, actor |-> keys'[i].revokedBy,
                       tenant |-> keys'[i].tenant] \in credTrail'
                   \/ \E p \in Requests : /\ requests'[p].at = "keyRevoked"
                                          /\ requests'[p].subject = i
                                          /\ requests'[p].actor = keys'[i].revokedBy
        <5>1. keys[i] # NoKey /\ keys[i].revokedBy # None
          BY <4>1, <4>2
        <5>2. \/ [action |-> "api-key.revoked", subject |-> i, actor |-> keys[i].revokedBy,
                  tenant |-> keys[i].tenant] \in credTrail
              \/ \E p \in Requests : /\ requests[p].at = "keyRevoked"
                                     /\ requests[p].subject = i
                                     /\ requests[p].actor = keys[i].revokedBy
          BY <1>a, <5>1 DEF CredentialsInv
        <5> QED
          BY <3>1, <4>1, <4>2, <5>2
      <4>3. \A i \in KeyIds : keys'[i] # NoKey /\ i \in handedOut' =>
              [action |-> "api-key.created", subject |-> i, actor |-> keys'[i].createdBy,
               tenant |-> keys'[i].tenant] \in credTrail'
        <5>1. \A i \in KeyIds : keys'[i] # NoKey =>
                /\ keys[i] # NoKey /\ keys'[i].createdBy = keys[i].createdBy
                /\ keys'[i].tenant = keys[i].tenant
          BY <2>4 DEF KeysKept
        <5>2. \A i \in KeyIds : keys[i] # NoKey /\ i \in handedOut =>
                [action |-> "api-key.created", subject |-> i, actor |-> keys[i].createdBy,
                 tenant |-> keys[i].tenant] \in credTrail
          BY <1>a DEF CredentialsInv
        <5> QED
          BY <3>1, <5>1, <5>2
      <4>4. \E p \in Requests : /\ requests'[p].at = "keyRevoked"
                                /\ requests'[p].subject = j
                                /\ requests'[p].actor = keys'[j].revokedBy
        BY <3>1, <3>2
      <4> QED
        BY <4>2, <4>3, <4>4
    <3> QED
      BY <1>a, <2>3, <3>1, <3>3, <3>4, <3>5 DEF CredentialsInv
  <2> QED
    BY <1>a, <1>9, <2>4, <2>5, <2>6 DEF RevokeKeyWrite, GoOn, CredentialsIInv, KeysKept
<1>10. ASSUME NEW q \in Requests, RevokeKeyRecord(q) PROVE CredentialsIInv'
  <2>1. RequestsTyped'
    BY <1>a, <1>10 DEF RevokeKeyRecord, RecordAndAnswer, Answer, RequestsTyped, Steps
  <2>2. CredentialsInv'
    BY <1>a, <1>10 DEF RevokeKeyRecord, RecordAndAnswer, Entry, Answer, CredentialsInv, Underway, RequestsTyped, Steps
  <2> QED
    BY <1>a, <1>10, <2>1, <2>2 DEF RevokeKeyRecord, RecordAndAnswer, Answer, CredentialsIInv
<1>11. ASSUME NEW q \in Requests,
              CredentialRecord(q) \/ RevokeCredentialRecord(q) \/ TestRecord(q)
       PROVE  CredentialsIInv'
  <2>1. /\ requests[q].at \in {"credentialCreated", "credentialRevoked", "calling"}
        /\ requests' = [requests EXCEPT ![q] = [at |-> "answered"]]
        /\ credTrail \subseteq credTrail' /\ UNCHANGED <<keys, credentials, handedOut, now>>
    BY <1>11
    DEF CredentialRecord, RevokeCredentialRecord, TestRecord, RecordAndAnswer, Answer
  <2>2. RequestsTyped'
    BY <1>a, <2>1 DEF RequestsTyped, Steps
  <2>3. CredentialsInv'
    BY <1>a, <2>1 DEF CredentialsInv, Underway
  <2> QED
    BY <1>a, <2>1, <2>2, <2>3 DEF CredentialsIInv
<1>12. ASSUME NEW q \in Requests, NEW c \in CredentialIds,
              \/ \E withSecret \in BOOLEAN : CreateCredential(q, c, withSecret)
              \/ RevokeCredential(q, c) \/ Reveal(q, c)
       PROVE  CredentialsIInv'
  <2>1. /\ requests[q].at = "in" /\ UNCHANGED <<keys, credTrail, handedOut, now>>
        /\ \/ requests' = [requests EXCEPT ![q] = [at |-> "answered"]]
           \/ \E stage \in {"credentialCreated", "credentialRevoked", "calling"} : \E kept :
                requests' = [requests EXCEPT ![q] =
                  [at |-> stage, tenant |-> requests[q].tenant, actor |-> requests[q].actor,
                   scopes |-> requests[q].scopes, subject |-> c, kept |-> kept]]
    BY <1>12 DEF CreateCredential, RevokeCredential, Reveal, Holds, GoOn, Answer
  <2>2. RequestsTyped'
    BY <1>a, <2>1 DEF RequestsTyped, Steps
  <2>3. /\ credentials' \in [CredentialIds -> Credential \union {NoCredential}]
        /\ \A d \in CredentialIds : credentials'[d] # NoCredential =>
             /\ credentials'[d].sealed \in {None, Aad(credentials'[d].tenant, d)}
             /\ credentials'[d].sealed # None => EncryptionAvailable /\ ~credentials'[d].revoked
    <3>1. \/ UNCHANGED credentials
          \/ \E record \in Credential :
               /\ credentials' = [credentials EXCEPT ![c] = record]
               /\ record.sealed \in {None, Aad(record.tenant, c)}
               /\ record.sealed # None => EncryptionAvailable /\ ~record.revoked
      <4>1. ASSUME NEW withSecret \in BOOLEAN, CreateCredential(q, c, withSecret),
                   withSecret => EncryptionAvailable
            PROVE  \E record \in Credential :
                     /\ credentials' = [credentials EXCEPT ![c] = record]
                     /\ record.sealed \in {None, Aad(record.tenant, c)}
                     /\ record.sealed # None => EncryptionAvailable /\ ~record.revoked
        <5> DEFINE record == [tenant |-> requests[q].tenant, revoked |-> FALSE, lastUsedAt |-> None,
                              sealed |-> IF withSecret THEN Aad(requests[q].tenant, c) ELSE None]
        <5>1. requests[q].tenant \in Tenants
          BY <1>a, <2>1 DEF RequestsTyped
        <5>2. record \in Credential
          BY <5>1 DEF Credential, Aad
        <5>3. record.sealed \in {None, Aad(record.tenant, c)} /\ ~record.revoked
              /\ (record.sealed # None => withSecret)
          OBVIOUS
        <5>4. credentials' = [credentials EXCEPT ![c] = record]
          BY <4>1 DEF CreateCredential
        <5> HIDE DEF record
        <5> QED
          BY <4>1, <5>2, <5>3, <5>4
      <4>2. ASSUME credentials[c] \in Credential,
                   \/ credentials' = [credentials EXCEPT ![c] = Revoked(@)]
                   \/ credentials' = [credentials EXCEPT ![c].lastUsedAt = now]
            PROVE  \E record \in Credential :
                     /\ credentials' = [credentials EXCEPT ![c] = record]
                     /\ record.sealed \in {None, Aad(record.tenant, c)}
                     /\ record.sealed # None => EncryptionAvailable /\ ~record.revoked
        <5>1. PICK record \in {Revoked(credentials[c]), [credentials[c] EXCEPT !.lastUsedAt = now]} :
                credentials' = [credentials EXCEPT ![c] = record]
          BY <4>2
        <5>2. /\ credentials[c].sealed \in {None, Aad(credentials[c].tenant, c)}
              /\ credentials[c].sealed # None => EncryptionAvailable /\ ~credentials[c].revoked
          BY <1>a, <4>2, NoCredentialIsNone DEF CredentialsInv
        <5>3. record \in Credential /\ record.tenant = credentials[c].tenant
              /\ \/ record.sealed = None
                 \/ record.sealed = credentials[c].sealed /\ record.revoked = credentials[c].revoked
          BY <1>a, <4>2, <5>1 DEF Credential, Revoked
        <5> QED
          BY <5>1, <5>2, <5>3
      <4>3. RevokeCredential(q, c) \/ Reveal(q, c) =>
              \/ UNCHANGED credentials
              \/ /\ credentials[c] \in Credential
                 /\ \/ credentials' = [credentials EXCEPT ![c] = Revoked(@)]
                    \/ credentials' = [credentials EXCEPT ![c].lastUsedAt = now]
        BY <1>a DEF RevokeCredential, Reveal, Seen, CredentialsInv
      <4>4. ASSUME NEW withSecret \in BOOLEAN, CreateCredential(q, c, withSecret),
                   ~(withSecret => EncryptionAvailable)
            PROVE  UNCHANGED credentials
        BY <4>4 DEF CreateCredential
      <4> QED
        BY <1>12, <4>1, <4>2, <4>3, <4>4
    <3> QED
      BY <1>a, <3>1 DEF CredentialsInv
  <2>4. CredentialsInv'
    BY <1>a, <2>1, <2>3 DEF CredentialsInv, Underway
  <2> QED
    BY <1>a, <2>1, <2>2, <2>4 DEF CredentialsIInv
<1> QED
  BY <1>1, <1>2, <1>3, <1>4, <1>5, <1>6, <1>7, <1>8, <1>9, <1>10, <1>11, <1>12
  DEF CredentialsNext, RequestStep

\* Keys and provider credentials stay of their tenant and no stronger than their maker
\* however the requests of api-keys.ts and credentials.ts interleave: CredentialsInv, for any
\* number of keys, credentials, tenants and requests.
THEOREM CredentialsInvariant == CredentialsSpec => []CredentialsInv
<1>1. CredentialsIInv => CredentialsInv
  BY DEF CredentialsIInv
<1> QED
  BY <1>1, CredentialsInitially, CredentialsStepKeeps, PTL DEF CredentialsSpec

-----------------------------------------------------------------------------
(* One call of a provider *)

Answered == Statuses \union {"data", "lost", "aborted"}

\* Attempts and answers keep step: as many answers as attempts that ended, and all of
\* those before the attempt under way, or before the last, allowed another.
ProvidersInv ==
  /\ phase \in {"idle", "waiting", "backoff", "done"}
  /\ attempt \in 0..MaxRetries
  /\ answers \in Seq(Answered)
  /\ Len(answers) = IF phase \in {"idle", "waiting"} THEN attempt ELSE attempt + 1
  /\ phase = "idle" => attempt = 0 /\ outcome = "none"
  /\ phase = "backoff" => attempt < MaxRetries
  /\ \A i \in 1..Len(answers) : i < Len(answers) \/ phase # "done" => answers[i] \in MaySendAgain
  /\ CallSound

\* An answer is added to those the call has seen.
LEMMA AnswerAppended ==
  ASSUME ProvidersInv, phase = "waiting", NEW answer \in Answered,
         answers' = Append(answers, answer)
  PROVE  /\ answers' \in Seq(Answered)
         /\ Len(answers') = attempt + 1
         /\ \A i \in 1..Len(answers') - 1 : answers'[i] \in MaySendAgain
         /\ answers'[Len(answers')] = answer
BY AppendProperties, LenProperties, ProvidersAssumption DEF ProvidersInv

\* An attempt ends and the call with it, or with a backoff to come.
LEMMA AttemptEnds ==
  ASSUME ProvidersInv, phase = "waiting", NEW answer \in Answered, NEW category,
         answers' = Append(answers, answer), UNCHANGED <<attempt, executed>>,
         \/ phase' = "done" /\ outcome' = category
         \/ /\ phase' = "backoff" /\ outcome' = outcome
            /\ attempt < MaxRetries /\ answer \in MaySendAgain,
         category = CASE answer = "data"    -> "data"
                      [] answer = "lost"    -> "NETWORK_ERROR"
                      [] answer = "aborted" -> "TIMEOUT"
                      [] OTHER              -> Categorize(answer),
         category = "data" => answer = "data",
         answer = "data" => attempt \in executed
  PROVE  ProvidersInv'
<1>1. /\ answers' \in Seq(Answered)
      /\ Len(answers') = attempt + 1
      /\ \A i \in 1..Len(answers') - 1 : answers'[i] \in MaySendAgain
      /\ answers'[Len(answers')] = answer
  BY AnswerAppended
<1>2. \A i \in 1..Len(answers') :
        i < Len(answers') \/ phase' # "done" => answers'[i] \in MaySendAgain
  BY <1>1, ProvidersAssumption DEF ProvidersInv
<1>3. CallSound'
  BY <1>1, ProvidersAssumption DEF CallSound, ProvidersInv
<1> QED
  BY <1>1, <1>2, <1>3 DEF ProvidersInv

\* A call begins with no attempt.
LEMMA ProvidersInitially == ProvidersInit => ProvidersInv
BY ProvidersAssumption DEF ProvidersInit, ProvidersInv, CallSound

\* Every attempt, answer, backoff and abort keeps the invariant.
LEMMA ProvidersStepKeeps == ProvidersInv /\ [ProvidersNext]_providersVars => ProvidersInv'
<1> SUFFICES ASSUME ProvidersInv, [ProvidersNext]_providersVars PROVE ProvidersInv'
  OBVIOUS
<1>1. CASE UNCHANGED providersVars
  BY <1>1 DEF ProvidersInv, CallSound, providersVars
<1>2. CASE StartCall
  BY <1>2, ProvidersAssumption DEF StartCall, Send, ProvidersInv, CallSound
<1>3. CASE Execute
  BY <1>3 DEF Execute, ProvidersInv, CallSound
<1>4. CASE AnswerData
  BY <1>4, AttemptEnds DEF AnswerData, Answered
<1>5. CASE AnswerStatus
  <2>1. PICK status \in Statuses :
          Ends(status, Categorize(status), Retryable(Categorize(status)))
    BY <1>5 DEF AnswerStatus
  <2>2. status \in Answered /\ status \notin {"data", "lost", "aborted"}
    BY DEF Statuses, Answered
  <2>3. Categorize(status) # "data"
    BY DEF Statuses, Categorize
  <2>4. Retryable(Categorize(status)) => status \in MaySendAgain
    BY DEF Statuses, Categorize, Retryable, MaySendAgain
  <2>5. PICK category : category = Categorize(status)
    OBVIOUS
  <2> QED
    BY <1>5, <2>1, <2>2, <2>3, <2>4, <2>5, AttemptEnds DEF AnswerStatus, Ends, Throw
<1>6. CASE NetworkFails
  BY <1>6, AttemptEnds DEF NetworkFails, Ends, Throw, Answered, MaySendAgain
<1>7. CASE TimerFires
  BY <1>7, AttemptEnds DEF TimerFires, Throw, Answered
<1>8. CASE CallerAborts
  <2>1. CASE phase = "waiting" /\ listening
    BY <1>8, <2>1, AttemptEnds DEF CallerAborts, Throw, Answered
  <2>2. CASE ~(phase = "waiting" /\ listening)
    BY <1>8, <2>2 DEF CallerAborts, ProvidersInv, CallSound
  <2> QED
    BY <2>1, <2>2
<1>9. CASE BackoffEnds
  BY <1>9, ProvidersAssumption DEF BackoffEnds, Send, ProvidersInv, CallSound
<1> QED
  BY <1>1, <1>2, <1>3, <1>4, <1>5, <1>6, <1>7, <1>8, <1>9 DEF ProvidersNext

\* A call of a provider sends at most MaxRetries + 1 requests, sends again only after 429, a
\* server error that is not 504, a status without a name or a lost answer, and reports what
\* the last answer says: CallSound, for any bound on retries.
THEOREM CallAlwaysSound == ProvidersSpec => []CallSound
<1>1. ProvidersInv => CallSound
  BY DEF ProvidersInv
<1> QED
  BY <1>1, ProvidersInitially, ProvidersStepKeeps, PTL DEF ProvidersSpec

-----------------------------------------------------------------------------
(* The signing key and what was downloaded *)

Envelopes(n) == [id: 1..n, keyId: KeyNames, by: Nat]

SavedFile(d) == download[d].file

\* A server that was started has one key pair under one id, and whatever it signed and
\* still has, or has under way, is signed with it; what clients hold is of this pair or
\* of an earlier one; a bundle's id is used once.
SigningKeysInv ==
  /\ serving \in {"down", "up", "closing"}
  /\ pair \in Nat /\ signed \in Nat
  /\ serving # "down" => keyName \in KeyNames
  /\ serving = "down" => signing = {}
  /\ signing \subseteq Envelopes(signed)
  /\ \A b \in signing :
       /\ b.by = pair /\ b.keyId = keyName /\ b.id \notin DOMAIN shelf
       /\ \A c \in signing : c.id = b.id => c = b
  /\ DOMAIN shelf \subseteq 1..signed
  /\ \A id \in DOMAIN shelf :
       /\ shelf[id] \in Envelopes(signed)
       /\ shelf[id].id = id /\ shelf[id].by = pair /\ shelf[id].keyId = keyName
  /\ \A k \in published : k.of \in Nat /\ k.of <= pair /\ (k.of = pair => k.keyId = keyName)
  /\ DOMAIN download = Downloads
  /\ \A d \in Downloads : download[d].at = "asked" => download[d].id \in 1..signed
  /\ \A d \in Downloads : download[d].at = "saved" =>
       LET envelope == SavedFile(d).envelope
       IN  /\ SavedFile(d) = [envelope |-> envelope, keyId |-> envelope.keyId,
                              publicKey |-> envelope.by]
           /\ envelope \in Envelopes(signed)
           /\ envelope.by <= pair /\ (envelope.by = pair => envelope.keyId = keyName)
           /\ envelope.id \in DOMAIN shelf => shelf[envelope.id] = envelope
           /\ \A b \in signing : b.id # envelope.id
  /\ KeysInv

\* No key is made and nothing is downloaded at the start.
LEMMA KeysInitially == SigningKeysInit => SigningKeysInv
BY DEF SigningKeysInit, SigningKeysInv, KeysInv, NotAsked

\* Every start, rotation, signature and download keeps the invariant.
LEMMA KeysStepKeeps == SigningKeysInv /\ [SigningKeysNext]_keyVars => SigningKeysInv'
<1> SUFFICES ASSUME SigningKeysInv, [SigningKeysNext]_keyVars PROVE SigningKeysInv'
  OBVIOUS
<1>1. CASE UNCHANGED keyVars
  BY <1>1 DEF SigningKeysInv, KeysInv, keyVars, SavedFile, VerifiesUnder
<1>2. ASSUME NEW name \in KeyNames, Start(name) PROVE SigningKeysInv'
  BY <1>2 DEF Start, SigningKeysInv, KeysInv, SavedFile, VerifiesUnder, Envelopes
<1>3. CASE ShutdownSignalled
  BY <1>3 DEF ShutdownSignalled, SigningKeysInv, KeysInv, SavedFile, VerifiesUnder
<1>4. CASE Exits \/ Crashes
  BY <1>4 DEF Exits, Crashes, Dies, Asking, SigningKeysInv, KeysInv, SavedFile, VerifiesUnder
<1>5. CASE SignBundle
  BY <1>5 DEF SignBundle, SigningKeysInv, KeysInv, SavedFile, VerifiesUnder, Envelopes
<1>6. CASE PublishKeys
  <2>1. /\ published' = published \union {[keyId |-> keyName, of |-> pair]}
        /\ UNCHANGED <<serving, pair, keyName, shelf, signing, signed, download>>
        /\ pair \in Nat
    BY <1>6 DEF PublishKeys, SigningKeysInv
  <2>2. \A k \in published' : k \in published \/ (k.of = pair /\ k.keyId = keyName)
    BY <2>1
  <2>3. \A d \in Downloads : download[d].at = "saved" =>
          /\ VerifiesUnder(download[d].file.envelope, pair) => keyName = download[d].file.envelope.keyId
    BY DEF SigningKeysInv, SavedFile, VerifiesUnder
  <2>4. KeysInv'
    BY <2>1, <2>2, <2>3 DEF SigningKeysInv, KeysInv, VerifiesUnder
  <2> QED
    BY <2>1, <2>2, <2>4 DEF SigningKeysInv, SavedFile
<1>7. ASSUME NEW b \in signing, StoreBundle(b) PROVE SigningKeysInv'
  <2>1. /\ signing' = signing \ {b} /\ DOMAIN shelf' = DOMAIN shelf \union {b.id}
        /\ \A id \in DOMAIN shelf' : shelf'[id] = IF id = b.id THEN b ELSE shelf[id]
        /\ UNCHANGED <<serving, pair, keyName, signed, published, download>>
        /\ serving # "down"
    BY <1>7 DEF StoreBundle
  <2>2. b \in Envelopes(signed) /\ b.id \in 1..signed /\ b.id \notin DOMAIN shelf
    BY <1>7 DEF SigningKeysInv, Envelopes
  <2>3. KeysInv'
    BY <2>1 DEF SigningKeysInv, KeysInv, VerifiesUnder
  <2>4. \A id \in DOMAIN shelf' :
          /\ shelf'[id] \in Envelopes(signed)
          /\ shelf'[id].id = id /\ shelf'[id].by = pair /\ shelf'[id].keyId = keyName
    BY <1>7, <2>1, <2>2 DEF SigningKeysInv
  <2>5. \A c \in signing' :
          /\ c.by = pair /\ c.keyId = keyName /\ c.id \notin DOMAIN shelf'
          /\ \A e \in signing' : e.id = c.id => e = c
    BY <1>7, <2>1 DEF SigningKeysInv
  <2>6. \A d \in Downloads : download[d].at = "saved" =>
          /\ SavedFile(d).envelope.id \in DOMAIN shelf' =>
               shelf'[SavedFile(d).envelope.id] = SavedFile(d).envelope
          /\ \A c \in signing' : c.id # SavedFile(d).envelope.id
    BY <1>7, <2>1 DEF SigningKeysInv
  <2> QED
    BY <2>1, <2>2, <2>3, <2>4, <2>5, <2>6 DEF SigningKeysInv, SavedFile
<1>8. ASSUME NEW d \in Downloads, NEW kind \in {"offline", "verify"}, NEW id \in 1..MaxSigned,
             RequestBundle(d, kind, id)
      PROVE  SigningKeysInv'
  BY <1>8 DEF RequestBundle, NotAsked, SigningKeysInv, KeysInv, SavedFile, VerifiesUnder
<1>9. ASSUME NEW d \in Downloads, Respond(d) PROVE SigningKeysInv'
  <2>1. /\ UNCHANGED <<serving, pair, keyName, shelf, signing, signed, published>>
        /\ DOMAIN download' = Downloads
        /\ \A e \in Downloads : e # d => download'[e] = download[e]
    BY <1>9 DEF Respond, SigningKeysInv
  <2>2. CASE download[d].id \notin DOMAIN shelf \/ download[d].kind # "offline"
    <3>1. download[d].id \in DOMAIN shelf => shelf[download[d].id].by = pair
      BY DEF SigningKeysInv
    <3>2. download'[d].at \in {"not found", "judged"}
      BY <1>9, <2>2, <3>1 DEF Respond, SigningKeysInv
    <3>3. download'[d].at = "judged" => download'[d].valid
      BY <1>9, <2>2, <3>1 DEF Respond, SigningKeysInv, VerifiesUnder
    <3>4. \A e \in Downloads :
            download'[e].at \in {"asked", "saved"} => download'[e] = download[e]
      BY <2>1, <3>2
    <3>5. \A e \in Downloads : download'[e].at = "judged" => download'[e].valid
      BY <2>1, <3>3 DEF SigningKeysInv, KeysInv
    <3>6. KeysInv'
      BY <2>1, <3>4, <3>5 DEF SigningKeysInv, KeysInv, VerifiesUnder
    <3> QED
      BY <2>1, <3>4, <3>6 DEF SigningKeysInv, SavedFile
  <2>3. CASE download[d].id \in DOMAIN shelf /\ download[d].kind = "offline"
    <3>1. PICK envelope : envelope = shelf[download[d].id]
      OBVIOUS
    <3>2. download'[d] = [at |-> "saved", file |-> [envelope |-> envelope, keyId |-> keyName,
                                                  publicKey |-> pair]]
      BY <1>9, <2>3, <3>1 DEF Respond, Offline, SigningKeysInv
    <3>3. /\ envelope.by = pair /\ envelope.keyId = keyName /\ envelope.id \in DOMAIN shelf
          /\ shelf[envelope.id] = envelope /\ envelope \in Envelopes(signed)
          /\ \A b \in signing : b.id # envelope.id
      BY <2>3, <3>1 DEF SigningKeysInv
    <3>4. \A e \in Downloads :
            download[e].at = "saved" /\ SavedFile(e).envelope.id = envelope.id
              => SavedFile(e).envelope = envelope
      BY <3>3 DEF SigningKeysInv
    <3>5. \A e \in Downloads :
            download'[e].at = "saved" /\ download'[e].file.envelope.id = envelope.id
              => download'[e].file = download'[d].file
      BY <2>1, <3>2, <3>3, <3>4 DEF SigningKeysInv, SavedFile
    <3>6. KeysInv'
      <4>1. ASSUME NEW e \in Downloads, e # d PROVE download'[e] = download[e]
        BY <2>1, <4>1
      <4> QED
        BY <2>1, <3>2, <3>3, <3>5, <4>1 DEF SigningKeysInv, KeysInv, VerifiesUnder
    <3>7. pair \in Nat
      BY DEF SigningKeysInv
    <3> QED
      BY <2>1, <3>2, <3>3, <3>6, <3>7 DEF SigningKeysInv, SavedFile
  <2> QED
    BY <2>2, <2>3
<1> QED
  BY <1>1, <1>2, <1>3, <1>4, <1>5, <1>6, <1>7, <1>8, <1>9 DEF SigningKeysNext

\* A bundle the server still has is found valid, and a saved one holds under the key it carries
\* and under no published key of another id, through any stops and starts: KeysInv,
\* for any number of starts, keys and downloads.
THEOREM KeysHold == SigningKeysSpec => []KeysInv
<1>1. SigningKeysInv => KeysInv
  BY DEF SigningKeysInv
<1> QED
  BY <1>1, KeysInitially, KeysStepKeeps, PTL DEF SigningKeysSpec

-----------------------------------------------------------------------------
(* The assessment of a grader *)

Fraction == Int \X (Nat \ {0})

\* The smaller and the larger of two numbers.
LEMMA OfTwo ==
  ASSUME NEW a \in Int, NEW b \in Int
  PROVE  /\ Min({a, b}) \in {a, b} /\ Min({a, b}) <= a /\ Min({a, b}) <= b
         /\ Max({a, b}) \in {a, b} /\ Max({a, b}) >= a /\ Max({a, b}) >= b
<1>1. \E x \in {a, b} : \A y \in {a, b} : x <= y
  OBVIOUS
<1>2. \E x \in {a, b} : \A y \in {a, b} : x >= y
  OBVIOUS
<1>3. Min({a, b}) \in {a, b} /\ \A y \in {a, b} : Min({a, b}) <= y
  BY <1>1 DEF Min
<1>4. Max({a, b}) \in {a, b} /\ \A y \in {a, b} : Max({a, b}) >= y
  BY <1>2 DEF Max
<1> QED
  BY <1>3, <1>4

\* f adds up the first n rewards.
Sums(rewards, n, f) == f = [i \in 0..n |-> IF i = 0 THEN 0 ELSE f[i - 1] + rewards[i]]

\* There are such sums, and they are whole.
LEMMA SumsExist ==
  ASSUME NEW rewards, NEW l \in Nat, \A i \in 1..l : rewards[i] \in Int
  PROVE  \A n \in Nat : n <= l => \E f \in [0..n -> Int] : Sums(rewards, n, f)
<1> DEFINE S == {n \in Nat : n <= l => \E f \in [0..n -> Int] : Sums(rewards, n, f)}
<1>1. 0 \in S
  <2>1. PICK f : f = [i \in 0..0 |-> 0]
    OBVIOUS
  <2>2. f \in [0..0 -> Int] /\ Sums(rewards, 0, f)
    BY <2>1 DEF Sums
  <2> QED
    BY <2>2
<1>2. ASSUME NEW n \in Nat, n \in S PROVE n + 1 \in S
  <2>1. SUFFICES ASSUME n + 1 <= l
                 PROVE  \E f \in [0..(n + 1) -> Int] : Sums(rewards, n + 1, f)
    OBVIOUS
  <2>2. PICK f \in [0..n -> Int] : Sums(rewards, n, f)
    BY <1>2, <2>1
  <2>3. PICK g : g = [i \in 0..(n + 1) |-> IF i = n + 1 THEN f[n] + rewards[n + 1] ELSE f[i]]
    OBVIOUS
  <2>4. g \in [0..(n + 1) -> Int]
    <3>1. f[n] + rewards[n + 1] \in Int
      BY <2>1
    <3>2. \A i \in 0..(n + 1) : i # n + 1 => i \in 0..n
      OBVIOUS
    <3> QED
      BY <2>3, <3>1, <3>2
  <2>5. ASSUME NEW i \in 0..(n + 1) PROVE g[i] = IF i = 0 THEN 0 ELSE g[i - 1] + rewards[i]
    <3>1. i # 0 => g[i - 1] = f[i - 1]
      BY <2>3
    <3>2. CASE i = n + 1
      <4>1. i - 1 = n /\ i # 0
        BY <3>2
      <4> QED
        BY <2>3, <3>1, <3>2, <4>1
    <3>3. CASE i # n + 1
      <4>1. i \in 0..n /\ g[i] = f[i]
        BY <2>3, <3>3
      <4>2. f[i] = IF i = 0 THEN 0 ELSE f[i - 1] + rewards[i]
        BY <2>2, <4>1 DEF Sums
      <4> QED
        BY <3>1, <4>1, <4>2
    <3> QED
      BY <3>2, <3>3
  <2>6. Sums(rewards, n + 1, g)
    BY <2>3, <2>5 DEF Sums
  <2> QED
    BY <2>4, <2>6
<1> HIDE DEF S
<1>3. Nat \subseteq S
  BY <1>1, <1>2, EveryNumber
<1> QED
  BY <1>3 DEF S

\* Such sums are one.
LEMMA SumsAgree ==
  ASSUME NEW rewards, NEW n \in Nat, NEW f, NEW g, Sums(rewards, n, f), Sums(rewards, n, g)
  PROVE  f[n] = g[n]
<1> DEFINE S == {i \in Nat : i <= n => f[i] = g[i]}
<1>1. 0 \in S
  BY DEF Sums
<1>2. ASSUME NEW i \in Nat, i \in S PROVE i + 1 \in S
  <2>1. SUFFICES ASSUME i + 1 <= n PROVE f[i + 1] = g[i + 1]
    OBVIOUS
  <2>2. PICK j \in 0..n : j = i + 1
    BY <2>1
  <2>3. f[j] = f[j - 1] + rewards[j] /\ g[j] = g[j - 1] + rewards[j] /\ j - 1 = i
    BY <2>2 DEF Sums
  <2> QED
    BY <1>2, <2>1, <2>2, <2>3
<1> HIDE DEF S
<1>3. Nat \subseteq S
  BY <1>1, <1>2, EveryNumber
<1> QED
  BY <1>3 DEF S

\* The mean of what a grader paid is a fraction, if it was asked at all.
LEMMA MeanIs ==
  ASSUME NEW rewards \in Seq(Rewards), rewards # <<>>
  PROVE  Mean(rewards) \in Fraction
<1>1. PICK n \in Nat : n = Len(rewards) /\ n # 0
  OBVIOUS
<1>2. \A i \in 1..n : rewards[i] \in Int
  <2>1. \A i \in 1..n : rewards[i] \in Rewards
    BY <1>1
  <2> QED
    BY <2>1, RewardsAssumption
<1>3. \E f \in [0..n -> Int] : Sums(rewards, n, f)
  <2>1. \A m \in Nat : m <= n => \E f \in [0..m -> Int] : Sums(rewards, m, f)
    BY ONLY <1>2, SumsExist, n \in Nat
  <2> QED
    BY <2>1
<1>4. PICK f \in [0..n -> Int] : Sums(rewards, n, f)
  BY <1>3
<1>5. PICK sum : sum = CHOOSE g : Sums(rewards, n, g)
  OBVIOUS
<1>6. Sums(rewards, n, sum)
  BY <1>4, <1>5
<1>7. Sum(rewards) = sum[n]
  BY <1>1, <1>5 DEF Sum, Sums
<1>8. sum[n] = f[n]
  BY <1>4, <1>6, SumsAgree
<1>9. Sum(rewards) \in Int
  BY <1>4, <1>7, <1>8
<1> QED
  BY <1>1, <1>9 DEF Mean, Fraction

\* A fraction that b does not exceed does not exceed what does not exceed b.
LEMMA NoneExceeds ==
  ASSUME NEW a \in Fraction, NEW b \in Fraction, NEW c \in Fraction,
         ~Exceeds(a, b), ~Exceeds(b, c)
  PROVE  ~Exceeds(a, c)
<1>1. PICK p \in Int, q \in Nat \ {0} : p = a[1] /\ q = a[2]
  BY DEF Fraction
<1>2. PICK r \in Int, t \in Nat \ {0} : r = b[1] /\ t = b[2]
  BY DEF Fraction
<1>3. PICK u \in Int, v \in Nat \ {0} : u = c[1] /\ v = c[2]
  BY DEF Fraction
<1>4. p * t <= r * q /\ r * v <= u * t
  BY <1>1, <1>2, <1>3 DEF Exceeds
<1>5. p * t * v <= r * q * v
  BY <1>4
<1>6. r * v * q <= u * t * q
  BY <1>4
<1>7. p * v * t <= u * q * t
  BY <1>5, <1>6
<1>8. p * v <= u * q
  BY <1>7
<1> QED
  BY <1>1, <1>3, <1>8 DEF Exceeds

\* Of the fractions that a list holds one is the largest.
LEMMA LargestIs ==
  ASSUME NEW gaps \in SUBSET Fraction, gaps # {}, NEW n \in Nat, NEW h,
         \A g \in gaps : \E i \in 1..n : g = h[i]
  PROVE  /\ Largest(gaps) \in gaps
         /\ \A other \in gaps : ~Exceeds(other, Largest(gaps))
<1> DEFINE Within(m) == {i \in 1..m : h[i] \in gaps}
           Tops(m) == \E k \in Within(m) : \A j \in Within(m) : ~Exceeds(h[j], h[k])
           S == {m \in Nat : Within(m) # {} => Tops(m)}
<1>1. 0 \in S
  OBVIOUS
<1>2. ASSUME NEW m \in Nat, m \in S PROVE m + 1 \in S
  <2>1. SUFFICES ASSUME Within(m + 1) # {} PROVE Tops(m + 1)
    OBVIOUS
  <2>2. \A i \in Within(m + 1) : i = m + 1 \/ i \in Within(m)
    OBVIOUS
  <2>3. \A i \in Within(m) : i \in Within(m + 1)
    OBVIOUS
  <2>4. \A i \in Within(m + 1) : h[i] \in Fraction /\ ~Exceeds(h[i], h[i])
    <3>1. \A g \in Fraction : ~Exceeds(g, g)
      BY DEF Fraction, Exceeds
    <3> QED
      BY <3>1
  <2>5. CASE Within(m) = {}
    <3> HIDE DEF Within
    <3>1. m + 1 \in Within(m + 1)
      BY <2>1, <2>2, <2>5
    <3> QED
      BY <2>2, <2>4, <2>5, <3>1
  <2>6. CASE m + 1 \notin Within(m + 1)
    <3>1. Within(m + 1) = Within(m)
      BY <2>2, <2>3, <2>6
    <3> HIDE DEF Within
    <3> QED
      BY <1>2, <2>1, <3>1
  <2>7. CASE Within(m) # {} /\ m + 1 \in Within(m + 1)
    <3>1. PICK k \in Within(m) : \A j \in Within(m) : ~Exceeds(h[j], h[k])
      BY <1>2, <2>7
    <3> HIDE DEF Within
    <3>2. CASE Exceeds(h[m + 1], h[k])
      <4>1. ~Exceeds(h[k], h[m + 1])
        <5>1. \A g, f \in Fraction : Exceeds(f, g) => ~Exceeds(g, f)
          BY DEF Fraction, Exceeds
        <5> QED
          BY <2>3, <2>4, <2>7, <3>1, <3>2, <5>1
      <4>2. ASSUME NEW j \in Within(m + 1) PROVE ~Exceeds(h[j], h[m + 1])
        BY <2>2, <2>3, <2>4, <2>7, <3>1, <4>1, NoneExceeds
      <4> QED
        BY <2>7, <4>2
    <3>3. CASE ~Exceeds(h[m + 1], h[k])
      BY <2>2, <2>3, <3>1, <3>3
    <3> QED
      BY <3>2, <3>3
  <2> QED
    BY <2>5, <2>6, <2>7
<1>3. n \in S
  <2> HIDE DEF S
  <2> QED
    BY <1>1, <1>2, EveryNumber
<1>4. Within(n) # {}
  OBVIOUS
<1>5. PICK k \in Within(n) : \A j \in Within(n) : ~Exceeds(h[j], h[k])
  BY <1>3, <1>4
<1>6. h[k] \in gaps /\ \A other \in gaps : ~Exceeds(other, h[k])
  <2>1. \A other \in gaps : \E j \in Within(n) : other = h[j]
    OBVIOUS
  <2> QED
    BY <1>5, <2>1
<1> QED
  BY <1>6 DEF Largest

\* A set of positions has a first one.
LEMMA FirstOf ==
  ASSUME NEW S \in SUBSET Nat, S # {}
  PROVE  Min(S) \in S
<1> DEFINE First == \E x \in S : \A y \in S : x <= y
           T == {n \in Nat : (\E m \in 0..n : m \in S) => First}
<1>1. 0 \in T
  OBVIOUS
<1>2. ASSUME NEW n \in Nat, n \in T PROVE n + 1 \in T
  <2>1. CASE \E m \in 0..n : m \in S
    BY <1>2, <2>1
  <2>2. CASE \A m \in 0..n : m \notin S
    <3>1. \A y \in S : n + 1 <= y
      BY <2>2
    <3>2. \A m \in 0..(n + 1) : m \in S => m = n + 1
      BY <2>2
    <3> QED
      BY <3>1, <3>2
  <2> QED
    BY <2>1, <2>2
<1>3. Nat \subseteq T
  <2> HIDE DEF T
  <2> QED
    BY <1>1, <1>2, EveryNumber
<1>4. First
  <2>1. PICK n \in S : TRUE
    OBVIOUS
  <2>2. n \in 0..n /\ n \in T
    BY <1>3
  <2> QED
    BY <2>2
<1> QED
  BY <1>4 DEF Min

\* Of as many whole numbers one is the largest.
LEMMA OneIsLargest ==
  ASSUME NEW g, NEW n \in Nat, \A i \in 1..n : g[i] \in Int
  PROVE  \A m \in Nat : m \in 1..n => \E k \in 1..m : \A j \in 1..m : g[j] <= g[k]
<1> DEFINE S == {m \in Nat : m \in 1..n => \E k \in 1..m : \A j \in 1..m : g[j] <= g[k]}
<1>1. 0 \in S
  OBVIOUS
<1>2. ASSUME NEW m \in Nat, m \in S PROVE m + 1 \in S
  <2>1. SUFFICES ASSUME m + 1 \in 1..n
                 PROVE  \E k \in 1..(m + 1) : \A j \in 1..(m + 1) : g[j] <= g[k]
    OBVIOUS
  <2>2. \A j \in 1..(m + 1) : g[j] \in Int /\ (j = m + 1 \/ j \in 1..m)
    BY <2>1
  <2>3. CASE m = 0
    <3>1. \A j \in 1..(m + 1) : j = m + 1
      BY <2>3
    <3> QED
      BY <2>2, <3>1
  <2>4. CASE m # 0
    <3>1. PICK k \in 1..m : \A j \in 1..m : g[j] <= g[k]
      BY <1>2, <2>1, <2>4
    <3>2. k \in 1..(m + 1) /\ m + 1 \in 1..(m + 1)
      OBVIOUS
    <3> QED
      BY <2>2, <3>1, <3>2
  <2> QED
    BY <2>3, <2>4
<1> HIDE DEF S
<1>3. Nat \subseteq S
  BY <1>1, <1>2, EveryNumber
<1> QED
  BY <1>3 DEF S

-----------------------------------------------------------------------------
(* What holds throughout an assessment *)

\* What one probe is graded, and a point the fuzzer measured.
Grades(o) == Max({1, o.repeats})
Point == [gap : Int]

\* A finding, and the findings on one task.
Found(o) ==
  [channel : Range(o.canaries) \union Range(o.perturbations) \union {"fuzz"},
   status : {"open", "closed", "suspected", "not-tested"},
   gap : Fraction \union {Nothing}, repeats : Nat]
Assessed(o) ==
  [canaries : Seq(Found(o)), perturbations : Seq(Found(o)), fuzz : Found(o) \union {Nothing}]

\* A finding owns up to what it was not graded for.
Owned(o, exhausted, f) ==
  /\ f.status = "closed" => f.repeats > 0
  /\ f.repeats < Grades(o) => f.status = "not-tested" \/ exhausted

\* The findings are on the first of the probes, in order.
InTurn(o, exhausted, probes, findings) ==
  /\ Len(findings) <= Len(probes)
  /\ \A i \in 1..Len(findings) :
       findings[i].channel = probes[i] /\ Owned(o, exhausted, findings[i])

\* What fuzzing found, if it found a gap.
Fuzzing(o, f) ==
  f # Nothing => f.channel = "fuzz" /\ f.status # "closed" /\ (f.status = "open" => o.oracle)

\* The findings on every task that was begun.
Kept(o, exhausted, tasks) ==
  /\ tasks \in Seq(Assessed(o))
  /\ \A t \in 1..Len(tasks) :
       /\ InTurn(o, exhausted, o.canaries, tasks[t].canaries)
       /\ InTurn(o, exhausted, o.perturbations, tasks[t].perturbations)
       /\ Fuzzing(o, tasks[t].fuzz)

\* Every canary and every rewrite has its finding.
Through(o, a) ==
  /\ Len(a.canaries) = Len(o.canaries)
  /\ Len(a.perturbations) = Len(o.perturbations)

\* How far the assessment has come when s is next.
Reached(o, s, tasks) ==
  LET latest == tasks[Len(tasks)]
  IN  /\ s.probe = "determinism" => tasks = <<>>
      /\ s.probe \in {"canary", "rewrite", "seed", "climb"} =>
           /\ Len(tasks) = s.task /\ s.task \in 1..Len(o.tasks)
           /\ \A t \in 1..(s.task - 1) : Through(o, tasks[t])
      /\ s.probe = "canary" =>
           Len(latest.canaries) = s.index - 1 /\ Len(latest.perturbations) = 0
      /\ s.probe = "rewrite" =>
           Len(latest.canaries) = Len(o.canaries) /\ Len(latest.perturbations) = s.index - 1
      /\ s.probe \in {"seed", "climb"} => Through(o, latest)
      /\ s.probe = "report" =>
           Len(tasks) = Len(o.tasks) /\ \A t \in 1..Len(tasks) : Through(o, tasks[t])

\* The leader is the widest of the gaps.
Leads(leader, gaps) ==
  \/ leader = Nothing /\ gaps = {}
  \/ leader \in Point /\ leader.gap \in gaps /\ \A g \in gaps : g <= leader.gap

\* The fuzzer stays within what was left of the budget when it began.
Climbs(o, calls, c, gaps) ==
  /\ c \in [calls : Nat, most : Nat, current : Point \union {Nothing},
             best : Point \union {Nothing}, steps : Nat]
  /\ c.calls <= c.most
  /\ calls + c.most - c.calls <= o.maxGraderCalls
  /\ gaps \subseteq Int /\ Leads(c.best, gaps)

Step == [probe : {"determinism", "canary", "rewrite", "seed", "climb", "report"},
         task : Nat \ {0}, index : Nat \ {0}, baseline : Seq(Rewards)]

\* The findings are kept in turn and owned up to, nothing is spent beyond the budget, and
\* the fuzzer, while it climbs, stays within what is left.
AssessmentInv ==
  /\ options \in Options /\ step \in Step
  /\ graderCalls \in Nat /\ graderCalls <= options.maxGraderCalls
  /\ budgetExhausted \in BOOLEAN
  /\ Kept(options, budgetExhausted, perTask)
  /\ Reached(options, step, perTask)
  /\ IF step.probe \in {"seed", "climb"} THEN Climbs(options, graderCalls, climb, seen)
     ELSE seen = {}

\* An option of the assessment's, by its type.
LEMMA OptionsFit ==
  ASSUME NEW o \in Options
  PROVE  /\ o.tasks \in Seq(Range(o.tasks)) /\ o.canaries \in Seq(Range(o.canaries))
         /\ o.perturbations \in Seq(Range(o.perturbations))
         /\ "fuzz" \notin Range(o.canaries) /\ "fuzz" \notin Range(o.perturbations)
         /\ o.maxGraderCalls \in Nat /\ Grades(o) \in Nat /\ Grades(o) >= 1
<1>1. Grades(o) \in {1, o.repeats} /\ Grades(o) >= 1 /\ o.repeats \in Int
  <2>1. PICK r \in Int : r = o.repeats
    BY OptionsAssumption
  <2>2. Max({1, r}) \in {1, r} /\ Max({1, r}) >= 1
    BY OfTwo
  <2> QED
    BY <2>1, <2>2 DEF Grades
<1>2. Grades(o) \in Nat
  BY <1>1
<1> QED
  BY <1>1, <1>2, OptionsAssumption DEF IsList

\* Grading takes no more than the budget leaves, and owns up to taking less than asked.
LEMMA TakeIs ==
  ASSUME options \in Options, graderCalls \in Nat, graderCalls <= options.maxGraderCalls,
         budgetExhausted \in BOOLEAN, NEW n \in Nat, NEW rewards, Take(n, rewards)
  PROVE  /\ rewards \in Seq(Rewards)
         /\ graderCalls' \in Nat /\ graderCalls' <= options.maxGraderCalls
         /\ budgetExhausted' \in BOOLEAN /\ (budgetExhausted => budgetExhausted')
         /\ Len(rewards) < n => budgetExhausted'
<1>1. PICK left \in Nat : left = Remaining /\ graderCalls + left = options.maxGraderCalls
  <2>1. options.maxGraderCalls \in Nat
    BY OptionsFit
  <2> QED
    BY <2>1 DEF Remaining
<1>2. PICK m \in Nat : m = Min({n, Remaining}) /\ m <= left
  <2>1. Min({n, left}) \in {n, left} /\ Min({n, left}) <= left
    <3>1. n \in Int /\ left \in Int
      OBVIOUS
    <3> QED
      BY <3>1, OfTwo
  <2> QED
    BY <1>1, <2>1
<1>3. rewards \in [1..m -> Rewards]
  BY <1>2 DEF Take
<1>4. rewards \in Seq(Rewards) /\ Len(rewards) = m
  BY <1>3
<1>5. graderCalls' = graderCalls + m
  BY <1>4 DEF Take
<1>6. graderCalls' \in Nat /\ graderCalls' <= options.maxGraderCalls
  BY <1>1, <1>2, <1>5
<1> DEFINE fewer == Len(rewards) < n
<1>7. budgetExhausted' = (budgetExhausted \/ fewer)
  BY DEF Take
<1>8. fewer \in BOOLEAN
  OBVIOUS
<1> HIDE DEF fewer
<1>9. /\ budgetExhausted' \in BOOLEAN /\ (budgetExhausted => budgetExhausted')
      /\ fewer => budgetExhausted'
  BY <1>7, <1>8, Zenon
<1> QED
  BY <1>4, <1>6, <1>9 DEF fewer

\* What is owned up to stays so when the budget runs out.
LEMMA KeptLater ==
  ASSUME NEW o, NEW e \in BOOLEAN, NEW later \in BOOLEAN, e => later, NEW tasks, Kept(o, e, tasks)
  PROVE  Kept(o, later, tasks)
<1>1. ASSUME NEW f, Owned(o, e, f) PROVE Owned(o, later, f)
  BY <1>1 DEF Owned
<1>2. ASSUME NEW probes, NEW findings, InTurn(o, e, probes, findings)
      PROVE  InTurn(o, later, probes, findings)
  BY <1>1, <1>2 DEF InTurn
<1> QED
  BY <1>2 DEF Kept

\* A probe's finding is on its channel and owns up to what it was not graded for.
LEMMA ProbeFound ==
  ASSUME options \in Options, NEW channel \in Range(options.canaries) \union Range(options.perturbations),
         NEW e \in BOOLEAN, NEW rewards \in Seq(Rewards), NEW before, NEW f,
         \/ f = NotTested(channel)
         \/ /\ rewards # <<>> /\ (Len(rewards) < Grades(options) => e)
            /\ f = CanaryFinding(channel, rewards) \/ f = PerturbationFinding(channel, before, rewards)
  PROVE  f \in Found(options) /\ f.channel = channel /\ Owned(options, e, f)
<1>1. CASE f = NotTested(channel)
  <2>1. Owned(options, e, f)
    BY <1>1 DEF NotTested, Owned
  <2> QED
    BY <1>1, <2>1 DEF NotTested, Found
<1>2. CASE /\ rewards # <<>> /\ (Len(rewards) < Grades(options) => e)
           /\ f = CanaryFinding(channel, rewards) \/ f = PerturbationFinding(channel, before, rewards)
  <2>1. PICK n \in Nat : n = Len(rewards) /\ n > 0
    BY <1>2
  <2>2. f.repeats = n /\ f.channel = channel
    BY <1>2, <2>1 DEF CanaryFinding, PerturbationFinding
  <2>3. Owned(options, e, f)
    BY <1>2, <2>1, <2>2 DEF Owned
  <2>4. f \in Found(options)
    <3>1. Mean(rewards) \in Fraction
      BY <1>2, MeanIs
    <3>2. PICK status \in {"open", "closed"}, gap \in Fraction \union {Nothing} :
            f = [channel |-> channel, gap |-> gap, repeats |-> n, status |-> status]
      <4>1. CASE f = CanaryFinding(channel, rewards)
        BY <2>1, <3>1, <4>1 DEF CanaryFinding
      <4>2. CASE f = PerturbationFinding(channel, before, rewards)
        BY <2>1, <4>2 DEF PerturbationFinding
      <4> QED
        BY <1>2, <4>1, <4>2
    <3> QED
      BY <3>2 DEF Found
  <2> QED
    BY <2>2, <2>3, <2>4
<1> QED
  BY <1>1, <1>2

\* The finding on the next probe follows those on the probes before.
LEMMA NextFound ==
  ASSUME NEW o, NEW e \in BOOLEAN, NEW probes, Len(probes) \in Nat,
         NEW findings \in Seq(Found(o)), InTurn(o, e, probes, findings),
         Len(findings) + 1 <= Len(probes),
         NEW f \in Found(o), Owned(o, e, f), f.channel = probes[Len(findings) + 1]
  PROVE  /\ Append(findings, f) \in Seq(Found(o)) /\ InTurn(o, e, probes, Append(findings, f))
         /\ Len(Append(findings, f)) = Len(findings) + 1
<1>1. PICK all : all = Append(findings, f)
  OBVIOUS
<1>2. PICK n \in Nat : n = Len(findings)
  OBVIOUS
<1>3. /\ all \in Seq(Found(o)) /\ Len(all) = n + 1 /\ all[n + 1] = f
      /\ \A i \in 1..n : all[i] = findings[i]
  BY <1>1, <1>2
<1>4. \A i \in 1..(n + 1) : all[i].channel = probes[i] /\ Owned(o, e, all[i])
  <2>1. \A i \in 1..(n + 1) : i = n + 1 \/ i \in 1..n
    OBVIOUS
  <2>2. \A i \in 1..n : all[i].channel = probes[i] /\ Owned(o, e, all[i])
    BY <1>2, <1>3 DEF InTurn
  <2> QED
    BY <1>2, <1>3, <2>1, <2>2
<1> QED
  BY <1>1, <1>2, <1>3, <1>4 DEF InTurn

\* One task's findings take the place of what they were.
LEMMA Replaced ==
  ASSUME NEW o, NEW e \in BOOLEAN, NEW tasks, Kept(o, e, tasks), NEW n \in 1..Len(tasks),
         NEW a \in Assessed(o), InTurn(o, e, o.canaries, a.canaries),
         InTurn(o, e, o.perturbations, a.perturbations), Fuzzing(o, a.fuzz),
         NEW new, new = [tasks EXCEPT ![n] = a]
  PROVE  /\ Kept(o, e, new) /\ Len(new) = Len(tasks) /\ new[n] = a
         /\ \A t \in 1..Len(tasks) : t # n => new[t] = tasks[t]
<1>1. PICK l \in Nat : l = Len(tasks) /\ n \in 1..l /\ tasks \in Seq(Assessed(o))
  BY DEF Kept
<1>2. /\ new \in Seq(Assessed(o)) /\ Len(new) = l /\ new[n] = a
      /\ \A t \in 1..l : t # n => new[t] = tasks[t]
  BY <1>1
<1> QED
  BY <1>1, <1>2 DEF Kept

\* A task begins with no findings.
LEMMA Begun ==
  ASSUME NEW o \in Options, NEW e \in BOOLEAN, NEW tasks, Kept(o, e, tasks)
  PROVE  /\ Kept(o, e, Append(tasks, NewAssessment))
         /\ Len(Append(tasks, NewAssessment)) = Len(tasks) + 1
         /\ \A t \in 1..Len(tasks) : Append(tasks, NewAssessment)[t] = tasks[t]
         /\ Append(tasks, NewAssessment)[Len(tasks) + 1] = NewAssessment
<1>1. PICK l \in Nat : l = Len(tasks) /\ tasks \in Seq(Assessed(o))
  BY DEF Kept
<1>2. PICK a : a = NewAssessment
  OBVIOUS
<1>3. /\ a \in Assessed(o) /\ a.canaries = <<>> /\ a.perturbations = <<>> /\ a.fuzz = Nothing
  BY <1>2 DEF NewAssessment, Assessed
<1>4. Len(o.canaries) \in Nat /\ Len(o.perturbations) \in Nat
  BY OptionsFit
<1>5. /\ InTurn(o, e, o.canaries, a.canaries) /\ InTurn(o, e, o.perturbations, a.perturbations)
      /\ Fuzzing(o, a.fuzz)
  BY <1>3, <1>4 DEF InTurn, Fuzzing
<1>6. PICK new : new = Append(tasks, a)
  OBVIOUS
<1>7. /\ new \in Seq(Assessed(o)) /\ Len(new) = l + 1 /\ new[l + 1] = a
      /\ \A t \in 1..l : new[t] = tasks[t]
  BY <1>1, <1>3, <1>6
<1>8. \A t \in 1..(l + 1) : t = l + 1 \/ t \in 1..l
  OBVIOUS
<1>9. Kept(o, e, new)
  BY <1>1, <1>5, <1>7, <1>8 DEF Kept
<1> QED
  BY <1>1, <1>2, <1>6, <1>7, <1>9

\* The gaps of some points.
Measured(points) == {points[i].gap : i \in DOMAIN points}

\* The leader stays the widest of what was measured.
LEMMA WiderLeads ==
  ASSUME NEW leader \in Point \union {Nothing}, NEW gaps \in SUBSET Int, Leads(leader, gaps),
         NEW points \in Seq(Point)
  PROVE  /\ Wider(leader, points) \in Point \union {Nothing}
         /\ Leads(Wider(leader, points), gaps \union Measured(points))
<1>1. PICK n \in Nat : n = Len(points) /\ DOMAIN points = 1..n
  OBVIOUS
<1>2. \A i \in 1..n : points[i] \in Point /\ points[i] # Nothing /\ points[i].gap \in Int
  <2>1. \A i \in 1..n : points[i] \in Point
    BY <1>1
  <2>2. \A p \in Point : p # Nothing /\ p.gap \in Int
    BY NothingAssumption DEF Point
  <2> QED
    BY <2>1, <2>2
<1>3. PICK more : more = {points[i].gap : i \in 1..n} /\ more = Measured(points)
  BY <1>1 DEF Measured
<1> DEFINE Better(i) == leader = Nothing \/ points[i].gap > leader.gap
           top == {i \in DOMAIN points : Better(i) /\ \A j \in DOMAIN points :
                                           points[j].gap <= points[i].gap}
<1>4. Wider(leader, points) = IF top = {} THEN leader ELSE points[Min(top)]
  BY DEF Wider
<1>5. CASE top = {}
  <2>1. \A g \in more : leader # Nothing /\ g <= leader.gap
    <3>1. SUFFICES ASSUME NEW i \in 1..n PROVE leader # Nothing /\ points[i].gap <= leader.gap
      BY <1>3
    <3>2. PICK k \in 1..n : \A j \in 1..n : points[j].gap <= points[k].gap
      <4>1. PICK g : g = [j \in 1..n |-> points[j].gap]
        OBVIOUS
      <4>2. \A j \in 1..n : g[j] \in Int
        BY <1>2, <4>1
      <4>3. n \in 1..n
        BY <3>1
      <4>4. \E k \in 1..n : \A j \in 1..n : g[j] <= g[k]
        BY <4>2, <4>3, OneIsLargest
      <4> QED
        BY <4>1, <4>4
    <3>3. ~Better(k)
      BY <1>1, <1>5, <3>2
    <3>4. leader \in Point /\ leader.gap \in Int
      BY <3>3 DEF Point
    <3> QED
      BY <1>2, <3>2, <3>3, <3>4
  <2>2. leader = Nothing => more = {}
    BY <2>1
  <2>3. Leads(leader, gaps \union more)
    BY <2>1, <2>2 DEF Leads
  <2> QED
    BY <1>1, <1>3, <1>4, <1>5, <2>3
<1>6. CASE top # {}
  <2>1. PICK m \in 1..n : m = Min(top) /\ m \in top
    <3>1. top \in SUBSET Nat
      BY <1>1
    <3>2. Min(top) \in top
      <4> HIDE DEF top
      <4> QED
        BY <1>6, <3>1, FirstOf
    <3> QED
      BY <1>1, <3>2
  <2>2. Better(m) /\ \A j \in 1..n : points[j].gap <= points[m].gap
    BY <1>1, <2>1
  <2>3. points[m].gap \in more /\ \A g \in more : g <= points[m].gap
    BY <1>3, <2>2
  <2>4. \A g \in gaps : g <= points[m].gap
    <3>1. CASE leader = Nothing
      BY <3>1, NothingAssumption DEF Leads, Point
    <3>2. CASE leader # Nothing
      <4>1. leader.gap \in Int /\ \A g \in gaps : g <= leader.gap
        BY <3>2 DEF Leads, Point
      <4>2. points[m].gap > leader.gap
        BY <2>2, <3>2
      <4> QED
        BY <1>2, <4>1, <4>2
    <3> QED
      BY <3>1, <3>2
  <2>5. Leads(points[m], gaps \union more)
    BY <1>2, <2>3, <2>4 DEF Leads
  <2> QED
    BY <1>1, <1>2, <1>3, <1>4, <1>6, <2>1, <2>5
<1> QED
  BY <1>5, <1>6

\* Fuzzing says that a channel is open only when an oracle measured the solve.
LEMMA FuzzFound ==
  ASSUME NEW best \in Point \union {Nothing}
  PROVE  /\ FuzzFinding(best) \in Found(options) \union {Nothing}
         /\ Fuzzing(options, FuzzFinding(best))
<1>1. PICK f : f = FuzzFinding(best)
  OBVIOUS
<1>2. CASE f # Nothing
  <2>1. best \in Point
    BY <1>1, <1>2 DEF FuzzFinding
  <2>2. <<best.gap, 1>> \in Fraction
    BY <2>1 DEF Point, Fraction
  <2>3. f = [channel |-> "fuzz", gap |-> <<best.gap, 1>>, repeats |-> 1,
             status |-> IF options.oracle THEN "open" ELSE "suspected"]
    BY <1>1, <1>2 DEF FuzzFinding
  <2>4. f \in Found(options)
    BY <2>2, <2>3 DEF Found
  <2>5. Fuzzing(options, f)
    BY <2>3 DEF Fuzzing
  <2> QED
    BY <1>1, <2>4, <2>5
<1> QED
  BY <1>1, <1>2 DEF Fuzzing

\* Every point measured is a whole gap.
LEMMA PointsAre == Points \subseteq Point
<1>1. \A r, s \in Rewards : r \in Int /\ r - s \in Int
  BY RewardsAssumption
<1>2. ASSUME NEW p \in Points PROVE p \in Point
  <2>1. PICK g \in Int : p = [gap |-> g]
    BY <1>1 DEF Points
  <2> QED
    BY <2>1 DEF Point
<1> QED
  BY <1>2

\* The assessment that a step leaves is as it should be.
LEMMA Onward ==
  ASSUME options \in Options, options' = options, step' \in Step, graderCalls' \in Nat,
         graderCalls' <= options.maxGraderCalls, budgetExhausted' \in BOOLEAN,
         Kept(options, budgetExhausted', perTask'), Reached(options, step', perTask'),
         IF step'.probe \in {"seed", "climb"}
         THEN Climbs(options, graderCalls', climb', seen') ELSE seen' = {}
  PROVE  AssessmentInv'
BY DEF AssessmentInv

\* A probe of a task by its number, when nothing is graded yet.
LEMMA ProbingIs ==
  ASSUME NEW probe \in {"determinism", "canary", "rewrite", "seed", "climb", "report"},
         NEW task \in Nat \ {0}, NEW index \in Nat \ {0}
  PROVE  /\ Probing(probe, task, index) \in Step
         /\ Probing(probe, task, index).probe = probe
         /\ Probing(probe, task, index).task = task
         /\ Probing(probe, task, index).index = index
BY DEF Probing, Step

\* After all tasks comes the report.
LEMMA Reported ==
  ASSUME NEW o, NEW s, NEW tasks, s.probe = "report", Len(tasks) = Len(o.tasks),
         \A t \in 1..Len(tasks) : Through(o, tasks[t])
  PROVE  Reached(o, s, tasks)
BY DEF Reached

\* After a task comes the next, from its first canary.
LEMMA TaskBegun ==
  ASSUME NEW o \in Options, NEW e \in BOOLEAN, NEW tasks, Kept(o, e, tasks),
         Len(tasks) + 1 <= Len(o.tasks), \A t \in 1..Len(tasks) : Through(o, tasks[t]),
         NEW s \in Step, s.probe = "canary", s.task = Len(tasks) + 1, s.index = 1
  PROVE  /\ Kept(o, e, Append(tasks, NewAssessment))
         /\ Reached(o, s, Append(tasks, NewAssessment))
<1>1. PICK l \in Nat : l = Len(tasks)
  BY DEF Kept
<1>2. PICK new : new = Append(tasks, NewAssessment)
  OBVIOUS
<1>3. /\ Kept(o, e, new) /\ Len(new) = l + 1 /\ new[l + 1] = NewAssessment
      /\ \A t \in 1..l : new[t] = tasks[t]
  BY <1>1, <1>2, Begun
<1>4. Len(new[l + 1].canaries) = 0 /\ Len(new[l + 1].perturbations) = 0
  BY <1>3 DEF NewAssessment
<1>5. Len(o.tasks) \in Nat /\ l + 1 \in 1..Len(o.tasks)
  BY <1>1, OptionsFit
<1>6. \A t \in 1..(s.task - 1) : Through(o, new[t])
  BY <1>1, <1>3
<1>7. Reached(o, s, new)
  BY <1>1, <1>3, <1>4, <1>5, <1>6 DEF Reached
<1> QED
  BY <1>2, <1>3, <1>7

\* After a task that every probe went through comes the next task, or the report.
LEMMA NextTaskIs ==
  ASSUME options \in Options, step \in Step, NEW e \in BOOLEAN, NEW tasks,
         Kept(options, e, tasks), Len(tasks) = step.task, step.task \in 1..Len(options.tasks),
         \A t \in 1..Len(tasks) : Through(options, tasks[t]),
         NEW new, new = IF NextTask.probe = "report" THEN tasks ELSE Append(tasks, NewAssessment)
  PROVE  /\ Kept(options, e, new) /\ Reached(options, NextTask, new)
         /\ NextTask \in Step /\ NextTask.probe \notin {"seed", "climb"}
<1>1. PICK n \in Nat : n = step.task /\ n > 0 /\ n = Len(tasks)
  BY DEF Step
<1>2. Len(options.tasks) \in Nat
  BY OptionsFit
<1>3. CASE n < Len(options.tasks)
  <2>1. NextTask = Probing("canary", n + 1, 1)
    BY <1>1, <1>3 DEF NextTask
  <2>2. PICK s \in Step : s = NextTask /\ s.probe = "canary" /\ s.task = n + 1 /\ s.index = 1
    BY <2>1, ProbingIs
  <2>3. new = Append(tasks, NewAssessment)
    BY <2>2
  <2>4. Kept(options, e, new) /\ Reached(options, s, new)
    BY <1>1, <1>2, <1>3, <2>2, <2>3, TaskBegun
  <2> QED
    BY <2>2, <2>4
<1>4. CASE ~(n < Len(options.tasks))
  <2>1. NextTask = Probing("report", n, 1)
    BY <1>1, <1>4 DEF NextTask
  <2>2. PICK s \in Step : s = NextTask /\ s.probe = "report"
    BY <1>1, <2>1, ProbingIs
  <2>3. new = tasks /\ Len(tasks) = Len(options.tasks)
    BY <1>1, <1>2, <1>4, <2>2
  <2>4. Reached(options, s, new)
    BY <2>2, <2>3, Reported
  <2> QED
    BY <2>2, <2>3, <2>4
<1> QED
  BY <1>3, <1>4

\* What recording a finding makes of the tasks, and of the step.
AddsCanary(tasks, n, f, new) == new = [tasks EXCEPT ![n].canaries = Append(@, f)]
AddsRewrite(tasks, n, f, new) == new = [tasks EXCEPT ![n].perturbations = Append(@, f)]
AddsFuzz(tasks, n, f, new) == new = [tasks EXCEPT ![n].fuzz = f]
Goes(s, next) == next = [s EXCEPT !.index = @ + 1]

\* A finding on the next canary is kept after those before.
LEMMA CanaryRecorded ==
  ASSUME NEW o \in Options, NEW e \in BOOLEAN, NEW tasks, Kept(o, e, tasks), NEW s \in Step,
         Reached(o, s, tasks), s.probe = "canary", s.index <= Len(o.canaries),
         NEW f \in Found(o), Owned(o, e, f), f.channel = o.canaries[s.index],
         NEW new, AddsCanary(tasks, s.task, f, new), NEW next, Goes(s, next)
  PROVE  Kept(o, e, new) /\ Reached(o, next, new) /\ next \in Step /\ next.probe = "canary"
<1>1. PICK n \in Nat, k \in Nat : n = s.task /\ n > 0 /\ s.index = k + 1
  <2>1. s.task \in Nat \ {0} /\ s.index \in Nat \ {0}
    BY DEF Step
  <2>2. \A i \in Nat \ {0} : i > 0 /\ i - 1 \in Nat /\ i = i - 1 + 1
    OBVIOUS
  <2> QED
    BY <2>1, <2>2
<1>2. /\ Len(tasks) = n /\ n \in 1..Len(o.tasks) /\ (\A t \in 1..(n - 1) : Through(o, tasks[t]))
      /\ Len(tasks[n].canaries) = k /\ Len(tasks[n].perturbations) = 0
  BY <1>1 DEF Reached
<1>3. /\ tasks \in Seq(Assessed(o)) /\ n \in 1..Len(tasks)
      /\ InTurn(o, e, o.canaries, tasks[n].canaries)
      /\ InTurn(o, e, o.perturbations, tasks[n].perturbations) /\ Fuzzing(o, tasks[n].fuzz)
  BY <1>1, <1>2 DEF Kept
<1>4. PICK latest \in Assessed(o) : latest = tasks[n]
  BY <1>3
<1>5. PICK found : found = Append(latest.canaries, f)
  OBVIOUS
<1>6. found \in Seq(Found(o)) /\ InTurn(o, e, o.canaries, found) /\ Len(found) = k + 1
  <2>1. latest.canaries \in Seq(Found(o)) /\ Len(o.canaries) \in Nat
    BY OptionsFit DEF Assessed
  <2> QED
    BY <1>1, <1>2, <1>3, <1>4, <1>5, <2>1, NextFound
<1>7. PICK a \in Assessed(o) : /\ a.canaries = found /\ a.perturbations = latest.perturbations
                               /\ a.fuzz = latest.fuzz /\ a = [latest EXCEPT !.canaries = found]
  BY <1>6 DEF Assessed
<1>8. new = [tasks EXCEPT ![n] = a]
  BY <1>1, <1>3, <1>4, <1>5, <1>7 DEF AddsCanary
<1>9. /\ Kept(o, e, new) /\ Len(new) = n /\ new[n] = a
      /\ \A t \in 1..n : t # n => new[t] = tasks[t]
  <2>1. /\ InTurn(o, e, o.canaries, a.canaries) /\ Fuzzing(o, a.fuzz)
        /\ InTurn(o, e, o.perturbations, a.perturbations)
    BY <1>3, <1>4, <1>6, <1>7
  <2>2. Kept(o, e, new)
    <3>1. ASSUME NEW other, other = [tasks EXCEPT ![n] = a] PROVE Kept(o, e, other)
      BY <1>3, <2>1, <3>1, Replaced, Zenon
    <3> QED
      BY <1>8, <3>1
  <2>4. Len(new) = Len(tasks)
    BY <1>3, <1>8, <2>1, Replaced
  <2>5. new[n] = a
    BY <1>3, <1>8, <2>1, Replaced
  <2>3. \A t \in 1..Len(tasks) : t # n => new[t] = tasks[t]
    BY <1>3, <1>8, <2>1, Replaced
  <2> QED
    BY <1>2, <2>2, <2>3, <2>4, <2>5
<1>10. next \in Step /\ next.probe = "canary" /\ next.task = n /\ next.index = k + 2
  BY <1>1 DEF Step, Goes
<1>11. \A t \in 1..(n - 1) : Through(o, new[t])
  BY <1>2, <1>9
<1>12. Reached(o, next, new)
  <2>1. new[Len(new)] = a /\ Len(new) = next.task /\ next.task \in 1..Len(o.tasks)
    BY <1>2, <1>9, <1>10
  <2>2. Len(a.canaries) = next.index - 1 /\ Len(a.perturbations) = 0
    BY <1>2, <1>4, <1>6, <1>7, <1>10
  <2>3. \A t \in 1..(next.task - 1) : Through(o, new[t])
    BY <1>10, <1>11
  <2> QED
    BY <1>10, <2>1, <2>2, <2>3 DEF Reached
<1> QED
  BY <1>9, <1>10, <1>12

\* And so is one on the next rewrite.
LEMMA RewriteRecorded ==
  ASSUME NEW o \in Options, NEW e \in BOOLEAN, NEW tasks, Kept(o, e, tasks), NEW s \in Step,
         Reached(o, s, tasks), s.probe = "rewrite", s.index <= Len(o.perturbations),
         NEW f \in Found(o), Owned(o, e, f), f.channel = o.perturbations[s.index],
         NEW new, AddsRewrite(tasks, s.task, f, new), NEW next, Goes(s, next)
  PROVE  Kept(o, e, new) /\ Reached(o, next, new) /\ next \in Step /\ next.probe = "rewrite"
<1>1. PICK n \in Nat, k \in Nat : n = s.task /\ n > 0 /\ s.index = k + 1
  <2>1. s.task \in Nat \ {0} /\ s.index \in Nat \ {0}
    BY DEF Step
  <2>2. \A i \in Nat \ {0} : i > 0 /\ i - 1 \in Nat /\ i = i - 1 + 1
    OBVIOUS
  <2> QED
    BY <2>1, <2>2
<1>2. /\ Len(tasks) = n /\ n \in 1..Len(o.tasks) /\ (\A t \in 1..(n - 1) : Through(o, tasks[t]))
      /\ Len(tasks[n].canaries) = Len(o.canaries) /\ Len(tasks[n].perturbations) = k
  BY <1>1 DEF Reached
<1>3. /\ tasks \in Seq(Assessed(o)) /\ n \in 1..Len(tasks)
      /\ InTurn(o, e, o.canaries, tasks[n].canaries)
      /\ InTurn(o, e, o.perturbations, tasks[n].perturbations) /\ Fuzzing(o, tasks[n].fuzz)
  BY <1>1, <1>2 DEF Kept
<1>4. PICK latest \in Assessed(o) : latest = tasks[n]
  BY <1>3
<1>5. PICK found : found = Append(latest.perturbations, f)
  OBVIOUS
<1>6. found \in Seq(Found(o)) /\ InTurn(o, e, o.perturbations, found) /\ Len(found) = k + 1
  <2>1. latest.perturbations \in Seq(Found(o)) /\ Len(o.perturbations) \in Nat
    BY OptionsFit DEF Assessed
  <2> QED
    BY <1>1, <1>2, <1>3, <1>4, <1>5, <2>1, NextFound
<1>7. PICK a \in Assessed(o) : /\ a.canaries = latest.canaries /\ a.perturbations = found
                               /\ a.fuzz = latest.fuzz /\ a = [latest EXCEPT !.perturbations = found]
  BY <1>6 DEF Assessed
<1>8. new = [tasks EXCEPT ![n] = a]
  BY <1>1, <1>3, <1>4, <1>5, <1>7 DEF AddsRewrite
<1>9. /\ Kept(o, e, new) /\ Len(new) = n /\ new[n] = a
      /\ \A t \in 1..n : t # n => new[t] = tasks[t]
  <2>1. /\ InTurn(o, e, o.canaries, a.canaries) /\ Fuzzing(o, a.fuzz)
        /\ InTurn(o, e, o.perturbations, a.perturbations)
    BY <1>3, <1>4, <1>6, <1>7
  <2>2. Kept(o, e, new)
    <3>1. ASSUME NEW other, other = [tasks EXCEPT ![n] = a] PROVE Kept(o, e, other)
      BY <1>3, <2>1, <3>1, Replaced, Zenon
    <3> QED
      BY <1>8, <3>1
  <2>4. Len(new) = Len(tasks)
    BY <1>3, <1>8, <2>1, Replaced
  <2>5. new[n] = a
    BY <1>3, <1>8, <2>1, Replaced
  <2>3. \A t \in 1..Len(tasks) : t # n => new[t] = tasks[t]
    BY <1>3, <1>8, <2>1, Replaced
  <2> QED
    BY <1>2, <2>2, <2>3, <2>4, <2>5
<1>10. next \in Step /\ next.probe = "rewrite" /\ next.task = n /\ next.index = k + 2
  BY <1>1 DEF Step, Goes
<1>11. \A t \in 1..(n - 1) : Through(o, new[t])
  BY <1>2, <1>9
<1>12. Reached(o, next, new)
  <2>1. new[Len(new)] = a /\ Len(new) = next.task /\ next.task \in 1..Len(o.tasks)
    BY <1>2, <1>9, <1>10
  <2>2. Len(a.canaries) = Len(o.canaries) /\ Len(a.perturbations) = next.index - 1
    BY <1>2, <1>4, <1>6, <1>7, <1>10
  <2>3. \A t \in 1..(next.task - 1) : Through(o, new[t])
    BY <1>10, <1>11
  <2> QED
    BY <1>10, <2>1, <2>2, <2>3 DEF Reached
<1> QED
  BY <1>9, <1>10, <1>12

\* What fuzzing found is kept with the findings before.
LEMMA FuzzRecorded ==
  ASSUME NEW o \in Options, NEW e \in BOOLEAN, NEW tasks, Kept(o, e, tasks), NEW s \in Step,
         Reached(o, s, tasks), s.probe \in {"seed", "climb"},
         NEW f \in Found(o) \union {Nothing}, Fuzzing(o, f),
         NEW new, AddsFuzz(tasks, s.task, f, new)
  PROVE  /\ Kept(o, e, new) /\ Len(new) = s.task /\ s.task \in 1..Len(o.tasks)
         /\ \A t \in 1..Len(new) : Through(o, new[t])
<1>1. PICK n \in Nat : n = s.task /\ n > 0
  BY DEF Step
<1>2. /\ Len(tasks) = n /\ n \in 1..Len(o.tasks) /\ (\A t \in 1..(n - 1) : Through(o, tasks[t]))
      /\ Through(o, tasks[n])
  BY <1>1 DEF Reached
<1>3. /\ tasks \in Seq(Assessed(o)) /\ n \in 1..Len(tasks)
      /\ InTurn(o, e, o.canaries, tasks[n].canaries)
      /\ InTurn(o, e, o.perturbations, tasks[n].perturbations)
  BY <1>1, <1>2 DEF Kept
<1>4. PICK latest \in Assessed(o) : latest = tasks[n]
  BY <1>3
<1>5. PICK a \in Assessed(o) : /\ a.canaries = latest.canaries /\ a.perturbations = latest.perturbations
                               /\ a.fuzz = f /\ a = [latest EXCEPT !.fuzz = f]
  BY DEF Assessed
<1>6. new = [tasks EXCEPT ![n] = a]
  BY <1>1, <1>3, <1>4, <1>5 DEF AddsFuzz
<1>7. /\ Kept(o, e, new) /\ Len(new) = n /\ new[n] = a
      /\ \A t \in 1..n : t # n => new[t] = tasks[t]
  <2>1. /\ InTurn(o, e, o.canaries, a.canaries) /\ Fuzzing(o, a.fuzz)
        /\ InTurn(o, e, o.perturbations, a.perturbations)
    BY <1>3, <1>4, <1>5
  <2>2. Kept(o, e, new)
    <3>1. ASSUME NEW other, other = [tasks EXCEPT ![n] = a] PROVE Kept(o, e, other)
      BY <1>3, <2>1, <3>1, Replaced, Zenon
    <3> QED
      BY <1>6, <3>1
  <2>4. Len(new) = Len(tasks)
    BY <1>3, <1>6, <2>1, Replaced
  <2>5. new[n] = a
    BY <1>3, <1>6, <2>1, Replaced
  <2>3. \A t \in 1..Len(tasks) : t # n => new[t] = tasks[t]
    BY <1>3, <1>6, <2>1, Replaced
  <2> QED
    BY <1>2, <2>2, <2>3, <2>4, <2>5
<1>8. ASSUME NEW t \in 1..n PROVE Through(o, new[t])
  <2>1. t = n \/ t \in 1..(n - 1)
    OBVIOUS
  <2>2. Through(o, a)
    BY <1>2, <1>4, <1>5 DEF Through
  <2> QED
    BY <1>2, <1>7, <2>1, <2>2
<1> QED
  BY <1>1, <1>2, <1>7, <1>8

-----------------------------------------------------------------------------
(* Every step keeps it *)

\* Repeated grades of one submission spend the budget and begin the first task.
LEMMA DeterminismKeeps == AssessmentInv /\ ProbeDeterminism => AssessmentInv'
<1>1. SUFFICES ASSUME AssessmentInv, ProbeDeterminism PROVE AssessmentInv'
  OBVIOUS
<1>2. /\ options \in Options /\ step \in Step /\ step.probe = "determinism"
      /\ graderCalls \in Nat /\ graderCalls <= options.maxGraderCalls
      /\ budgetExhausted \in BOOLEAN /\ Kept(options, budgetExhausted, perTask)
      /\ perTask = <<>> /\ seen = {} /\ options' = options /\ seen' = seen
  BY <1>1 DEF AssessmentInv, ProbeDeterminism, Reached
<1>3. /\ graderCalls' \in Nat /\ graderCalls' <= options.maxGraderCalls
      /\ budgetExhausted' \in BOOLEAN /\ (budgetExhausted => budgetExhausted')
  <2>1. PICK rewards :
          \/ options.determinismSamples > 1 /\ Take(options.determinismSamples, rewards)
          \/ UNCHANGED <<graderCalls, budgetExhausted>>
    BY <1>1 DEF ProbeDeterminism
  <2>2. CASE UNCHANGED <<graderCalls, budgetExhausted>>
    BY <1>2, <2>2
  <2>3. CASE options.determinismSamples > 1 /\ Take(options.determinismSamples, rewards)
    <3>1. options.determinismSamples \in Nat
      BY <1>2, <2>3, OptionsAssumption
    <3> QED
      BY <1>2, <2>3, <3>1, TakeIs
  <2> QED
    BY <2>1, <2>2, <2>3
<1>4. Kept(options, budgetExhausted', perTask)
  BY <1>2, <1>3, KeptLater
<1>5. Len(options.tasks) \in Nat /\ (options.tasks # <<>> => Len(options.tasks) >= 1)
  BY <1>2, OptionsFit
<1>6. CASE options.tasks = <<>>
  <2>1. step' = Probing("report", 1, 1) /\ perTask' = perTask
    BY <1>1, <1>6 DEF ProbeDeterminism
  <2>2. step' \in Step /\ step'.probe = "report"
    BY <2>1, ProbingIs
  <2>3. Reached(options, step', perTask')
    BY <1>2, <1>6, <2>1, <2>2, Reported
  <2> QED
    BY <1>2, <1>3, <1>4, <2>1, <2>2, <2>3, Onward
<1>7. CASE options.tasks # <<>>
  <2>1. step' = Probing("canary", 1, 1) /\ perTask' = Append(perTask, NewAssessment)
    BY <1>1, <1>2, <1>7 DEF ProbeDeterminism
  <2>2. PICK s \in Step : s = step' /\ s.probe = "canary" /\ s.task = 1 /\ s.index = 1
    BY <2>1, ProbingIs
  <2>3. /\ Len(perTask) = 0 /\ Len(perTask) + 1 <= Len(options.tasks) /\ s.task = Len(perTask) + 1
        /\ \A t \in 1..Len(perTask) : Through(options, perTask[t])
    BY <1>2, <1>5, <1>7, <2>2
  <2>4. Kept(options, budgetExhausted', perTask') /\ Reached(options, s, perTask')
    BY <1>2, <1>3, <1>4, <2>1, <2>2, <2>3, TaskBegun
  <2> QED
    BY <1>2, <1>3, <2>2, <2>4, Onward
<1> QED
  BY <1>6, <1>7

\* A canary's finding comes after those of the canaries before it.
LEMMA CanaryKeeps == AssessmentInv /\ ProbeCanary => AssessmentInv'
<1>1. SUFFICES ASSUME AssessmentInv, ProbeCanary PROVE AssessmentInv'
  OBVIOUS
<1>2. /\ options \in Options /\ step \in Step /\ step.probe = "canary"
      /\ step.index <= Len(options.canaries)
      /\ graderCalls \in Nat /\ graderCalls <= options.maxGraderCalls
      /\ budgetExhausted \in BOOLEAN /\ Kept(options, budgetExhausted, perTask)
      /\ Reached(options, step, perTask) /\ seen = {} /\ options' = options /\ seen' = seen
      /\ step' = [step EXCEPT !.index = @ + 1]
  BY <1>1 DEF AssessmentInv, ProbeCanary
<1>3. PICK canary : canary = options.canaries[step.index] /\ canary \in Range(options.canaries)
  <2>1. step.index \in 1..Len(options.canaries)
    BY <1>2, OptionsFit DEF Step
  <2> QED
    BY <1>2, <2>1, OptionsFit
<1>4. PICK rewards, f :
        /\ perTask' = [perTask EXCEPT ![step.task].canaries = Append(@, f)]
        /\ \/ f = NotTested(canary) /\ UNCHANGED <<graderCalls, budgetExhausted>>
           \/ /\ Take(Repeats, rewards)
              /\ f = IF rewards = <<>> THEN NotTested(canary) ELSE CanaryFinding(canary, rewards)
  BY <1>1, <1>3 DEF ProbeCanary
<1>5. /\ graderCalls' \in Nat /\ graderCalls' <= options.maxGraderCalls
      /\ budgetExhausted' \in BOOLEAN /\ (budgetExhausted => budgetExhausted')
      /\ f \in Found(options) /\ f.channel = canary /\ Owned(options, budgetExhausted', f)
  <2>1. CASE f = NotTested(canary) /\ UNCHANGED <<graderCalls, budgetExhausted>>
    <3>1. <<>> \in Seq(Rewards)
      OBVIOUS
    <3> QED
      BY <1>2, <1>3, <2>1, <3>1, ProbeFound
  <2>2. CASE /\ Take(Repeats, rewards)
             /\ f = IF rewards = <<>> THEN NotTested(canary) ELSE CanaryFinding(canary, rewards)
    <3>1. Repeats = Grades(options) /\ Repeats \in Nat
      BY <1>2, OptionsFit DEF Repeats, Grades
    <3>2. /\ graderCalls' \in Nat /\ graderCalls' <= options.maxGraderCalls
          /\ budgetExhausted' \in BOOLEAN /\ (budgetExhausted => budgetExhausted')
          /\ rewards \in Seq(Rewards) /\ (Len(rewards) < Repeats => budgetExhausted')
      BY <1>2, <2>2, <3>1, TakeIs
    <3>3. f \in Found(options) /\ f.channel = canary /\ Owned(options, budgetExhausted', f)
      <4>1. canary \in Range(options.canaries) \union Range(options.perturbations)
        BY <1>3
      <4>2. CASE rewards = <<>>
        <5>1. f = NotTested(canary)
          BY <2>2, <4>2
        <5> QED
          BY <1>2, <3>2, <4>1, <5>1, ProbeFound
      <4>3. CASE rewards # <<>>
        <5>1. f = CanaryFinding(canary, rewards) /\ (Len(rewards) < Grades(options) => budgetExhausted')
          BY <2>2, <3>1, <3>2, <4>3
        <5> QED
          BY <1>2, <3>2, <4>1, <4>3, <5>1, ProbeFound
      <4> QED
        BY <4>2, <4>3
    <3> QED
      BY <3>2, <3>3
  <2> QED
    BY <1>4, <2>1, <2>2
<1>6. Kept(options, budgetExhausted', perTask)
  BY <1>2, <1>5, KeptLater
<1>7. /\ Kept(options, budgetExhausted', perTask') /\ Reached(options, step', perTask')
      /\ step' \in Step /\ step'.probe = "canary"
  <2>1. PICK e, new, next : e \in BOOLEAN /\ e = budgetExhausted' /\ new = perTask' /\ next = step'
    BY <1>5
  <2>2. /\ Kept(options, e, perTask) /\ Owned(options, e, f)
        /\ f.channel = options.canaries[step.index]
    BY <1>3, <1>5, <1>6, <2>1
  <2>3. AddsCanary(perTask, step.task, f, new) /\ Goes(step, next)
    BY <1>2, <1>4, <2>1 DEF AddsCanary, Goes
  <2>4. Kept(options, e, new) /\ Reached(options, next, new) /\ next \in Step /\ next.probe = "canary"
    BY <1>2, <1>5, <2>1, <2>2, <2>3, CanaryRecorded
  <2> QED
    BY <2>1, <2>4
<1> QED
  BY <1>2, <1>5, <1>7, Onward

\* The reference is graded when every canary has its finding.
LEMMA BaselineKeeps == AssessmentInv /\ ProbeBaseline => AssessmentInv'
<1>1. SUFFICES ASSUME AssessmentInv, ProbeBaseline PROVE AssessmentInv'
  OBVIOUS
<1>2. /\ options \in Options /\ step \in Step /\ step.probe = "canary"
      /\ step.index > Len(options.canaries)
      /\ graderCalls \in Nat /\ graderCalls <= options.maxGraderCalls
      /\ budgetExhausted \in BOOLEAN /\ Kept(options, budgetExhausted, perTask)
      /\ Reached(options, step, perTask) /\ seen = {} /\ options' = options /\ seen' = seen
      /\ perTask' = perTask
  BY <1>1 DEF AssessmentInv, ProbeBaseline
<1>3. PICK n \in Nat \ {0} : n = step.task
  BY <1>2 DEF Step
<1>4. PICK first \in Step : /\ first = Probing("rewrite", n, 1) /\ first.probe = "rewrite"
                            /\ first.task = n /\ first.index = 1
  BY ProbingIs
<1>5. \E rewards \in Seq(Rewards) :
        /\ graderCalls' \in Nat /\ graderCalls' <= options.maxGraderCalls
        /\ budgetExhausted' \in BOOLEAN /\ (budgetExhausted => budgetExhausted')
        /\ step' = first \/ step' = [first EXCEPT !.baseline = rewards]
  <2>1. CASE Task.reference
    <3>1. PICK rewards : /\ Take(Repeats, rewards)
                         /\ step' = [first EXCEPT !.baseline = rewards]
      BY <1>1, <1>3, <1>4, <2>1 DEF ProbeBaseline
    <3>2. Repeats \in Nat
      BY <1>2, OptionsFit DEF Repeats, Grades
    <3> QED
      BY <1>2, <3>1, <3>2, TakeIs
  <2>2. CASE ~Task.reference
    <3>1. step' = first /\ UNCHANGED <<graderCalls, budgetExhausted>>
      BY <1>1, <1>3, <1>4, <2>2 DEF ProbeBaseline
    <3>2. <<>> \in Seq(Rewards)
      OBVIOUS
    <3> QED
      BY <1>2, <3>1, <3>2
  <2> QED
    BY <2>1, <2>2
<1>6. step' \in Step /\ step'.probe = "rewrite" /\ step'.task = n /\ step'.index = 1
  BY <1>4, <1>5 DEF Step
<1>7. Kept(options, budgetExhausted', perTask)
  BY <1>2, <1>5, KeptLater
<1>8. PICK latest \in Assessed(options) : latest = perTask[n]
  <2>1. n \in 1..Len(perTask) /\ perTask \in Seq(Assessed(options))
    BY <1>2, <1>3 DEF Reached, Kept
  <2> QED
    BY <2>1
<1>9. PICK k \in Nat : k = Len(options.canaries)
  BY <1>2, OptionsFit
<1>10. /\ Len(perTask) = n /\ n \in 1..Len(options.tasks)
       /\ \A t \in 1..(n - 1) : Through(options, perTask[t])
       /\ Len(latest.canaries) = step.index - 1 /\ Len(latest.perturbations) = 0
  BY <1>2, <1>3, <1>8 DEF Reached
<1>11. Len(latest.canaries) = Len(options.canaries)
  <2>1. Len(latest.canaries) <= k
    BY <1>2, <1>3, <1>8, <1>9, <1>10 DEF Kept, InTurn
  <2>2. step.index \in Nat
    BY <1>2 DEF Step
  <2> QED
    BY <1>2, <1>9, <1>10, <2>1, <2>2
<1>12. Reached(options, step', perTask')
  BY <1>2, <1>6, <1>8, <1>10, <1>11 DEF Reached
<1> QED
  BY <1>2, <1>5, <1>6, <1>7, <1>12, Onward

\* A rewrite's finding comes after those of the rewrites before it.
LEMMA PerturbationKeeps == AssessmentInv /\ ProbePerturbation => AssessmentInv'
<1>1. SUFFICES ASSUME AssessmentInv, ProbePerturbation PROVE AssessmentInv'
  OBVIOUS
<1>2. /\ options \in Options /\ step \in Step /\ step.probe = "rewrite"
      /\ step.index <= Len(options.perturbations)
      /\ graderCalls \in Nat /\ graderCalls <= options.maxGraderCalls
      /\ budgetExhausted \in BOOLEAN /\ Kept(options, budgetExhausted, perTask)
      /\ Reached(options, step, perTask) /\ seen = {} /\ options' = options /\ seen' = seen
      /\ step' = [step EXCEPT !.index = @ + 1]
  BY <1>1 DEF AssessmentInv, ProbePerturbation
<1>3. PICK perturbation : /\ perturbation = options.perturbations[step.index]
                          /\ perturbation \in Range(options.perturbations)
  <2>1. step.index \in 1..Len(options.perturbations)
    BY <1>2, OptionsFit DEF Step
  <2> QED
    BY <1>2, <2>1, OptionsFit
<1>4. PICK rewards, f :
        /\ perTask' = [perTask EXCEPT ![step.task].perturbations = Append(@, f)]
        /\ \/ f = NotTested(perturbation) /\ UNCHANGED <<graderCalls, budgetExhausted>>
           \/ /\ Take(Repeats, rewards)
              /\ f = IF rewards = <<>> THEN NotTested(perturbation)
                     ELSE PerturbationFinding(perturbation, step.baseline, rewards)
  BY <1>1, <1>3 DEF ProbePerturbation
<1>5. /\ graderCalls' \in Nat /\ graderCalls' <= options.maxGraderCalls
      /\ budgetExhausted' \in BOOLEAN /\ (budgetExhausted => budgetExhausted')
      /\ f \in Found(options) /\ f.channel = perturbation /\ Owned(options, budgetExhausted', f)
  <2>1. CASE f = NotTested(perturbation) /\ UNCHANGED <<graderCalls, budgetExhausted>>
    <3>1. <<>> \in Seq(Rewards)
      OBVIOUS
    <3> QED
      BY <1>2, <1>3, <2>1, <3>1, ProbeFound
  <2>2. CASE /\ Take(Repeats, rewards)
             /\ f = IF rewards = <<>> THEN NotTested(perturbation)
                    ELSE PerturbationFinding(perturbation, step.baseline, rewards)
    <3>1. Repeats = Grades(options) /\ Repeats \in Nat
      BY <1>2, OptionsFit DEF Repeats, Grades
    <3>2. /\ graderCalls' \in Nat /\ graderCalls' <= options.maxGraderCalls
          /\ budgetExhausted' \in BOOLEAN /\ (budgetExhausted => budgetExhausted')
          /\ rewards \in Seq(Rewards) /\ (Len(rewards) < Repeats => budgetExhausted')
      BY <1>2, <2>2, <3>1, TakeIs
    <3>3. f \in Found(options) /\ f.channel = perturbation /\ Owned(options, budgetExhausted', f)
      <4>1. perturbation \in Range(options.canaries) \union Range(options.perturbations)
        BY <1>3
      <4>2. CASE rewards = <<>>
        <5>1. f = NotTested(perturbation)
          BY <2>2, <4>2
        <5> QED
          BY <1>2, <3>2, <4>1, <5>1, ProbeFound
      <4>3. CASE rewards # <<>>
        <5>1. /\ f = PerturbationFinding(perturbation, step.baseline, rewards)
              /\ Len(rewards) < Grades(options) => budgetExhausted'
          BY <2>2, <3>1, <3>2, <4>3
        <5> QED
          BY <1>2, <3>2, <4>1, <4>3, <5>1, ProbeFound
      <4> QED
        BY <4>2, <4>3
    <3> QED
      BY <3>2, <3>3
  <2> QED
    BY <1>4, <2>1, <2>2
<1>6. Kept(options, budgetExhausted', perTask)
  BY <1>2, <1>5, KeptLater
<1>7. /\ Kept(options, budgetExhausted', perTask') /\ Reached(options, step', perTask')
      /\ step' \in Step /\ step'.probe = "rewrite"
  <2>1. PICK e, new, next : /\ e \in BOOLEAN /\ e = budgetExhausted'
                            /\ new = perTask' /\ next = step'
    BY <1>5
  <2>2. /\ Kept(options, e, perTask) /\ Owned(options, e, f)
        /\ f.channel = options.perturbations[step.index]
    BY <1>3, <1>5, <1>6, <2>1
  <2>3. AddsRewrite(perTask, step.task, f, new) /\ Goes(step, next)
    BY <1>2, <1>4, <2>1 DEF AddsRewrite, Goes
  <2>4. Kept(options, e, new) /\ Reached(options, next, new) /\ next \in Step /\ next.probe = "rewrite"
    BY <1>2, <1>5, <2>1, <2>2, <2>3, RewriteRecorded
  <2> QED
    BY <2>1, <2>4
<1> QED
  BY <1>2, <1>5, <1>7, Onward

\* The fuzzer gets no more calls than the assessment has left.
LEMMA EnterFuzzKeeps == AssessmentInv /\ EnterFuzz => AssessmentInv'
<1>1. SUFFICES ASSUME AssessmentInv, EnterFuzz PROVE AssessmentInv'
  OBVIOUS
<1>2. /\ options \in Options /\ step \in Step /\ step.probe = "rewrite"
      /\ step.index > Len(options.perturbations)
      /\ graderCalls \in Nat /\ graderCalls <= options.maxGraderCalls
      /\ budgetExhausted \in BOOLEAN /\ Kept(options, budgetExhausted, perTask)
      /\ Reached(options, step, perTask) /\ options' = options /\ seen' = {}
      /\ graderCalls' = graderCalls /\ budgetExhausted' = budgetExhausted
  BY <1>1 DEF AssessmentInv, EnterFuzz
<1>3. PICK n \in Nat \ {0} : n = step.task
  BY <1>2 DEF Step
<1>4. /\ Len(perTask) = n /\ n \in 1..Len(options.tasks)
      /\ \A t \in 1..(n - 1) : Through(options, perTask[t])
      /\ Len(perTask[n].canaries) = Len(options.canaries)
      /\ Len(perTask[n].perturbations) = step.index - 1
  BY <1>2, <1>3 DEF Reached
<1>5. Through(options, perTask[n])
  <2>1. PICK k \in Nat : k = Len(options.perturbations)
    BY <1>2, OptionsFit
  <2>2. n \in 1..Len(perTask) /\ Len(perTask[n].perturbations) <= k
    BY <1>2, <1>4, <2>1 DEF Kept, InTurn
  <2>3. step.index \in Nat
    BY <1>2 DEF Step
  <2>4. Len(perTask[n].perturbations) = k
    BY <1>2, <1>4, <2>1, <2>2, <2>3
  <2> QED
    BY <1>4, <2>1, <2>4 DEF Through
<1>6. \A t \in 1..Len(perTask) : Through(options, perTask[t])
  <2>1. \A t \in 1..n : t = n \/ t \in 1..(n - 1)
    OBVIOUS
  <2> QED
    BY <1>4, <1>5, <2>1
<1>7. CASE options.fuzz # Nothing /\ Remaining > 0 /\ Seeds # <<>>
  <2>1. /\ step' = Probing("seed", n, 1) /\ perTask' = perTask
        /\ climb' = [calls |-> 0, current |-> Nothing, best |-> Nothing, steps |-> 0,
                     most |-> Min({options.fuzz.maxGraderCallsPerTask, Remaining})]
    BY <1>1, <1>3, <1>7 DEF EnterFuzz
  <2>2. PICK s \in Step : s = step' /\ s.probe = "seed" /\ s.task = n
    BY <2>1, ProbingIs
  <2>3. PICK left \in Nat : left = Remaining /\ graderCalls + left = options.maxGraderCalls
    <3>1. options.maxGraderCalls \in Nat
      BY <1>2, OptionsFit
    <3> QED
      BY <1>2, <3>1 DEF Remaining
  <2>4. PICK most \in Nat : most = climb'.most /\ most <= left
    <3>1. PICK limit \in Nat : limit = options.fuzz.maxGraderCallsPerTask
      BY <1>2, <1>7, OptionsAssumption
    <3>2. Min({limit, left}) \in {limit, left} /\ Min({limit, left}) <= left
      <4>1. limit \in Int /\ left \in Int
        OBVIOUS
      <4> QED
        BY <4>1, OfTwo
    <3> QED
      BY <2>1, <2>3, <3>1, <3>2
  <2>5. PICK c : c = climb' /\ c.calls = 0 /\ c.most = most /\ c.best = Nothing
                 /\ c \in [calls : Nat, most : Nat, current : Point \union {Nothing},
                           best : Point \union {Nothing}, steps : Nat]
    BY <2>1, <2>4
  <2>6. Climbs(options, graderCalls, c, {})
    BY <1>2, <2>3, <2>4, <2>5 DEF Climbs, Leads
  <2>7. Reached(options, s, perTask)
    BY <1>4, <1>5, <2>2 DEF Reached
  <2> QED
    BY <1>2, <2>1, <2>2, <2>5, <2>6, <2>7, Onward
<1>8. CASE ~(options.fuzz # Nothing /\ Remaining > 0 /\ Seeds # <<>>)
  <2>1. /\ step' = NextTask
        /\ perTask' = IF NextTask.probe = "report" THEN perTask ELSE Append(perTask, NewAssessment)
    BY <1>1, <1>8 DEF EnterFuzz
  <2>2. /\ Kept(options, budgetExhausted, perTask') /\ Reached(options, NextTask, perTask')
        /\ NextTask \in Step /\ NextTask.probe \notin {"seed", "climb"}
    BY <1>2, <1>3, <1>4, <1>6, <2>1, NextTaskIs
  <2> QED
    BY <1>2, <2>1, <2>2, Onward
<1> QED
  BY <1>7, <1>8

\* The fuzzer's calls stay within its own budget and the assessment's.
LEMMA ClimbsOn ==
  ASSUME NEW o \in Options, NEW calls \in Nat, NEW c, NEW gaps, Climbs(o, calls, c, gaps),
         NEW points \in Seq(Point), c.calls + Len(points) <= c.most,
         NEW d \in [calls : Nat, most : Nat, current : Point \union {Nothing},
                    best : Point \union {Nothing}, steps : Nat],
         d.calls = c.calls + Len(points), d.most = c.most, d.best = Wider(c.best, points)
  PROVE  /\ Climbs(o, calls + Len(points), d, gaps \union Measured(points))
         /\ calls + Len(points) \in Nat /\ calls + Len(points) <= o.maxGraderCalls
<1>1. PICK m \in Nat, been \in Nat, most \in Nat :
        m = Len(points) /\ been = c.calls /\ most = c.most
  BY DEF Climbs
<1>2. calls + most - been <= o.maxGraderCalls /\ been + m <= most /\ o.maxGraderCalls \in Nat
  BY <1>1, OptionsFit DEF Climbs
<1>3. /\ calls + m \in Nat /\ calls + m <= o.maxGraderCalls
      /\ calls + m + most - (been + m) <= o.maxGraderCalls
  BY <1>2
<1>4. PICK more : more = Measured(points)
  OBVIOUS
<1>5. more \subseteq Int
  <2>1. \A i \in DOMAIN points : points[i] \in Point
    OBVIOUS
  <2> QED
    BY <1>4, <2>1 DEF Point, Measured
<1>6. Leads(d.best, gaps \union more) /\ gaps \subseteq Int
  <2>1. c.best \in Point \union {Nothing} /\ gaps \in SUBSET Int /\ Leads(c.best, gaps)
    BY DEF Climbs
  <2> QED
    BY <1>4, <2>1, WiderLeads
<1>7. Climbs(o, calls + m, d, gaps \union more)
  BY <1>1, <1>2, <1>3, <1>5, <1>6 DEF Climbs
<1> QED
  BY <1>1, <1>3, <1>4, <1>7

\* While it fuzzes, the assessment is no further.
LEMMA FuzzingStill ==
  ASSUME NEW o, NEW tasks, NEW s, NEW t, Reached(o, s, tasks), s.probe \in {"seed", "climb"},
         t.probe \in {"seed", "climb"}, t.task = s.task
  PROVE  Reached(o, t, tasks)
BY DEF Reached

\* A seed is one call, and leads if its gap is the widest.
LEMMA FuzzSeedKeeps == AssessmentInv /\ FuzzSeed => AssessmentInv'
<1>1. SUFFICES ASSUME AssessmentInv, FuzzSeed PROVE AssessmentInv'
  OBVIOUS
<1>2. /\ options \in Options /\ step \in Step /\ step.probe = "seed"
      /\ graderCalls \in Nat /\ climb.calls < climb.most
      /\ budgetExhausted \in BOOLEAN /\ Kept(options, budgetExhausted, perTask)
      /\ Reached(options, step, perTask) /\ Climbs(options, graderCalls, climb, seen)
      /\ options' = options /\ budgetExhausted' = budgetExhausted /\ perTask' = perTask
      /\ step' = [step EXCEPT !.probe = "climb"]
  BY <1>1 DEF AssessmentInv, FuzzSeed
<1>3. PICK point \in Point :
        /\ Scored(<<point>>)
        /\ climb' = [climb EXCEPT !.calls = @ + 1, !.current = point, !.steps = 0,
                                  !.best = Wider(@, <<point>>)]
  BY <1>1, PointsAre DEF FuzzSeed
<1>4. PICK points : points = <<point>> /\ points \in Seq(Point) /\ Len(points) = 1
  <2>1. <<point>> \in Seq(Point) /\ Len(<<point>>) = 1
    OBVIOUS
  <2> QED
    BY <2>1
<1>5. PICK c : /\ c = climb /\ Climbs(options, graderCalls, c, seen)
               /\ c \in [calls : Nat, most : Nat, current : Point \union {Nothing},
                         best : Point \union {Nothing}, steps : Nat]
  BY <1>2 DEF Climbs
<1>6. Wider(c.best, points) \in Point \union {Nothing}
  <2>1. c.best \in Point \union {Nothing} /\ seen \in SUBSET Int /\ Leads(c.best, seen)
    BY <1>5 DEF Climbs
  <2> QED
    BY <1>4, <2>1, WiderLeads
<1>7. PICK d \in [calls : Nat, most : Nat, current : Point \union {Nothing},
                  best : Point \union {Nothing}, steps : Nat] :
        d = climb' /\ d.calls = c.calls + 1 /\ d.most = c.most /\ d.best = Wider(c.best, points)
  <2>1. c.calls + 1 \in Nat /\ c.most \in Nat
    BY <1>5
  <2>2. climb' = [calls |-> c.calls + 1, most |-> c.most, current |-> point,
                  best |-> Wider(c.best, points), steps |-> 0]
    BY <1>3, <1>4, <1>5
  <2> QED
    BY <1>6, <2>1, <2>2
<1>8. c.calls + Len(points) <= c.most
  BY <1>2, <1>4, <1>5
<1>9. graderCalls' = graderCalls + Len(points) /\ seen' = seen \union Measured(points)
  BY <1>3, <1>4 DEF Scored, Measured
<1>10. /\ Climbs(options, graderCalls', d, seen') /\ graderCalls' \in Nat
       /\ graderCalls' <= options.maxGraderCalls
  <2>1. d.calls = c.calls + Len(points)
    BY <1>4, <1>7
  <2>2. PICK gaps, calls : gaps = seen /\ calls = graderCalls /\ calls \in Nat
    BY <1>2
  <2>3. /\ Climbs(options, calls + Len(points), d, gaps \union Measured(points))
        /\ calls + Len(points) \in Nat /\ calls + Len(points) <= options.maxGraderCalls
    <3>1. Climbs(options, calls, c, gaps) /\ c.calls + Len(points) <= c.most
      BY <1>5, <1>8, <2>2
    <3>2. d.most = c.most /\ d.best = Wider(c.best, points)
      BY <1>7
    <3> QED
      BY <1>2, <1>4, <1>7, <2>1, <2>2, <3>1, <3>2, ClimbsOn
  <2> QED
    BY <1>9, <2>2, <2>3
<1>11. step' \in Step /\ step'.probe = "climb" /\ step'.task = step.task
  BY <1>2 DEF Step
<1>12. Reached(options, step', perTask')
  BY <1>2, <1>11, FuzzingStill
<1> QED
  BY <1>2, <1>7, <1>10, <1>11, <1>12, Onward

\* The neighbours take no more calls than the fuzzer has left; the widest may lead.
LEMMA FuzzClimbKeeps == AssessmentInv /\ FuzzClimb => AssessmentInv'
<1>1. SUFFICES ASSUME AssessmentInv, FuzzClimb PROVE AssessmentInv'
  OBVIOUS
<1>2. /\ options \in Options /\ step \in Step /\ step.probe = "climb"
      /\ graderCalls \in Nat /\ climb.calls < climb.most
      /\ budgetExhausted \in BOOLEAN /\ Kept(options, budgetExhausted, perTask)
      /\ Reached(options, step, perTask) /\ Climbs(options, graderCalls, climb, seen)
      /\ options' = options /\ budgetExhausted' = budgetExhausted /\ perTask' = perTask
  BY <1>1 DEF AssessmentInv, FuzzClimb
<1>3. PICK c : /\ c = climb /\ Climbs(options, graderCalls, c, seen)
               /\ c \in [calls : Nat, most : Nat, current : Point \union {Nothing},
                         best : Point \union {Nothing}, steps : Nat]
  BY <1>2 DEF Climbs
<1>4. PICK made, points :
        /\ made \in Nat /\ points \in [1..Min({made, climb.most - climb.calls}) -> Points]
        /\ Scored(points)
        /\ \E current \in {climb.current, Wider(Nothing, points)} :
             climb' = [climb EXCEPT !.calls = @ + Len(points), !.steps = @ + 1,
                                    !.best = Wider(@, points), !.current = current]
        /\ step' = Probing("seed", step.task, step.index + 1) \/ step' = step
  <2>1. PICK made \in 0..options.fuzz.mutators :
          \E points \in [1..Min({made, climb.most - climb.calls}) -> Points] :
            LET neighbour == Wider(Nothing, points)
                stuck == neighbour = Nothing \/ neighbour.gap <= climb.current.gap
            IN  /\ Scored(points)
                /\ climb' = [climb EXCEPT !.calls = @ + Len(points), !.steps = @ + 1,
                                          !.best = Wider(@, points),
                                          !.current = IF stuck THEN @ ELSE neighbour]
                /\ step' = IF stuck THEN Probing("seed", step.task, step.index + 1) ELSE step
    BY <1>1 DEF FuzzClimb
  <2>2. PICK points \in [1..Min({made, climb.most - climb.calls}) -> Points] :
          LET neighbour == Wider(Nothing, points)
              stuck == neighbour = Nothing \/ neighbour.gap <= climb.current.gap
          IN  /\ Scored(points)
              /\ climb' = [climb EXCEPT !.calls = @ + Len(points), !.steps = @ + 1,
                                        !.best = Wider(@, points),
                                        !.current = IF stuck THEN @ ELSE neighbour]
              /\ step' = IF stuck THEN Probing("seed", step.task, step.index + 1) ELSE step
    BY <2>1
  <2>3. made \in Nat
    BY <2>1
  <2> QED
    BY <2>2, <2>3
<1>5. PICK m \in Nat : points \in Seq(Point) /\ Len(points) = m /\ c.calls + m <= c.most
  <2>1. PICK left \in Nat : left = climb.most - climb.calls /\ c.calls + left = c.most
    BY <1>2, <1>3
  <2>2. Min({made, left}) \in {made, left} /\ Min({made, left}) <= left
    <3>1. made \in Int /\ left \in Int
      BY <1>4
    <3> QED
      BY <3>1, OfTwo
  <2>3. PICK m \in Nat : m = Min({made, left}) /\ m <= left
    BY <1>4, <2>2
  <2>4. points \in [1..m -> Point]
    BY <1>4, <2>1, <2>3, PointsAre
  <2>5. points \in Seq(Point) /\ Len(points) = m
    BY <2>4
  <2>6. c.calls + m <= c.most
    BY <1>3, <2>1, <2>3
  <2> QED
    BY <2>5, <2>6
<1>6. Wider(c.best, points) \in Point \union {Nothing} /\ Wider(Nothing, points) \in Point \union {Nothing}
  <2>1. Leads(Nothing, {})
    BY DEF Leads
  <2>2. c.best \in Point \union {Nothing} /\ seen \in SUBSET Int /\ Leads(c.best, seen)
    BY <1>3 DEF Climbs
  <2> QED
    BY <1>5, <2>1, <2>2, WiderLeads
<1>7. PICK d \in [calls : Nat, most : Nat, current : Point \union {Nothing},
                  best : Point \union {Nothing}, steps : Nat] :
        d = climb' /\ d.calls = c.calls + m /\ d.most = c.most /\ d.best = Wider(c.best, points)
  <2>1. c.calls + m \in Nat /\ c.most \in Nat /\ c.steps + 1 \in Nat
    BY <1>3
  <2>2. PICK current \in Point \union {Nothing} :
          climb' = [c EXCEPT !.calls = @ + Len(points), !.steps = @ + 1,
                             !.best = Wider(@, points), !.current = current]
    BY <1>3, <1>4, <1>6
  <2>3. climb' = [calls |-> c.calls + m, most |-> c.most, current |-> current,
                  best |-> Wider(c.best, points), steps |-> c.steps + 1]
    BY <1>3, <1>5, <2>2
  <2> QED
    BY <1>6, <2>1, <2>3
<1>8. graderCalls' = graderCalls + Len(points) /\ seen' = seen \union Measured(points)
  BY <1>4 DEF Scored, Measured
<1>9. /\ Climbs(options, graderCalls', d, seen') /\ graderCalls' \in Nat
      /\ graderCalls' <= options.maxGraderCalls
  <2>1. d.calls = c.calls + Len(points) /\ c.calls + Len(points) <= c.most
    BY <1>5, <1>7
  <2>2. PICK gaps, calls : gaps = seen /\ calls = graderCalls /\ calls \in Nat
    BY <1>2
  <2>3. /\ Climbs(options, calls + Len(points), d, gaps \union Measured(points))
        /\ calls + Len(points) \in Nat /\ calls + Len(points) <= options.maxGraderCalls
    <3>1. Climbs(options, calls, c, gaps) /\ points \in Seq(Point)
      BY <1>3, <1>5, <2>2
    <3>2. d.most = c.most /\ d.best = Wider(c.best, points)
      BY <1>7
    <3> QED
      BY <1>2, <1>7, <2>1, <2>2, <3>1, <3>2, ClimbsOn
  <2> QED
    BY <1>8, <2>2, <2>3
<1>10. step' \in Step /\ step'.probe \in {"seed", "climb"} /\ step'.task = step.task
  <2>1. step.task \in Nat \ {0} /\ step.index + 1 \in Nat \ {0}
    BY <1>2 DEF Step
  <2> QED
    BY <1>2, <1>4, <2>1, ProbingIs
<1>11. Reached(options, step', perTask')
  BY <1>2, <1>10, FuzzingStill
<1> QED
  BY <1>2, <1>7, <1>9, <1>10, <1>11, Onward

\* Going on to the next seed leaves what was measured alone.
LEMMA NextSeedKeeps == AssessmentInv /\ NextSeed => AssessmentInv'
<1>1. SUFFICES ASSUME AssessmentInv, NextSeed PROVE AssessmentInv'
  OBVIOUS
<1>2. /\ options \in Options /\ step \in Step /\ step.probe = "climb"
      /\ graderCalls \in Nat /\ graderCalls <= options.maxGraderCalls
      /\ budgetExhausted \in BOOLEAN /\ Kept(options, budgetExhausted, perTask)
      /\ Reached(options, step, perTask) /\ Climbs(options, graderCalls, climb, seen)
      /\ UNCHANGED <<options, graderCalls, budgetExhausted, perTask, climb, seen>>
      /\ step' = Probing("seed", step.task, step.index + 1)
  BY <1>1 DEF AssessmentInv, NextSeed
<1>3. step' \in Step /\ step'.probe = "seed" /\ step'.task = step.task
  <2>1. step.task \in Nat \ {0} /\ step.index + 1 \in Nat \ {0}
    BY <1>2 DEF Step
  <2> QED
    BY <1>2, <2>1, ProbingIs
<1>4. Reached(options, step', perTask')
  BY <1>2, <1>3, FuzzingStill
<1> QED
  BY <1>2, <1>3, <1>4, Onward

\* The task keeps what fuzzing found, and the next begins.
LEMMA LeaveFuzzKeeps == AssessmentInv /\ LeaveFuzz => AssessmentInv'
<1>1. SUFFICES ASSUME AssessmentInv, LeaveFuzz PROVE AssessmentInv'
  OBVIOUS
<1>2. /\ options \in Options /\ step \in Step /\ step.probe = "seed"
      /\ graderCalls \in Nat /\ graderCalls <= options.maxGraderCalls
      /\ budgetExhausted \in BOOLEAN /\ Kept(options, budgetExhausted, perTask)
      /\ Reached(options, step, perTask) /\ Climbs(options, graderCalls, climb, seen)
      /\ UNCHANGED <<options, graderCalls, budgetExhausted>> /\ seen' = {} /\ step' = NextTask
  BY <1>1 DEF AssessmentInv, LeaveFuzz
<1>3. PICK f : /\ f = FuzzFinding(climb.best) /\ f \in Found(options) \union {Nothing}
               /\ Fuzzing(options, f)
  BY <1>2, FuzzFound DEF Climbs
<1>4. PICK judged : judged = [perTask EXCEPT ![step.task].fuzz = f]
                    /\ AddsFuzz(perTask, step.task, f, judged)
  BY DEF AddsFuzz
<1>5. perTask' = IF NextTask.probe = "report" THEN judged ELSE Append(judged, NewAssessment)
  BY <1>1, <1>3, <1>4 DEF LeaveFuzz
<1>6. /\ Kept(options, budgetExhausted, judged) /\ Len(judged) = step.task
      /\ step.task \in 1..Len(options.tasks) /\ \A t \in 1..Len(judged) : Through(options, judged[t])
  <2>1. step.probe \in {"seed", "climb"}
    BY <1>2
  <2>2. PICK e, x : e = budgetExhausted /\ e \in BOOLEAN /\ Kept(options, e, perTask) /\ x = f
                    /\ x \in Found(options) \union {Nothing} /\ AddsFuzz(perTask, step.task, x, judged)
    BY <1>2, <1>3, <1>4
  <2>3. /\ Kept(options, e, judged) /\ Len(judged) = step.task /\ step.task \in 1..Len(options.tasks)
        /\ \A t \in 1..Len(judged) : Through(options, judged[t])
    BY <1>2, <1>3, <2>1, <2>2, FuzzRecorded
  <2> QED
    BY <2>2, <2>3
<1>7. /\ Kept(options, budgetExhausted, perTask') /\ Reached(options, NextTask, perTask')
      /\ NextTask \in Step /\ NextTask.probe \notin {"seed", "climb"}
  BY <1>2, <1>5, <1>6, NextTaskIs
<1> QED
  BY <1>2, <1>7, Onward

\* Every step of an assessment keeps the invariant.
LEMMA AssessmentKept == AssessmentInv /\ [RobustnessNext]_robustnessVars => AssessmentInv'
<1>1. CASE UNCHANGED robustnessVars
  BY <1>1 DEF AssessmentInv, robustnessVars
<1> QED
  BY <1>1, DeterminismKeeps, CanaryKeeps, BaselineKeeps, PerturbationKeeps, EnterFuzzKeeps,
     FuzzSeedKeeps, FuzzClimbKeeps, NextSeedKeeps, LeaveFuzzKeeps DEF RobustnessNext

\* An assessment begins with nothing spent and nothing found.
LEMMA AssessmentBegins == RobustnessInit => AssessmentInv
<1>1. SUFFICES ASSUME RobustnessInit PROVE AssessmentInv
  OBVIOUS
<1>2. /\ options \in Options /\ graderCalls = 0 /\ budgetExhausted = FALSE /\ perTask = <<>>
      /\ seen = {} /\ step = Probing("determinism", 1, 1)
  BY <1>1 DEF RobustnessInit
<1>3. step \in Step /\ step.probe = "determinism"
  BY <1>2, ProbingIs
<1>4. options.maxGraderCalls \in Nat
  BY <1>2, OptionsFit
<1>5. Kept(options, budgetExhausted, perTask)
  BY <1>2 DEF Kept
<1>6. Reached(options, step, perTask)
  BY <1>2, <1>3 DEF Reached
<1>7. budgetExhausted \in BOOLEAN
  BY <1>2
<1>8. graderCalls \in Nat /\ graderCalls <= options.maxGraderCalls
  BY <1>2, <1>4
<1> QED
  BY <1>2, <1>3, <1>5, <1>6, <1>7, <1>8 DEF AssessmentInv

-----------------------------------------------------------------------------
(* And so it is honest *)

\* The findings are on the probes, each on its own.
LEMMA Listed ==
  ASSUME NEW o, NEW e, NEW X, NEW probes \in Seq(X), NEW findings \in Seq(Found(o)),
         InTurn(o, e, probes, findings), Len(findings) = Len(probes)
  PROVE  [i \in DOMAIN findings |-> findings[i].channel] = probes
<1>1. PICK n \in Nat : n = Len(probes) /\ DOMAIN findings = 1..n /\ DOMAIN probes = 1..n
  OBVIOUS
<1>2. \A i \in 1..n : findings[i].channel = probes[i]
  BY <1>1 DEF InTurn
<1>3. probes = [i \in 1..n |-> probes[i]]
  BY <1>1
<1> QED
  BY <1>1, <1>2, <1>3

\* A task's findings are the canaries', the rewrites' and what fuzzing found.
LEMMA AllFindingsAre ==
  ASSUME NEW o, NEW a \in Assessed(o)
  PROVE  /\ Range(a.canaries \o Fuzzed(a)) = Range(a.canaries) \union Range(Fuzzed(a))
         /\ AllFindings(a) = Range(a.canaries) \union Range(a.perturbations) \union Range(Fuzzed(a))
         /\ a.canaries \in Seq(Found(o)) /\ a.perturbations \in Seq(Found(o))
         /\ Fuzzed(a) \in Seq(Found(o))
         /\ \A f \in Range(Fuzzed(a)) : f = a.fuzz /\ f # Nothing
<1>1. /\ a.canaries \in Seq(Found(o)) /\ a.perturbations \in Seq(Found(o))
      /\ a.fuzz \in Found(o) \union {Nothing}
  BY DEF Assessed
<1>2. Fuzzed(a) \in Seq(Found(o)) /\ \A f \in Range(Fuzzed(a)) : f = a.fuzz /\ f # Nothing
  <2>1. CASE a.fuzz = Nothing
    <3>1. Fuzzed(a) = <<>>
      BY <2>1 DEF Fuzzed
    <3>2. <<>> \in Seq(Found(o)) /\ Range(<<>>) = {}
      BY DEF Range
    <3> QED
      BY <3>1, <3>2
  <2>2. CASE a.fuzz # Nothing
    <3>1. PICK x \in Found(o) : x = a.fuzz /\ x # Nothing
      BY <1>1, <2>2
    <3>2. Fuzzed(a) = <<x>>
      BY <3>1 DEF Fuzzed
    <3>3. <<x>> \in Seq(Found(o)) /\ Range(<<x>>) = {x}
      BY DEF Range
    <3> QED
      BY <3>1, <3>2, <3>3
  <2> QED
    BY <2>1, <2>2
<1>3. PICK cs, ps, fs : cs = a.canaries /\ ps = a.perturbations /\ fs = Fuzzed(a)
  OBVIOUS
<1>4. cs \in Seq(Found(o)) /\ ps \in Seq(Found(o)) /\ fs \in Seq(Found(o))
  BY <1>1, <1>2, <1>3
<1>5. Range(cs \o fs) = Range(cs) \union Range(fs)
  BY <1>4, RangeConcatenation
<1>6. PICK both : both = cs \o ps
  OBVIOUS
<1>7. both \in Seq(Found(o)) /\ Range(both) = Range(cs) \union Range(ps)
  BY <1>4, <1>6, RangeConcatenation
<1>8. Range(both \o fs) = Range(both) \union Range(fs)
  BY <1>4, <1>7, RangeConcatenation
<1>9. AllFindings(a) = Range(both \o fs)
  BY <1>3, <1>6 DEF AllFindings
<1> QED
  BY <1>1, <1>2, <1>3, <1>5, <1>7, <1>8, <1>9

\* The widest gap of a task is one it measured, and none of its gaps is wider.
LEMMA WorstGapIs ==
  ASSUME NEW o, NEW a \in Assessed(o), Gaps(a) # {}
  PROVE  /\ WorstGap(a) \in Fraction /\ WorstGap(a)[1] > 0 /\ WorstGap(a) # Nothing
         /\ \A g \in Gaps(a) : ~Exceeds(g, WorstGap(a))
<1>1. PICK q \in Seq(Found(o)) : q = a.canaries \o Fuzzed(a)
  <2>1. PICK cs \in Seq(Found(o)) : cs = a.canaries
    BY AllFindingsAre
  <2>2. PICK fs \in Seq(Found(o)) : fs = Fuzzed(a)
    BY AllFindingsAre
  <2>3. cs \o fs \in Seq(Found(o))
    OBVIOUS
  <2> QED
    BY <2>1, <2>2, <2>3
<1>2. PICK n \in Nat : n = Len(q)
  OBVIOUS
<1>3. PICK h : h = [i \in 1..n |-> q[i].gap]
  OBVIOUS
<1>4. ASSUME NEW g \in Gaps(a)
      PROVE  g \in Fraction /\ g[1] > 0 /\ g # Nothing /\ \E i \in 1..n : g = h[i]
  <2>1. PICK f \in Range(q) : g = f.gap /\ f.gap # Nothing /\ f.gap[1] > 0
    BY <1>1 DEF Gaps
  <2>2. PICK i \in 1..n : f = q[i]
    BY <1>2, RangeEquality
  <2>3. q[i] \in Found(o)
    BY <1>2
  <2> QED
    BY <1>3, <2>1, <2>2, <2>3 DEF Found
<1>5. WorstGap(a) = Largest(Gaps(a))
  BY DEF WorstGap
<1>6. PICK gaps : gaps = Gaps(a)
  OBVIOUS
<1>7. gaps \in SUBSET Fraction /\ gaps # {} /\ \A g \in gaps : \E i \in 1..n : g = h[i]
  BY <1>4, <1>6
<1>8. Largest(gaps) \in gaps /\ \A g \in gaps : ~Exceeds(g, Largest(gaps))
  BY <1>7, LargestIs
<1> QED
  BY <1>4, <1>5, <1>6, <1>8

\* The gap an assessment reports is no narrower than any it measured.
LEMMA ExploitableGapIs ==
  ASSUME NEW o, perTask \in Seq(Assessed(o))
  PROVE  /\ ExploitableGap \in Fraction /\ ExploitableGap[1] >= 0
         /\ \A t \in 1..Len(perTask) : \A g \in Gaps(perTask[t]) : ~Exceeds(g, ExploitableGap)
<1>1. PICK n \in Nat : n = Len(perTask) /\ DOMAIN perTask = 1..n
  OBVIOUS
<1>2. PICK h : h = [t \in 1..n |-> WorstGap(perTask[t])]
  OBVIOUS
<1>3. \A t \in 1..n : perTask[t] \in Assessed(o)
  BY <1>1
<1>4. ASSUME NEW g \in MeasuredGaps
      PROVE  g \in Fraction /\ g[1] >= 0 /\ \E t \in 1..n : g = h[t]
  <2>1. PICK t \in 1..n : g = WorstGap(perTask[t]) /\ g # Nothing
    BY <1>1 DEF MeasuredGaps
  <2>2. Gaps(perTask[t]) # {}
    BY <2>1 DEF WorstGap
  <2>3. g \in Fraction /\ g[1] > 0
    BY <1>3, <2>1, <2>2, WorstGapIs
  <2>4. g[1] >= 0
    BY <2>3 DEF Fraction
  <2> QED
    BY <1>2, <2>1, <2>3, <2>4
<1>5. PICK gaps : gaps = MeasuredGaps
  OBVIOUS
<1>6. CASE gaps = {}
  <2>1. ExploitableGap = <<0, 1>>
    BY <1>5, <1>6 DEF ExploitableGap
  <2>2. ASSUME NEW t \in 1..n PROVE Gaps(perTask[t]) = {}
    <3>1. Gaps(perTask[t]) # {} => WorstGap(perTask[t]) \in gaps
      BY <1>1, <1>3, <1>5, WorstGapIs DEF MeasuredGaps
    <3> QED
      BY <1>6, <3>1
  <2>3. <<0, 1>> \in Fraction /\ <<0, 1>>[1] >= 0
    BY DEF Fraction
  <2> QED
    BY <1>1, <2>1, <2>2, <2>3
<1>7. CASE gaps # {}
  <2>1. ExploitableGap = Largest(gaps)
    BY <1>5, <1>7 DEF ExploitableGap
  <2>2. gaps \in SUBSET Fraction /\ \A g \in gaps : \E t \in 1..n : g = h[t]
    BY <1>4, <1>5
  <2>3. Largest(gaps) \in gaps /\ \A g \in gaps : ~Exceeds(g, Largest(gaps))
    BY <1>7, <2>2, LargestIs
  <2>4. ASSUME NEW t \in 1..n, NEW g \in Gaps(perTask[t]) PROVE ~Exceeds(g, Largest(gaps))
    <3>1. PICK worst \in Fraction : /\ worst = WorstGap(perTask[t]) /\ worst # Nothing
                                    /\ ~Exceeds(g, worst)
      BY <1>3, WorstGapIs
    <3>2. worst \in gaps
      BY <1>1, <1>5, <3>1 DEF MeasuredGaps
    <3>3. ~Exceeds(worst, Largest(gaps)) /\ Largest(gaps) \in Fraction
      BY <2>2, <2>3, <3>2
    <3>4. g \in Fraction
      <4>1. PICK f \in Range(perTask[t].canaries \o Fuzzed(perTask[t])) : g = f.gap /\ f.gap # Nothing
        BY DEF Gaps
      <4>2. f \in Found(o)
        <5>1. /\ f \in Range(perTask[t].canaries) \union Range(Fuzzed(perTask[t]))
              /\ perTask[t].canaries \in Seq(Found(o)) /\ Fuzzed(perTask[t]) \in Seq(Found(o))
          BY <1>3, <4>1, AllFindingsAre
        <5> QED
          BY <5>1, RangeOfSeq
      <4> QED
        BY <4>1, <4>2 DEF Found
    <3> QED
      BY <3>1, <3>3, <3>4, NoneExceeds
  <2> QED
    BY <1>1, <1>4, <1>5, <2>1, <2>3, <2>4
<1> QED
  BY <1>6, <1>7

\* A budget that ran out and a probe that did not run are among the limitations.
LEMMA LimitationsAre ==
  /\ budgetExhausted => "budget" \in Limitations
  /\ Untested # {} => "untested" \in Limitations /\ Limitations # {"every probe ran"}
<1> DEFINE named == {l \in {"no oracle", "no perturbation", "no fuzzing", "budget",
                            "nondeterministic", "few tasks", "untested"} :
                       \/ l = "no oracle" /\ ~options.oracle
                       \/ l = "no perturbation" /\ PerturbationTested = {}
                       \/ l = "no fuzzing" /\ options.fuzz = Nothing
                       \/ l = "budget" /\ budgetExhausted
                       \/ l = "nondeterministic" /\ nondeterministic
                       \/ l = "few tasks" /\ Len(options.tasks) < FewTasks
                       \/ l = "untested" /\ Untested # {}}
<1>1. Limitations = IF named = {} THEN {"every probe ran"} ELSE named
  BY DEF Limitations
<1>2. budgetExhausted => "budget" \in named
  OBVIOUS
<1>3. Untested # {} => "untested" \in named
  OBVIOUS
<1> HIDE DEF named
<1>4. "untested" \in named => named # {"every probe ran"}
  <2>1. "untested" \notin {"every probe ran"}
    OBVIOUS
  <2> QED
    BY <2>1, Zenon
<1>5. \A l \in named : Limitations = named
  BY <1>1
<1> QED
  BY <1>2, <1>3, <1>4, <1>5, Zenon

\* A set of tasks is counted none when there is none.
LEMMA NoneCounted ==
  ASSUME NEW n \in Nat, NEW T \in SUBSET (1..n)
  PROVE  Cardinality(T) = 0 <=> T = {}
<1>1. IsFiniteSet(1..n)
  BY FS_Interval
<1>2. IsFiniteSet(T)
  BY <1>1, FS_Subset
<1> QED
  BY <1>2, FS_EmptySet

\* What an assessment has come to is what it promises.
LEMMA HonestThen == AssessmentInv => AssessmentHonest
<1>1. SUFFICES ASSUME AssessmentInv PROVE AssessmentHonest
  OBVIOUS
<1>2. /\ options \in Options /\ graderCalls <= options.maxGraderCalls /\ budgetExhausted \in BOOLEAN
      /\ Kept(options, budgetExhausted, perTask) /\ Reached(options, step, perTask)
  BY <1>1 DEF AssessmentInv
<1>3. ASSUME climb # Nothing, seen # {} PROVE climb.best.gap = Max(seen)
  <2>1. Leads(climb.best, seen) /\ seen \subseteq Int
    BY <1>1, <1>3 DEF AssessmentInv, Climbs
  <2>2. climb.best.gap \in seen /\ \A g \in seen : climb.best.gap >= g
    BY <1>3, <2>1 DEF Leads
  <2>3. PICK top \in Int : top = climb.best.gap /\ top \in seen /\ \A g \in seen : top >= g
    BY <2>1, <2>2
  <2>4. \A x \in seen : (\A y \in seen : x >= y) => x = top
    BY <2>1, <2>3
  <2> QED
    BY <2>3, <2>4 DEF Max
<1>4. ASSUME step.probe = "report"
      PROVE  /\ Len(perTask) = Len(options.tasks) /\ perTask \in Seq(Assessed(options))
             /\ \A t \in 1..Len(perTask) :
                  /\ Through(options, perTask[t]) /\ perTask[t] \in Assessed(options)
                  /\ InTurn(options, budgetExhausted, options.canaries, perTask[t].canaries)
                  /\ InTurn(options, budgetExhausted, options.perturbations, perTask[t].perturbations)
                  /\ Fuzzing(options, perTask[t].fuzz)
  BY <1>2, <1>4 DEF Reached, Kept
<1>5. PICK n \in Nat : n = Len(options.tasks) /\ DOMAIN options.tasks = 1..n
  BY <1>2, OptionsFit
<1>6. Repeats = Grades(options)
  BY DEF Repeats, Grades
<1>7. ASSUME step.probe = "report" PROVE DOMAIN perTask = 1..n
  BY <1>4, <1>5, <1>7
<1>8. ASSUME step.probe = "report", NEW t \in 1..n
      PROVE  /\ [i \in DOMAIN perTask[t].canaries |-> perTask[t].canaries[i].channel]
                  = options.canaries
             /\ [i \in DOMAIN perTask[t].perturbations |-> perTask[t].perturbations[i].channel]
                  = options.perturbations
  <2>1. PICK a \in Assessed(options) : /\ a = perTask[t] /\ Through(options, a)
          /\ InTurn(options, budgetExhausted, options.canaries, a.canaries)
          /\ InTurn(options, budgetExhausted, options.perturbations, a.perturbations)
    BY <1>4, <1>5, <1>8
  <2>2. a.canaries \in Seq(Found(options)) /\ a.perturbations \in Seq(Found(options))
    BY DEF Assessed
  <2>3. [i \in DOMAIN a.canaries |-> a.canaries[i].channel] = options.canaries
    BY <1>2, <2>1, <2>2, Listed, OptionsFit DEF Through
  <2>4. [i \in DOMAIN a.perturbations |-> a.perturbations[i].channel] = options.perturbations
    BY <1>2, <2>1, <2>2, Listed, OptionsFit DEF Through
  <2> QED
    BY <2>1, <2>3, <2>4
<1>9. ASSUME step.probe = "report", NEW t \in 1..n, NEW f \in AllFindings(perTask[t])
      PROVE  /\ f.status = "closed" => f.repeats > 0
             /\ f.channel # "fuzz" /\ f.repeats < Repeats => f.status = "not-tested" \/ budgetExhausted
             /\ f.channel = "fuzz" /\ f.status = "open" => options.oracle
  <2>1. PICK a \in Assessed(options) : /\ a = perTask[t] /\ Fuzzing(options, a.fuzz)
          /\ InTurn(options, budgetExhausted, options.canaries, a.canaries)
          /\ InTurn(options, budgetExhausted, options.perturbations, a.perturbations)
    BY <1>4, <1>5, <1>9
  <2>2. f \in Range(a.canaries) \union Range(a.perturbations) \union Range(Fuzzed(a))
    BY <1>9, <2>1, AllFindingsAre
  <2>3. ASSUME NEW probes, NEW X, NEW findings \in Seq(Found(options)),
               probes \in Seq(X), "fuzz" \notin Range(probes), f \in Range(findings),
               InTurn(options, budgetExhausted, probes, findings)
        PROVE  f.channel # "fuzz" /\ Owned(options, budgetExhausted, f)
    <3>1. PICK i \in 1..Len(findings) : f = findings[i]
      BY <2>3, RangeEquality
    <3>2. i \in 1..Len(probes) /\ f.channel = probes[i] /\ Owned(options, budgetExhausted, f)
      BY <2>3, <3>1 DEF InTurn
    <3>3. probes[i] \in Range(probes)
      BY <2>3, <3>2, RangeEquality
    <3> QED
      BY <2>3, <3>2, <3>3
  <2>4. CASE f \in Range(a.canaries) \union Range(a.perturbations)
    <3>1. a.canaries \in Seq(Found(options)) /\ a.perturbations \in Seq(Found(options))
      BY DEF Assessed
    <3>2. f.channel # "fuzz" /\ Owned(options, budgetExhausted, f)
      BY <1>2, <2>1, <2>3, <2>4, <3>1, OptionsFit
    <3> QED
      BY <1>6, <3>2 DEF Owned
  <2>5. CASE f \in Range(Fuzzed(a))
    <3>1. f = a.fuzz /\ f # Nothing
      BY <2>5, AllFindingsAre
    <3>2. f.channel = "fuzz" /\ f.status # "closed" /\ (f.status = "open" => options.oracle)
      BY <2>1, <3>1 DEF Fuzzing
    <3> QED
      BY <3>2
  <2> QED
    BY <2>2, <2>4, <2>5
<1>10. ASSUME step.probe = "report", NEW t \in 1..n, NEW f \in AllFindings(perTask[t]),
             f.status = "not-tested"
      PROVE  Untested # {}
  <2>1. t \in DOMAIN perTask
    BY <1>4, <1>5, <1>10
  <2> QED
    BY <1>10, <2>1 DEF Untested
<1>11. ASSUME step.probe = "report", NEW t \in 1..n, NEW f \in Range(perTask[t].canaries),
              f.gap # Nothing
       PROVE  ~Exceeds(f.gap, ExploitableGap)
  <2>1. PICK a \in Assessed(options) : a = perTask[t] /\ t \in 1..Len(perTask)
    BY <1>4, <1>5, <1>11
  <2>2. f \in Found(options) /\ f \in Range(a.canaries \o Fuzzed(a))
    <3>1. a.canaries \in Seq(Found(options)) /\ f \in Range(a.canaries \o Fuzzed(a))
      BY <1>11, <2>1, AllFindingsAre
    <3> QED
      BY <1>11, <2>1, <3>1, RangeOfSeq
  <2>3. /\ ExploitableGap \in Fraction /\ ExploitableGap[1] >= 0
        /\ \A g \in Gaps(a) : ~Exceeds(g, ExploitableGap)
    BY <1>4, <1>11, <2>1, ExploitableGapIs
  <2>4. f.gap \in Fraction
    BY <1>11, <2>2 DEF Found
  <2>5. CASE f.gap[1] > 0
    <3>1. f.gap \in Gaps(a)
      BY <1>11, <2>2, <2>5 DEF Gaps
    <3> QED
      BY <2>3, <3>1
  <2>6. CASE ~(f.gap[1] > 0)
    <3>1. ASSUME NEW p \in Int, NEW q \in Nat, NEW r \in Nat, NEW s \in Nat, p <= 0
          PROVE  ~(p * s > r * q)
      <4>1. p * s <= 0 /\ r * q >= 0
        BY <3>1
      <4> QED
        BY <4>1
    <3>2. PICK p \in Int, q \in Nat : p = f.gap[1] /\ q = f.gap[2]
      BY <2>4 DEF Fraction
    <3>3. PICK r \in Int, s \in Nat : r = ExploitableGap[1] /\ s = ExploitableGap[2]
      BY <2>3 DEF Fraction
    <3>4. p <= 0 /\ r \in Nat
      BY <2>3, <2>6, <3>2, <3>3
    <3> QED
      BY <3>1, <3>2, <3>3, <3>4 DEF Exceeds
  <2> QED
    BY <2>5, <2>6
<1>12. ASSUME step.probe = "report"
       PROVE  ExploitableGapBasis = "not-established" <=> Gameability = 0
  <2>1. DOMAIN perTask = 1..n
    BY <1>7, <1>12
  <2>2. PICK T : T = {t \in DOMAIN perTask : OpenChannels(perTask[t]) # {}}
    OBVIOUS
  <2>3. Gameability = 0 <=> T = {}
    BY <2>1, <2>2, NoneCounted DEF Gameability
  <2>4. ExploitableGapBasis = "not-established" <=> T = {}
    BY <2>2 DEF ExploitableGapBasis
  <2> QED
    BY <2>3, <2>4
<1>13. ASSUME step.probe = "report", NEW t \in 1..n, NEW f \in AllFindings(perTask[t]),
              f.channel # "fuzz", f.repeats < Repeats
       PROVE  Limitations \intersect {"budget", "untested"} # {}
  <2>1. f.status = "not-tested" \/ budgetExhausted
    BY <1>9, <1>13
  <2>2. f.status = "not-tested" => "untested" \in Limitations
    BY <1>10, <1>13, LimitationsAre
  <2>3. budgetExhausted => "budget" \in Limitations
    BY LimitationsAre
  <2> QED
    BY <2>1, <2>2, <2>3, Zenon
<1>14. ASSUME step.probe = "report", Limitations = {"every probe ran"},
              NEW t \in DOMAIN perTask, NEW f \in AllFindings(perTask[t])
       PROVE  f.status # "not-tested"
  <2>1. DOMAIN perTask = 1..n
    BY <1>7, <1>14
  <2> QED
    BY <1>10, <1>14, <2>1, LimitationsAre
<1> QED
  BY <1>2, <1>3, <1>5, <1>8, <1>9, <1>11, <1>12, <1>13, <1>14 DEF AssessmentHonest

\* An assessment never spends more grader calls than it was given, leads the fuzzer with
\* the widest gap it measured, and its report has a finding on every probe of every task,
\* owns up to what was not graded and names no gap narrower than one a canary was paid.
THEOREM AssessmentAlwaysHonest == RobustnessSpec => []AssessmentHonest
<1>1. RobustnessSpec => []AssessmentInv
  BY AssessmentBegins, AssessmentKept, PTL DEF RobustnessSpec
<1> QED
  BY <1>1, HonestThen, PTL

-----------------------------------------------------------------------------
(* Lists read page by page while they grow *)

RowRecord == [tenant: Tenants, actor: Actors, at: Nat, no: Nat]

\* The rows, in the order and at the time they came.
RowsInv ==
  /\ listing \in {"audit", "runs"} /\ clock \in Nat
  /\ rows \in Seq(RowRecord)
  /\ \A i \in DOMAIN rows : rows[i].no = i - 1 /\ rows[i].at <= clock

\* The filters and the state of a reader.
Query == [actor: Actors \union {None}, from: Nat \union {None}, to: Nat \union {None}]
ReaderRecord ==
  [tenant: Tenants, q: Query, limit: PageSizes, cursor: Nat \union {None},
   read: Seq(Nat), atFirst: Seq(Nat), strayed: BOOLEAN]

\* How far a reader has come who takes each cursor it is given: what it has not seen of
\* the first page's list is still ahead, and while nothing came that could be in between,
\* what it has read is the beginning of the list.
Follows(held, cursor, read, atFirst) ==
  /\ Len(read) <= Cardinality(held)
  /\ cursor # None => cursor = Len(read)
  /\ \A no \in ToSet(atFirst) :
       no \in ToSet(read) \/ (cursor # None /\ cursor <= Place(no + 1, held))
  /\ listing = "audit" \/ Len(atFirst) = Cardinality(held) =>
       \A k \in DOMAIN read : Place(read[k] + 1, held) = k - 1

ReaderInv ==
  LET held == Held(reader.tenant, reader.q)
  IN  /\ reader \in ReaderRecord
      /\ \A no \in ToSet(reader.read) \union ToSet(reader.atFirst) : no + 1 \in held
      /\ Len(reader.atFirst) <= Cardinality(held)
      /\ ~reader.strayed => Follows(held, reader.cursor, reader.read, reader.atFirst)

\* The inductive invariant of the lists and their reader.
ListsInv == RowsInv /\ (reader # NoReader => ReaderInv)

-----------------------------------------------------------------------------
(* Places in a list *)

\* A list holds finitely many rows.
LEMMA HeldFinite ==
  ASSUME RowsInv
  PROVE  \A tenant, q : /\ Held(tenant, q) \subseteq 1..Len(rows)
                        /\ IsFiniteSet(Held(tenant, q))
                        /\ Cardinality(Held(tenant, q)) \in Nat
<1> TAKE tenant, q
<1>1. Len(rows) \in Nat /\ DOMAIN rows = 1..Len(rows)
  BY DEF RowsInv
<1>2. Held(tenant, q) \subseteq 1..Len(rows)
  BY <1>1 DEF Held
<1>3. IsFiniteSet(1..Len(rows))
  BY <1>1, FS_Interval
<1>4. IsFiniteSet(Held(tenant, q))
  BY <1>2, <1>3, FS_Subset
<1> QED
  BY <1>2, <1>4, FS_CardinalityType

\* What is known of a row.
LEMMA RowFacts ==
  ASSUME RowsInv
  PROVE  \A i \in 1..Len(rows) :
           /\ rows[i] \in RowRecord /\ rows[i].tenant \in Tenants /\ rows[i].at \in Nat
           /\ rows[i].no = i - 1 /\ rows[i].at <= clock /\ i - 1 + 1 = i /\ i \in Nat
<1> TAKE i \in 1..Len(rows)
<1>1. rows[i] \in RowRecord /\ DOMAIN rows = 1..Len(rows) /\ i \in Nat
  BY ElementOfSeq DEF RowsInv
<1>2. rows[i].tenant \in Tenants /\ rows[i].at \in Nat
  BY <1>1 DEF RowRecord
<1>3. rows[i].no = i - 1 /\ rows[i].at <= clock /\ i - 1 + 1 = i
  BY <1>1 DEF RowsInv
<1> QED
  BY <1>1, <1>2, <1>3

\* Of any two rows one precedes the other, and a row has its place after all that do.
LEMMA PlacesApart ==
  ASSUME RowsInv, NEW held, held \subseteq 1..Len(rows), IsFiniteSet(held)
  PROVE  /\ \A i \in held : Place(i, held) \in 0..(Cardinality(held) - 1)
         /\ \A i, j \in held : i # j => Place(i, held) # Place(j, held)
<1> DEFINE Ahead(i) == {j \in held : Precedes(j, i)}
<1>1. /\ \A i \in held : i \in Int /\ rows[i].at \in Int
      /\ listing \in {"audit", "runs"}
  BY RowFacts DEF RowsInv
<1>2. /\ \A i \in held : ~Precedes(i, i)
      /\ \A i, j \in held : i # j => Precedes(i, j) \/ Precedes(j, i)
      /\ \A i, j, k \in held : Precedes(i, j) /\ Precedes(j, k) => Precedes(i, k)
  BY <1>1 DEF Precedes
<1>3. \A i \in held : IsFiniteSet(Ahead(i)) /\ Cardinality(Ahead(i)) \in Nat
  BY FS_Subset, FS_CardinalityType
<1>4. ASSUME NEW i \in held, NEW S \in SUBSET held, i \in S, ~(i \in Ahead(i)),
             Ahead(i) \subseteq S, IsFiniteSet(S)
      PROVE  Cardinality(Ahead(i)) < Cardinality(S)
  <2>1. Cardinality(Ahead(i)) <= Cardinality(S) /\ Cardinality(S) # Cardinality(Ahead(i))
    BY <1>4, FS_Subset
  <2>2. Cardinality(S) \in Nat
    BY <1>4, FS_CardinalityType
  <2> HIDE DEF Ahead
  <2> QED
    BY <1>3, <2>1, <2>2
<1>5. \A i \in held : ~(i \in Ahead(i))
  BY <1>2
<1>6. ASSUME NEW i \in held, NEW j \in held, Precedes(i, j)
      PROVE  Cardinality(Ahead(i)) < Cardinality(Ahead(j))
  <2>1. i \in Ahead(j) /\ Ahead(i) \subseteq Ahead(j) /\ Ahead(j) \in SUBSET held
    BY <1>2, <1>6
  <2> HIDE DEF Ahead
  <2> QED
    BY <1>3, <1>4, <1>5, <2>1
<1>7. ASSUME NEW i \in held PROVE Cardinality(Ahead(i)) < Cardinality(held)
  <2>1. Ahead(i) \subseteq held
    OBVIOUS
  <2> HIDE DEF Ahead
  <2> QED
    BY <1>4, <1>5, <2>1
<1>8. \A i : Place(i, held) = Cardinality(Ahead(i))
  BY DEF Place
<1>9. Cardinality(held) \in Nat
  BY FS_CardinalityType
<1> HIDE DEF Ahead
<1>10. ASSUME NEW i \in held PROVE Place(i, held) \in 0..(Cardinality(held) - 1)
  BY <1>3, <1>7, <1>8, <1>9
<1>11. ASSUME NEW i \in held, NEW j \in held, i # j PROVE Place(i, held) # Place(j, held)
  <2>1. Precedes(i, j) \/ Precedes(j, i)
    BY <1>2, <1>11
  <2>2. \/ Cardinality(Ahead(i)) < Cardinality(Ahead(j))
        \/ Cardinality(Ahead(j)) < Cardinality(Ahead(i))
    BY <1>6, <2>1
  <2> QED
    BY <1>3, <1>8, <2>2
<1> QED
  BY <1>10, <1>11

\* Every place is taken.
LEMMA PlacesTaken ==
  ASSUME RowsInv, NEW held, held \subseteq 1..Len(rows), IsFiniteSet(held),
         NEW k \in 0..(Cardinality(held) - 1)
  PROVE  \E i \in held : Place(i, held) = k
<1> DEFINE n == Cardinality(held)
           f == [i \in held |-> Place(i, held)]
<1>1. n \in Nat
  BY FS_CardinalityType
<1>2. IsFiniteSet(0..(n - 1)) /\ Cardinality(0..(n - 1)) = n
  <2>1. n - 1 \in Int /\ (IF 0 > n - 1 THEN 0 ELSE n - 1 - 0 + 1) = n
    BY <1>1
  <2> QED
    BY <2>1, FS_Interval
<1>3. f \in Injection(held, 0..(n - 1))
  BY PlacesApart DEF Injection, IsInjective
<1>4. f \in Surjection(held, 0..(n - 1))
  BY <1>2, <1>3, FS_Injection
<1> QED
  BY <1>4 DEF Surjection

\* What a list has at its k-th place.
LEMMA ListHas ==
  ASSUME RowsInv, NEW tenant, NEW q
  PROVE  LET held == Held(tenant, q)
             items == Matching(tenant, q)
         IN  /\ items \in Seq(RowRecord)
             /\ Len(items) = Cardinality(held) /\ Len(items) \in Nat
             /\ \A k \in 1..Len(items) :
                  items[k].no + 1 \in held /\ Place(items[k].no + 1, held) = k - 1
             /\ \A i \in held : \E k \in 1..Len(items) :
                  k = Place(i, held) + 1 /\ items[k].no = i - 1
<1> DEFINE held == Held(tenant, q)
           items == Matching(tenant, q)
           RowAt(k) == CHOOSE i \in held : Place(i, held) = k - 1
<1>1. held \subseteq 1..Len(rows) /\ IsFiniteSet(held) /\ Cardinality(held) \in Nat
  BY HeldFinite
<1>2. items = [k \in 1..Cardinality(held) |-> rows[RowAt(k)]]
  BY DEF Matching
<1>3. \A i \in 1..Len(rows) :
        rows[i] \in RowRecord /\ rows[i].no = i - 1 /\ i \in Nat /\ i - 1 + 1 = i
  BY RowFacts
<1> HIDE DEF held, items
<1>4. ASSUME NEW k \in 1..Cardinality(held)
      PROVE  RowAt(k) \in held /\ Place(RowAt(k), held) = k - 1
  <2>1. k - 1 \in 0..(Cardinality(held) - 1)
    BY <1>1
  <2>2. \E i \in held : Place(i, held) = k - 1
    BY <1>1, <2>1, PlacesTaken
  <2> QED
    BY <2>2
<1> HIDE DEF RowAt
<1>5. items \in Seq(RowRecord) /\ Len(items) = Cardinality(held)
  <2>1. \A k \in 1..Cardinality(held) : rows[RowAt(k)] \in RowRecord
    BY <1>1, <1>3, <1>4
  <2> QED
    BY <1>1, <1>2, <2>1
<1>6. ASSUME NEW k \in 1..Len(items)
      PROVE  items[k].no + 1 \in held /\ Place(items[k].no + 1, held) = k - 1
  <2>1. items[k] = rows[RowAt(k)] /\ RowAt(k) \in held /\ Place(RowAt(k), held) = k - 1
    BY <1>2, <1>4, <1>5, <1>6
  <2>2. items[k].no + 1 = RowAt(k)
    BY <1>1, <1>3, <2>1
  <2> QED
    BY <2>1, <2>2
<1>7. ASSUME NEW i \in held
      PROVE  \E k \in 1..Len(items) : k = Place(i, held) + 1 /\ items[k].no = i - 1
  <2> DEFINE k == Place(i, held) + 1
  <2>1. Place(i, held) \in 0..(Cardinality(held) - 1)
    BY <1>1, PlacesApart
  <2>2. k \in 1..Len(items) /\ k - 1 = Place(i, held)
    BY <1>1, <1>5, <2>1
  <2>3. RowAt(k) \in held /\ Place(RowAt(k), held) = Place(i, held)
    BY <1>4, <1>5, <2>2
  <2>4. RowAt(k) = i
    BY <1>1, <2>3, PlacesApart
  <2>5. items[k] = rows[i]
    BY <1>2, <1>5, <2>2, <2>4
  <2>6. items[k].no = i - 1
    BY <1>1, <1>3, <2>5
  <2> QED
    BY <2>2, <2>6
<1> QED
  BY <1>1, <1>5, <1>6, <1>7 DEF held, items

-----------------------------------------------------------------------------
(* Pages *)

\* A page is a part of the list, and one whose cursor is within the list starts there.
LEMMA PageFacts ==
  ASSUME NEW S, NEW items \in Seq(S), NEW limit \in PageSizes, NEW cursor \in Int
  PROVE  LET page == Paginate(items, cursor, limit)
             next == cursor + limit
         IN  /\ page.items \in Seq(S)
             /\ \A k \in 1..Len(page.items) : \E m \in 1..Len(items) : page.items[k] = items[m]
             /\ page.nextCursor = IF next < Len(items) THEN next ELSE None
             /\ cursor \in 0..Len(items) =>
                  /\ Len(page.items) = IF next < Len(items) THEN limit ELSE Len(items) - cursor
                  /\ \A k \in 1..Len(page.items) : page.items[k] = items[cursor + k]
<1> DEFINE page == Paginate(items, cursor, limit)
           Offset(n) == IF n < 0 THEN (IF Len(items) + n < 0 THEN 0 ELSE Len(items) + n) ELSE n
           next == cursor + limit
           first == Offset(cursor) + 1
           last == IF Offset(next) > Len(items) THEN Len(items) ELSE Offset(next)
<1>1. limit \in Nat /\ limit # 0 /\ None \notin Int /\ Len(items) \in Nat
  BY PagesAssumption
<1>2. /\ page.items = SubSeq(items, first, last)
      /\ page.nextCursor = IF next < Len(items) THEN next ELSE None
  BY <1>1 DEF Paginate, JsSlice
<1>3. first \in Nat /\ first # 0 /\ last \in Nat /\ last <= Len(items)
  BY <1>1
<1>4. cursor \in 0..Len(items) =>
        first = cursor + 1 /\ last = IF next < Len(items) THEN next ELSE Len(items)
  BY <1>1
<1> HIDE DEF page, first, last, Offset
<1>5. /\ page.items \in Seq(S)
      /\ Len(page.items) = IF first <= last THEN last - first + 1 ELSE 0
      /\ \A k \in 1..(last - first + 1) : page.items[k] = items[first + k - 1]
  BY <1>2, <1>3
<1>6. ASSUME NEW k \in 1..Len(page.items)
      PROVE  k \in 1..(last - first + 1) /\ first + k - 1 \in 1..Len(items)
  BY <1>3, <1>5
<1>7. \A k \in 1..Len(page.items) : \E m \in 1..Len(items) : page.items[k] = items[m]
  BY <1>5, <1>6
<1>8. ASSUME cursor \in 0..Len(items)
      PROVE  /\ Len(page.items) = IF next < Len(items) THEN limit ELSE Len(items) - cursor
             /\ \A k \in 1..Len(page.items) : page.items[k] = items[cursor + k]
  <2>1. first = cursor + 1 /\ last = IF next < Len(items) THEN next ELSE Len(items)
    BY <1>3, <1>4, <1>8
  <2>2. Len(page.items) = IF next < Len(items) THEN limit ELSE Len(items) - cursor
    <3>1. CASE next < Len(items)
      <4>1. last - first + 1 = limit /\ first <= last
        BY <1>1, <1>8, <2>1, <3>1
      <4> QED
        BY <1>5, <3>1, <4>1
    <3>2. CASE ~(next < Len(items))
      <4>1. IF first <= last THEN last - first + 1 = Len(items) - cursor
            ELSE Len(items) - cursor = 0
        BY <1>1, <1>8, <2>1, <3>2
      <4> QED
        BY <1>5, <3>2, <4>1
    <3> QED
      BY <3>1, <3>2
  <2>3. \A k \in 1..Len(page.items) : first + k - 1 = cursor + k
    BY <1>3, <1>8, <2>1
  <2> QED
    BY <1>5, <1>6, <2>2, <2>3
<1> QED
  BY <1>2, <1>5, <1>7, <1>8 DEF page

\* What a page shows, whatever its cursor, is in the list.
LEMMA PageHeld ==
  ASSUME RowsInv, NEW tenant, NEW q, NEW limit \in PageSizes, NEW cursor \in Int \union {None}
  PROVE  LET page == Paginate(Matching(tenant, q), cursor, limit)
         IN  /\ Numbers(page.items) \in Seq(Nat)
             /\ \A no \in ToSet(Numbers(page.items)) : no + 1 \in Held(tenant, q)
             /\ page.nextCursor \in Int \union {None}
             /\ cursor \in Nat => page.nextCursor \in Nat \union {None}
<1> DEFINE items == Matching(tenant, q)
           page == Paginate(items, cursor, limit)
<1>1. /\ items \in Seq(RowRecord) /\ Len(items) \in Nat
      /\ \A k \in 1..Len(items) : items[k].no + 1 \in Held(tenant, q)
  BY ListHas
<1>2. limit \in Nat /\ None \notin Int
  BY PagesAssumption
<1> HIDE DEF items
<1>3. CASE cursor = None
  <2>1. page.items = <<>> /\ page.nextCursor = None
    BY <1>3 DEF Paginate
  <2>2. Numbers(page.items) = <<>>
    BY <2>1 DEF Numbers
  <2> QED
    BY <1>2, <1>3, <2>1, <2>2 DEF ToSet, items
<1>4. CASE cursor \in Int
  <2>1. /\ page.items \in Seq(RowRecord) /\ Len(page.items) \in Nat
        /\ \A k \in 1..Len(page.items) : \E m \in 1..Len(items) : page.items[k] = items[m]
        /\ page.nextCursor = IF cursor + limit < Len(items) THEN cursor + limit ELSE None
    <3>1. items \in Seq(RowRecord)
      BY <1>1
    <3>2. /\ page.items \in Seq(RowRecord)
          /\ \A k \in 1..Len(page.items) : \E m \in 1..Len(items) : page.items[k] = items[m]
          /\ page.nextCursor = IF cursor + limit < Len(items) THEN cursor + limit ELSE None
      BY <1>4, <3>1, PageFacts
    <3> HIDE DEF page
    <3>3. Len(page.items) \in Nat
      BY <3>2
    <3> QED
      BY <3>2, <3>3
  <2>2. /\ page.nextCursor \in Int \union {None}
        /\ cursor \in Nat => page.nextCursor \in Nat \union {None}
    BY <1>2, <1>4, <2>1
  <2> HIDE DEF page
  <2>3. DOMAIN page.items = 1..Len(page.items)
    BY <2>1
  <2>4. \A k \in 1..Len(page.items) : page.items[k] \in RowRecord
    BY <2>1, ElementOfSeq
  <2>5. \A k \in 1..Len(page.items) : page.items[k].no \in Nat
    BY <2>4 DEF RowRecord
  <2>6. Numbers(page.items) = [k \in 1..Len(page.items) |-> page.items[k].no]
    BY <2>3 DEF Numbers
  <2>7. Numbers(page.items) \in Seq(Nat)
    BY <2>1, <2>5, <2>6
  <2>8. ASSUME NEW no \in ToSet(Numbers(page.items)) PROVE no + 1 \in Held(tenant, q)
    <3>1. PICK k \in 1..Len(page.items) : no = page.items[k].no
      BY <2>6, <2>8 DEF ToSet
    <3>2. PICK m \in 1..Len(items) : page.items[k] = items[m]
      BY <2>1
    <3> QED
      BY <1>1, <3>1, <3>2
  <2> QED
    BY <2>2, <2>7, <2>8 DEF page, items
<1> QED
  BY <1>3, <1>4

\* Who takes the next page goes on where the last one ended: nothing of the first page's
\* list is passed over.
LEMMA ReadsOn ==
  ASSUME RowsInv, NEW tenant, NEW q, NEW limit \in PageSizes, NEW cursor \in Nat,
         NEW read \in Seq(Nat), NEW atFirst \in Seq(Nat),
         \A no \in ToSet(atFirst) : no + 1 \in Held(tenant, q),
         Follows(Held(tenant, q), cursor, read, atFirst)
  PROVE  LET page == Paginate(Matching(tenant, q), cursor, limit)
         IN  Follows(Held(tenant, q), page.nextCursor, read \o Numbers(page.items), atFirst)
<1> DEFINE held == Held(tenant, q)
           n == Cardinality(held)
           items == Matching(tenant, q)
           page == Paginate(items, cursor, limit)
           numbers == Numbers(page.items)
           next == cursor + limit
<1>1. /\ items \in Seq(RowRecord) /\ Len(items) = n /\ n \in Nat
      /\ \A k \in 1..n : items[k].no + 1 \in held /\ Place(items[k].no + 1, held) = k - 1
  BY ListHas
<1>a. \A i \in held : \E k \in 1..n : k = Place(i, held) + 1 /\ items[k].no = i - 1
  BY ListHas
<1>2. limit \in Nat /\ limit # 0 /\ None \notin Int
  BY PagesAssumption
<1>3. cursor = Len(read) /\ cursor <= n /\ cursor # None
  BY <1>2 DEF Follows
<1> HIDE DEF items
<1>4. /\ page.items \in Seq(RowRecord)
      /\ page.nextCursor = IF next < n THEN next ELSE None
      /\ Len(page.items) = IF next < n THEN limit ELSE n - cursor
      /\ \A k \in 1..Len(page.items) : page.items[k] = items[cursor + k]
  <2>1. cursor \in 0..Len(items) /\ cursor \in Int
    BY <1>1, <1>3
  <2> QED
    BY <1>1, <2>1, PageFacts
<1>5. numbers \in Seq(Nat)
  BY PageHeld DEF items
<1> HIDE DEF page
<1>6. /\ Len(numbers) = Len(page.items)
      /\ \A k \in 1..Len(numbers) : numbers[k] = items[cursor + k].no
  BY <1>4 DEF Numbers
<1> DEFINE both == read \o numbers
<1> HIDE DEF numbers
<1>7. /\ both \in Seq(Nat) /\ Len(both) = cursor + Len(numbers)
      /\ \A k \in 1..cursor : both[k] = read[k]
      /\ \A k \in 1..Len(numbers) : both[cursor + k] = numbers[k]
  BY <1>3, <1>5, ConcatProperties
<1>8. Len(both) = IF next < n THEN next ELSE n
  BY <1>1, <1>2, <1>3, <1>4, <1>6, <1>7
<1>9. Len(both) <= n /\ (page.nextCursor # None => page.nextCursor = Len(both))
  BY <1>1, <1>2, <1>4, <1>8
<1>10. \A k \in 1..Len(both) :
         k \in 1..cursor \/ (k > cursor /\ k \in 1..n /\ both[k] = items[k].no)
  <2> SUFFICES ASSUME NEW k \in 1..Len(both), k > cursor
               PROVE  k \in 1..n /\ both[k] = items[k].no
    BY <1>3, <1>7
  <2>1. k - cursor \in 1..Len(numbers) /\ cursor + (k - cursor) = k
    BY <1>5, <1>7
  <2>2. k \in 1..n
    BY <1>1, <1>8, <1>9, <1>7
  <2> QED
    BY <1>6, <1>7, <2>1, <2>2
<1> HIDE DEF both
<1>11. \A no \in ToSet(read) : no \in ToSet(both)
  <2>1. \A k \in 1..cursor : k \in 1..Len(both)
    BY <1>5, <1>7
  <2> QED
    BY <1>3, <1>7, <2>1 DEF ToSet
<1>12. ASSUME NEW no \in ToSet(atFirst), no \notin ToSet(both)
       PROVE  page.nextCursor # None /\ page.nextCursor <= Place(no + 1, held)
  <2>1. cursor <= Place(no + 1, held) /\ no + 1 \in held /\ no \in Nat
    <3>1. PICK k \in 1..Len(atFirst) : no = atFirst[k]
      BY DEF ToSet
    <3>2. no \in Nat
      BY <3>1, ElementOfSeq
    <3>3. cursor <= Place(no + 1, held)
      BY <1>11, <1>12 DEF Follows
    <3> QED
      BY <3>2, <3>3
  <2>2. PICK k \in 1..n : k = Place(no + 1, held) + 1 /\ items[k].no = no + 1 - 1
    <3>1. PICK i \in held : i = no + 1
      BY <2>1
    <3>2. \E k \in 1..n : k = Place(i, held) + 1 /\ items[k].no = i - 1
      BY <1>a
    <3> QED
      BY <2>1, <3>1, <3>2
  <2>3. Place(no + 1, held) = k - 1 /\ items[k].no = no
    BY <1>1, <2>1, <2>2
  <2>4. k > cursor
    BY <1>1, <2>1, <2>3
  <2>5. ASSUME k <= Len(both) PROVE FALSE
    <3>1. k \in 1..Len(both)
      BY <1>1, <1>7, <2>5
    <3>2. both[k] = no
      BY <1>10, <2>3, <2>4, <3>1
    <3> QED
      BY <1>7, <1>12, <3>1, <3>2 DEF ToSet
  <2>6. Len(both) \in Nat /\ Len(both) < k
    BY <1>1, <1>7, <2>5
  <2>7. next < n /\ Len(both) = next
    BY <1>1, <1>2, <1>8, <2>6
  <2>8. page.nextCursor = next /\ next \in Int
    BY <1>2, <1>4, <2>7
  <2> QED
    BY <1>1, <1>2, <2>3, <2>6, <2>7, <2>8
<1>13. ASSUME listing = "audit" \/ Len(atFirst) = n, NEW k \in DOMAIN both
       PROVE  Place(both[k] + 1, held) = k - 1
  <2>1. k \in 1..Len(both)
    BY <1>7
  <2>2. CASE k \in 1..cursor
    <3>1. Place(read[k] + 1, held) = k - 1
      BY <1>3, <1>13, <2>2 DEF Follows
    <3> QED
      BY <1>7, <2>2, <3>1
  <2>3. CASE k > cursor
    <3>1. k \in 1..n /\ both[k] = items[k].no
      BY <1>10, <2>1, <2>3
    <3> QED
      BY <1>1, <3>1
  <2> QED
    BY <1>10, <2>1, <2>2, <2>3
<1>14. Follows(held, page.nextCursor, both, atFirst)
  BY <1>9, <1>12, <1>13 DEF Follows
<1> QED
  BY <1>14 DEF both, numbers, page, items

-----------------------------------------------------------------------------
(* A row is added *)

\* A list keeps what it holds, in its order; what is added to the log comes last, and a
\* new run can only push others back.
LEMMA RowAdded ==
  ASSUME RowsInv, NEW tenant \in Tenants, NEW actor \in Actors, AddRow(tenant, actor),
         NEW whose, NEW q
  PROVE  LET held == Held(whose, q)
             then == Held(whose, q)'
         IN  /\ held \subseteq then
             /\ then = held \/ Cardinality(then) = Cardinality(held) + 1
             /\ \A i \in held : Place(i, held) <= Place(i, Held(whose, q))'
             /\ \A i \in held : Place(i, Held(whose, q))' \in Nat
             /\ \A i \in held : listing = "audit" \/ then = held =>
                  Place(i, held) = Place(i, Held(whose, q))'
<1> DEFINE held == Held(whose, q)
           then == Held(whose, q)'
           Ahead(i) == {j \in held : Precedes(j, i)}
           AheadThen(i) == {j \in then : Precedes(j, i)'}
<1> PICK last : last = Len(rows) + 1
  OBVIOUS
<1>1. /\ rows' = Append(rows, [tenant |-> tenant, actor |-> actor, at |-> clock, no |-> Len(rows)])
      /\ listing' = listing /\ Len(rows) \in Nat /\ clock \in Nat /\ listing \in {"audit", "runs"}
  BY DEF AddRow, RowsInv
<1>2. /\ DOMAIN rows = 1..Len(rows) /\ DOMAIN rows' = 1..last
      /\ \A i \in 1..Len(rows) : rows'[i] = rows[i]
      /\ rows'[last].at = clock
      /\ \A i \in 1..last : i \in 1..Len(rows) \/ i = last
      /\ \A i \in 1..Len(rows) : i \in 1..last /\ i < last
  BY <1>1 DEF RowsInv
<1>3. held \subseteq 1..Len(rows) /\ IsFiniteSet(held) /\ Cardinality(held) \in Nat
  BY HeldFinite
<1>4. then = held \/ then = held \union {last}
  BY <1>2 DEF Held
<1>5. last \notin held
  BY <1>2, <1>3
<1>6. \A i, j \in held : Precedes(j, i)' <=> Precedes(j, i)
  BY <1>1, <1>2, <1>3 DEF Precedes
<1>7. ASSUME listing = "audit", NEW i \in held PROVE ~Precedes(last, i)'
  <2>1. i < last /\ i \in Int
    BY <1>2, <1>3
  <2> QED
    BY <1>1, <1>7, <2>1 DEF Precedes
<1>8. \A i : /\ Place(i, held) = Cardinality(Ahead(i))
            /\ Place(i, Held(whose, q))' = Cardinality(AheadThen(i))
  BY DEF Place
<1> HIDE DEF held, then
<1>9. then = held \/ Cardinality(then) = Cardinality(held) + 1
  BY <1>3, <1>4, <1>5, FS_AddElement
<1>10. \A i \in held : IsFiniteSet(Ahead(i)) /\ Cardinality(Ahead(i)) \in Nat
  BY <1>3, FS_Subset, FS_CardinalityType
<1>11. \A i \in held : AheadThen(i) = Ahead(i) \/ AheadThen(i) = Ahead(i) \union {last}
  BY <1>4, <1>6
<1>12. \A i \in held : listing = "audit" \/ then = held => AheadThen(i) = Ahead(i)
  <2> SUFFICES ASSUME NEW i \in held, listing = "audit" \/ then = held
               PROVE  AheadThen(i) = Ahead(i)
    OBVIOUS
  <2>1. CASE then = held
    BY <1>6, <2>1
  <2>2. CASE listing = "audit" /\ then = held \union {last}
    <3>1. ~Precedes(last, i)'
      BY <1>7, <2>2
    <3> QED
      BY <1>6, <2>2, <3>1
  <2> QED
    BY <1>4, <2>1, <2>2
<1> HIDE DEF Ahead, AheadThen
<1>13. ASSUME NEW i \in held
       PROVE  /\ Cardinality(Ahead(i)) <= Cardinality(AheadThen(i))
              /\ Cardinality(AheadThen(i)) \in Nat
  <2>1. CASE AheadThen(i) = Ahead(i)
    BY <1>10, <2>1
  <2>2. CASE AheadThen(i) = Ahead(i) \union {last}
    <3>1. \/ Cardinality(AheadThen(i)) = Cardinality(Ahead(i))
          \/ Cardinality(AheadThen(i)) = Cardinality(Ahead(i)) + 1
      BY <1>10, <2>2, FS_AddElement
    <3> QED
      BY <1>10, <3>1
  <2> QED
    BY <1>11, <2>1, <2>2
<1>14. held \subseteq then
  BY <1>4
<1> QED
  BY <1>8, <1>9, <1>12, <1>13, <1>14 DEF held, then

-----------------------------------------------------------------------------
(* Every step keeps what holds of the lists *)

\* What a reader was told of the lists as they are.
LEMMA ReaderTold ==
  ASSUME NEW r, reader' = r, UNCHANGED <<listing, rows>>, r \in ReaderRecord,
         \A no \in ToSet(r.read) \union ToSet(r.atFirst) : no + 1 \in Held(r.tenant, r.q),
         Len(r.atFirst) <= Cardinality(Held(r.tenant, r.q)),
         ~r.strayed => Follows(Held(r.tenant, r.q), r.cursor, r.read, r.atFirst)
  PROVE  ReaderInv'
<1>1. Held(r.tenant, r.q)' = Held(r.tenant, r.q)
  BY DEF Held
<1>2. \A i, held : Place(i, held)' = Place(i, held)
  BY DEF Place, Precedes
<1>3. \A held, cursor, read, atFirst :
        Follows(held, cursor, read, atFirst)' <=> Follows(held, cursor, read, atFirst)
  BY <1>2 DEF Follows
<1>4. Held(reader.tenant, reader.q)' = Held(r.tenant, r.q)'
  BY DEF Held
<1> QED
  BY <1>1, <1>3, <1>4 DEF ReaderInv

\* The first page.
LEMMA FirstPageStep ==
  ASSUME ListsInv, NEW tenant \in Tenants, NEW q \in Query, NEW limit \in PageSizes,
         ReadFirst(tenant, q, limit)
  PROVE  ReaderInv'
<1> DEFINE held == Held(tenant, q)
           items == Matching(tenant, q)
           page == Paginate(items, 0, limit)
           r == [tenant |-> tenant, q |-> q, limit |-> limit, cursor |-> page.nextCursor,
                 read |-> Numbers(page.items), atFirst |-> Numbers(items), strayed |-> FALSE]
<1>1. reader' = r /\ UNCHANGED <<listing, rows>> /\ RowsInv
  BY DEF ReadFirst, ListsInv
<1>2. /\ items \in Seq(RowRecord) /\ Len(items) = Cardinality(held) /\ Len(items) \in Nat
      /\ \A k \in 1..Len(items) : items[k].no + 1 \in held /\ Place(items[k].no + 1, held) = k - 1
  BY <1>1, ListHas
<1>3. /\ Numbers(page.items) \in Seq(Nat)
      /\ \A no \in ToSet(Numbers(page.items)) : no + 1 \in held
      /\ page.nextCursor \in Nat \union {None}
  BY <1>1, PageHeld
<1> DEFINE atFirst == Numbers(items)
<1> HIDE DEF items
<1>4. atFirst \in Seq(Nat) /\ Len(atFirst) = Len(items)
  <2>1. \A k \in 1..Len(items) : items[k].no \in Nat
    <3>1. \A k \in 1..Len(items) : items[k] \in RowRecord
      BY <1>2, ElementOfSeq
    <3> QED
      BY <3>1 DEF RowRecord
  <2>2. atFirst = [k \in 1..Len(items) |-> items[k].no]
    BY <1>2 DEF Numbers
  <2> QED
    BY <1>2, <2>1, <2>2
<1>5. \A k \in 1..Len(atFirst) : atFirst[k] = items[k].no
  BY <1>2, <1>4 DEF Numbers
<1> HIDE DEF atFirst
<1>6. ASSUME NEW no \in ToSet(atFirst)
      PROVE  no + 1 \in held /\ Place(no + 1, held) \in Nat
  <2>1. PICK k \in 1..Len(atFirst) : no = atFirst[k]
    BY <1>4 DEF ToSet
  <2>2. no = items[k].no /\ k \in 1..Len(items)
    BY <1>4, <1>5, <2>1
  <2>3. no + 1 \in held /\ Place(no + 1, held) = k - 1 /\ k - 1 \in Nat
    BY <1>2, <2>2
  <2> QED
    BY <2>3
<1>7. Follows(held, 0, <<>>, atFirst)
  <2>1. Len(<<>>) = 0 /\ DOMAIN <<>> = {}
    OBVIOUS
  <2>2. None # 0
    BY PagesAssumption
  <2> QED
    BY <1>2, <1>6, <2>1, <2>2 DEF Follows
<1>8. Follows(held, page.nextCursor, <<>> \o Numbers(page.items), atFirst)
  <2>1. <<>> \in Seq(Nat) /\ 0 \in Nat
    OBVIOUS
  <2> QED
    BY <1>1, <1>4, <1>6, <1>7, <2>1, ReadsOn DEF items
<1>9. Follows(held, page.nextCursor, Numbers(page.items), atFirst)
  <2>1. <<>> \o Numbers(page.items) = Numbers(page.items)
    BY <1>3, ConcatEmptySeq
  <2> QED
    BY <1>8, <2>1
<1>10. r \in ReaderRecord
  BY <1>3, <1>4 DEF ReaderRecord, atFirst
<1>11. /\ r.tenant = tenant /\ r.q = q /\ r.cursor = page.nextCursor
       /\ r.read = Numbers(page.items) /\ r.atFirst = atFirst
  BY DEF atFirst
<1> HIDE DEF r, held, page
<1> QED
  BY <1>1, <1>2, <1>3, <1>4, <1>6, <1>9, <1>10, <1>11, ReaderTold DEF held

\* The page the last answer's cursor names.
LEMMA NextPageStep ==
  ASSUME ListsInv, ReadNext
  PROVE  ReaderInv'
<1> PICK tenant, q, limit, cursor, read, atFirst, strayed :
      /\ tenant = reader.tenant /\ q = reader.q /\ limit = reader.limit
      /\ cursor = reader.cursor /\ read = reader.read /\ atFirst = reader.atFirst
      /\ strayed = reader.strayed
  OBVIOUS
<1> DEFINE held == Held(tenant, q)
           page == Paginate(Matching(tenant, q), cursor, limit)
           both == read \o Numbers(page.items)
           r == [reader EXCEPT !.cursor = page.nextCursor, !.read = both]
<1>1. reader' = r /\ UNCHANGED <<listing, rows>> /\ RowsInv /\ reader \in ReaderRecord
  BY DEF ReadNext, ListsInv, ReaderInv
<1>2. /\ tenant \in Tenants /\ q \in Query /\ limit \in PageSizes /\ cursor \in Nat
      /\ read \in Seq(Nat) /\ atFirst \in Seq(Nat) /\ strayed \in BOOLEAN
  BY <1>1 DEF ReadNext, ReaderRecord
<1>3. /\ \A no \in ToSet(read) \union ToSet(atFirst) : no + 1 \in held
      /\ Len(atFirst) <= Cardinality(held)
      /\ ~strayed => Follows(held, cursor, read, atFirst)
  BY DEF ReadNext, ListsInv, ReaderInv
<1>4. /\ Numbers(page.items) \in Seq(Nat)
      /\ \A no \in ToSet(Numbers(page.items)) : no + 1 \in held
      /\ page.nextCursor \in Nat \union {None}
  BY <1>1, <1>2, PageHeld
<1>5. ~strayed => Follows(held, page.nextCursor, both, atFirst)
  BY <1>1, <1>2, <1>3, ReadsOn
<1> HIDE DEF page
<1>6. both \in Seq(Nat) /\ ToSet(both) \subseteq ToSet(read) \union ToSet(Numbers(page.items))
  <2> DEFINE numbers == Numbers(page.items)
  <2> HIDE DEF numbers
  <2>1. numbers \in Seq(Nat)
    BY <1>4 DEF numbers
  <2>2. /\ read \o numbers \in Seq(Nat)
        /\ \A i \in 1..Len(read \o numbers) :
             \/ i \in 1..Len(read) /\ (read \o numbers)[i] = read[i]
             \/ i - Len(read) \in 1..Len(numbers) /\ (read \o numbers)[i] = numbers[i - Len(read)]
    BY <1>2, <2>1
  <2>3. ToSet(read \o numbers) \subseteq ToSet(read) \union ToSet(numbers)
    BY <1>2, <2>1, <2>2 DEF ToSet
  <2> QED
    BY <2>2, <2>3 DEF numbers
<1> HIDE DEF both
<1>7. r \in ReaderRecord
  BY <1>1, <1>4, <1>6 DEF ReaderRecord
<1>8. /\ r.tenant = tenant /\ r.q = q /\ r.cursor = page.nextCursor
      /\ r.read = both /\ r.atFirst = atFirst /\ r.strayed = strayed
  BY <1>1 DEF ReaderRecord
<1> HIDE DEF r
<1> QED
  BY <1>1, <1>3, <1>4, <1>5, <1>6, <1>7, <1>8, ReaderTold

\* A page by a cursor no answer gave.
LEMMA OtherPageStep ==
  ASSUME ListsInv, NEW cursor \in Int \union {None}, ReadElsewhere(cursor)
  PROVE  ReaderInv'
<1> PICK tenant, q, limit, atFirst :
      /\ tenant = reader.tenant /\ q = reader.q /\ limit = reader.limit
      /\ atFirst = reader.atFirst
  OBVIOUS
<1> DEFINE held == Held(tenant, q)
           page == Paginate(Matching(tenant, q), cursor, limit)
           r == [reader EXCEPT !.cursor = None, !.strayed = TRUE, !.read = Numbers(page.items)]
<1>1. reader' = r /\ UNCHANGED <<listing, rows>> /\ RowsInv /\ reader \in ReaderRecord
  BY DEF ReadElsewhere, ListsInv, ReaderInv
<1>2. limit \in PageSizes
  BY <1>1 DEF ReaderRecord
<1>3. /\ \A no \in ToSet(atFirst) : no + 1 \in held
      /\ Len(atFirst) <= Cardinality(held)
  BY DEF ReadElsewhere, ListsInv, ReaderInv
<1>4. /\ Numbers(page.items) \in Seq(Nat)
      /\ \A no \in ToSet(Numbers(page.items)) : no + 1 \in held
  BY <1>1, <1>2, PageHeld
<1> HIDE DEF page
<1>5. r \in ReaderRecord
  BY <1>1, <1>4 DEF ReaderRecord
<1>6. /\ r.tenant = tenant /\ r.q = q /\ r.read = Numbers(page.items)
      /\ r.atFirst = atFirst /\ r.strayed
  BY <1>1 DEF ReaderRecord
<1> HIDE DEF r
<1> QED
  BY <1>1, <1>3, <1>4, <1>5, <1>6, ReaderTold

\* A row is added while the reader is between two pages.
LEMMA AddedStep ==
  ASSUME ListsInv, NEW tenant \in Tenants, NEW actor \in Actors, AddRow(tenant, actor)
  PROVE  ListsInv'
<1>1. /\ rows' = Append(rows, [tenant |-> tenant, actor |-> actor, at |-> clock, no |-> Len(rows)])
      /\ UNCHANGED <<listing, clock, reader>> /\ RowsInv
  BY DEF AddRow, ListsInv
<1>2. RowsInv'
  <2> DEFINE row == [tenant |-> tenant, actor |-> actor, at |-> clock, no |-> Len(rows)]
  <2>1. /\ rows \in Seq(RowRecord) /\ Len(rows) \in Nat /\ clock \in Nat
        /\ listing \in {"audit", "runs"}
    BY <1>1 DEF RowsInv
  <2>2. row \in RowRecord /\ row.no = Len(rows) /\ row.at = clock
    BY <2>1 DEF RowRecord
  <2> HIDE DEF row
  <2>3. rows' = Append(rows, row)
    BY <1>1 DEF row
  <2>4. /\ rows' \in Seq(RowRecord) /\ DOMAIN rows' = 1..(Len(rows) + 1)
        /\ \A i \in 1..Len(rows) : rows'[i] = rows[i]
        /\ rows'[Len(rows) + 1] = row
    BY <2>1, <2>2, <2>3
  <2>5. ASSUME NEW i \in DOMAIN rows' PROVE rows'[i].no = i - 1 /\ rows'[i].at <= clock
    <3>1. CASE i \in 1..Len(rows)
      BY <1>1, <2>4, <3>1, RowFacts
    <3>2. CASE i = Len(rows) + 1
      BY <2>1, <2>2, <2>4, <3>2
    <3> QED
      BY <2>1, <2>4, <3>1, <3>2
  <2> QED
    BY <1>1, <2>1, <2>4, <2>5 DEF RowsInv
<1>3. ASSUME reader' # NoReader PROVE ReaderInv'
  <2>1. ReaderInv /\ reader' = reader
    BY <1>1, <1>3 DEF ListsInv, NoReader
  <2> PICK r : r = reader
    OBVIOUS
  <2> PICK held : held = Held(r.tenant, r.q)
    OBVIOUS
  <2> DEFINE then == Held(r.tenant, r.q)'
  <2>2. /\ held \subseteq then
        /\ then = held \/ Cardinality(then) = Cardinality(held) + 1
        /\ \A i \in held : Place(i, held) <= Place(i, Held(r.tenant, r.q))'
        /\ \A i \in held : Place(i, Held(r.tenant, r.q))' \in Nat
        /\ \A i \in held : listing = "audit" \/ then = held =>
             Place(i, held) = Place(i, Held(r.tenant, r.q))'
    BY <1>1, RowAdded
  <2>3. /\ r \in ReaderRecord
        /\ \A no \in ToSet(r.read) \union ToSet(r.atFirst) : no + 1 \in held
        /\ Len(r.atFirst) <= Cardinality(held)
        /\ ~r.strayed => Follows(held, r.cursor, r.read, r.atFirst)
    BY <2>1 DEF ReaderInv
  <2>4. /\ r.read \in Seq(Nat) /\ r.atFirst \in Seq(Nat) /\ r.cursor \in Nat \union {None}
        /\ Len(r.read) \in Nat /\ Len(r.atFirst) \in Nat
    BY <2>3 DEF ReaderRecord
  <2>5. held \subseteq 1..Len(rows) /\ IsFiniteSet(held) /\ Cardinality(held) \in Nat
    BY <1>1, HeldFinite
  <2>6. \A i \in held : Place(i, held) \in Nat
    BY <1>1, <2>5, PlacesApart
  <2>7. /\ Cardinality(then) \in Nat /\ Cardinality(held) <= Cardinality(then)
        /\ Len(r.atFirst) = Cardinality(then) => then = held
    BY <2>2, <2>3, <2>4, <2>5
  <2>8. ASSUME ~r.strayed PROVE Follows(Held(r.tenant, r.q), r.cursor, r.read, r.atFirst)'
    <3>1. Len(r.read) <= Cardinality(then)
      BY <2>3, <2>4, <2>5, <2>7, <2>8 DEF Follows
    <3>2. r.cursor # None => r.cursor = Len(r.read)
      BY <2>3, <2>8 DEF Follows
    <3>3. ASSUME NEW no \in ToSet(r.atFirst), no \notin ToSet(r.read)
          PROVE  r.cursor # None /\ r.cursor <= Place(no + 1, Held(r.tenant, r.q))'
      <4>1. no + 1 \in held /\ r.cursor # None /\ r.cursor <= Place(no + 1, held)
        BY <2>3, <2>8, <3>3 DEF Follows
      <4>2. Place(no + 1, held) <= Place(no + 1, Held(r.tenant, r.q))' /\ r.cursor \in Nat
        BY <2>2, <2>4, <4>1
      <4>3. Place(no + 1, Held(r.tenant, r.q))' \in Nat
        BY <2>2, <4>1
      <4> QED
        BY <2>6, <4>1, <4>2, <4>3
    <3>4. ASSUME listing = "audit" \/ Len(r.atFirst) = Cardinality(then), NEW k \in DOMAIN r.read
          PROVE  Place(r.read[k] + 1, Held(r.tenant, r.q))' = k - 1
      <4>1. listing = "audit" \/ (then = held /\ Len(r.atFirst) = Cardinality(held))
        BY <2>7, <3>4
      <4>2. Place(r.read[k] + 1, held) = k - 1 /\ r.read[k] + 1 \in held
        BY <2>3, <2>8, <4>1 DEF Follows, ToSet
      <4> QED
        BY <2>2, <4>1, <4>2
    <3> QED
      BY <1>1, <3>1, <3>2, <3>3, <3>4 DEF Follows
  <2>9. \A no \in ToSet(r.read) \union ToSet(r.atFirst) : no + 1 \in then
    BY <2>2, <2>3
  <2>10. Len(r.atFirst) <= Cardinality(then)
    BY <2>3, <2>4, <2>5, <2>7
  <2> QED
    BY <2>1, <2>3, <2>8, <2>9, <2>10 DEF ReaderInv
<1> QED
  BY <1>2, <1>3 DEF ListsInv

\* The empty lists, and no reader.
LEMMA ListsInitially == PagesInit => ListsInv
<1> SUFFICES ASSUME PagesInit PROVE ListsInv
  OBVIOUS
<1>1. rows = <<>> /\ DOMAIN rows = {} /\ rows \in Seq(RowRecord)
  BY DEF PagesInit
<1> QED
  BY <1>1 DEF PagesInit, ListsInv, RowsInv

\* Every step of the lists and of their reader.
LEMMA ListsStepKeeps == ListsInv /\ [PagesNext]_pageVars => ListsInv'
<1> SUFFICES ASSUME ListsInv, [PagesNext]_pageVars PROVE ListsInv'
  OBVIOUS
<1>1. ASSUME UNCHANGED <<listing, rows>>, clock' = clock \/ clock' = clock + 1,
             reader' = reader \/ ReaderInv'
      PROVE  ListsInv'
  <2>1. RowsInv'
    <3>1. clock' \in Nat /\ \A n \in Nat : n <= clock => n <= clock'
      BY <1>1 DEF ListsInv, RowsInv
    <3>2. DOMAIN rows = 1..Len(rows)
      BY DEF ListsInv, RowsInv
    <3>3. \A i \in DOMAIN rows : rows[i].no = i - 1 /\ rows[i].at <= clock'
      BY <3>1, <3>2, RowFacts DEF ListsInv
    <3> QED
      BY <1>1, <3>1, <3>3 DEF ListsInv, RowsInv
  <2>2. CASE reader' = reader
    <3>1. ASSUME reader # NoReader PROVE ReaderInv'
      <4> PICK r : r = reader
        OBVIOUS
      <4> QED
        BY <1>1, <2>2, <3>1, ReaderTold DEF ListsInv, ReaderInv
    <3> QED
      BY <2>1, <2>2, <3>1 DEF ListsInv, NoReader
  <2>3. CASE ReaderInv'
    BY <2>1, <2>3 DEF ListsInv
  <2> QED
    BY <1>1, <2>2, <2>3
<1>2. CASE UNCHANGED pageVars
  BY <1>1, <1>2 DEF pageVars
<1>3. ASSUME NEW tenant \in Tenants, NEW actor \in Actors, AddRow(tenant, actor) PROVE ListsInv'
  BY <1>3, AddedStep
<1>4. ASSUME NEW tenant \in Tenants, NEW q \in Queries, NEW limit \in PageSizes,
             ReadFirst(tenant, q, limit)
      PROVE  ListsInv'
  <2>1. q \in Query
    BY DEF Queries, Query, Everything
  <2> QED
    BY <1>1, <1>4, <2>1, FirstPageStep DEF ReadFirst
<1>5. CASE ClockTicks
  BY <1>1, <1>5 DEF ClockTicks
<1>6. CASE ReadNext
  BY <1>1, <1>6, NextPageStep DEF ReadNext
<1>7. ASSUME NEW cursor \in {None, -1, 1}, ReadElsewhere(cursor) PROVE ListsInv'
  <2>1. cursor \in Int \union {None}
    OBVIOUS
  <2> QED
    BY <1>1, <1>7, <2>1, OtherPageStep DEF ReadElsewhere
<1> QED
  BY <1>2, <1>3, <1>4, <1>5, <1>6, <1>7 DEF PagesNext

-----------------------------------------------------------------------------
(* And so no row is passed over *)

\* What is ahead of a reader at the end is nothing.
LEMMA ListsPromise == ListsInv => PagesComplete
<1> SUFFICES ASSUME ListsInv, reader # NoReader PROVE PagesComplete
  BY DEF PagesComplete
<1> DEFINE held == Held(reader.tenant, reader.q)
           items == Matching(reader.tenant, reader.q)
           numbers == Numbers(items)
           read == reader.read
           shown == ToSet(read)
           n == Cardinality(held)
<1>1. /\ RowsInv /\ reader \in ReaderRecord
      /\ \A no \in ToSet(read) \union ToSet(reader.atFirst) : no + 1 \in held
      /\ Len(reader.atFirst) <= n
      /\ ~reader.strayed => Follows(held, reader.cursor, read, reader.atFirst)
  BY DEF ListsInv, ReaderInv
<1>2. /\ items \in Seq(RowRecord) /\ Len(items) = n /\ n \in Nat
      /\ \A i \in held : \E k \in 1..n : k = Place(i, held) + 1 /\ items[k].no = i - 1
  BY <1>1, ListHas
<1>3. read \in Seq(Nat) /\ Len(read) \in Nat /\ Len(reader.atFirst) \in Nat
  BY <1>1 DEF ReaderRecord
<1> HIDE DEF items
<1>4. numbers \in Seq(Nat) /\ Len(numbers) = n /\ \A k \in 1..n : numbers[k] = items[k].no
  <2>1. \A k \in 1..n : items[k] \in RowRecord
    BY <1>2, ElementOfSeq
  <2>2. \A k \in 1..n : items[k].no \in Nat
    BY <2>1 DEF RowRecord
  <2>3. numbers = [k \in 1..n |-> items[k].no]
    BY <1>2 DEF Numbers
  <2> QED
    BY <1>2, <2>2, <2>3
<1> HIDE DEF numbers, read, held
<1>5. \A no \in shown : no \in Nat
  BY <1>3, ElementOfSeq DEF ToSet
<1>6. ASSUME NEW no \in shown
      PROVE  /\ rows[no + 1].tenant = reader.tenant
             /\ \E k \in 1..n : k = Place(no + 1, held) + 1 /\ numbers[k] = no
  <2>1. no + 1 \in held /\ no \in Nat
    BY <1>1, <1>5
  <2>2. PICK k \in 1..n : k = Place(no + 1, held) + 1 /\ items[k].no = no + 1 - 1
    BY <1>2, <2>1
  <2>3. numbers[k] = no
    BY <1>4, <2>1, <2>2
  <2>4. rows[no + 1].tenant = reader.tenant
    BY <2>1 DEF held, Held
  <2> QED
    BY <2>2, <2>3, <2>4
<1>7. shown \subseteq ToSet(numbers)
  <2> SUFFICES ASSUME NEW no \in shown PROVE no \in ToSet(numbers)
    OBVIOUS
  <2>1. PICK k \in 1..n : numbers[k] = no
    BY <1>6
  <2>2. DOMAIN numbers = 1..n
    BY <1>4
  <2> QED
    BY <2>1, <2>2 DEF ToSet
<1>8. ASSUME ~reader.strayed
      PROVE  /\ listing = "audit" => IsPrefix(read, numbers)
             /\ reader.cursor = None => ToSet(reader.atFirst) \subseteq shown
             /\ Cardinality(shown) < Len(read) => Len(numbers) > Len(reader.atFirst)
             /\ Len(read) <= Len(numbers)
  <2>1. Len(read) <= n /\ (reader.cursor = None => ToSet(reader.atFirst) \subseteq shown)
    BY <1>1, <1>8 DEF Follows
  <2>2. ASSUME listing = "audit" \/ Len(reader.atFirst) = n
        PROVE  \A k \in 1..Len(read) : /\ k \in 1..n /\ read[k] = numbers[k]
                                        /\ Place(read[k] + 1, held) = k - 1
    <3> TAKE k \in 1..Len(read)
    <3>1. Place(read[k] + 1, held) = k - 1 /\ read[k] \in shown
      BY <1>1, <1>3, <1>8, <2>2 DEF Follows, ToSet
    <3>2. PICK m \in 1..n : m = Place(read[k] + 1, held) + 1 /\ numbers[m] = read[k]
      BY <1>6, <3>1
    <3>3. m = k
      BY <3>1, <3>2
    <3> QED
      BY <3>1, <3>2, <3>3
  <2>3. listing = "audit" => IsPrefix(read, numbers)
    <3> SUFFICES ASSUME listing = "audit" PROVE IsPrefix(read, numbers)
      OBVIOUS
    <3>1. \A k \in 1..Len(read) : read[k] = numbers[k]
      BY <2>2
    <3>2. SubSeq(read, 1, Len(read)) = SubSeq(numbers, 1, Len(read))
      BY <1>2, <1>3, <1>4, <2>1, <3>1
    <3> QED
      BY <1>4, <2>1, <3>2 DEF IsPrefix
  <2>4. ASSUME Len(reader.atFirst) = n PROVE Cardinality(shown) = Len(read)
    <3> PICK last : last = Len(read)
      OBVIOUS
    <3>1. \A k, m \in 1..last : read[k] = read[m] => k = m
      <4> SUFFICES ASSUME NEW k \in 1..last, NEW m \in 1..last, read[k] = read[m]
                   PROVE  k = m
        OBVIOUS
      <4>1. Place(read[k] + 1, held) = k - 1 /\ Place(read[k] + 1, held) = m - 1
        BY <2>2, <2>4
      <4> QED
        BY <1>3, <4>1
    <3>2. DOMAIN read = 1..last /\ last \in Nat
      BY <1>3
    <3>3. read \in [1..last -> shown] /\ \A no \in shown : \E k \in 1..last : read[k] = no
      <4>1. read = [k \in 1..last |-> read[k]]
        BY <1>3, <3>2
      <4>2. /\ \A k \in 1..last : read[k] \in shown
            /\ \A no \in shown : \E k \in 1..last : read[k] = no
        BY <3>2 DEF ToSet
      <4> QED
        BY <4>1, <4>2
    <3>4. read \in Injection(1..last, shown)
      BY <3>1, <3>3 DEF Injection, IsInjective
    <3>5. read \in Bijection(1..last, shown)
      BY <3>3, <3>4 DEF Bijection, Surjection
    <3>6. ExistsBijection(1..last, shown)
      BY <3>5 DEF ExistsBijection
    <3>7. IsFiniteSet(1..last) /\ Cardinality(1..last) = last
      <4>1. 1 \in Int /\ last \in Int
        BY <3>2
      <4>2. /\ IsFiniteSet(1..last)
            /\ Cardinality(1..last) = IF 1 > last THEN 0 ELSE last - 1 + 1
        BY <4>1, FS_Interval
      <4> QED
        BY <3>2, <4>2
    <3> QED
      BY <3>6, <3>7, FS_Bijection
  <2>5. Cardinality(shown) < Len(read) => Len(numbers) > Len(reader.atFirst)
    BY <1>1, <1>2, <1>3, <1>4, <2>4
  <2> QED
    BY <1>4, <2>1, <2>3, <2>5
<1> QED
  BY <1>6, <1>7, <1>8 DEF PagesComplete, numbers, items, read, held

\* Whoever follows the cursors to the end has every row the list held at the first page,
\* of the log once each and in order, a run twice only if another was created meanwhile,
\* and none of another tenant, however long the list and whatever is added between two
\* pages: PagesComplete.
THEOREM PagesAlwaysComplete == PagesSpec => []PagesComplete
<1>1. PagesInit => ListsInv
  BY ListsInitially
<1>2. ListsInv /\ [PagesNext]_pageVars => ListsInv'
  BY ListsStepKeeps
<1>3. ListsInv => PagesComplete
  BY ListsPromise
<1> QED
  BY <1>1, <1>2, <1>3, PTL DEF PagesSpec

\* Who reads over time is not misled, by the pages of a list or by a bundle saved before
\* a restart: ReadersTold, for any number of rows, pages, starts and downloads.
THEOREM ReadersAlwaysTold == ReadersSpec => []ReadersTold
<1>1. PagesComplete /\ KeysInv => ReadersTold
  BY DEF ReadersTold
<1> QED
  BY <1>1, PagesAlwaysComplete, KeysHold, PTL DEF ReadersSpec

=============================================================================
