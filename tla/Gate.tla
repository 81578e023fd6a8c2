-------------------------------- MODULE Gate --------------------------------
(***************************************************************************)
(* The tool-call gate of policy/gate.ts, the engine of policy/engine.ts it *)
(* asks, and the rules of policies/*.rego the bundle compiles.             *)
(*                                                                         *)
(* A gate call asks up to three rules in order.  Each question awaits the  *)
(* bundle, which any caller may be the first to load; the rule is then     *)
(* evaluated at once.                                                      *)
(***************************************************************************)
EXTENDS Naturals, Sequences

CONSTANTS GateCalls,   \* calls of evaluateToolCall, each made once
          Contexts,    \* the tool calls that are gated
          Absent,      \* a field that is not given
          Threshold,   \* data.budget.threshold, or Absent
          Allowlist    \* data.task_allowlist of the task

ToolCallContext ==
  [tool: {"browser", "shell"}, action: {"read", "delete", "deploy"},
   domain: {Absent, "listed", "unlisted", "telemetry.internal"},
   tokensUsed: Nat, costIncurred: Nat, budgetTokens: Nat \union {Absent},
   maxCost: Nat \union {Absent}, callCost: Nat \union {Absent}]

ASSUME GateAssumption ==
  /\ Contexts \subseteq ToolCallContext
  /\ Threshold \in Nat \union {Absent}
  /\ Absent \notin Nat \union {"listed", "unlisted", "telemetry.internal"}

VARIABLES
  bundle,   \* the engine: "unloaded", "loading", "loaded" or "failed"
  digest,   \* the bundle's digest, once its bytes were read
  gates     \* where each gate call is, and its locals

gateVars == <<bundle, digest, gates>>

GateInit ==
  /\ bundle = "unloaded"
  /\ digest = "unloaded"
  /\ gates = [g \in GateCalls |-> [at |-> "idle"]]

-----------------------------------------------------------------------------
(* The rules *)

Given(value, otherwise) == IF value = Absent THEN otherwise ELSE value

\* What the call costs on top of what the run has spent.
ProjectedCost(ctx) == ctx.costIncurred + Given(ctx.callCost, 0)

\* A limit that is not given is MAX_SAFE_INTEGER, which nothing exceeds.
DenyBudget(ctx) ==
  \/ ctx.budgetTokens # Absent /\ ctx.tokensUsed > ctx.budgetTokens
  \/ ctx.maxCost # Absent /\ ProjectedCost(ctx) > ctx.maxCost

AllowEgress(ctx) == ctx.domain \in Allowlist \union {"telemetry.internal"}

RequireApproval(ctx) ==
  \/ ctx.action \in {"delete", "write_prod", "drop_db"}
  \/ Threshold # Absent /\ Given(ctx.callCost, 0) > Threshold
  \/ ctx.tool \in {"shell", "aws_cli", "kubernetes_admin"}

KnownDestructive ==
  {"delete", "drop_db", "write_prod", "deploy", "transfer_funds", "send_email",
   "exec_shell", "modify_iam", "rotate_credentials"}

-----------------------------------------------------------------------------
(* The engine *)

Loaded == bundle \in {"loaded", "failed"}

\* The first caller starts the load, and the others share it.
Load == bundle' = IF bundle = "unloaded" THEN "loading" ELSE bundle

\* load() of another caller of the engine.
Preload == bundle = "unloaded" /\ Load /\ UNCHANGED <<digest, gates>>

\* The file cannot be read, the module cannot be instantiated, or it is loaded.
LoadEnds ==
  /\ bundle = "loading"
  /\ \/ bundle' = "failed" /\ UNCHANGED digest
     \/ bundle' \in {"failed", "loaded"} /\ digest' = "bundle"
  /\ UNCHANGED gates

\* What an evaluation came to: the value of the rule, or none that is a boolean.
Boolean(value) == [evaluated |-> TRUE, boolean |-> TRUE, value |-> value]
NotBoolean == [evaluated |-> TRUE, boolean |-> FALSE, value |-> FALSE]
Unavailable == [evaluated |-> FALSE, boolean |-> FALSE, value |-> FALSE]

\* Without a bundle there is no answer; with one, the rule may have a value, no
\* result, throw, or give something that is not a boolean.
Evaluate(value) ==
  IF bundle = "failed" THEN {Unavailable} ELSE {Boolean(value), NotBoolean, Unavailable}

\* Seeded fault: a value that is not a boolean is taken as it is.
DecideBooleanFalsy(answer, safeDefault) ==
  IF answer.evaluated THEN [result |-> answer.value, evaluated |-> TRUE]
  ELSE [result |-> safeDefault, evaluated |-> FALSE]

\* A boolean the policy gave, or the direction in which this rule is safe.
DecideBoolean(answer, safeDefault) ==
  IF answer.evaluated /\ answer.boolean THEN [result |-> answer.value, evaluated |-> TRUE]
  ELSE [result |-> safeDefault, evaluated |-> FALSE]

-----------------------------------------------------------------------------
(* The gate *)

AskBudget(ctx) == ctx.budgetTokens # Absent \/ ctx.maxCost # Absent
AskEgress(ctx) == ctx.domain # Absent

FirstQuestion(ctx) ==
  IF AskBudget(ctx) THEN "budget" ELSE IF AskEgress(ctx) THEN "egress" ELSE "approval"

GateCall(g, ctx, strict) ==
  /\ gates[g].at = "idle"
  /\ gates' = [gates EXCEPT ![g] =
       [at |-> FirstQuestion(ctx), ctx |-> ctx, strict |-> strict, decisions |-> <<>>,
        outcome |-> "none", rule |-> "none"]]
  /\ Load
  /\ UNCHANGED digest

\* The decision of a rule is kept; the call goes on to a question or an outcome.
Decided(g, rule, decision, next) ==
  gates' = [gates EXCEPT ![g].at = next.at, ![g].outcome = next.outcome,
              ![g].rule = next.rule,
              ![g].decisions = Append(@, [rule |-> rule, evaluated |-> decision.evaluated,
                                          value |-> decision.result, digest |-> digest])]

Ask(question) == [at |-> question, outcome |-> "none", rule |-> "none"]
Outcome(outcome, rule) == [at |-> "done", outcome |-> outcome, rule |-> rule]

\* Over budget, or not known not to be: the run ends.
GateBudget(g) ==
  /\ gates[g].at = "budget" /\ Loaded
  /\ \E answer \in Evaluate(DenyBudget(gates[g].ctx)) :
       LET decision == DecideBoolean(answer, gates[g].strict)
       IN  Decided(g, "budget", decision,
             IF decision.result THEN Outcome("terminate_run", "budget")
             ELSE IF AskEgress(gates[g].ctx) THEN Ask("egress") ELSE Ask("approval"))
  /\ UNCHANGED <<bundle, digest>>

\* A destination that is not allowed is denied, with no way round.
GateEgress(g) ==
  /\ gates[g].at = "egress" /\ Loaded
  /\ \E answer \in Evaluate(AllowEgress(gates[g].ctx)) :
       LET decision == DecideBoolean(answer, ~gates[g].strict)
       IN  Decided(g, "egress", decision,
             IF decision.result THEN Ask("approval") ELSE Outcome("deny", "egress"))
  /\ UNCHANGED <<bundle, digest>>

\* "Rego stays authoritative for allowing; this only ever makes the outcome more
\* restrictive."
GateApproval(g) ==
  /\ gates[g].at = "approval" /\ Loaded
  /\ \E answer \in Evaluate(RequireApproval(gates[g].ctx)) :
       LET decision == DecideBoolean(answer, gates[g].strict)
       IN  Decided(g, "approval", decision,
             IF decision.result \/ gates[g].ctx.action \in KnownDestructive
             THEN Outcome("require_approval", "approval") ELSE Outcome("allow", "none"))
  /\ UNCHANGED <<bundle, digest>>

GateStep(g) ==
  \/ \E ctx \in Contexts, strict \in BOOLEAN : GateCall(g, ctx, strict)
  \/ GateBudget(g) \/ GateEgress(g) \/ GateApproval(g)

GateNext == Preload \/ LoadEnds \/ \E g \in GateCalls : GateStep(g)

GateSpec == GateInit /\ [][GateNext]_gateVars

-----------------------------------------------------------------------------
(* What the gate promises *)

\* What the entry of the gated call says of the rules that were asked.
AuditPayload(g) ==
  [outcome |-> gates[g].outcome, rule |-> gates[g].rule,
   policyBundle |-> IF gates[g].decisions = <<>> THEN "unloaded" ELSE gates[g].decisions[1].digest,
   evaluations |-> gates[g].decisions]

Asked(g, rule) ==
  \E i \in DOMAIN gates[g].decisions : gates[g].decisions[i].rule = rule

\* The call, judged without the engine.
Verdict(ctx) ==
  IF DenyBudget(ctx) THEN "terminate_run"
  ELSE IF AskEgress(ctx) /\ ~AllowEgress(ctx) THEN "deny"
  ELSE IF RequireApproval(ctx) \/ ctx.action \in KnownDestructive THEN "require_approval"
  ELSE "allow"

\* What an outcome says of the call, of the rules that were asked and of the entry.
FailsClosed(g) ==
  LET ctx == gates[g].ctx
      entry == AuditPayload(g)
      evaluated == \A i \in DOMAIN entry.evaluations : entry.evaluations[i].evaluated
  IN  /\ evaluated => entry.outcome = Verdict(ctx)
      /\ ~evaluated /\ gates[g].strict => entry.outcome # "allow"
      /\ ctx.action \in KnownDestructive => entry.outcome # "allow"
      /\ entry.outcome \in {"allow", "require_approval"} =>
           (AskBudget(ctx) => Asked(g, "budget")) /\ (AskEgress(ctx) => Asked(g, "egress"))
      /\ \A i \in DOMAIN entry.evaluations : entry.evaluations[i].digest = entry.policyBundle

\* Whatever fails, in the bundle or in a rule, and whoever loads it: a strict gate
\* allows nothing a rule did not clear, an over-budget or undeclared call is never
\* left to a reviewer, a destructive action is never allowed even when the policy
\* is not enforced, and where every rule answered the outcome is the one the rules
\* and their order give.  One bundle stands behind all of a call's decisions, and
\* the entry says which of them were evaluated.
GateFailsClosed == \A g \in GateCalls : gates[g].at = "done" => FailsClosed(g)

=============================================================================
