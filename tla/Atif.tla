-------------------------------- MODULE Atif --------------------------------
(***************************************************************************)
(* The trajectory format of trajectories/atif.ts: which documents are      *)
(* accepted as a record of what an agent did, and what is summed over one. *)
(*                                                                         *)
(* A document is a record without the fields it does not give.  Times are  *)
(* naturals, costs tenths of a micro-dollar, temperatures and top_p tenths.*)
(***************************************************************************)
EXTENDS Integers, FiniteSetsExt, SequencesExt

CONSTANT ContentAddresses   \* the strings that are "sha256:<64 hex>"

Gives(doc, field) == field \in DOMAIN doc

Fields(doc, required, optional) ==
  required \subseteq DOMAIN doc /\ DOMAIN doc \subseteq required \union optional

Default(doc, field, value) == IF Gives(doc, field) THEN doc ELSE (field :> value) @@ doc

OrZero(doc, field) == IF Gives(doc, field) THEN doc[field] ELSE 0

-----------------------------------------------------------------------------
(* What is accepted *)

\* "A trajectory that cannot identify its system prompt cannot show two runs were
\* configured alike."
ValidAgent(a) ==
  /\ Fields(a, {"model_identifier", "provider"},
            {"model_version", "system_prompt", "system_prompt_sha256", "temperature", "top_p",
             "max_output_tokens", "reasoning_effort"})
  /\ "" \notin {a.model_identifier, a.provider}
  /\ Gives(a, "temperature") => a.temperature \in 0..20
  /\ Gives(a, "top_p") => a.top_p \in 0..10
  /\ Gives(a, "max_output_tokens") => a.max_output_tokens > 0
  /\ Gives(a, "system_prompt") \/ Gives(a, "system_prompt_sha256")

\* The parts are held against the whole only where both of them are given.
ValidMetrics(m) ==
  /\ Fields(m, {}, {"prompt_tokens", "completion_tokens", "reasoning_tokens", "total_tokens",
                    "cost_usd", "latency_ms"})
  /\ \A field \in DOMAIN m : m[field] >= 0
  /\ {"prompt_tokens", "completion_tokens", "total_tokens"} \subseteq DOMAIN m =>
       m.total_tokens >= m.prompt_tokens + m.completion_tokens

ParseReasoning(r) == Default(r, "redacted", FALSE)

\* Content, or a redaction with its reason: "silence is not a third option".
ValidReasoning(r) ==
  /\ Fields(r, {}, {"content", "redacted", "redaction_reason", "content_sha256",
                    "provider_trace_id"})
  /\ Gives(r, "redaction_reason") => r.redaction_reason # ""
  /\ Gives(r, IF ParseReasoning(r).redacted THEN "redaction_reason" ELSE "content")

ParseToolCall(c) == Default(c, "output_truncated", FALSE)

ValidToolCall(c) ==
  /\ Fields(c, {"tool_call_id", "name", "arguments"},
            {"stdout", "stderr", "exit_code", "duration_ms", "blocked_by_policy",
             "output_truncated"})
  /\ "" \notin {c.tool_call_id, c.name}
  /\ Gives(c, "duration_ms") => c.duration_ms >= 0

ParseObservation(o) == Default(Default(o, "terminated", FALSE), "truncated", FALSE)

\* A screenshot is a reference by content, never the picture itself.
ValidObservation(o) ==
  /\ Fields(o, {}, {"text", "screenshot", "screenshot_width", "screenshot_height",
                    "screenshot_format", "state", "reward", "terminated", "truncated"})
  /\ Gives(o, "screenshot") => o.screenshot \in ContentAddresses
  /\ \A side \in {"screenshot_width", "screenshot_height"} : Gives(o, side) => o[side] > 0
  /\ Gives(o, "screenshot_format") => Gives(o, "screenshot")

ParseStep(s) ==
  LET called == Default(s, "tool_calls", <<>>)
  IN  [field \in DOMAIN called |->
         CASE field = "reasoning"   -> ParseReasoning(called[field])
           [] field = "observation" -> ParseObservation(called[field])
           [] field = "tool_calls"  ->
                [i \in DOMAIN called[field] |-> ParseToolCall(called[field][i])]
           [] OTHER                 -> called[field]]

ValidStep(s) ==
  /\ Fields(s, {"step_id", "started_at"},
            {"ended_at", "output_text", "reasoning", "tool_calls", "observation", "metrics",
             "finish_reason", "approval_id", "error"})
  /\ s.step_id >= 1
  /\ Gives(s, "reasoning") => ValidReasoning(s.reasoning)
  /\ Gives(s, "tool_calls") => \A i \in DOMAIN s.tool_calls : ValidToolCall(s.tool_calls[i])
  /\ Gives(s, "observation") => ValidObservation(s.observation)
  /\ Gives(s, "metrics") => ValidMetrics(s.metrics)
  /\ Gives(s, "ended_at") => s.ended_at >= s.started_at

\* Seeded fault: ids have to grow, not to follow each other.
GaplessGrowing(steps) ==
  \A i \in DOMAIN steps : i > 1 => steps[i].step_id > steps[i - 1].step_id

Gapless(steps) == \A i \in DOMAIN steps : steps[i].step_id = i

Outcome == {"success", "failure", "error", "incomplete", "blocked_by_policy"}

\* A document of another version, or with a field of its own, is refused whole.
ValidTrajectory(doc) ==
  /\ Fields(doc, {"atif_version", "trial_id", "run_id", "task_id", "agent", "started_at",
                  "steps"},
            {"ended_at", "outcome", "score", "isolation_backend"})
  /\ doc.atif_version = "1.7"
  /\ "" \notin {doc.trial_id, doc.run_id, doc.task_id}
  /\ ValidAgent(doc.agent)
  /\ \A i \in DOMAIN doc.steps : ValidStep(doc.steps[i])
  /\ Gives(doc, "outcome") => doc.outcome \in Outcome
  /\ Gapless(doc.steps)

\* The AtifError, or the document with what it left out filled in.
ParseTrajectory(doc) ==
  IF ValidTrajectory(doc)
  THEN [ok |-> TRUE,
        doc |-> [doc EXCEPT !.steps = [i \in DOMAIN @ |-> ParseStep(@[i])]]]
  ELSE [ok |-> FALSE]

NextStepId(steps) == Len(steps) + 1

AppendStep(steps, step) ==
  IF step.step_id = NextStepId(steps) THEN [ok |-> TRUE, steps |-> Append(steps, step)]
  ELSE [ok |-> FALSE]

-----------------------------------------------------------------------------
(* What is read out of a trajectory *)

TokenFields == {"prompt_tokens", "completion_tokens", "total_tokens"}

MetricsOf(step) == IF Gives(step, "metrics") THEN step.metrics ELSE <<>>

\* What the provider counted, or else what its parts come to.
TotalTokens(m) ==
  IF Gives(m, "total_tokens") THEN m.total_tokens
  ELSE OrZero(m, "prompt_tokens") + OrZero(m, "completion_tokens")

SumOver(steps, Of(_)) == MapThenSumSet(LAMBDA i : Of(steps[i]), DOMAIN steps)

CountOf(steps, Test(_)) == Cardinality({i \in DOMAIN steps : Test(steps[i])})

\* Seeded fault: each step's cost is rounded on its own.
RoundedCostByStep(costs) ==
  MapThenSumSet(LAMBDA i : (costs[i] + 5) \div 10, DOMAIN costs)

\* Micro-dollars: the sum is rounded, not its parts.
RoundedCost(costs) ==
  (MapThenSumSet(LAMBDA i : costs[i], DOMAIN costs) + 5) \div 10

Totals(steps) ==
  [prompt_tokens     |-> SumOver(steps, LAMBDA s : OrZero(MetricsOf(s), "prompt_tokens")),
   completion_tokens |-> SumOver(steps, LAMBDA s : OrZero(MetricsOf(s), "completion_tokens")),
   reasoning_tokens  |-> SumOver(steps, LAMBDA s : OrZero(MetricsOf(s), "reasoning_tokens")),
   total_tokens      |-> SumOver(steps, LAMBDA s : TotalTokens(MetricsOf(s))),
   latency_ms        |-> SumOver(steps, LAMBDA s : OrZero(MetricsOf(s), "latency_ms")),
   cost_usd          |-> RoundedCost([i \in DOMAIN steps |->
                                        OrZero(MetricsOf(steps[i]), "cost_usd")]),
   steps             |-> Len(steps),
   steps_reporting_tokens |->
     CountOf(steps, LAMBDA s : DOMAIN MetricsOf(s) \intersect TokenFields # {}),
   steps_reporting_cost |-> CountOf(steps, LAMBDA s : Gives(MetricsOf(s), "cost_usd")),
   tool_calls         |-> SumOver(steps, LAMBDA s : Len(s.tool_calls)),
   blocked_tool_calls |->
     SumOver(steps, LAMBDA s : CountOf(s.tool_calls, LAMBDA c : Gives(c, "blocked_by_policy")))]

ReferencedBlobs(steps) ==
  {steps[i].observation.screenshot :
     i \in {j \in DOMAIN steps : Gives(steps[j], "observation")
                                  /\ Gives(steps[j].observation, "screenshot")}}

-----------------------------------------------------------------------------
(* What a record promises *)

\* A document that is accepted is accepted again as it was read, grows step by step
\* into itself and by no other order of its steps; one that lost a step before its last,
\* or holds one twice, is not a record.
RecordGapless(doc) ==
  LET read == ParseTrajectory(doc)
      steps == read.doc.steps
  IN  read.ok =>
        /\ ParseTrajectory(read.doc) = read
        /\ \A n \in 0..Len(steps) : \A i \in DOMAIN steps :
             AppendStep(SubSeq(steps, 1, n), steps[i]) =
               IF i = n + 1 THEN [ok |-> TRUE, steps |-> SubSeq(steps, 1, i)]
               ELSE [ok |-> FALSE]
        /\ \A i \in DOMAIN steps :
             /\ i < Len(steps) => ~ParseTrajectory([doc EXCEPT !.steps = RemoveAt(@, i)]).ok
             /\ ~ParseTrajectory([doc EXCEPT !.steps = InsertAt(@, i, doc.steps[i])]).ok
        /\ ReferencedBlobs(steps) \subseteq ContentAddresses

\* Totals tell a zero from a number nobody reported, never lose a token or a part of a
\* cost to where the trajectory is cut, and the whole is never less than parts that
\* were both reported with it.
TotalsObserved(steps) ==
  LET all == Totals(steps)
      exact == MapThenSumSet(LAMBDA i : OrZero(MetricsOf(steps[i]), "cost_usd"), DOMAIN steps)
  IN  /\ all.steps_reporting_cost = 0 => all.cost_usd = 0
      /\ all.steps_reporting_tokens = 0 =>
           {all.prompt_tokens, all.completion_tokens, all.total_tokens} = {0}
      /\ 10 * all.cost_usd - exact \in -4..5
      /\ \A n \in 0..Len(steps) :
           LET before == Totals(SubSeq(steps, 1, n))
               after == Totals(SubSeq(steps, n + 1, Len(steps)))
           IN  \A field \in DOMAIN all \ {"cost_usd"} :
                 all[field] = before[field] + after[field]
      /\ (\A i \in DOMAIN steps :
            LET m == MetricsOf(steps[i])
            IN  Gives(m, "total_tokens") =>
                  {"prompt_tokens", "completion_tokens"} \subseteq DOMAIN m) =>
           all.total_tokens >= all.prompt_tokens + all.completion_tokens
=============================================================================
