------------------------------ MODULE Executors ------------------------------
(***************************************************************************)
(* What an executor of packages/server/src/worker/executor.ts may report   *)
(* for one run: an outcome and the sequence of audit actions it wants      *)
(* sealed.  Payloads are abstracted to the action names, the reason text   *)
(* of a failure to the fact that there is one.                             *)
(***************************************************************************)
EXTENDS Naturals, Sequences

CONSTANTS Enabled,       \* the executors this deployment switched on:
                         \* AGENT_EVAL_LOCAL_EXEC, AGENT_EVAL_MODEL_EXEC
          MaxToolCalls   \* bound on the tool calls of one model response

ASSUME EnabledAssumption == Enabled \subseteq {"model", "process"}
ASSUME MaxToolCallsAssumption == MaxToolCalls \in Nat

-----------------------------------------------------------------------------

\* The backend of a manifest picks the executor.  A boundary nobody built is
\* refused; nothing is substituted for it.
ExecutorFor(backend) ==
  CASE backend = "model"                            -> "model"
    [] backend \in {"local-process", "trusted-dev"} -> "process"
    [] OTHER                                        -> "unavailable"

Blocked(backend) == ExecutorFor(backend) \notin Enabled

\* Every action an executor reports.
ExecutionEvents ==
  {"execution.started", "process.spawned", "process.exited", "verifier.result",
   "execution.completed", "execution.failed",
   "model.request", "model.response", "model.error", "tool.call"}

Completed(events) == [outcome |-> "completed", events |-> events]
Failed(events)    == [outcome |-> "failed",    events |-> events]

ProcessRan == <<"execution.started", "process.spawned", "process.exited">>

\* Exit code 0; any other exit, or a spawn error; killed on the timeout, when
\* no verifier result is reported.
ProcessResults ==
  { Completed(ProcessRan \o <<"verifier.result", "execution.completed">>),
    Failed(ProcessRan \o <<"verifier.result", "execution.failed">>),
    Failed(ProcessRan \o <<"execution.failed">>) }

ModelAnswered(n, verdict) ==
  <<"model.request", "model.response">> \o [i \in 1..n |-> "tool.call"]
    \o <<"verifier.result", verdict>>

\* Not routable, unknown provider or unusable credential: nothing was sent.
\* A provider error; a response with text; an empty one.
ModelResults ==
  { Failed(<<"execution.failed">>),
    Failed(<<"model.request", "model.error", "execution.failed">>) }
  \union { Completed(ModelAnswered(n, "execution.completed")) : n \in 0..MaxToolCalls }
  \union { Failed(ModelAnswered(n, "execution.failed")) : n \in 0..MaxToolCalls }

Results(backend) ==
  CASE ExecutorFor(backend) = "model"   -> ModelResults
    [] ExecutorFor(backend) = "process" -> ProcessResults
    [] OTHER                            -> {Failed(<<>>)}

=============================================================================
