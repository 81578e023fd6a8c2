----------------------------- MODULE Providers ------------------------------
(***************************************************************************)
(* Calling a model provider: one requestJson of providers/http.ts against  *)
(* a provider that may execute the request whatever becomes of the answer. *)
(*                                                                         *)
(* Calls share nothing, so one call stands for any number.  Its signal is  *)
(* the caller's; a backoff ends when its timer does and at no other time.  *)
(***************************************************************************)
EXTENDS Naturals, Sequences, FiniteSetsExt

CONSTANT MaxRetries   \* maxRetries of the call

ASSUME ProvidersAssumption == MaxRetries \in Nat

VARIABLES phase,      \* "idle", "waiting" for an answer, "backoff", or "done"
          attempt,    \* attempts before this one
          signalled,  \* the caller's signal is aborted
          listening,  \* this attempt hears the signal: it was not aborted before
          executed,   \* attempts the provider carried out
          answers,    \* of each finished attempt: the status, or "data", "lost", "aborted"
          outcome     \* "none", "data", or the category of the ProviderError thrown

providersVars == <<phase, attempt, signalled, listening, executed, answers, outcome>>

ProvidersInit ==
  /\ phase = "idle" /\ attempt = 0 /\ signalled = FALSE /\ listening = FALSE
  /\ executed = {} /\ answers = <<>> /\ outcome = "none"

-----------------------------------------------------------------------------
(* Answers *)

\* The statuses the source tells apart: 401, 403, 404, 429, 408 and 504, any other server
\* error, a 400 by what its body says, and those the source does not name, be they client
\* errors (402, 405, 409, 413, 422) or redirections.
Statuses ==
  {"unauthorized", "forbidden", "not_found", "too_many_requests", "request_timeout",
   "gateway_timeout", "server_error", "bad_too_long", "bad_filtered", "bad_model",
   "bad_request", "other_client_error", "redirection"}

\* What the source does not name is the provider's error, a client error too.
Categorize(status) ==
  CASE status = "unauthorized" -> "AUTHENTICATION_ERROR"
    [] status = "forbidden" -> "AUTHORIZATION_ERROR"
    [] status \in {"not_found", "bad_model"} -> "MODEL_NOT_FOUND"
    [] status = "too_many_requests" -> "RATE_LIMITED"
    [] status \in {"request_timeout", "gateway_timeout"} -> "TIMEOUT"
    [] status \in {"server_error", "other_client_error", "redirection"} -> "PROVIDER_ERROR"
    [] status = "bad_too_long" -> "CONTEXT_LENGTH"
    [] status = "bad_filtered" -> "CONTENT_FILTER"
    [] status = "bad_request" -> "INVALID_REQUEST"

\* Seeded fault: whatever the provider timed out on is asked for again.
RetryableAll(category) == category \in {"RATE_LIMITED", "PROVIDER_ERROR", "TIMEOUT"}

Retryable(category) == category \in {"RATE_LIMITED", "PROVIDER_ERROR"}

-----------------------------------------------------------------------------
(* One call *)

Send(next) ==
  /\ phase' = "waiting" /\ attempt' = next
  /\ listening' = ~signalled

Throw(category) == phase' = "done" /\ outcome' = category

\* The answer to this attempt, and a wait before the next if one is left.
Ends(answer, category, retry) ==
  /\ answers' = Append(answers, answer)
  /\ IF retry /\ attempt < MaxRetries
     THEN phase' = "backoff" /\ UNCHANGED outcome
     ELSE Throw(category)
  /\ UNCHANGED <<attempt, signalled, listening, executed>>

StartCall ==
  /\ phase = "idle"
  /\ Send(0)
  /\ UNCHANGED <<signalled, executed, answers, outcome>>

\* External: the provider carries out the request it received.
Execute ==
  /\ phase = "waiting"
  /\ executed' = executed \union {attempt}
  /\ UNCHANGED <<phase, attempt, signalled, listening, answers, outcome>>

AnswerData ==
  /\ phase = "waiting" /\ attempt \in executed
  /\ answers' = Append(answers, "data")
  /\ phase' = "done" /\ outcome' = "data"
  /\ UNCHANGED <<attempt, signalled, listening, executed>>

\* An error status, whatever was carried out.
AnswerStatus ==
  /\ phase = "waiting"
  /\ \E status \in Statuses :
       Ends(status, Categorize(status), Retryable(Categorize(status)))

\* No answer, or one that breaks off or is not JSON, whatever was carried out.
NetworkFails ==
  /\ phase = "waiting"
  /\ Ends("lost", "NETWORK_ERROR", TRUE)

TimerFires ==
  /\ phase = "waiting"
  /\ answers' = Append(answers, "aborted")
  /\ Throw("TIMEOUT")
  /\ UNCHANGED <<attempt, signalled, listening, executed>>

\* The caller gives up; an attempt that listens ends, anything else goes on.
CallerAborts ==
  /\ phase # "done" /\ ~signalled
  /\ signalled' = TRUE
  /\ IF phase = "waiting" /\ listening
     THEN answers' = Append(answers, "aborted") /\ Throw("TIMEOUT")
     ELSE UNCHANGED <<answers, phase, outcome>>
  /\ UNCHANGED <<attempt, listening, executed>>

\* Seeded fault: an abort clears the timer of the backoff and resolves nothing.
BackoffEndsUnlessAborted ==
  /\ phase = "backoff" /\ ~signalled
  /\ Send(attempt + 1)
  /\ UNCHANGED <<signalled, executed, answers, outcome>>

BackoffEnds ==
  /\ phase = "backoff"
  /\ Send(attempt + 1)
  /\ UNCHANGED <<signalled, executed, answers, outcome>>

ProvidersNext ==
  \/ StartCall
  \/ Execute
  \/ AnswerData
  \/ AnswerStatus
  \/ NetworkFails
  \/ TimerFires
  \/ CallerAborts
  \/ BackoffEnds

ProvidersSpec == ProvidersInit /\ [][ProvidersNext]_providersVars

\* Timers fire: that of the attempt and that of the backoff.
ProvidersFairness == WF_providersVars(TimerFires) /\ WF_providersVars(BackoffEnds)

-----------------------------------------------------------------------------
(* What a call promises *)

\* What a call was sent again after: 429 and the server errors but 504, as the file's
\* header has it, but also what the header excludes with "nothing else is retried": every
\* status without a category of its own, and an answer that was lost.
MaySendAgain ==
  {"too_many_requests", "server_error", "other_client_error", "redirection", "lost"}

\* A call sends at most MaxRetries + 1 requests and stops at the first answer that ends
\* it: it never sends again after a status that has a category of its own for the request,
\* its key or its model, nor after a timeout, the provider's 408 or 504 or its own.  It
\* returns data only if the last request was carried out and answered with it; anything
\* else it reports as what the last answer was, and not as what an earlier one was.
CallSound ==
  /\ Len(answers) <= MaxRetries + 1
  /\ \A i \in 1..Len(answers) - 1 : answers[i] \in MaySendAgain
  /\ phase = "done" =>
       LET last == answers[Len(answers)]
       IN  /\ outcome = "data" => attempt \in executed
           /\ outcome = CASE last = "data" -> "data"
                          [] last = "lost" -> "NETWORK_ERROR"
                          [] last = "aborted" -> "TIMEOUT"
                          [] OTHER -> Categorize(last)
  /\ phase \in {"waiting", "backoff"} => outcome = "none"

\* Every call that was started ends.
CallEnds == phase = "waiting" ~> phase = "done"

=============================================================================
