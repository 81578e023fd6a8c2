----------------------------- MODULE RunPromise -----------------------------
(***************************************************************************)
(* What the control plane promises about a run, with nothing about stores, *)
(* loops or handlers: it begins at most once, its verdict is sealed at     *)
(* most once, and only a sealed verdict is ever published as its status.   *)
(* A cancellation changes the status and nothing else.                     *)
(***************************************************************************)
CONSTANT Runs

VARIABLES
  status,     \* what GET /v1/runs/:id shows
  begun,      \* whether an execution was ever granted the run
  verdict,    \* the verdict in the audit trail, "none" before it
  published   \* whether the verdict was recorded as the status

vars == <<status, begun, verdict, published>>

Verdicts == {"completed", "failed"}

Init ==
  /\ status    = [r \in Runs |-> "absent"]
  /\ begun     = [r \in Runs |-> FALSE]
  /\ verdict   = [r \in Runs |-> "none"]
  /\ published = [r \in Runs |-> FALSE]

Accept(r) ==
  /\ status[r] = "absent"
  /\ status' = [status EXCEPT ![r] = "queued"]
  /\ UNCHANGED <<begun, verdict, published>>

Begin(r) ==
  /\ status[r] = "queued"
  /\ ~begun[r]
  /\ status' = [status EXCEPT ![r] = "running"]
  /\ begun' = [begun EXCEPT ![r] = TRUE]
  /\ UNCHANGED <<verdict, published>>

Seal(r, v) ==
  /\ begun[r]
  /\ verdict[r] = "none"
  /\ verdict' = [verdict EXCEPT ![r] = v]
  /\ UNCHANGED <<status, begun, published>>

Publish(r) ==
  /\ verdict[r] # "none"
  /\ ~published[r]
  /\ status' = [status EXCEPT ![r] = verdict[r]]
  /\ published' = [published EXCEPT ![r] = TRUE]
  /\ UNCHANGED <<begun, verdict>>

Cancel(r) ==
  /\ status[r] # "absent"
  /\ status' = [status EXCEPT ![r] = "cancelled"]
  /\ UNCHANGED <<begun, verdict, published>>

Next ==
  \E r \in Runs :
    \/ Accept(r)
    \/ Begin(r)
    \/ \E v \in Verdicts : Seal(r, v)
    \/ Publish(r)
    \/ Cancel(r)

Spec == Init /\ [][Next]_vars

=============================================================================
