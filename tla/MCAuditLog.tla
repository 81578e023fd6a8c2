----------------------------- MODULE MCAuditLog -----------------------------
(***************************************************************************)
(* The audit log for TLC.  The first FreeEntries events are any; the rest  *)
(* repeat the first, so that trees of every shape up to MaxEntries leaves  *)
(* are reached without every history of that length.                       *)
(***************************************************************************)
EXTENDS AuditLog

CONSTANT FreeEntries

InputOf(entry) ==
  [f \in {"action", "actor", "tenantId", "subject", "payload"} |-> entry[f]]

MCNext ==
  \E e \in Inputs :
    \/ /\ Len(entries) >= FreeEntries => e = InputOf(entries[1])
       /\ AppendEntry(e)
    \/ RefuseEntry(e)

MCSpec == LogInit /\ [][MCNext]_logVars
=============================================================================
