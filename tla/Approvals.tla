----------------------------- MODULE Approvals ------------------------------
(***************************************************************************)
(* Human approvals: the approval store of store/index.ts and the handler   *)
(* of POST /v1/approvals/:id/decide in api/app.ts, which looks the record  *)
(* up, judges it, has the store decide, and records the decision.          *)
(***************************************************************************)
EXTENDS Tenancy, Naturals, Sequences

CONSTANT Deciders      \* decide requests, each of one reviewer

ASSUME DecidersAssumption == None \notin Deciders

VARIABLES
  approvals,   \* the store: the record of each id, NoApproval before create
  deciding,    \* where each request is, and its locals
  decided      \* the approval.* entries of the audit log, in order

approvalVars == <<approvals, deciding, decided>>

\* statusMap: what approve, reject and escalate make of an approval.
Decisions == {"approved", "rejected", "escalated"}

NoApproval == [status |-> "absent", tenant |-> None, decidedBy |-> None]

ApprovalsInit ==
  /\ approvals = [a \in ApprovalIds |-> NoApproval]
  /\ deciding = [d \in Deciders |-> [at |-> "idle"]]
  /\ decided = <<>>

\* Whoever suspends a trial creates the approval it waits on, under a new id.
CreateApproval(a, tenant) ==
  /\ approvals[a] = NoApproval
  /\ approvals' = [approvals EXCEPT ![a] =
       [status |-> "pending", tenant |-> tenant, decidedBy |-> None]]
  /\ UNCHANGED <<deciding, decided>>

\* Seeded fault: another tenant's approval is not hidden.
GetApprovalUnscoped(a, tenant) == approvals[a]

\* The handler's lookup, scoped to the caller's tenant.
GetApproval(a, tenant) == Seen(approvals[a], tenant, NoApproval)

Look(d, a, tenant) ==
  /\ deciding[d].at = "idle"
  /\ \E status \in Decisions :
       deciding' = [deciding EXCEPT ![d] =
         [at |-> "looked", approval |-> a, tenant |-> tenant, status |-> status,
          existing |-> GetApproval(a, tenant)]]
  /\ UNCHANGED <<approvals, decided>>

\* The store's decide() reads the record once more.
Judged(d) ==
  LET l == deciding[d]
  IN  [at |-> "judged", approval |-> l.approval, tenant |-> l.tenant,
       status |-> l.status, existing |-> l.existing,
       record |-> GetApproval(l.approval, l.tenant)]

\* Seeded fault: a decided approval is decided again.
JudgeAny(d) ==
  /\ deciding[d].at = "looked"
  /\ deciding' = [deciding EXCEPT ![d] =
       IF deciding[d].existing = NoApproval THEN [at |-> "refused"] ELSE Judged(d)]
  /\ UNCHANGED <<approvals, decided>>

\* 404 for an approval the tenant does not have, 409 for one already decided.
Judge(d) ==
  /\ deciding[d].at = "looked"
  /\ deciding' = [deciding EXCEPT ![d] =
       IF deciding[d].existing.status # "pending" THEN [at |-> "refused"] ELSE Judged(d)]
  /\ UNCHANGED <<approvals, decided>>

\* Seeded fault: the reviewer who decided first stays on record.
DecideWriteFirstReviewer(d) ==
  /\ deciding[d].at = "judged"
  /\ LET l == deciding[d]
     IN  /\ approvals' = [approvals EXCEPT ![l.approval] =
              [l.record EXCEPT !.status = l.status,
                               !.decidedBy = IF @ = None THEN d ELSE @]]
         /\ deciding' = [deciding EXCEPT ![d] = [l EXCEPT !.at = "written"]]
  /\ UNCHANGED decided

DecideWrite(d) ==
  /\ deciding[d].at = "judged"
  /\ LET l == deciding[d]
     IN  /\ approvals' = [approvals EXCEPT ![l.approval] =
              [l.record EXCEPT !.status = l.status, !.decidedBy = d]]
         /\ deciding' = [deciding EXCEPT ![d] = [l EXCEPT !.at = "written"]]
  /\ UNCHANGED decided

\* "Identity, decision and reason all go in the log."
DecideRecord(d) ==
  /\ deciding[d].at = "written"
  /\ decided' = Append(decided,
       [approval |-> deciding[d].approval, status |-> deciding[d].status, by |-> d,
        tenant |-> deciding[d].tenant])
  /\ deciding' = [deciding EXCEPT ![d] = [at |-> "done"]]
  /\ UNCHANGED approvals

DecideStep(d) ==
  \/ \E a \in ApprovalIds, tenant \in Tenants : Look(d, a, tenant)
  \/ Judge(d)
  \/ DecideWrite(d)
  \/ DecideRecord(d)

ApprovalsNext ==
  \/ \E a \in ApprovalIds, tenant \in Tenants : CreateApproval(a, tenant)
  \/ \E d \in Deciders : DecideStep(d)

ApprovalsSpec == ApprovalsInit /\ [][ApprovalsNext]_approvalVars

-----------------------------------------------------------------------------
(* What the oversight record is worth *)

ApprovalRecord ==
  [status: {"absent", "pending"} \union Decisions, tenant: Tenants \union {None},
   decidedBy: Deciders \union {None}]

Answered == [at: {"idle", "refused", "done"}]

LookedUp ==
  [at: {"looked"}, approval: ApprovalIds, tenant: Tenants, status: Decisions,
   existing: ApprovalRecord]

Deciding ==
  [at: {"judged", "written"}, approval: ApprovalIds, tenant: Tenants,
   status: Decisions, existing: ApprovalRecord, record: ApprovalRecord]

DecisionEntry ==
  [approval: ApprovalIds, status: Decisions, by: Deciders, tenant: Tenants]

\* "An approval nobody can attribute evidences nothing": however many reviewers
\* decide at once, the decision an approval shows is that of the reviewer it
\* names, and is in the log of its own tenant or about to be.
DecisionAttributed ==
  \A a \in ApprovalIds : approvals[a].status \in Decisions =>
    \/ \E d \in Deciders :
         /\ deciding[d].at = "written" /\ deciding[d].approval = a
         /\ approvals[a].decidedBy = d /\ approvals[a].status = deciding[d].status
    \/ \E i \in DOMAIN decided :
         decided[i] = [approval |-> a, status |-> approvals[a].status,
                       by |-> approvals[a].decidedBy, tenant |-> approvals[a].tenant]

\* Why decisions stay attributable: a request that passed the check found the
\* approval pending, and what it writes back, however old by then, is a record of
\* its own tenant.
DecisionInv ==
  /\ approvals \in [ApprovalIds -> ApprovalRecord]
  /\ deciding \in [Deciders -> Answered \union LookedUp \union Deciding]
  /\ decided \in Seq(DecisionEntry)
  /\ \A d \in Deciders :
       /\ deciding[d] \in LookedUp \union Deciding /\ deciding[d].existing.status = "pending"
            => approvals[deciding[d].approval].tenant = deciding[d].tenant
       /\ deciding[d] \in Deciding =>
            /\ deciding[d].existing.status = "pending"
            /\ deciding[d].record.tenant = deciding[d].tenant
  /\ \A a \in ApprovalIds : approvals[a].tenant = None <=> approvals[a].status = "absent"
  /\ DecisionAttributed

\* A decision is final but for requests that were under way when it was made: a
\* reviewer who comes after the decision does not change it, unseen by the 409.
\* In particular, once it is logged and no request is under way, it stays.
DecisionSettled ==
  [][\A a \in ApprovalIds :
       approvals[a].status \in Decisions /\ approvals'[a] # approvals[a] =>
         \E d \in Deciders :
           /\ deciding[d].at = "judged" /\ deciding[d].approval = a
           /\ deciding[d].existing.status = "pending"
           /\ approvals'[a].decidedBy = d]_approvalVars

-----------------------------------------------------------------------------
(* What the documentation says and the code does not do *)

\* api/app.ts answers a second decision with 409, "This approval has already
\* been decided": an approval is decided once.
DecidedOnce ==
  \A i, j \in DOMAIN decided : decided[i].approval = decided[j].approval => i = j

=============================================================================
