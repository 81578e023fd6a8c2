\* Two reviewers decide one approval.
SPECIFICATION ApprovalsSpec
CONSTANTS
  Tenants = {t1, t2}
  ApprovalIds = {a1}
  None = None
  Deciders = {d1, d2}
INVARIANTS
  DecidedOnce
CHECK_DEADLOCK FALSE
