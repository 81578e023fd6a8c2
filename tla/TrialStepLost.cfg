\* Two appends of the same step id: both are accepted and one is lost.
SPECIFICATION TrialsSpec
CONSTANTS
  Tenants = {t1, t2}
  ApprovalIds = {}
  None = None
  TrialIds = {tr1}
  Calls = {c1, c2, c3}
  Outcomes = {"success", "blocked_by_policy"}
  StepIds = {1, 2}
INVARIANTS
  AcceptedStepKept
CHECK_DEADLOCK FALSE
