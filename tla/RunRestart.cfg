\* One worker stopped and started during a model run whose events may not seal.
SPECIFICATION Spec
CONSTANTS
  Runs = {r1}
  Tenants = {t1, t2}
  Backends = {"model"}
  Workers = {w1}
  Slots = {1, 2}
  CancelCalls = {c1}
  TaskSet = TaskSet
  Client = Client
  Nobody = Nobody
  Unsealable = {"model.request", "tool.call"}
  Enabled = {"model"}
  MaxToolCalls = 1
SYMMETRY Symmetry
INVARIANTS
  RunInv
  VerdictSealed
  TenantIsolation
