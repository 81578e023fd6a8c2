\* Progress of the queue under fairness of the worker's own steps.
SPECIFICATION FairSpec
CONSTANTS
  Runs = {r1, r2}
  Tenants = {t1}
  Backends = {"gvisor"}
  Workers = {w1}
  Slots = {1}
  CancelCalls = {c1}
  TaskSet = TaskSet
  Client = Client
  Nobody = Nobody
  Unsealable = {}
  Enabled = {"process"}
  MaxToolCalls = 1
INVARIANTS
  StatsAgree
PROPERTIES
  ClaimedRunsEnd
  QueueDrains
