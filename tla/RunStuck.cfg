\* A tool call whose arguments have no canonical form leaves its run running.
SPECIFICATION FairSpec
CONSTANTS
  Runs = {r1}
  Tenants = {t1}
  Backends = {"model"}
  Workers = {w1}
  Slots = {1}
  CancelCalls = {}
  TaskSet = TaskSet
  Client = Client
  Nobody = Nobody
  Unsealable = {"tool.call"}
  Enabled = {"model"}
  MaxToolCalls = 1
PROPERTIES
  ClaimedRunsEnd
