\* Two workers and a cancel request race for one run, built or refused.
SPECIFICATION Spec
CONSTANTS
  Runs = {r1}
  Tenants = {t1}
  Backends = {"gvisor", "trusted-dev"}
  Workers = {w1, w2}
  Slots = {1}
  CancelCalls = {c1}
  TaskSet = TaskSet
  Client = Client
  Nobody = Nobody
  Unsealable = {}
  Enabled = {"process"}
  MaxToolCalls = 1
SYMMETRY Symmetry
INVARIANTS
  OneStory
  ExecutedOnce
PROPERTIES
  StatusForward
  KeepsPromise
