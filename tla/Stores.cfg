\* One part of the server at a time: every store and service beside the run.
SPECIFICATION StoresSpec
CONSTANTS
  Tenants = {t1, t2}
  ApprovalIds = {a1}
  None = None
  TrialIds = {tr1}
  Calls = {c1, c2, c3, c4}
  Outcomes = {"success", "blocked_by_policy"}
  StepIds = {1, 2}
  Deciders = {d1, d2}
  TaskIds = {k1, k2}
  SetIds = {s1, s2}
  Creates = {1, 2, 3}
  MaxGiven = 2
  Puts = {p1, p2, p3}
  MaxInstant = 2
  NoFile = NoFile
  GateCalls = {g1}
  Contexts <- MCContexts
  Absent = Absent
  Threshold = 0
  Allowlist = {"listed"}
  ModelIds = {m1}
  DeploymentTypes = {"CLOUD_API", "SELF_HOSTED"}
  Endpoints = {"public", "metadata"}
  Aliases = {al1, al2}
  Versions = {v1, v2}
  Probes = {p1, p2}
  MaxRevisions = 3
  KeyIds = {11, 12}
  CredentialIds = {cr1}
  Requests = {1, 2, 3}
  Scopes = {"runs:read", "runs:write"}
  EncryptionAvailable = TRUE
  MaxTime = 1
  Options <- MCOptions
  Rewards = {0, 2}
  FewTasks = 2
  Nothing = Nothing
  MaxRetries = 2
  ShownRuns = {r1, r2}
  MaxBundles = 2
  MaxOpens = 4
  MaxAsked = 4
  MaxDialogs = 3
  MaxKeys = 3
  Actors = {u1, u2}
  PageSizes = {1, 2}
  MaxRows = 4
  MaxClock = 1
  KeyNames = {"dev-key-1", "k2"}
  Downloads = {1, 2}
  MaxStarts = 2
  MaxSigned = 2
INVARIANTS
  TrajectoryComplete
  DecisionAttributed
  PinDescribesSet
  StoredWhole
  GateFailsClosed
  RegistryInv
  CredentialsInv
  AssessmentHonest
  CallSound
  DashboardHonest
  ReadersTold
PROPERTIES
  ClosedRecord
  DecisionSettled
  RevisionsPinned
  CallEnds
CHECK_DEADLOCK FALSE
