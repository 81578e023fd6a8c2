\* A bundle is verified and the next one is opened in its place.
SPECIFICATION ConsoleSpec
CONSTANTS
  Tenants = {t1}
  ApprovalIds = {}
  None = None
  ShownRuns = {r1, r2}
  MaxBundles = 2
  MaxOpens = 7
INVARIANTS
  SealOfBundleShown
CHECK_DEADLOCK FALSE
