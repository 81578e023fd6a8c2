SPECIFICATION DecisionsSpec
CONSTANTS
  None = None
  Rules <- MCRules
  Day = 2
  Halvings = 4
  GridPoints = 2
  Refinements = 1
  LargeSample = 3
  ManyClusters = 2
  Alone = Alone
  Places = 3
  ScaleFactor <- MCScaleFactor
  SymbolCode <- MCSymbolCode
  Missing = Missing
  Unset = Unset
  Absent = Absent
  Capability = {"vision", "tools", "audio"}
  ContentAddresses = {"sha256:a", "sha256:b"}
INVARIANTS
  EvidenceHolds
  StatisticsHold
  AdaptersHold
  OriginsHold
  AccountsHold
  ImplementationsAgree
CHECK_DEADLOCK FALSE
