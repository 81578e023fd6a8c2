\* An entry appended while a bundle is being cut leaves it citing two logs.
SPECIFICATION EvidenceSpec
CONSTANTS
  Actions = {"event", "evidence.bundled"}
  Actors = {Server}
  Tenants = {t1}
  Subjects = {r1}
  Payloads = {p, b1, b2}
  Absent = Absent
  Formless = {}
  MaxEntries = 4
  Bundlings = {b1, b2}
  Auditors = {}
  Readers = {}
  Probed = {r1}
  None = None
  Server = Server
INVARIANTS
  BundleStandsAlone
CHECK_DEADLOCK FALSE
