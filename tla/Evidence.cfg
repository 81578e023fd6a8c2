\* Bundle requests, an auditor and a reader beside everyone who appends.
SPECIFICATION EvidenceSpec
CONSTANTS
  Actions = {"event", "evidence.bundled"}
  Actors = {Server}
  Tenants = {t1, t2}
  Subjects = {r1, r2}
  Payloads = {p, b1, b2}
  Absent = Absent
  Formless = {}
  MaxEntries = 5
  Bundlings = {b1, b2}
  Auditors = {a1}
  Readers = {q1}
  Probed = {r1}
  None = None
  Server = Server
CONSTRAINT OneKind
SYMMETRY EvidenceSymmetry
INVARIANTS
  BundleGenuine
  AnswerJudged
  BundledRecorded
  LocalVerdictAgrees
CHECK_DEADLOCK FALSE
