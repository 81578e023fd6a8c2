\* Every history of a short log: the chain, the slices and the Merkle proofs.
SPECIFICATION MCSpec
CONSTANTS
  Actions = {event}
  Actors = {worker}
  Tenants = {t1, t2}
  Subjects = {run}
  Payloads = {p, q, nan}
  Absent = Absent
  Formless = {nan}
  MaxEntries = 7
  FreeEntries = 3
INVARIANTS
  ChainIntact
  TamperEvident
  InclusionExact
  ConsistencyExact
PROPERTIES
  AppendOnly

