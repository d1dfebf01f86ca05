SPECIFICATION Spec
CONSTANTS
  a1 = a1
  a2 = a2
  k1 = k1
  k2 = k2
  c1 = c1
  Apps = {a1, a2}
  Kinds = {k1, k2}
  Comps = {c1}
  Declared <- Declares
  KindOf <- KindsOf
  States = {"Ready", "InProgress"}
  Gone = "gone"
  NoKind = NoKind
  Workers = 2
  MaxChanges = 2
  MaxFaults = 1
INVARIANTS TypeOK WatchedOnce RegistryFaithful WatchedIsReported
CHECK_DEADLOCK FALSE
