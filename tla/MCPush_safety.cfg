SPECIFICATION FairSpec
CONSTANTS
  a1 = a1
  a2 = a2
  v1 = v1
  v2 = v2
  Absent = Absent
  Tombstone = Tombstone
  Other = Other
  NoNote = NoNote
  Apps = {a1, a2}
  Contents = {v1, v2}
  Lists <- TwoNamespaces
  Capacity = 3
  Chunk = 1
  MaxChanges = 2
  MaxFailures = 1
  MaxExtras = 0
  Enabled = {}
INVARIANTS TypeOK DrainedMeansMirrored
PROPERTIES RemovalJustified EventuallyMirrored ImplementsMirror
CHECK_DEADLOCK FALSE
