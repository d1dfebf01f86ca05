SPECIFICATION Spec
CONSTANTS
  a1 = a1
  a2 = a2
  v1 = v1
  v2 = v2
  Absent = Absent
  Tombstone = Tombstone
  Other = Other
  NoNote = NoNote
  Apps = {a1, a2}
  Contents = {v1}
  Lists <- AllNamespaces
  Capacity = 4
  Chunk = 2
  MaxChanges = 2
  MaxFailures = 0
  MaxExtras = 0
  Enabled = {"tombstone"}
INVARIANT DrainedMeansMirrored
CHECK_DEADLOCK FALSE
