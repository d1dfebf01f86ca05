SPECIFICATION FairSpec
CONSTANTS
  a1 = a1
  a2 = a2
  v1 = v1
  v2 = v2
  Absent = Absent
  Tombstone = Tombstone
  Other = Other
  NoNote = NoNote
  Apps = {a1, a2}
  Contents = {v1, v2}
  Lists <- OneNamespace
  Capacity = 2
  Chunk = 2
  MaxChanges = 2
  MaxFailures = 1
  MaxExtras = 1
  Enabled = {"resync", "tombstone", "late"}
PROPERTY ExistingEventuallyMirrored
CHECK_DEADLOCK FALSE
