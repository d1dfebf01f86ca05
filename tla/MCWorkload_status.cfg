SPECIFICATION FairSpec
CONSTANTS
  Checked <- Kinds
  MaxParts = 3
  MaxUnavailable = 1
  MaxChanges = 1
  MaxFailures = 1
INVARIANTS TypeOK OutageReported
PROPERTIES ScaleUpKeepsReady EventuallyReady
CHECK_DEADLOCK FALSE
