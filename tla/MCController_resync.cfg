SPECIFICATION FairSpec
CONSTANTS
  w1 = w1
  s1 = s1
  Workloads = {w1}
  Infra = {s1}
  Period = 1
  ErrorRequeue = 1
  MaxTries = 2
  Horizon = 1
  MaxChanges = 1
  MaxFaults = 1
  Enabled = {"list", "mapping", "watch", "lookup", "write", "crash", "resync"}
INVARIANT StatusCoherent
PROPERTY EventuallyReported
CHECK_DEADLOCK FALSE
