SPECIFICATION Spec
CONSTANTS
  w1 = w1
  s1 = s1
  Workloads = {w1}
  Infra = {}
  Period = 2
  ErrorRequeue = 1
  MaxTries = 2
  Horizon = 3
  MaxChanges = 1
  MaxFaults = 0
  Enabled = {"stale"}
PROPERTY Stabilized
CHECK_DEADLOCK FALSE
