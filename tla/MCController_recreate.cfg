SPECIFICATION Spec
CONSTANTS
  w1 = w1
  s1 = s1
  Workloads = {w1}
  Infra = {}
  Period = 0
  ErrorRequeue = 1
  MaxTries = 2
  Horizon = 0
  MaxChanges = 3
  MaxFaults = 0
  Enabled = {"delete", "recreate"}
INVARIANT ObservedGenBounded
CHECK_DEADLOCK FALSE
