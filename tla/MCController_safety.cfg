SPECIFICATION Spec
CONSTANTS
  w1 = w1
  s1 = s1
  Workloads = {w1}
  Infra = {}
  Period = 1
  ErrorRequeue = 1
  MaxTries = 2
  Horizon = 1
  MaxChanges = 2
  MaxFaults = 1
  Enabled = {"stale", "list", "watch", "write", "crash"}
INVARIANTS TypeOK RestImpliesReported ObservedGenBounded
PROPERTY ObservedGenNeverRegresses
CHECK_DEADLOCK FALSE
