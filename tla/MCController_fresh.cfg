SPECIFICATION Spec
CONSTANTS
  w1 = w1
  s1 = s1
  Workloads = {w1}
  Infra = {}
  Period = 2
  ErrorRequeue = 1
  MaxTries = 2
  Horizon = 3
  MaxChanges = 2
  MaxFaults = 1
  Enabled = {"list", "write", "delete", "recreate"}
PROPERTIES TransitionTimeFaithful Stabilized ImplementsContract
CHECK_DEADLOCK FALSE
