SPECIFICATION Spec
CONSTANTS
  Checked <- OnlyDeployment
  MaxParts = 3
  MaxUnavailable = 1
  MaxChanges = 1
  MaxFailures = 0
PROPERTY NoScaleUpFlaps
CHECK_DEADLOCK FALSE
