CONSTANTS
  N = 7
  GroupFlags = {TRUE}
  LateServers <- MCLateHolder
  MaxFaults = 0
SPECIFICATION Spec
PROPERTY MaskSumReached
CHECK_DEADLOCK FALSE
