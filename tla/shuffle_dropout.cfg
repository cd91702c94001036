CONSTANTS
  N = 7
  GroupFlags = {TRUE}
  LateServers <- MCLateHolder
  MaxFaults = 1
SPECIFICATION Spec
PROPERTY DropoutTolerated
CHECK_DEADLOCK FALSE
