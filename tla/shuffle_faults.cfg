CONSTANTS
  N = 7
  GroupFlags = {TRUE}
  LateServers <- MCLateHolder
  MaxFaults = 1
SPECIFICATION Spec
INVARIANTS
  MaskSumZero
  GroupGoesOn
PROPERTIES
  IntactGroupDelivers
CHECK_DEADLOCK FALSE
