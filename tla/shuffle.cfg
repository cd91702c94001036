CONSTANTS
  N = 7
  GroupFlags = {TRUE, FALSE}
  LateServers <- MCLateServers
  MaxFaults = 0
SPECIFICATION Spec
INVARIANTS
  TypeOK
  OnionPeeled
  GroupSumHides
  HolderGoesOn
PROPERTIES
  VectorNotOverwritten
  ShuffleCompletes
CHECK_DEADLOCK FALSE
