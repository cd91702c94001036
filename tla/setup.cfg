CONSTANTS
  Instances <- MCInstances
  Draws <- MCDraws
SPECIFICATION Spec
INVARIANTS
  TypeOK
  GroupsCut
  ChainsMeet
  NobodyLeftOut
PROPERTY NodeStops
CHECK_DEADLOCK FALSE
