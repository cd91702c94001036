SPECIFICATION Spec
CONSTANTS
  curve <- MCcurve
  Clients = {c1, c2, c3}
  PrivateKeys = {1, 5, 17, 30}
  Randoms = {0, 1, 2, 11}
  MaxLayers = 3
INVARIANTS
  TypeOK
  LayersCanComeOff
PROPERTIES
  Implements
CHECK_DEADLOCK FALSE
