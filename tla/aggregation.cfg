CONSTANTS
  N = 3
  Splits = {TRUE, FALSE}
  Founds = {TRUE, FALSE}
  NumParts = 2
  MaxFaults = 0
SPECIFICATION Spec
INVARIANT TypeOK
PROPERTIES
  EveryoneGetsAggregate
  RoundEnds
CHECK_DEADLOCK FALSE
