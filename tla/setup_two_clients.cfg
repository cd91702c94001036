CONSTANTS
  Instances <- MCTwoClients
  Draws <- MCDraws
SPECIFICATION Spec
INVARIANT ServesAnyNumber
CHECK_DEADLOCK FALSE
