CONSTANTS
  N = 3
  Splits = {TRUE, FALSE}
  Founds = {TRUE, FALSE}
  NumParts = 2
  MaxFaults = 2
SPECIFICATION Spec
INVARIANTS
  NoReentrantLock
  SplitBufferPresent
  StopSound
  NobodyPollsInVain
PROPERTY Implements
CHECK_DEADLOCK FALSE
