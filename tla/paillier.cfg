SPECIFICATION Spec
CONSTANTS
  LOG2_BASE = 2
  FLOAT_MANTISSA_BITS = 2
  NLengths = {4, 6, 14}
  HaveGmp = {TRUE, FALSE}
  TableMax = 3
  MRRounds = 2
  MaxN = 40
  Obfuscators = {2}
  Numbers <- MCNumbers
  Precisions <- MCPrecisions
  MinExponent <- MCMinExponent
  MaxExact = 12
INVARIANTS
  TypeOK
  LiarsAreFew
  TotientGivesKey
  OverflowDetected
  ExportsObfuscated
  EncodeFaithful
PROPERTIES
  PrimesNotPassedOver
  Implements
CHECK_DEADLOCK FALSE
