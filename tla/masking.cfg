SPECIFICATION Spec
CONSTANTS
  a = a
  b = b
  c = c
  Holder = h
  Groups <- MCGroups
  PaillierKey <- MCPaillierKey
  Q = 3
  Obfuscators = {2}
  Primes = {163, 383}
  HX <- MCHX
  MaxGrad = 1
  Gradients <- MCGradients
INVARIANTS
  TypeOK
  MasksCancel
  SumsRead
CHECK_DEADLOCK FALSE
