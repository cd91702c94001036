SPECIFICATION Spec
CONSTANTS
  P = 10007
  G <- MCG
  Gradients <- MCGradients
  NumClients = 2
  Deviations <- MCDeviations
  SubNums = {2, 3}
  Shuffles <- MCPermutations
  MaxPart = 2
  MaxSamples = 2
  MaxStray = 1
  StrayValues <- MCStrayValues
INVARIANTS
  TypeOK
  SamplesExact
  SamplingCatches
  VerdictExact
CHECK_DEADLOCK FALSE
