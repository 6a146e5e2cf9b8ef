\* Every type and vector encoding; cuts, unknown fields and wrong numbers.
SPECIFICATION Spec
CONSTANTS
  Cont = 8
  MaxGroups = 4
  CellBits = 1
  MaxChunkRows = 9
  MaxVectorRows = 12
  MaxTypeDepth = 10
  Cases <- MCCases
  Fragile <- MCFragile
  Garbage <- MCGarbage
INVARIANTS FailsLoudly NeverMisreads RoundTrip InRange CrossesExactly
CHECK_DEADLOCK FALSE
