\* Values that cross as text.
SPECIFICATION Spec
CONSTANTS
  Cont = 8
  MaxGroups = 4
  CellBits = 1
  MaxChunkRows = 9
  MaxVectorRows = 12
  MaxTypeDepth = 10
  Cases <- TextCases
  Fragile = {}
  Garbage <- MCGarbage
INVARIANT LosslessOrBust
CHECK_DEADLOCK FALSE
