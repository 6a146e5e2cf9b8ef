\* Every query of up to four pieces with up to two arguments.
SPECIFICATION Spec
CONSTANTS
  Pieces <- MCPieces
  Arguments <- MCArguments
  MaxPieces = 4
  MaxArgs = 2
INVARIANTS PlaceholdersMatched LiteralsIntact
CHECK_DEADLOCK FALSE
