\* A minus sign stands before a placeholder.
SPECIFICATION Spec
CONSTANTS
  Pieces <- MCPieces
  Arguments <- MCArguments
  MaxPieces = 4
  MaxArgs = 2
INVARIANT ArgumentsEscaped
CHECK_DEADLOCK FALSE
