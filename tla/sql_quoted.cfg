\* The text of a failed query may contain the literal of an expired session.
SPECIFICATION Spec
CONSTANTS
  Apps = {a1}
  Sessions = {s1, s2}
  None = None
  Parts <- MCParts
  Inline = 1
  MaxIdle = 1
  Quotes = TRUE
INVARIANT RunsOnce
