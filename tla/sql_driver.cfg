\* Two goroutines share a pool of up to two idle connections.
SPECIFICATION HungSpec
CONSTANTS
  Apps = {a1, a2}
  Sessions = {s1, s2}
  None = None
  Parts <- MCParts
  Inline = 1
  MaxIdle = 2
  Quotes = FALSE
INVARIANTS TypeOK NeverShort StaleInvisible RunsOnce
PROPERTIES GoodbyeBounded ImplementsQuery
