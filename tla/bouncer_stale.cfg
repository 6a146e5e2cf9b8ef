\* The upstream restarts while sessions are pooled.
SPECIFICATION Spec
CONSTANTS
  Handlers = {h1, h2}
  Vids = {v1, v2}
  Sessions = {s1, s2}
  None = None
  PoolMax = 1
  MaxRetries = 0
INVARIANT IdleIsUsable
CHECK_DEADLOCK FALSE
