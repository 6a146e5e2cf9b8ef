\* Two handlers, two virtual connections, a pool with one place.  Handlers run;
\* what the upstream does is up to each property.
SPECIFICATION ProxySpec
CONSTANTS
  Handlers = {h1, h2}
  Vids = {v1, v2}
  Sessions = {s1, s2}
  None = None
  PoolMax = 1
  MaxRetries = 1
INVARIANTS TypeOK OneOwner PoolBounded ClosedOutOfService LiveAccounted
PROPERTIES ConnectAndDisconnectEnd EveryRequestEnds
CHECK_DEADLOCK FALSE
