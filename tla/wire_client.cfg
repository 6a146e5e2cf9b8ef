\* Two calls race with two Closes on a client whose Connect has one retry.
SPECIFICATION FairSpec
CONSTANTS
  Calls = {c1, c2}
  Closers = {k1, k2}
  Sessions = {s1, s2}
  None = None
  MaxRetries = 1
INVARIANTS
  TypeOK
  AttemptsBounded
  LeaksBounded
  AtMostOnce
  OneDisconnect
  UnusableAfterClose
  CloseReleases
  ExpiredIsTrue
PROPERTY ConnectEnds
\* The life of the client is over when every operation has returned.
CHECK_DEADLOCK FALSE
