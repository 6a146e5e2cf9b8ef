\* A second pass after a failed one.
SPECIFICATION Spec
CONSTANTS
  w1 = w1
  w2 = w2
  Workers <- MCTwoWorkers
  LastBatch = 2
  BatchSize <- MCBatchSize
  MaxPasses = 2
INVARIANT NeverSilentlyShort
CHECK_DEADLOCK FALSE
