\* Two workers race on six batches, one pass, all faults.
SPECIFICATION Spec
CONSTANTS
  w1 = w1
  w2 = w2
  Workers <- MCTwoWorkers
  LastBatch = 6
  BatchSize <- MCBatchSize
  MaxPasses = 1
SYMMETRY MCSymmetry
INVARIANTS TypeOK CleanEndComplete ErrorSurfaces Custody Accounted BoundedBuffering
CHECK_DEADLOCK FALSE
