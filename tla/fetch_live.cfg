\* Two passes over a Result. Goroutines run; what the server does is up to each property.
SPECIFICATION ClientSpec
CONSTANTS
  w1 = w1
  w2 = w2
  Workers <- MCTwoWorkers
  LastBatch = 2
  BatchSize <- MCBatchSize
  MaxPasses = 2
INVARIANT DeliveredOnce
PROPERTIES StreamTerminates NoGoroutineLeak ImplementsContract
CHECK_DEADLOCK FALSE
