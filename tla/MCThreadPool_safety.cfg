SPECIFICATION FairSpec
CONSTANTS
  p1 = p1
  p2 = p2
  w1 = w1
  w2 = w2
  main = main
  Threads <- AllThreads
  Conditions <- BothConditions
  NoThread = NoThread
  Producers <- TwoProducers
  Workers <- TwoWorkers
  Owner = main
  QueueSizes = {0, 1}
  MaxTasks = 3
INVARIANTS
  PoolAssertions
  EachTaskOnce
PROPERTIES
  RunReturns
  TasksRunOrStopped
CHECK_DEADLOCK FALSE
