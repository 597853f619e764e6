SPECIFICATION FairSpec
CONSTANTS
  w1 = w1
  w2 = w2
  t1 = t1
  t2 = t2
  Sentinel = Sentinel
  None = None
  MaxThreads = 2
  Workers <- MCWorkers
  Tasks <- MCTasks
INVARIANTS Safe StopDrains
PROPERTIES ExecutionSpec OwnerReturns
