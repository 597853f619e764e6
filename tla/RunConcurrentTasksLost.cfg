SPECIFICATION FairSpec
CONSTANTS
  a1 = a1
  a2 = a2
  b1 = b1
  b2 = b2
  w1 = w1
  w2 = w2
  None = None
  MaxTasks = 2
  Callers <- MCCallers
  Outer <- MCCallers
  Inner <- MCNone
  Workers <- MCWorkers
PROPERTIES WaitEnds
\* Every call returned, the workers wait for more.
CHECK_DEADLOCK FALSE
