SPECIFICATION FairSpec
CONSTANTS
  a1 = a1
  a2 = a2
  b1 = b1
  b2 = b2
  w1 = w1
  w2 = w2
  None = None
  MaxTasks = 2
  Callers <- MCNested
  Outer <- MCOuter
  Inner <- MCInner
  Workers <- MCWorkers
INVARIANTS Safe FrameOutlivesTasks
PROPERTIES ReturnsUnlessMissed
\* Every call returned, the workers wait for more.
CHECK_DEADLOCK FALSE
