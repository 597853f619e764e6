SPECIFICATION FairSpec
CONSTANTS
  main = main
  other = other
  k1 = k1
  k2 = k2
  s = s
  None = None
  MaxClears = 1
  MaxTime = 2
  Main <- MCMain
  Others <- MCOthers
  Tasks <- MCTasks
  Static <- MCStatic
  Budgets <- MCBudgets
  Costs <- MCCosts
INVARIANTS Safe
PROPERTIES FifoSpec CallsReturn TaskServed
\* A disposal that adds a task while the queue is cleared waits for itself.
CHECK_DEADLOCK FALSE
