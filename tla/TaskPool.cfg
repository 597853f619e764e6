SPECIFICATION PoolSpec
CONSTANTS
  Main = Main
  once = once
  again = again
  n1 = n1
  n2 = n2
  f1 = f1
  f2 = f2
  a1 = a1
  a2 = a2
  a3 = a3
  h1 = h1
  h2 = h2
  k1 = k1
  k2 = k2
  None = None
  MaxBudget = 2
  Registered <- MCRegistered
  Reserved = 1
  PrioTasks <- MCPrioTasks
  NormalTasks <- MCNormalTasks
  Static <- MCStatic
  FixedTasks <- MCFixedTasks
  Costs <- MCCosts
  ActorTasks <- MCActorTasks
  Actors <- MCActors
  Handles <- MCHandles
INVARIANTS Safe ActorsUsable
PROPERTIES FixedEveryFrame FramesServe
\* After a growth of the vector under the iteration nothing is modelled, and
\* actor tasks are queued once each while freed actors do not come back.
CHECK_DEADLOCK FALSE
