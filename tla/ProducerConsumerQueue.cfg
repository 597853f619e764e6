SPECIFICATION FairSpec
CONSTANTS
  p1 = p1
  p2 = p2
  c1 = c1
  c2 = c2
  x1 = x1
  x2 = x2
  x3 = x3
  None = None
  Producers <- MCProducers
  Consumers <- MCConsumers
  Items <- MCItems
INVARIANTS TypeOK NoLostWakeup
PROPERTIES FifoSpec SleeperServed
\* Every item pushed, both consumers may sleep for ever.
CHECK_DEADLOCK FALSE
