SPECIFICATION CallbacksSpec
CONSTANTS
  s1 = s1
  s2 = s2
  s3 = s3
  s4 = s4
  t1 = t1
  t2 = t2
  Nobody = Nobody
  Sinks <- MCSinks
  Registered <- MCRegistered
  MaxEvents = 2
  MaxChanges = 2
  Threads <- MCThreads
  Limits <- MCLimits
  MaxEntries = 4
INVARIANTS Intact
PROPERTIES Deliveries EventEnds
\* Freed memory may be read.
CHECK_DEADLOCK FALSE
