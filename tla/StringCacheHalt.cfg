SPECIFICATION Spec
CONSTANTS
  Threads = {t1, t2}
  Objects = {o1, o2}
  Keys = {k1, k2}
  Nodes = {n1, n2}
  EmptyKey = EmptyKey
  EmptyRef = EmptyRef
  None = None
SYMMETRY Symmetry
INVARIANTS NoOrphanedValue
\* After a use of freed memory nothing is modelled.
CHECK_DEADLOCK FALSE
