SPECIFICATION Spec
CONSTANTS
  Threads = {t1, t2}
  Objects = {o1, o2, o3}
  Keys = {k1, k2}
  Nodes = {n1, n2, n3}
  EmptyKey = EmptyKey
  EmptyRef = EmptyRef
  None = None
SYMMETRY Symmetry
INVARIANTS TypeOK CountsExact Canonical NoLeak FreedOnlyAfterRevival
PROPERTIES StringsSpec
\* After a use of freed memory nothing is modelled.
CHECK_DEADLOCK FALSE
