SPECIFICATION Spec
CONSTANTS
  o1 = o1
  o2 = o2
  p1 = p1
  p2 = p2
  q1 = q1
  t1 = t1
  t2 = t2
  None = None
  v1 = v1
  v2 = v2
  f1 = f1
  f2 = f2
  g1 = g1
  Invalid = Invalid
  Absent = Absent
  r1 = r1
  r2 = r2
  h1 = h1
  h2 = h2
  Threads <- MCThreads
  Objects <- MCObjects
  RootsOf <- MCRootsOf
  Callers <- MCThreads
  Slots <- MCSlots
  FuncsOf <- MCFuncsOf
  Final <- MCFinal
  MaxCalls = 4
  Refs <- MCRefs
  Handles <- MCHandles
  MaxForgotten = 2
  s1 = s1
  s2 = s2
  s3 = s3
  c1 = c1
  c2 = c2
  Nothing = Nothing
  Sites = {s1, s2, s3}
  Opcode <- MCOpcode
  Hooks = {f1, f2, g1}
  Codes = {c1, c2}
  CodeSize <- MCCodeSize
  Room = 3
  Wrappers = {p1, p2, q1}
  MaxStreams = 4
INVARIANTS Counted Detours
PROPERTIES AssignsSource DetourReturns
\* Freed memory may be read, a protected page may be written, the trampoline
\* may be used up, and detours are counted.
CHECK_DEADLOCK FALSE
