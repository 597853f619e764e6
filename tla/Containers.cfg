SPECIFICATION ContainersSpec
CONSTANTS
  v1 = v1
  v2 = v2
  m1 = m1
  m2 = m2
  n1 = n1
  n2 = n2
  n3 = n3
  Absent = Absent
  Moved = Moved
  NoMod = NoMod
  Keys = {1, 2, 3, 4}
  Values <- MCValues
  Default = v1
  Lists <- MCLists
  Maps <- MCMaps
  VecKeys = {1, 2, 3}
  VecValues <- MCVecValues
  VecLists <- MCVecLists
  ModLists <- MCModLists
  Lowers <- MCLowers
  MaxPopulates = 2
INVARIANTS InStep
PROPERTIES IsMap IsEntryList
\* Populate is called a bounded number of times.
CHECK_DEADLOCK FALSE
