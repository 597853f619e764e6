SPECIFICATION LoadingSpec
CONSTANTS
  d1 = d1
  d2 = d2
  None = None
  Byte = 2
  Short = 4
  Dword = 16
  Word = 32
  Pairs <- MCPairs
  MaxPairs = 2
  PtrSize = 2
  Garbage = {0, 3}
  Base = 8
  Queries <- MCQueries
  Files <- MCFiles
  Sections = {"A", "B", ""}
  Names = {"x", "y", ""}
  NoName = ""
  Data = {d1, d2}
  Size <- MCSize
  LenBytes = 2
  MaxSize = 3
  MaxRecords = 2
  Interfaces <- MCInterfaces
  Trampoline = "trampoline"
  Compiled <- MCCompiled
  Versions = {1, 2}
  Granularities = {0, 4}
  Sizes <- MCSizes
  Intervals = {0, 2}
  MaxTime = 4
  MaxCounter = 3
INVARIANTS AddressesAsMeant ValuesOfOneFile AllOrNothing PluginReady Averages
\* A division by zero, a query after Release and the end of a save stop.
CHECK_DEADLOCK FALSE
