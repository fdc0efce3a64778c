SPECIFICATION Spec
CONSTANTS
  ByteBits = 2
  WordBits = 4
  Specs <- MCSpecs
  SHRT_MAX = 5
  Steps = {0, 4, 17}
  ShiftPrefixes = {1, 2, 7}
  Counts = {0, 2, 17}
  Threads <- MCThreads
  Processors <- MCProcessors
  MaxThreads = 4
  MaxChains = 3
INVARIANTS
  TypeOK
  BuffersOwned
  RoomForTerminator
  ReadyForWorkers
  RoutesStayNetworks
PROPERTIES
  DuplicatesSpaced
\* main() returns once.
CHECK_DEADLOCK FALSE
