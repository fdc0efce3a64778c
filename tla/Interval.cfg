SPECIFICATION Spec
CONSTANTS
  ByteBits = 2
  WordBits = 4
  Specs <- MCSpecs
  SHRT_MAX = 5
  Steps = {1, 4}
  ShiftPrefixes = {1, 2, 7}
  Counts = {2}
  Threads <- MCThreads
  Processors <- MCProcessors
  MaxThreads = 4
  MaxChains = 3
PROPERTIES
  DocumentedInterval
\* main() returns once.
CHECK_DEADLOCK FALSE
