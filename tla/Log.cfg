SPECIFICATION FairSpec
CONSTANTS
  main = main
  w1 = w1
  w2 = w2
  Threads <- MCThreads
  Main = main
  ExitStatus <- MCExitStatus
  Slices = 1
INVARIANTS
  TypeOK
  NoTrace
  StatusTells
PROPERTIES
  FatalStays
  ShutdownStops
  CrashEnds
\* The process ends, or is stopped and nobody enters "fg".
CHECK_DEADLOCK FALSE
