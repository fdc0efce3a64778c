SPECIFICATION FairSpec
CONSTANTS
  main = main
  w1 = w1
  w2 = w2
  Threads <- MCAlone
  Main = main
  ExitStatus <- MCExitStatus
  Slices = 2
PROPERTIES
  DebugOnlyAddsMessages
\* The process ends, or hangs in its signal handler.
CHECK_DEADLOCK FALSE
