SPECIFICATION FairSpec
CONSTANTS
  NThread = 3
  MultiThread = TRUE
  Background = TRUE
  MaxQueue = 1
INVARIANTS
  TypeOK
  NoUseAfterRelease
  ReleasedOnce
  SameDevice
  ReadNeverBlocks
  SuccessMeansShutdown
PROPERTIES
  ImplementsLifetime
  ShutdownStops
  PacketsServed
\* main() returns and the process is gone: nothing happens after that.
CHECK_DEADLOCK FALSE
