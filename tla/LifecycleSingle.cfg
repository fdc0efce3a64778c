SPECIFICATION FairSpec
CONSTANTS
  NThread = 1
  MultiThread = FALSE
  Background = TRUE
  MaxQueue = 2
INVARIANTS
  ReleasedOnce
PROPERTIES
  ShutdownStops
\* main() returns and the process is gone: nothing happens after that.
CHECK_DEADLOCK FALSE
