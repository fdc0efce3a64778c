SPECIFICATION Spec
CONSTANTS
  ByteBits = 2
  WordBits = 2
  Addr <- MCAddr
  AddrSum <- MCAddrSum
  Workers = {1, 2}
  Arrays <- MCArrays
  Traces <- MCTraces
  Client = 7
  Hops <- MCHops
  MaxQueue = 1
INVARIANTS
  TypeOK
PROPERTIES
  WorkersRespond
  ShowsPath
\* The trace ends when every hop has been shown.
CHECK_DEADLOCK FALSE
