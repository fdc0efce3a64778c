SPECIFICATION Spec
CONSTANTS
  ByteBits = 2
  WordBits = 4
  MAXTTL = 6
  MinMtu <- MCMinMtu
  IP_MAXPACKET = 6
  DefaultTtl = 5
  DefaultMtu = 4
  Ttls = {1, 2, 3, 4, 6, 7}
  Mtus = {1, 3, 4, 5}
  Addresses <- SomeAddresses
  Routes <- MCRoutes
  MaxTokens = 5
INVARIANTS
  TypeOK
  FitsBuffer
  HostForEachName
  TtlOutlivesAddresses
  MtuNeverGrows
\* A chain is parsed once.
CHECK_DEADLOCK FALSE
