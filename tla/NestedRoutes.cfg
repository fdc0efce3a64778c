SPECIFICATION Spec
CONSTANTS
  ByteBits = 2
  WordBits = 2
  Addr <- MCAddr
  AddrSum <- MCAddrSum
  Configs <- PathConfigs
  Packets <- MCPackets
  Stale <- MCStale
INVARIANTS
  RouteDecides
