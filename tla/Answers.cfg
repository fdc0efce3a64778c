SPECIFICATION Spec
CONSTANTS
  ByteBits = 2
  WordBits = 2
  Addr <- MCAddr
  AddrSum <- MCAddrSum
  Configs <- MCConfigs
  Packets <- MCPackets
  Stale <- MCStale
INVARIANTS
  TypeOK
  HostWithinReach
  PathFollowsRoute
  TargetAnswers
  FamiliesAgree
  ChecksumsVerify
  AnswerFitsPacket
