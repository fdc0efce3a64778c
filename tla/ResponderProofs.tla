-------------------------- MODULE ResponderProofs --------------------------
(***************************************************************************)
(* Responder is correct for any chains the options may leave, any packets  *)
(* the kernel may deliver and anything that may lie in the buffer.         *)
(***************************************************************************)
EXTENDS Responder, ChainArrayProofs

-----------------------------------------------------------------------------
(* The inductive invariant: the packet in the buffer is the one received, but  *)
(* for what a short one leaves of an earlier one, until a host of the chains   *)
(* has written its answer over it.                                             *)

\* Where a worker may be in its turn, with chains of one family.
TurnOf(v6, chains) ==
  \/ at = "read" /\ received = NoPacket /\ packet = NoPacket /\ ret = 0
  \/ /\ at = "reply" /\ ret = 0
     /\ received \in Packets(v6, chains) /\ packet \in Buffers(v6, received)
  \/ /\ at = "write" /\ ret = 0
     /\ received \in Packets(v6, chains)
     /\ \E b \in Buffers(v6, received) :
          LET hop == HopFor(v6, chains, b)
          IN  hop # NoHost /\ Answers(v6, hop, b, packet)
  \/ /\ at = "continue" /\ ret \in {0, 17, 18}
     /\ received \in Packets(v6, chains) /\ packet \in Packet

\* The chains are those the options left.
Configured == \E cfg \in Configs : v4_chains = cfg[1] /\ v6_chains = cfg[2]

\* The inductive invariant.
IInv ==
  /\ Configured
  /\ ipver \in {4, 6}
  /\ ipver = 4 => TurnOf(FALSE, v4_chains)
  /\ ipver = 6 => TurnOf(TRUE, v6_chains)

-----------------------------------------------------------------------------
(* What the assumptions say of a packet received and of its buffer *)

\* The packet is one whose header and checksum are right.
Sound(v6, p) ==
  /\ p \in Packet /\ p.quote = NoQuote /\ p.len > 0
  /\ IF v6 THEN p.len = p.ip.len + Ip6Size ELSE p.len = p.ip.len
  /\ Echo(v6, p) /\ ~Short(v6, p) =>
       Verifies(IF v6 THEN Icmp6Words(p) ELSE IcmpWords(p))

\* The chains of a configuration.
LEMMA ConfiguredChains ==
  ASSUME Configured
  PROVE  v4_chains \in ChainArrays(FALSE) /\ v6_chains \in ChainArrays(TRUE)
<1>1. PICK cfg \in Configs : v4_chains = cfg[1] /\ v6_chains = cfg[2]
  BY DEF Configured
<1>2. cfg[1] \in ChainArrays(FALSE) /\ cfg[2] \in ChainArrays(TRUE)
  BY ConfigsAssumption
<1>3. QED
  BY <1>1, <1>2

\* A packet received in IPv4.
LEMMA Received4 ==
  ASSUME Configured, NEW p, p \in Packets(FALSE, v4_chains)
  PROVE  Sound(FALSE, p)
<1>1. PICK cfg \in Configs : v4_chains = cfg[1]
  BY DEF Configured
<1>2. /\ p \in Packet /\ p.quote = NoQuote
      /\ p.len = p.ip.len /\ p.len >= IpSize
      /\ Echo(FALSE, p) /\ ~Short(FALSE, p) => Verifies(IcmpWords(p))
  BY <1>1, PacketsAssumption
<1>3. p.len > 0
  <2>1. p.len \in HalfWord
    BY <1>2 DEF Packet
  <2>2. p.len \in Nat
    BY SMT, <2>1, HalfWordBounds
  <2>3. QED
    BY <1>2, <2>2 DEF IpSize
<1>4. QED
  BY <1>2, <1>3 DEF Sound

\* A packet received in IPv6.
LEMMA Received6 ==
  ASSUME Configured, NEW p, p \in Packets(TRUE, v6_chains)
  PROVE  Sound(TRUE, p)
<1>1. PICK cfg \in Configs : v6_chains = cfg[2]
  BY DEF Configured
<1>2. /\ p \in Packet /\ p.quote = NoQuote
      /\ p.len = p.ip.len + Ip6Size
      /\ Echo(TRUE, p) /\ ~Short(TRUE, p) => Verifies(Icmp6Words(p))
  BY <1>1, PacketsAssumption
<1>3. p.len > 0
  <2>1. p.ip.len \in HalfWord
    BY <1>2 DEF Packet, IpHeader
  <2>2. p.ip.len \in Nat
    BY SMT, <2>1, HalfWordBounds
  <2>3. QED
    BY <1>2, <2>2 DEF Ip6Size
<1>4. QED
  BY <1>2, <1>3 DEF Sound

\* A short packet leaves something in the 8 bytes behind its header, nothing else.
LEMMA BufferFields ==
  ASSUME NEW v6, NEW p, p \in Packet, p.quote = NoQuote, NEW b, b \in Buffers(v6, p)
  PROVE  /\ b \in Packet /\ b.quote = NoQuote /\ b.len = p.len /\ b.ip = p.ip
         /\ ~Short(v6, p) => b = p
<1>1. CASE ~Short(v6, p)
  BY <1>1 DEF Buffers
<1>2. CASE Short(v6, p)
  <2>1. PICK stale \in Stale :
          b = [p EXCEPT !.data =
                 LeftOver(@, stale, p.len - IF v6 THEN Ip6Size ELSE IpSize)]
    BY <1>2 DEF Buffers
  <2>2. stale \in Data /\ p.data \in Data
    BY PacketsAssumption DEF Packet
  <2>3. b \in Packet
    <3>1. LeftOver(p.data, stale, p.len - IF v6 THEN Ip6Size ELSE IpSize) \in Data
      BY <2>2 DEF LeftOver, Data
    <3>2. QED
      BY <2>1, <3>1 DEF Packet
  <2>4. b.quote = p.quote /\ b.len = p.len /\ b.ip = p.ip
    BY <2>1 DEF Packet
  <2>5. QED
    BY <1>2, <2>3, <2>4
<1>3. QED
  BY <1>1, <1>2
-----------------------------------------------------------------------------
(* Every step preserves the invariant. *)

\* A turn starts with nothing read.
LEMMA InitIInv == Init => IInv
<1> SUFFICES ASSUME Init PROVE IInv
  OBVIOUS
<1>1. Configured
  BY DEF Init, Configured
<1>2. ipver = 4 /\ TurnOf(FALSE, v4_chains)
  BY DEF Init, TurnOf
<1>3. ipver # 6
  BY <1>2
<1>4. QED
  BY <1>1, <1>2, <1>3 DEF IInv

\* The chains stay what they are, so a step keeps the invariant if its turn goes on.
LEMMA TurnGoesOn ==
  ASSUME IInv, UNCHANGED <<v4_chains, v6_chains>>, ipver' \in {4, 6},
         ipver' = 4 => TurnOf(FALSE, v4_chains)',
         ipver' = 6 => TurnOf(TRUE, v6_chains)'
  PROVE  IInv'
<1>1. Configured'
  BY DEF IInv, Configured
<1>2. QED
  BY <1>1 DEF IInv

\* What is read is a packet for these chains, and the buffer holds it.
LEMMA ReadStep ==
  ASSUME IInv, Read
  PROVE  IInv'
<1>1. /\ ipver' \in {4, 6} /\ UNCHANGED <<v4_chains, v6_chains>>
      /\ at' = "reply" /\ ret' = 0
  BY DEF Read
<1>2. ASSUME ipver' = 4 PROVE TurnOf(FALSE, v4_chains)'
  <2>1. (ipver' = 6) = FALSE
    BY <1>2
  <2>2. /\ received' \in Packets(FALSE, v4_chains)
        /\ packet' \in Buffers(FALSE, received')
    BY <2>1 DEF Read
  <2>3. QED
    BY <1>1, <2>2 DEF TurnOf, Buffers
<1>3. ASSUME ipver' = 6 PROVE TurnOf(TRUE, v6_chains)'
  <2>1. (ipver' = 6) = TRUE
    BY <1>3
  <2>2. /\ received' \in Packets(TRUE, v6_chains)
        /\ packet' \in Buffers(TRUE, received')
    BY <2>1 DEF Read
  <2>3. QED
    BY <1>1, <2>2 DEF TurnOf, Buffers
<1>4. QED
  BY <1>1, <1>2, <1>3, TurnGoesOn

\* What comes of a packet that is answered from the IPv4 chains.
LEMMA Reply4Step ==
  ASSUME IInv, Reply4
  PROVE  IInv'
<1>1. /\ at = "reply" /\ ipver = 4
      /\ UNCHANGED <<v4_chains, v6_chains, ipver, received>>
  BY DEF Reply4
<1>2. Configured /\ received \in Packets(FALSE, v4_chains) /\ packet \in Buffers(FALSE, received)
  BY <1>1 DEF IInv, TurnOf
<1>3. Sound(FALSE, received)
  BY <1>2, Received4
<1>4. received \in Packet /\ received.quote = NoQuote /\ received.len > 0
  BY <1>3 DEF Sound
<1>5. packet \in Packet /\ packet.quote = NoQuote /\ packet.len = received.len
  BY <1>2, <1>4, BufferFields
<1>6. PICK chains : chains = v4_chains
  OBVIOUS
<1>7. PICK b : b = packet
  OBVIOUS
<1>8. PICK r : r = HostChain4Array_reply(chains, b)
  OBVIOUS
<1>9. PICK hop : hop = HopFor(FALSE, chains, b)
  OBVIOUS
<1>10. /\ packet' = r.pkt /\ ret' = r.ret
       /\ at' = IF r.ret = 0 /\ r.pkt.len > 0 THEN "write" ELSE "continue"
  BY <1>6, <1>7, <1>8 DEF Reply4, Handled
<1>11. Outcome(FALSE, hop, b, r)
  <2>1. /\ chains \in ChainArrays(FALSE)
        /\ b \in Packet /\ b.quote = NoQuote /\ b.len > 0
    <3>1. v4_chains \in ChainArrays(FALSE)
      BY <1>2, ConfiguredChains
    <3>2. b \in Packet /\ b.quote = NoQuote /\ b.len > 0
      BY <1>4, <1>5, <1>7
    <3>3. QED
      BY <1>6, <3>1, <3>2
  <2>2. QED
    BY ONLY <1>8, <1>9, <2>1, ChainsReply4
<1>12. TurnOf(FALSE, v4_chains)'
  <2>1. CASE r.ret \in {17, 18} /\ r.pkt = b
    <3>1. at' = "continue" /\ ret' \in {0, 17, 18} /\ packet' \in Packet
      BY <1>5, <1>7, <1>10, <2>1
    <3>2. QED
      BY <1>1, <1>2, <3>1 DEF TurnOf
  <2>2. CASE r = Ignored(b)
    <3>1. r.ret = 0 /\ r.pkt \in Packet /\ r.pkt.len = 0
      BY <1>5, <1>7, <2>2, IgnoredFields
    <3>2. at' = "continue" /\ ret' \in {0, 17, 18} /\ packet' \in Packet
      BY <1>10, <3>1
    <3>3. QED
      BY <1>1, <1>2, <3>2 DEF TurnOf
  <2>3. CASE r.ret = 0 /\ hop # NoHost /\ Answers(FALSE, hop, b, r.pkt)
    <3>1. at' = "write" /\ ret' = 0 /\ packet' = r.pkt
      <4>1. r.pkt.len > 0
        BY <2>3 DEF Answers, Answers4
      <4>2. QED
        BY <1>10, <2>3, <4>1
    <3>2. received' \in Packets(FALSE, v4_chains)' /\ b \in Buffers(FALSE, received)'
      BY <1>1, <1>2, <1>7 DEF Buffers
    <3>3. hop = HopFor(FALSE, v4_chains', b) /\ Answers(FALSE, hop, b, packet')
      BY <1>1, <1>6, <1>9, <2>3, <3>1
    <3>4. QED
      BY <2>3, <3>1, <3>2, <3>3 DEF TurnOf
  <2>4. QED
    BY <1>11, <2>1, <2>2, <2>3 DEF Outcome
<1>13. QED
  <2>1. ipver' = 4 /\ ipver' # 6 /\ ipver' \in {4, 6}
    BY <1>1
  <2>2. QED
    BY <1>1, <1>12, <2>1, TurnGoesOn

\* What comes of a packet that is answered from the IPv6 chains.
LEMMA Reply6Step ==
  ASSUME IInv, Reply6
  PROVE  IInv'
<1>1. /\ at = "reply" /\ ipver = 6
      /\ UNCHANGED <<v4_chains, v6_chains, ipver, received>>
  BY DEF Reply6
<1>2. Configured /\ received \in Packets(TRUE, v6_chains) /\ packet \in Buffers(TRUE, received)
  BY <1>1 DEF IInv, TurnOf
<1>3. Sound(TRUE, received)
  BY <1>2, Received6
<1>4. received \in Packet /\ received.quote = NoQuote /\ received.len > 0
  BY <1>3 DEF Sound
<1>5. packet \in Packet /\ packet.quote = NoQuote /\ packet.len = received.len
  BY <1>2, <1>4, BufferFields
<1>6. PICK chains : chains = v6_chains
  OBVIOUS
<1>7. PICK b : b = packet
  OBVIOUS
<1>8. PICK r : r = HostChain6Array_reply(chains, b)
  OBVIOUS
<1>9. PICK hop : hop = HopFor(TRUE, chains, b)
  OBVIOUS
<1>10. /\ packet' = r.pkt /\ ret' = r.ret
       /\ at' = IF r.ret = 0 /\ r.pkt.len > 0 THEN "write" ELSE "continue"
  BY <1>6, <1>7, <1>8 DEF Reply6, Handled
<1>11. Outcome(TRUE, hop, b, r)
  <2>1. /\ chains \in ChainArrays(TRUE)
        /\ b \in Packet /\ b.quote = NoQuote /\ b.len > 0
    <3>1. v6_chains \in ChainArrays(TRUE)
      BY <1>2, ConfiguredChains
    <3>2. b \in Packet /\ b.quote = NoQuote /\ b.len > 0
      BY <1>4, <1>5, <1>7
    <3>3. QED
      BY <1>6, <3>1, <3>2
  <2>2. QED
    BY ONLY <1>8, <1>9, <2>1, ChainsReply6
<1>12. TurnOf(TRUE, v6_chains)'
  <2>1. CASE r.ret \in {17, 18} /\ r.pkt = b
    <3>1. at' = "continue" /\ ret' \in {0, 17, 18} /\ packet' \in Packet
      BY <1>5, <1>7, <1>10, <2>1
    <3>2. QED
      BY <1>1, <1>2, <3>1 DEF TurnOf
  <2>2. CASE r = Ignored(b)
    <3>1. r.ret = 0 /\ r.pkt \in Packet /\ r.pkt.len = 0
      BY <1>5, <1>7, <2>2, IgnoredFields
    <3>2. at' = "continue" /\ ret' \in {0, 17, 18} /\ packet' \in Packet
      BY <1>10, <3>1
    <3>3. QED
      BY <1>1, <1>2, <3>2 DEF TurnOf
  <2>3. CASE r.ret = 0 /\ hop # NoHost /\ Answers(TRUE, hop, b, r.pkt)
    <3>1. at' = "write" /\ ret' = 0 /\ packet' = r.pkt
      <4>1. r.pkt.len > 0
        BY <2>3 DEF Answers, Answers6
      <4>2. QED
        BY <1>10, <2>3, <4>1
    <3>2. received' \in Packets(TRUE, v6_chains)' /\ b \in Buffers(TRUE, received)'
      BY <1>1, <1>2, <1>7 DEF Buffers
    <3>3. hop = HopFor(TRUE, v6_chains', b) /\ Answers(TRUE, hop, b, packet')
      BY <1>1, <1>6, <1>9, <2>3, <3>1
    <3>4. QED
      BY <2>3, <3>1, <3>2, <3>3 DEF TurnOf
  <2>4. QED
    BY <1>11, <2>1, <2>2, <2>3 DEF Outcome
<1>13. QED
  <2>1. ipver' = 6 /\ ipver' # 4 /\ ipver' \in {4, 6}
    BY <1>1
  <2>2. QED
    BY <1>1, <1>12, <2>1, TurnGoesOn

\* A packet whose family has no chains is left in the buffer.
LEMMA UndefinedStep ==
  ASSUME IInv, UndefinedIpver
  PROVE  IInv'
<1>1. /\ at = "reply" /\ at' = "continue" /\ ipver \in {4, 6}
      /\ UNCHANGED <<v4_chains, v6_chains, ipver, received, packet, ret>>
  BY DEF UndefinedIpver, IInv
<1>2. ASSUME ipver' = 4 PROVE TurnOf(FALSE, v4_chains)'
  <2>1. /\ Configured /\ ret = 0
        /\ received \in Packets(FALSE, v4_chains) /\ packet \in Buffers(FALSE, received)
    BY <1>1, <1>2 DEF IInv, TurnOf
  <2>2. received \in Packet /\ received.quote = NoQuote
    BY <2>1, Received4 DEF Sound
  <2>3. packet \in Packet
    BY <2>1, <2>2, BufferFields
  <2>4. QED
    BY <1>1, <2>1, <2>3 DEF TurnOf
<1>3. ASSUME ipver' = 6 PROVE TurnOf(TRUE, v6_chains)'
  <2>1. /\ Configured /\ ret = 0
        /\ received \in Packets(TRUE, v6_chains) /\ packet \in Buffers(TRUE, received)
    BY <1>1, <1>3 DEF IInv, TurnOf
  <2>2. received \in Packet /\ received.quote = NoQuote
    BY <2>1, Received6 DEF Sound
  <2>3. packet \in Packet
    BY <2>1, <2>2, BufferFields
  <2>4. QED
    BY <1>1, <2>1, <2>3 DEF TurnOf
<1>4. QED
  BY <1>1, <1>2, <1>3, TurnGoesOn

\* The next turn starts with nothing in the buffer.
LEMMA WriteStep ==
  ASSUME IInv, Write
  PROVE  IInv'
<1>1. /\ at' = "read" /\ received' = NoPacket /\ packet' = NoPacket /\ ret' = 0 /\ ipver' = 4
      /\ UNCHANGED <<v4_chains, v6_chains>>
  BY DEF Write
<1>2. TurnOf(FALSE, v4_chains)'
  BY <1>1 DEF TurnOf
<1>3. ipver' \in {4, 6} /\ ipver' # 6
  BY <1>1
<1>4. QED
  BY <1>1, <1>2, <1>3, TurnGoesOn

\* The invariant holds in every state: a buffer holds the packet received, or the
\* answer of the host that the lookup of its destination found.
THEOREM InductiveInvariant == Spec => []IInv
<1>1. ASSUME IInv, [Next]_vars PROVE IInv'
  <2>1. CASE Read
    BY <1>1, <2>1, ReadStep
  <2>2. CASE Reply4
    BY <1>1, <2>2, Reply4Step
  <2>3. CASE Reply6
    BY <1>1, <2>3, Reply6Step
  <2>4. CASE UndefinedIpver
    BY <1>1, <2>4, UndefinedStep
  <2>5. CASE Write
    BY <1>1, <2>5, WriteStep
  <2>6. CASE UNCHANGED vars
    BY <1>1, <2>6 DEF IInv, Configured, TurnOf, Buffers, LeftOver, Short, HopFor, vars
  <2>7. QED
    BY <1>1, <2>1, <2>2, <2>3, <2>4, <2>5, <2>6 DEF Next
<1>2. QED
  BY <1>1, InitIInv, PTL DEF Spec

-----------------------------------------------------------------------------
(* What the invariant says of an answer *)

\* An answer about to be written in IPv4: a host of the chains has given it to the
\* packet received, or to what a short one left of an earlier one.
LEMMA Written4 ==
  ASSUME IInv, at = "write", ipver = 4
  PROVE  /\ v4_chains \in ChainArrays(FALSE) /\ Sound(FALSE, received) /\ ret = 0
         /\ \E b, hop :
              /\ b \in Packet /\ b.quote = NoQuote /\ b.len = received.len /\ b.ip = received.ip
              /\ b \in Buffers(FALSE, received)
              /\ ~Short(FALSE, received) => b = received
              /\ hop = HopFor(FALSE, v4_chains, received) /\ hop # NoHost
              /\ Answers4(hop.host, hop.index, b, packet)
<1>1. Configured /\ TurnOf(FALSE, v4_chains)
  BY DEF IInv
<1>2. v4_chains \in ChainArrays(FALSE)
  BY <1>1, ConfiguredChains
<1>3. /\ ret = 0 /\ received \in Packets(FALSE, v4_chains)
      /\ \E b \in Buffers(FALSE, received) :
           LET hop == HopFor(FALSE, v4_chains, b)
           IN  hop # NoHost /\ Answers(FALSE, hop, b, packet)
  BY <1>1 DEF TurnOf
<1>4. Sound(FALSE, received)
  BY <1>1, <1>3, Received4
<1>5. PICK b \in Buffers(FALSE, received) :
        LET hop == HopFor(FALSE, v4_chains, b)
        IN  hop # NoHost /\ Answers(FALSE, hop, b, packet)
  BY <1>3
<1>6. PICK hop : hop = HopFor(FALSE, v4_chains, b)
  OBVIOUS
<1>7. hop # NoHost /\ Answers4(hop.host, hop.index, b, packet)
  BY <1>5, <1>6 DEF Answers
<1>8. /\ b \in Packet /\ b.quote = NoQuote /\ b.len = received.len /\ b.ip = received.ip
      /\ ~Short(FALSE, received) => b = received
  BY <1>4, BufferFields DEF Sound
<1>9. hop = HopFor(FALSE, v4_chains, received)
  BY <1>6, <1>8 DEF HopFor
<1>10. QED
  BY <1>2, <1>3, <1>4, <1>7, <1>8, <1>9

\* An answer about to be written in IPv6: a host of the chains has given it to the
\* packet received, or to what a short one left of an earlier one.
LEMMA Written6 ==
  ASSUME IInv, at = "write", ipver = 6
  PROVE  /\ v6_chains \in ChainArrays(TRUE) /\ Sound(TRUE, received) /\ ret = 0
         /\ \E b, hop :
              /\ b \in Packet /\ b.quote = NoQuote /\ b.len = received.len /\ b.ip = received.ip
              /\ b \in Buffers(TRUE, received)
              /\ ~Short(TRUE, received) => b = received
              /\ hop = HopFor(TRUE, v6_chains, received) /\ hop # NoHost
              /\ Answers6(hop.host, hop.index, b, packet)
<1>1. Configured /\ TurnOf(TRUE, v6_chains)
  BY DEF IInv
<1>2. v6_chains \in ChainArrays(TRUE)
  BY <1>1, ConfiguredChains
<1>3. /\ ret = 0 /\ received \in Packets(TRUE, v6_chains)
      /\ \E b \in Buffers(TRUE, received) :
           LET hop == HopFor(TRUE, v6_chains, b)
           IN  hop # NoHost /\ Answers(TRUE, hop, b, packet)
  BY <1>1 DEF TurnOf
<1>4. Sound(TRUE, received)
  BY <1>1, <1>3, Received6
<1>5. PICK b \in Buffers(TRUE, received) :
        LET hop == HopFor(TRUE, v6_chains, b)
        IN  hop # NoHost /\ Answers(TRUE, hop, b, packet)
  BY <1>3
<1>6. PICK hop : hop = HopFor(TRUE, v6_chains, b)
  OBVIOUS
<1>7. hop # NoHost /\ Answers6(hop.host, hop.index, b, packet)
  BY <1>5, <1>6 DEF Answers
<1>8. /\ b \in Packet /\ b.quote = NoQuote /\ b.len = received.len /\ b.ip = received.ip
      /\ ~Short(TRUE, received) => b = received
  BY <1>4, BufferFields DEF Sound
<1>9. hop = HopFor(TRUE, v6_chains, received)
  BY <1>6, <1>8 DEF HopFor
<1>10. QED
  BY <1>2, <1>3, <1>4, <1>7, <1>8, <1>9

-----------------------------------------------------------------------------
(* The properties *)

\* The packet read and the buffer are packets, whatever a host has written.
LEMMA TypeInv == IInv => TypeOK
<1> SUFFICES ASSUME IInv PROVE TypeOK
  OBVIOUS
<1>1. v4_chains \in ChainArrays(FALSE) /\ v6_chains \in ChainArrays(TRUE) /\ ipver \in {4, 6}
  BY ConfiguredChains DEF IInv
<1>2. /\ at \in {"read", "reply", "write", "continue"}
      /\ ret \in {0, 17, 18, 19}
  BY <1>1 DEF IInv, TurnOf
<1>3. /\ at # "read" => received \in Packet
      /\ at = "read" => received = NoPacket /\ packet = NoPacket
      /\ at = "reply" => \E v6 \in BOOLEAN : Sound(v6, received) /\ packet \in Buffers(v6, received)
      /\ at = "continue" => packet \in Packet
  <2>1. CASE ipver = 4
    <3>1. Configured /\ TurnOf(FALSE, v4_chains)
      BY <2>1 DEF IInv
    <3>2. received \in Packets(FALSE, v4_chains) => Sound(FALSE, received)
      BY <3>1, Received4
    <3>3. QED
      BY <3>1, <3>2 DEF TurnOf, Sound
  <2>2. CASE ipver = 6
    <3>1. Configured /\ TurnOf(TRUE, v6_chains)
      BY <2>2 DEF IInv
    <3>2. received \in Packets(TRUE, v6_chains) => Sound(TRUE, received)
      BY <3>1, Received6
    <3>3. QED
      BY <3>1, <3>2 DEF TurnOf, Sound
  <2>3. QED
    BY <1>1, <2>1, <2>2
<1>4. at = "write" => packet \in Packet
  <2>1. ASSUME at = "write", ipver = 4 PROVE packet \in Packet
    BY <2>1, Written4 DEF Answers4
  <2>2. ASSUME at = "write", ipver = 6 PROVE packet \in Packet
    BY <2>2, Written6 DEF Answers6
  <2>3. QED
    BY <1>1, <2>1, <2>2
<1>5. at = "reply" => packet \in Packet
  BY <1>3, BufferFields DEF Sound
<1>6. QED
  BY <1>1, <1>2, <1>3, <1>4, <1>5 DEF TypeOK

\* The packet read and the buffer are packets, whatever a host has written.
THEOREM TypeCorrect == Spec => []TypeOK
BY InductiveInvariant, TypeInv, PTL

\* The host found is within the TTL of the packet, so "Host TTL too small" is never
\* logged.
THEOREM HostsWithinReach == Spec => []HostWithinReach
<1>1. ASSUME IInv PROVE HostWithinReach
  <2>1. ret \in {0, 17, 18}
    BY <1>1 DEF IInv, TurnOf
  <2>2. QED
    BY <2>1 DEF HostWithinReach
<1>2. QED
  BY <1>1, InductiveInvariant, PTL

\* An answer quotes the packet received, goes back to its sender and is as long as
\* its header says.
LEMMA FitsInv == IInv => AnswerFitsPacket
<1> SUFFICES ASSUME IInv, at = "write" PROVE AnswerFitsPacket
  BY DEF AnswerFitsPacket
<1>1. CASE ipver = 4
  <2>1. PICK b, hop :
          /\ b \in Packet /\ b.len = received.len /\ b.ip = received.ip
          /\ b \in Buffers(FALSE, received)
          /\ Answers4(hop.host, hop.index, b, packet)
    BY <1>1, Written4
  <2>2. Sound(FALSE, received)
    BY <1>1, Written4
  <2>3. packet.len = packet.ip.len /\ packet.ip.dst = received.ip.src
    BY <2>1, <2>2 DEF Answers4, Sound
  <2>4. packet.quote # NoQuote => packet.quote.ip = b.ip /\ packet.quote.data = b.data
    BY <2>1 DEF Answers4
  <2>5. packet.ip.len \in Nat
    <3>1. packet.ip.len \in HalfWord
      BY <2>1 DEF Answers4, Packet, IpHeader
    <3>2. QED
      BY SMT, <3>1, HalfWordBounds
  <2>6. packet.len = packet.ip.len + IF ipver = 4 THEN 0 ELSE Ip6Size
    BY <1>1, <2>3, <2>5
  <2>7. (ipver = 6) = FALSE
    BY <1>1
  <2>8. b \in Buffers(ipver = 6, received)
    BY <2>1, <2>7
  <2>9. QED
    BY <2>1, <2>3, <2>4, <2>6, <2>8 DEF AnswerFitsPacket
<1>2. CASE ipver = 6
  <2>1. PICK b, hop :
          /\ b \in Packet /\ b.len = received.len /\ b.ip = received.ip
          /\ b \in Buffers(TRUE, received)
          /\ Answers6(hop.host, hop.index, b, packet)
    BY <1>2, Written6
  <2>2. Sound(TRUE, received)
    BY <1>2, Written6
  <2>3. packet.len = packet.ip.len + Ip6Size /\ packet.ip.dst = received.ip.src
    BY <2>1, <2>2 DEF Answers6, Sound
  <2>4. packet.quote # NoQuote => packet.quote.ip = b.ip /\ packet.quote.data = b.data
    BY <2>1 DEF Answers6
  <2>5. (ipver = 6) = TRUE /\ ipver # 4
    BY <1>2
  <2>6. b \in Buffers(ipver = 6, received)
    BY <2>1, <2>5
  <2>7. QED
    BY <2>1, <2>3, <2>4, <2>5, <2>6 DEF AnswerFitsPacket
<1>3. QED
  BY <1>1, <1>2 DEF IInv

\* An answer quotes the packet received, goes back to its sender and is as long as
\* its header says.
THEOREM AnswersFitPackets == Spec => []AnswerFitsPacket
BY InductiveInvariant, FitsInv, PTL

\* The sums a receiver checks are numbers.
LEMMA IcmpWordsNat ==
  ASSUME NEW a, a \in Packet
  PROVE  IcmpWords(a) \in Nat /\ Icmp6Words(a) \in Nat
<1>1. a.ip \in IpHeader /\ a.data \in Data /\ a.rest \in WordSums(32768)
  BY DEF Packet
<1>2. a.quote # NoQuote => a.quote \in Quote
  BY DEF Packet
<1>3. a.rest \in Nat
  BY SMT, <1>1, WordSumsBounds
<1>4. PseudoWords(a.ip) \in Nat /\ DataWords(a.data) \in Nat
  BY <1>1, IpWordsBound, DataWordsBound
<1>5. a.quote # NoQuote => QuoteWords(a.quote) \in Nat /\ Quote6Words(a.quote) \in Nat
  BY <1>2, QuoteWordsBound
<1>6. QED
  BY <1>3, <1>4, <1>5 DEF IcmpWords, Icmp6Words

\* The checksums of an answer written verify.
LEMMA ChecksumsInv == IInv => ChecksumsVerify
<1> SUFFICES ASSUME IInv, at = "write" PROVE ChecksumsVerify
  BY DEF ChecksumsVerify
<1>1. CASE ipver = 4
  <2>1. PICK b, hop :
          /\ b \in Packet /\ b.len = received.len /\ b.ip = received.ip
          /\ ~Short(FALSE, received) => b = received
          /\ Answers4(hop.host, hop.index, b, packet)
    BY <1>1, Written4
  <2>2. Sound(FALSE, received)
    BY <1>1, Written4
  <2>3. IcmpWords(packet) \in Nat
    BY <2>1, IcmpWordsNat DEF Answers4
  <2>4. ASSUME packet.quote # NoQuote PROVE Verifies(IcmpWords(packet))
    BY <2>1, <2>4 DEF Answers4
  <2>5. ASSUME packet.quote = NoQuote, ~Short(FALSE, received)
        PROVE  Verifies((IF packet.len = received.len THEN 256 * received.data.code ELSE 0)
                          + IcmpWords(packet))
    <3>1. b = received
      BY <2>1, <2>5
    <3>2. /\ received.ip.proto = IPPROTO_ICMP /\ received.data.type = ICMP_ECHO
          /\ Verifies(IcmpWords(received)) =>
               Verifies((IF packet.len = received.len THEN 256 * received.data.code ELSE 0)
                          + IcmpWords(packet))
      BY <2>1, <2>5, <3>1 DEF Answers4
    <3>3. Verifies(IcmpWords(received))
      BY <2>2, <2>5, <3>2 DEF Sound, Echo
    <3>4. QED
      BY <3>2, <3>3
  <2>6. PICK codes : codes = IF packet.quote = NoQuote /\ packet.len = received.len
                             THEN 256 * received.data.code ELSE 0
    OBVIOUS
  <2>7. packet.quote # NoQuote \/ ~Short(FALSE, received) => Verifies(codes + IcmpWords(packet))
    <3>1. CASE packet.quote # NoQuote
      <4>1. codes = 0
        BY <2>6, <3>1
      <4>2. codes + IcmpWords(packet) = IcmpWords(packet)
        BY <2>3, <4>1
      <4>3. QED
        BY <2>4, <3>1, <4>2
    <3>2. CASE packet.quote = NoQuote /\ ~Short(FALSE, received)
      <4>1. codes = IF packet.len = received.len THEN 256 * received.data.code ELSE 0
        BY <2>6, <3>2
      <4>2. QED
        BY <2>5, <3>2, <4>1
    <3>3. QED
      BY <3>1, <3>2
  <2>8. (ipver = 6) = FALSE
    BY <1>1
  <2>9. ipver = 6 \/ Verifies(IpWords(packet.ip) + packet.ip.sum)
    BY <2>1 DEF Answers4
  <2>10. QED
    BY <2>6, <2>7, <2>8, <2>9 DEF ChecksumsVerify
<1>2. CASE ipver = 6
  <2>1. PICK b, hop :
          /\ b \in Packet /\ b.len = received.len /\ b.ip = received.ip
          /\ ~Short(TRUE, received) => b = received
          /\ Answers6(hop.host, hop.index, b, packet)
    BY <1>2, Written6
  <2>2. Sound(TRUE, received)
    BY <1>2, Written6
  <2>3. Icmp6Words(packet) \in Nat
    BY <2>1, IcmpWordsNat DEF Answers6
  <2>4. ASSUME packet.quote # NoQuote PROVE Verifies(Icmp6Words(packet))
    BY <2>1, <2>4 DEF Answers6
  <2>5. ASSUME packet.quote = NoQuote, ~Short(TRUE, received)
        PROVE  Verifies((IF packet.len = received.len THEN 256 * received.data.code ELSE 0)
                          + Icmp6Words(packet))
    <3>1. b = received
      BY <2>1, <2>5
    <3>2. /\ received.ip.proto = IPPROTO_ICMPV6 /\ received.data.type = ICMP6_ECHO_REQUEST
          /\ Verifies(Icmp6Words(received)) =>
               Verifies((IF packet.len = received.len THEN 256 * received.data.code ELSE 0)
                          + Icmp6Words(packet))
      BY <2>1, <2>5, <3>1 DEF Answers6
    <3>3. Verifies(Icmp6Words(received))
      BY <2>2, <2>5, <3>2 DEF Sound, Echo
    <3>4. QED
      BY <3>2, <3>3
  <2>6. PICK codes : codes = IF packet.quote = NoQuote /\ packet.len = received.len
                             THEN 256 * received.data.code ELSE 0
    OBVIOUS
  <2>7. packet.quote # NoQuote \/ ~Short(TRUE, received) => Verifies(codes + Icmp6Words(packet))
    <3>1. CASE packet.quote # NoQuote
      <4>1. codes = 0
        BY <2>6, <3>1
      <4>2. codes + Icmp6Words(packet) = Icmp6Words(packet)
        BY <2>3, <4>1
      <4>3. QED
        BY <2>4, <3>1, <4>2
    <3>2. CASE packet.quote = NoQuote /\ ~Short(TRUE, received)
      <4>1. codes = IF packet.len = received.len THEN 256 * received.data.code ELSE 0
        BY <2>6, <3>2
      <4>2. QED
        BY <2>5, <3>2, <4>1
    <3>3. QED
      BY <3>1, <3>2
  <2>8. (ipver = 6) = TRUE
    BY <1>2
  <2>9. ipver = 6
    BY <1>2
  <2>10. QED
    BY <2>6, <2>7, <2>8, <2>9 DEF ChecksumsVerify
<1>3. QED
  BY <1>1, <1>2 DEF IInv

\* A receiver accepts the checksums of every answer, whatever the packet, the hosts
\* and the addresses: those of a cut or quoting one, which are computed, and those
\* of an echo, which are updated, but for the code of a request that had one.
THEOREM AnswersVerify == Spec => []ChecksumsVerify
BY InductiveInvariant, ChecksumsInv, PTL

\* Who an answer written is from, and of what kind it is, in either family.
LEMMA WrittenAnswer ==
  ASSUME IInv, at = "write"
  PROVE  \E v6, chains, hop :
           /\ (ipver = 6) = v6 /\ chains = Chains /\ chains \in ChainArrays(v6)
           /\ received.ip.ttl \in Nat /\ received.ip.ttl # 0
           /\ hop = HostChainArray_find(v6, chains, received.ip.dst, received.ip.ttl)
           /\ hop # NoHost
           /\ Answer = <<hop.host.addr, KindOf(hop, received.ip.dst, received.ip.ttl)>>
<1>1. CASE ipver = 4
  <2>1. PICK b, hop :
          /\ b \in Packet /\ b.ip = received.ip
          /\ hop = HopFor(FALSE, v4_chains, received) /\ hop # NoHost
          /\ Answers4(hop.host, hop.index, b, packet)
    BY <1>1, Written4
  <2>2. v4_chains \in ChainArrays(FALSE) /\ received \in Packet
    BY <1>1, Written4 DEF Sound
  <2>3. hop.index \in Nat /\ received.ip.ttl \in Nat /\ ~(received.ip.ttl <= hop.index)
    <3>1. PICK p : p = received
      OBVIOUS
    <3>2. PICK chains : chains = v4_chains
      OBVIOUS
    <3>3. PICK v6 : v6 = FALSE
      OBVIOUS
    <3>4. chains \in ChainArrays(v6) /\ p \in Packet /\ hop = HopFor(v6, chains, p) /\ hop # NoHost
      BY <2>1, <2>2, <3>1, <3>2, <3>3
    <3>5. hop.index \in Nat /\ p.ip.ttl \in Nat /\ ~(p.ip.ttl <= hop.index)
      BY ONLY <3>4, HopWithinReach
    <3>6. QED
      BY <3>1, <3>5
  <2>4. received.ip.ttl # 0
    BY <2>3
  <2>5. /\ packet.ip.src = hop.host.addr
        /\ Kind4(packet) = KindOf(hop, received.ip.dst, received.ip.ttl)
    BY <2>1 DEF Answers4, KindOf
  <2>6. Answer = <<hop.host.addr, KindOf(hop, received.ip.dst, received.ip.ttl)>>
    BY <1>1, <2>5 DEF Answer
  <2>7. (ipver = 6) = FALSE /\ Chains = v4_chains
    BY <1>1 DEF Chains
  <2>8. hop = HostChainArray_find(FALSE, v4_chains, received.ip.dst, received.ip.ttl)
    BY <2>1 DEF HopFor
  <2>9. QED
    BY <2>1, <2>2, <2>3, <2>4, <2>6, <2>7, <2>8
<1>2. CASE ipver = 6
  <2>1. PICK b, hop :
          /\ b \in Packet /\ b.ip = received.ip
          /\ hop = HopFor(TRUE, v6_chains, received) /\ hop # NoHost
          /\ Answers6(hop.host, hop.index, b, packet)
    BY <1>2, Written6
  <2>2. v6_chains \in ChainArrays(TRUE) /\ received \in Packet
    BY <1>2, Written6 DEF Sound
  <2>3. hop.index \in Nat /\ received.ip.ttl \in Nat /\ ~(received.ip.ttl <= hop.index)
    <3>1. PICK p : p = received
      OBVIOUS
    <3>2. PICK chains : chains = v6_chains
      OBVIOUS
    <3>3. PICK v6 : v6 = TRUE
      OBVIOUS
    <3>4. chains \in ChainArrays(v6) /\ p \in Packet /\ hop = HopFor(v6, chains, p) /\ hop # NoHost
      BY <2>1, <2>2, <3>1, <3>2, <3>3
    <3>5. hop.index \in Nat /\ p.ip.ttl \in Nat /\ ~(p.ip.ttl <= hop.index)
      BY ONLY <3>4, HopWithinReach
    <3>6. QED
      BY <3>1, <3>5
  <2>4. received.ip.ttl # 0
    BY <2>3
  <2>5. /\ packet.ip.src = hop.host.addr
        /\ Kind6(packet) = KindOf(hop, received.ip.dst, received.ip.ttl)
    BY <2>1 DEF Answers6, KindOf
  <2>6. Answer = <<hop.host.addr, KindOf(hop, received.ip.dst, received.ip.ttl)>>
    BY <1>2, <2>5 DEF Answer
  <2>7. (ipver = 6) = TRUE /\ Chains = v6_chains
    BY <1>2 DEF Chains
  <2>8. hop = HostChainArray_find(TRUE, v6_chains, received.ip.dst, received.ip.ttl)
    BY <2>1 DEF HopFor
  <2>9. QED
    BY <2>1, <2>2, <2>3, <2>4, <2>6, <2>7, <2>8
<1>3. QED
  BY <1>1, <1>2 DEF IInv

\* The routes of a packet are the chains that match.
LEMMA RoutesMatch ==
  ASSUME NEW v6, (ipver = 6) = v6, NEW chains, chains = Chains
  PROVE  Routes = {chains[j] : j \in Matching(v6, chains, received.ip.dst)}
BY DEF Routes, Range, Matching

\* The only route of a packet, and the routes among which its target is.
LEMMA RoutesInv == IInv => PathFollowsRoute /\ TargetAnswers
<1> SUFFICES ASSUME IInv, at = "write" PROVE PathFollowsRoute /\ TargetAnswers
  BY DEF PathFollowsRoute, TargetAnswers
<1>1. PICK v6, chains, hop :
        /\ (ipver = 6) = v6 /\ chains = Chains /\ chains \in ChainArrays(v6)
        /\ received.ip.ttl \in Nat /\ received.ip.ttl # 0
        /\ hop = HostChainArray_find(v6, chains, received.ip.dst, received.ip.ttl)
        /\ hop # NoHost
        /\ Answer = <<hop.host.addr, KindOf(hop, received.ip.dst, received.ip.ttl)>>
  BY WrittenAnswer
<1>2. PICK dst : dst = received.ip.dst
  OBVIOUS
<1>3. PICK ttl : ttl = received.ip.ttl
  OBVIOUS
<1>4. Routes = {chains[j] : j \in Matching(v6, chains, dst)}
  BY <1>1, <1>2, RoutesMatch
<1>5. /\ chains \in ChainArrays(v6) /\ ttl \in Nat /\ ttl # 0
      /\ hop = HostChainArray_find(v6, chains, dst, ttl) /\ hop # NoHost
  BY <1>1, <1>2, <1>3
<1>6. ASSUME NEW c \in Routes, Routes = {c} PROVE Answer = Path(c, dst, ttl)
  <2>1. /\ Matching(v6, chains, dst) # {}
        /\ \A j \in Matching(v6, chains, dst) : chains[j] = c
    BY <1>4, <1>6
  <2>2. Path(c, dst, ttl) = <<hop.host.addr, KindOf(hop, dst, ttl)>>
    BY ONLY <1>5, <2>1, RouteEndsAtHop
  <2>3. QED
    BY <1>1, <1>2, <1>3, <2>2
<1>7. ASSUME \E c \in Routes : Path(c, dst, ttl)[2] = "target",
             \A c \in Routes : HostChain_nitem(c) > 0
      PROVE  Answer = <<dst, "target">>
  <2>1. ASSUME NEW j \in Matching(v6, chains, dst) PROVE HostChain_nitem(chains[j]) # 0
    <3>1. chains[j] \in Routes
      BY <1>4
    <3>2. QED
      BY <1>7, <3>1
  <2>2. \E j \in Matching(v6, chains, dst) : Path(chains[j], dst, ttl)[2] = "target"
    BY <1>4, <1>7
  <2>3. hop.host.addr = dst
    BY ONLY <1>5, <2>1, <2>2, TargetIsHop
  <2>4. QED
    BY <1>1, <1>2, <1>3, <2>3 DEF KindOf
<1>8. PathFollowsRoute
  BY <1>2, <1>3, <1>6 DEF PathFollowsRoute
<1>9. TargetAnswers
  BY <1>2, <1>3, <1>7 DEF TargetAnswers
<1>10. QED
  BY <1>8, <1>9

\* Where one chain matches, every answer is from the router at the distance of the
\* packet's TTL and of the kind that a path of that chain's routers would give.
THEOREM AnswersFollowRoutes == Spec => []PathFollowsRoute
BY InductiveInvariant, RoutesInv, PTL

\* Where chains overlap, a destination on any of them answers for itself.
THEOREM TargetsAnswer == Spec => []TargetAnswers
BY InductiveInvariant, RoutesInv, PTL

-----------------------------------------------------------------------------
(* The two families *)

\* The IPv6 twin of a packet: a ping where that is one, and the same otherwise.
LEMMA TwinFields ==
  ASSUME NEW p, p \in Packet, NEW q, q = AsIpv6(p)
  PROVE  /\ q \in Packet /\ q.quote = p.quote /\ q.len = p.len
         /\ q.ip.ttl = p.ip.ttl /\ q.ip.src = p.ip.src /\ q.ip.dst = p.ip.dst
         /\ q.ip.proto = IPPROTO_ICMPV6 <=> p.ip.proto = IPPROTO_ICMP
         /\ q.data.type = ICMP6_ECHO_REQUEST <=> p.data.type = ICMP_ECHO
<1>1. PICK proto : proto = CASE p.ip.proto = IPPROTO_ICMP -> IPPROTO_ICMPV6
                             [] p.ip.proto = IPPROTO_ICMPV6 -> IPPROTO_ICMP
                             [] OTHER -> p.ip.proto
  OBVIOUS
<1>2. PICK type : type = IF p.data.type = ICMP_ECHO THEN ICMP6_ECHO_REQUEST
                         ELSE ICMP6_ECHO_REPLY
  OBVIOUS
<1>3. proto = IPPROTO_ICMPV6 <=> p.ip.proto = IPPROTO_ICMP
  BY <1>1 DEF IPPROTO_ICMP, IPPROTO_ICMPV6
<1>4. type = ICMP6_ECHO_REQUEST <=> p.data.type = ICMP_ECHO
  BY <1>2 DEF ICMP6_ECHO_REQUEST, ICMP6_ECHO_REPLY
<1>5. proto \in Byte
  <2>1. p.ip.proto \in Byte
    BY DEF Packet, IpHeader
  <2>2. IPPROTO_ICMP \in Byte /\ IPPROTO_ICMPV6 \in Byte
    BY SMT, ByteBounds DEF IPPROTO_ICMP, IPPROTO_ICMPV6
  <2>3. proto \in {IPPROTO_ICMP, IPPROTO_ICMPV6, p.ip.proto}
    BY <1>1
  <2>4. QED
    BY <2>1, <2>2, <2>3
<1>6. type \in Byte
  <2>1. ICMP6_ECHO_REQUEST \in Byte /\ ICMP6_ECHO_REPLY \in Byte
    BY SMT, ByteBounds DEF ICMP6_ECHO_REQUEST, ICMP6_ECHO_REPLY
  <2>2. QED
    BY <1>2, <2>1
<1>7. PICK b : b = [p EXCEPT !.ip.proto = proto]
  OBVIOUS
<1>8. /\ b \in Packet /\ b.ip.proto = proto
      /\ b.len = p.len /\ b.data = p.data /\ b.quote = p.quote
      /\ b.ip.ttl = p.ip.ttl /\ b.ip.src = p.ip.src /\ b.ip.dst = p.ip.dst
  BY <1>5, <1>7, SetIpProto
<1>9. q = [b EXCEPT !.data.type = type]
  <2>1. q = [p EXCEPT !.ip.proto = proto, !.data.type = type]
    BY <1>1, <1>2 DEF AsIpv6
  <2>2. QED
    BY <1>7, <2>1
<1>10. /\ q \in Packet /\ q.data.type = type
       /\ q.len = b.len /\ q.ip = b.ip /\ q.quote = b.quote
  BY <1>6, <1>8, <1>9, SetDataType
<1>11. QED
  BY <1>3, <1>4, <1>8, <1>10

\* A host treats a packet and its twin alike.
LEMMA HostsAgree ==
  ASSUME NEW p, p \in Packet, p.quote = NoQuote, p.len > 0,
         NEW minmtu, minmtu \in Nat, minmtu >= 40,
         NEW self, self \in Hosts(minmtu), NEW ttl, ttl \in Nat,
         NEW r4, r4 = FakeHost_reply(self, ttl, p),
         NEW r6, r6 = FakeHost6_reply(self, ttl, AsIpv6(p))
  PROVE  Gist(r4, IF Answered(r4) THEN Kind4(r4.pkt) ELSE "none")
           = Gist(r6, IF Answered(r6) THEN Kind6(r6.pkt) ELSE "none")
<1>1. PICK q : q = AsIpv6(p)
  OBVIOUS
<1>2. /\ q \in Packet /\ q.quote = p.quote /\ q.len = p.len
      /\ q.ip.ttl = p.ip.ttl /\ q.ip.src = p.ip.src /\ q.ip.dst = p.ip.dst
      /\ q.ip.proto = IPPROTO_ICMPV6 <=> p.ip.proto = IPPROTO_ICMP
      /\ q.data.type = ICMP6_ECHO_REQUEST <=> p.data.type = ICMP_ECHO
  BY <1>1, TwinFields
<1>3. IF p.ip.ttl <= ttl THEN r4 = TooFar(p)
      ELSE IF self.addr = p.ip.dst /\ p.ip.proto = IPPROTO_ICMP /\ p.data.type # ICMP_ECHO
      THEN r4 = Ignored(p)
      ELSE r4.ret = 0 /\ Answers4(self, ttl, p, r4.pkt)
  <2>1. minmtu > 0
    OBVIOUS
  <2>2. QED
    BY <2>1, FakeHostReplies
<1>4. IF q.ip.ttl <= ttl THEN r6 = TooFar(q)
      ELSE IF /\ self.addr = q.ip.dst /\ q.ip.proto = IPPROTO_ICMPV6
              /\ q.data.type # ICMP6_ECHO_REQUEST
      THEN r6 = Ignored(q)
      ELSE r6.ret = 0 /\ Answers6(self, ttl, q, r6.pkt)
  <2>1. q \in Packet /\ q.quote = NoQuote /\ q.len > 0 /\ r6 = FakeHost6_reply(self, ttl, q)
    BY <1>1, <1>2
  <2>2. QED
    BY <2>1, FakeHost6Replies
<1>5. CASE p.ip.ttl <= ttl
  <2>1. /\ r4.ret = 1 /\ r4.pkt = p /\ r6.ret = 1 /\ r6.pkt = q
    BY <1>2, <1>3, <1>4, <1>5 DEF TooFar
  <2>2. QED
    BY <1>2, <2>1 DEF Gist, Answered
<1>6. CASE /\ ~(p.ip.ttl <= ttl)
           /\ self.addr = p.ip.dst /\ p.ip.proto = IPPROTO_ICMP /\ p.data.type # ICMP_ECHO
  <2>1. r4 = Ignored(p) /\ r6 = Ignored(q)
    BY <1>2, <1>3, <1>4, <1>6
  <2>2. /\ r4.ret = 0 /\ r4.pkt.len = 0 /\ r4.pkt.ip = p.ip
        /\ r6.ret = 0 /\ r6.pkt.len = 0 /\ r6.pkt.ip = q.ip
    BY <1>2, <2>1, IgnoredFields
  <2>3. QED
    BY <1>2, <2>2 DEF Gist, Answered
<1>7. CASE /\ ~(p.ip.ttl <= ttl)
           /\ ~(self.addr = p.ip.dst /\ p.ip.proto = IPPROTO_ICMP /\ p.data.type # ICMP_ECHO)
  <2>1. /\ r4.ret = 0 /\ Answers4(self, ttl, p, r4.pkt)
        /\ r6.ret = 0 /\ Answers6(self, ttl, q, r6.pkt)
    BY <1>2, <1>3, <1>4, <1>7
  <2>2. PICK kind : kind = IF self.addr = p.ip.dst THEN "target"
                           ELSE IF p.ip.ttl = ttl + 1 THEN "transit" ELSE "astray"
    OBVIOUS
  <2>3. /\ r4.pkt.len > 0 /\ r4.pkt.ip.src = self.addr /\ r4.pkt.ip.dst = p.ip.src
        /\ r4.pkt.ip.ttl = (self.ttl - ttl) % 256 /\ Kind4(r4.pkt) = kind
    BY <2>1, <2>2 DEF Answers4
  <2>4. /\ r6.pkt.len > 0 /\ r6.pkt.ip.src = self.addr /\ r6.pkt.ip.dst = p.ip.src
        /\ r6.pkt.ip.ttl = (self.ttl - ttl) % 256 /\ Kind6(r6.pkt) = kind
    BY <1>2, <2>1, <2>2 DEF Answers6
  <2>5. QED
    BY <2>1, <2>3, <2>4 DEF Gist, Answered
<1>8. QED
  BY <1>5, <1>6, <1>7

\* So do the hosts of every chain.
LEMMA FamiliesInv == IInv => FamiliesAgree
<1> SUFFICES ASSUME IInv, at = "reply", ipver = 4,
                    NEW c \in Range(v4_chains), NEW k \in DOMAIN c.hosts
             PROVE  LET r4 == FakeHost_reply(c.hosts[k], k - 1, packet)
                        r6 == FakeHost6_reply(c.hosts[k], k - 1, AsIpv6(packet))
                    IN  Gist(r4, IF Answered(r4) THEN Kind4(r4.pkt) ELSE "none")
                          = Gist(r6, IF Answered(r6) THEN Kind6(r6.pkt) ELSE "none")
  BY DEF FamiliesAgree
<1>1. Configured /\ received \in Packets(FALSE, v4_chains) /\ packet \in Buffers(FALSE, received)
  BY DEF IInv, TurnOf
<1>2. received \in Packet /\ received.quote = NoQuote /\ received.len > 0
  BY <1>1, Received4 DEF Sound
<1>3. packet \in Packet /\ packet.quote = NoQuote /\ packet.len > 0
  <2>1. packet \in Packet /\ packet.quote = NoQuote /\ packet.len = received.len
    BY ONLY <1>1, <1>2, BufferFields
  <2>2. QED
    BY <1>2, <2>1
<1>4. c.hosts[k] \in Hosts(576) /\ k - 1 \in Nat
  <2>1. v4_chains \in ChainArrays(FALSE) /\ MinMtu(FALSE) = 576
    BY <1>1, ConfiguredChains DEF MinMtu
  <2>2. c.hosts \in Seq(Hosts(576))
    <3>1. PICK j \in DOMAIN v4_chains : c = v4_chains[j]
      BY DEF Range
    <3>2. PICK v6 : v6 = FALSE
      OBVIOUS
    <3>3. PICK chains : chains = v4_chains
      OBVIOUS
    <3>4. chains \in ChainArrays(v6) /\ j \in DOMAIN chains
      BY <2>1, <3>1, <3>2, <3>3
    <3>5. chains[j].hosts \in Seq(Hosts(MinMtu(v6)))
      BY ONLY <3>4, ChainArraysHosts
    <3>6. QED
      BY <2>1, <3>1, <3>2, <3>3, <3>5
  <2>3. QED
    BY <2>2
<1>5. PICK p : p = packet
  OBVIOUS
<1>6. PICK self : self = c.hosts[k]
  OBVIOUS
<1>7. PICK ttl : ttl = k - 1
  OBVIOUS
<1>8. PICK minmtu : minmtu = 576
  OBVIOUS
<1>9. /\ p \in Packet /\ p.quote = NoQuote /\ p.len > 0
      /\ minmtu \in Nat /\ minmtu >= 40 /\ self \in Hosts(minmtu) /\ ttl \in Nat
  BY <1>3, <1>4, <1>5, <1>6, <1>7, <1>8
<1>10. PICK r4 : r4 = FakeHost_reply(self, ttl, p)
  OBVIOUS
<1>11. PICK r6 : r6 = FakeHost6_reply(self, ttl, AsIpv6(p))
  OBVIOUS
<1>12. Gist(r4, IF Answered(r4) THEN Kind4(r4.pkt) ELSE "none")
         = Gist(r6, IF Answered(r6) THEN Kind6(r6.pkt) ELSE "none")
  BY ONLY <1>9, <1>10, <1>11, HostsAgree
<1>13. QED
  BY <1>5, <1>6, <1>7, <1>10, <1>11, <1>12

\* FakeHost_reply and FakeHost6_reply, written twice, treat a packet and its IPv6
\* twin alike: at each host of a chain and at any distance.
THEOREM FamiliesReplyAlike == Spec => []FamiliesAgree
BY InductiveInvariant, FamiliesInv, PTL
=============================================================================
