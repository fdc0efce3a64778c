----------------------------- MODULE Responder -----------------------------
(***************************************************************************)
(* One turn of a worker's loop seen from a packet: it is read, dispatched  *)
(* on its IP version to HostChain4Array_reply or HostChain6Array_reply,    *)
(* and its answer is written (rdnstun.c:59-114, chain.c:326-357).  Workers *)
(* share only the chain arrays, which nobody writes, so one worker is all  *)
(* workers; Lifecycle is about how they start and stop.                    *)
(***************************************************************************)
EXTENDS ChainArray, Functions

CONSTANTS Configs,         \* the chain arrays that may be configured: <<IPv4, IPv6>>
          Packets(_, _),   \* Packets(v6, chains): what the kernel may route to the
                           \* tun device of a process with these chains
          Stale            \* what may lie in the buffer behind a short packet

\* A chain array that was never given is a null pointer.
NoChains == <<>>

NoPacket == <<>>

ASSUME ConfigsAssumption ==
  \A cfg \in Configs : cfg[1] \in ChainArrays(FALSE) /\ cfg[2] \in ChainArrays(TRUE)

\* A packet that ends within the 8 bytes behind its header.
Short(v6, p) == p.len < 8 + IF v6 THEN Ip6Size ELSE IpSize

\* What the code takes for the data of a packet with n of these bytes: the fields
\* that were read whole are the packet's, the others are what lay in the buffer (or
\* a mixture of both, which is one more thing that may lie there).
LeftOver(data, stale, n) ==
  [type  |-> IF n >= 1 THEN data.type ELSE stale.type,
   code  |-> IF n >= 2 THEN data.code ELSE stale.code,
   cksum |-> IF n >= 4 THEN data.cksum ELSE stale.cksum,
   un    |-> stale.un]

\* What the buffer may hold after a read.
Buffers(v6, p) ==
  IF Short(v6, p)
  THEN {[p EXCEPT !.data = LeftOver(@, stale, p.len - IF v6 THEN Ip6Size ELSE IpSize)] :
          stale \in Stale}
  ELSE {p}

Echo(v6, p) == p.ip.proto = (IF v6 THEN IPPROTO_ICMPV6 ELSE IPPROTO_ICMP)
                 /\ p.data.type = IF v6 THEN ICMP6_ECHO_REQUEST ELSE ICMP_ECHO

\* Received packets: the kernel has read as many bytes as the header announces,
\* and the sender of an echo request has set its checksum.
ASSUME PacketsAssumption ==
  /\ Stale \subseteq Data
  /\ \A cfg \in Configs, v6 \in BOOLEAN :
       \A p \in Packets(v6, IF v6 THEN cfg[2] ELSE cfg[1]) :
         /\ p \in Packet /\ p.quote = NoQuote
         /\ IF v6 THEN p.len = p.ip.len + Ip6Size ELSE p.len = p.ip.len /\ p.len >= IpSize
         /\ Echo(v6, p) /\ ~Short(v6, p) =>
              Verifies(IF v6 THEN Icmp6Words(p) ELSE IcmpWords(p))

VARIABLES v4_chains, v6_chains,
          at,        \* where the worker is: "read", "reply", "write" or "continue"
          ipver,     \* the IP version of the packet read
          received,  \* the packet as it was read
          packet,    \* the buffer it was read into
          ret        \* what came of it: 0, an error number or a name of the loop's

vars == <<v4_chains, v6_chains, at, ipver, received, packet, ret>>

Init ==
  /\ \E cfg \in Configs : v4_chains = cfg[1] /\ v6_chains = cfg[2]
  /\ at = "read"
  /\ ipver = 4
  /\ received = NoPacket
  /\ packet = NoPacket
  /\ ret = 0

Read ==
  /\ at = "read"
  /\ ipver' \in {4, 6}
  /\ received' \in Packets(ipver' = 6, IF ipver' = 6 THEN v6_chains ELSE v4_chains)
  /\ packet' \in Buffers(ipver' = 6, received')
  /\ at' = "reply"
  /\ ret' = 0
  /\ UNCHANGED <<v4_chains, v6_chains>>

-----------------------------------------------------------------------------
(* The answer *)

\* Anything but a reply to send ends the turn; the buffer is the turn's own.
Handled(r) ==
  /\ packet' = r.pkt
  /\ ret' = r.ret
  /\ at' = IF r.ret = 0 /\ r.pkt.len > 0 THEN "write" ELSE "continue"

Reply4 ==
  /\ at = "reply" /\ ipver = 4 /\ v4_chains # NoChains
  /\ Handled(HostChain4Array_reply(v4_chains, packet))
  /\ UNCHANGED <<v4_chains, v6_chains, ipver, received>>

Reply6 ==
  /\ at = "reply" /\ ipver = 6 /\ v6_chains # NoChains
  /\ Handled(HostChain6Array_reply(v6_chains, packet))
  /\ UNCHANGED <<v4_chains, v6_chains, ipver, received>>

\* No chains for a packet of this IP version.  (Of another version, which the kernel
\* does not route to the device, it would take the same way: "continue".)
UndefinedIpver ==
  /\ at = "reply"
  /\ (ipver = 4 /\ v4_chains = NoChains) \/ (ipver = 6 /\ v6_chains = NoChains)
  /\ at' = "continue"
  /\ UNCHANGED <<v4_chains, v6_chains, ipver, received, packet, ret>>

\* write(), which may fail, and the end of the turn.
Write ==
  /\ at \in {"write", "continue"}
  /\ at' = "read"
  /\ received' = NoPacket
  /\ packet' = NoPacket
  /\ ret' = 0
  /\ ipver' = 4
  /\ UNCHANGED <<v4_chains, v6_chains>>

Next == Read \/ Reply4 \/ Reply6 \/ UndefinedIpver \/ Write

Spec == Init /\ [][Next]_vars

-----------------------------------------------------------------------------
(* Properties *)

TypeOK ==
  /\ v4_chains \in ChainArrays(FALSE) /\ v6_chains \in ChainArrays(TRUE)
  /\ at \in {"read", "reply", "write", "continue"}
  /\ ipver \in {4, 6}
  /\ received \in {NoPacket} \cup Packet
  /\ packet \in {NoPacket} \cup Packet
  /\ ret \in {0, 17, 18, 19}

\* "Host TTL too small, this is a bug" (rdnstun.c:97-98): whatever the chains
\* overlap, the host found and its index belong together and within the TTL.
HostWithinReach == ret # 19

\* A receiver accepts every answer: the IPv4 header checksum and the ICMP or
\* ICMPv6 checksum are right, whether computed, updated from the request's or
\* computed over a packet cut to the MTU.  The one exception: an uncut answer to
\* an echo request whose code was not 0 is off by that code, which the update
\* forgets (host.c:93-97).
ChecksumsVerify ==
  at = "write" =>
    LET v6    == ipver = 6
        codes == IF packet.quote = NoQuote /\ packet.len = received.len
                 THEN 256 * received.data.code ELSE 0
    IN  /\ ~v6 => Verifies(IpWords(packet.ip) + packet.ip.sum)
        /\ packet.quote # NoQuote \/ ~Short(v6, received) =>
             Verifies(codes + IF v6 THEN Icmp6Words(packet) ELSE IcmpWords(packet))

\* The answer written over the packet still quotes it as it was received (but for
\* what a short packet never had), goes back to its sender, and announces as many
\* bytes as are written.
AnswerFitsPacket ==
  at = "write" =>
    /\ packet.quote # NoQuote =>
         /\ packet.quote.ip = received.ip
         /\ packet.quote.data \in {b.data : b \in Buffers(ipver = 6, received)}
    /\ packet.ip.dst = received.ip.src
    /\ packet.len = packet.ip.len + IF ipver = 4 THEN 0 ELSE Ip6Size

Chains == IF ipver = 4 THEN v4_chains ELSE v6_chains

\* The chains of a packet's route.
Routes == {c \in Range(Chains) : HostChain_in(ipver = 6, c, received.ip.dst)}

Answer == <<packet.ip.src, IF ipver = 4 THEN Kind4(packet) ELSE Kind6(packet)>>

\* Where only one chain matches, every answer is the one a path of its routers
\* would give: from the router at that distance, and of the kind that makes a
\* traceroute go on, end at the target or give up.
PathFollowsRoute ==
  at = "write" =>
    \A c \in Routes : Routes = {c} => Answer = Path(c, received.ip.dst, received.ip.ttl)

\* Where chains overlap, a destination that is a host of any of them, within the
\* TTL, answers for itself (unless an empty chain ends the search before it).
TargetAnswers ==
  /\ at = "write"
  /\ \E c \in Routes : Path(c, received.ip.dst, received.ip.ttl)[2] = "target"
  /\ \A c \in Routes : HostChain_nitem(c) > 0
  => Answer = <<received.ip.dst, "target">>

\* The IPv6 packet of the same kind as an IPv4 one.
AsIpv6(p) ==
  [p EXCEPT !.ip.proto = CASE @ = IPPROTO_ICMP -> IPPROTO_ICMPV6
                           [] @ = IPPROTO_ICMPV6 -> IPPROTO_ICMP
                           [] OTHER -> @,
            !.data.type = IF @ = ICMP_ECHO THEN ICMP6_ECHO_REQUEST ELSE ICMP6_ECHO_REPLY]

\* What a sender notices of an answer.
Gist(r, kind) ==
  [ret |-> r.ret, sent |-> r.pkt.len > 0, kind |-> kind,
   from |-> r.pkt.ip.src, to |-> r.pkt.ip.dst, ttl |-> r.pkt.ip.ttl]

Answered(r) == r.ret = 0 /\ r.pkt.len > 0

\* FakeHost_reply and FakeHost6_reply, written twice, behave alike: each host of
\* a chain, at each place in it, treats a packet and its IPv6 twin the same.
FamiliesAgree ==
  at = "reply" /\ ipver = 4 =>
    \A c \in Range(v4_chains) : \A k \in DOMAIN c.hosts :
      LET r4 == FakeHost_reply(c.hosts[k], k - 1, packet)
          r6 == FakeHost6_reply(c.hosts[k], k - 1, AsIpv6(packet))
      IN  Gist(r4, IF Answered(r4) THEN Kind4(r4.pkt) ELSE "none")
            = Gist(r6, IF Answered(r6) THEN Kind6(r6.pkt) ELSE "none")

\* The documented meaning of a route: a packet is answered by the hosts of the
\* most specific chain that matches it ("Route for this chain", rdnstun.c:145).
RouteDecides ==
  at = "write" =>
    \A c \in Routes : (\A d \in Routes \ {c} : d.prefix < c.prefix) =>
      Answer = Path(c, received.ip.dst, received.ip.ttl)
=============================================================================
