---------------------------- MODULE MCResponder ----------------------------
(***************************************************************************)
(* Instances of Responder for TLC.  IPv4 addresses have two bits, so that  *)
(* all routes and all overlaps occur; IPv6 ones have eight, of which the   *)
(* first two vary.                                                         *)
(***************************************************************************)
EXTENDS Responder

MCAddr == 0 .. 255
MCAddrSum == [a \in MCAddr |-> 257 * a]

\* The IPv6 address for a small number.
Wide(x) == 64 * x

Host(x, mtu) == [addr |-> x, ttl |-> 9, mtu |-> mtu]

ToHosts(addrs, six) ==
  [k \in DOMAIN addrs |-> Host(IF six THEN Wide(addrs[k]) ELSE addrs[k], 1500)]

\* Bound: three hosts a chain, among them a repeated one and a null address in
\* the middle and at the start.
Lists == {<<2>>, <<3>>, <<1, 2>>, <<3, 1>>, <<3, 2, 1>>, <<2, 2, 3>>,
          <<1, 0, 3>>, <<0, 1>>}

RouteSet == {<<n, p>> \in (0 .. 3) \X (0 .. 2) : n % (2 ^ (2 - p)) = 0}

Chain(addrs, route, six) ==
  [hosts |-> ToHosts(addrs, six), prefix |-> route[2],
   network |-> IF six THEN Wide(route[1]) ELSE route[1]]

AllChains(lists, six) == {Chain(l, r, six) : l \in lists, r \in RouteSet}

Sorted(arrays) == {a \in arrays : HostChainArray_sorted(a)}

\* Bound: two chains an array, the second one of a few, and some of three.
Arrays(six) ==
  {<<c>> : c \in AllChains(Lists, six)}
    \cup Sorted({<<c, d>> : c \in AllChains(Lists, six),
                          d \in AllChains({<<1, 2>>, <<3, 1>>, <<2>>}, six)})
    \cup Sorted({<<c, d, e>> : c \in AllChains({<<3>>, <<0>>}, six),
                             d \in AllChains({<<2, 1>>}, six),
                             e \in AllChains({<<1, 3>>}, six)})

PathConfigs == {<<a, NoChains>> : a \in Arrays(FALSE)} \cup {<<NoChains, a>> : a \in Arrays(TRUE)}

-----------------------------------------------------------------------------
(* Packets.  The word sum un is chosen last, so that the checksum of an echo *)
(* request verifies with the checksum field it is given.                     *)

Ip(six, ttl, src, dst, proto, len) ==
  [ttl |-> ttl, src |-> src, dst |-> dst, proto |-> proto, len |-> len,
   sum |-> 0, other |-> 69]

Verified(p, six) ==
  LET blank == [p EXCEPT !.data.un = 0]
      sum   == IF six THEN Icmp6Words(blank) ELSE IcmpWords(blank)
  IN  [blank EXCEPT !.data.un = 65535 - (sum % 65535)]

Ping(six, ttl, dst, len, cksum, rest) ==
  Verified([len |-> len, quote |-> NoQuote, rest |-> rest, cut |-> rest \div 2,
            ip |-> Ip(six, ttl, IF six THEN Wide(3) + 1 ELSE 7, dst,
                      IF six THEN IPPROTO_ICMPV6 ELSE IPPROTO_ICMP,
                      IF six THEN len - Ip6Size ELSE len),
            data |-> [type |-> IF six THEN ICMP6_ECHO_REQUEST ELSE ICMP_ECHO,
                      code |-> 0, cksum |-> cksum, un |-> 0]], six)

\* An echo request with a code, and packets of no more than a few bytes of data.
Coded(six, p, code) == Verified([p EXCEPT !.data.code = code], six)
Stub(six, ttl, dst, proto, bytes) ==
  LET len == bytes + IF six THEN Ip6Size ELSE IpSize
  IN  [Ping(six, ttl, dst, len, 0, 0) EXCEPT !.ip.proto = proto]
MCStale == {[type |-> ICMP_ECHO, code |-> 0, cksum |-> 9, un |-> 70000],
            [type |-> ICMP6_ECHO_REQUEST, code |-> 1, cksum |-> 65535, un |-> 3]}

\* A UDP probe and an ICMP message that is not an echo request, as they come.
Udp(six, ttl, dst) == [Ping(six, ttl, dst, 60, 5, 9) EXCEPT !.ip.proto = 17]
Pong(six, ttl, dst) ==
  [Ping(six, ttl, dst, 84, 5, 9) EXCEPT
     !.data.type = IF six THEN ICMP6_ECHO_REPLY ELSE ICMP_ECHOREPLY]

\* Bound: TTLs up to one more than the longest chain.
PathPackets(six) ==
  LET dsts == IF six THEN {Wide(x) : x \in 1 .. 3} ELSE 1 .. 3
  IN  UNION {{Ping(six, t, d, 84, 5, 9), Udp(six, t, d), Pong(six, t, d)} :
               t \in 0 .. 4, d \in dsts}

\* Checksums at which the update or a fold carries, sums at which a fold does,
\* and lengths around the MTUs.
SumConfigs ==
  {<<<<[hosts |-> <<Host(3, 1500), Host(2, 1400), Host(1, 576)>>, network |-> 0, prefix |-> 0]>>,
     <<[hosts |-> <<Host(Wide(3), 1500), Host(Wide(2), 1400), Host(Wide(1), 1280)>>,
        network |-> 0, prefix |-> 0]>>>>}
Cksums == {0, 1, 2, 7, 8, 9, 32767, 65526, 65527, 65528, 65534, 65535}
Rests == {0, 1, 65535, 65536, 131070, 1000000}
Lens(six) == {100, IF six THEN 1280 ELSE 576, IF six THEN 1281 ELSE 577, 1400, 1401, 1500}
SumPackets(six) ==
  LET dsts == IF six THEN {Wide(x) : x \in 1 .. 3} ELSE 1 .. 3
  IN  {Ping(six, t, d, l, c, r) : t \in {2, 3}, d \in dsts, l \in Lens(six), c \in Cksums, r \in Rests}
        \cup {Coded(six, Ping(six, 3, d, l, c, 5), code) :
                 d \in dsts, l \in {100, 1500}, c \in Cksums, code \in {1, 255}}
        \cup {Udp(six, t, d) : t \in 1 .. 4, d \in dsts}
        \cup {Stub(six, t, d, p, n) : t \in 1 .. 4, d \in dsts, n \in {0, 1, 4},
                                      p \in {17, IF six THEN IPPROTO_ICMPV6 ELSE IPPROTO_ICMP}}

\* The chains of SumConfigs are those with other MTUs than 1500.
MCConfigs == PathConfigs \cup SumConfigs
MCPackets(six, chains) ==
  IF \E c \in Range(chains) : \E h \in Range(c.hosts) : h.mtu # 1500
  THEN SumPackets(six) ELSE PathPackets(six)
=============================================================================
