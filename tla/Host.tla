-------------------------------- MODULE Host --------------------------------
(***************************************************************************)
(* host.c: a fake host turns a received packet into its answer, in place.  *)
(* A packet is                                                             *)
(*   len    bytes read, then bytes to write;                               *)
(*   ip     its IP header: ttl, src, dst, proto, len (total length in      *)
(*          IPv4, payload length in IPv6), sum (IPv4's checksum), other    *)
(*          (the word sum of the fields nobody touches);                   *)
(*   data   the 8 bytes after the header, read as an ICMP header: type,    *)
(*          code, cksum, un (the word sum of the last four bytes);         *)
(*   quote  the header and 8 bytes quoted after data, in an ICMP error;    *)
(*   rest   the word sum of what else follows data;                        *)
(*   cut    the word sum of that part of rest which the MTU of the         *)
(*          answering host leaves.                                         *)
(* Packets carry at least 8 bytes after a header without options.          *)
(***************************************************************************)
EXTENDS Inet

CONSTANTS Addr,     \* the addresses of hosts and of packets
          AddrSum   \* the sum of the 16-bit words of an address

\* What n 16-bit words may sum to.
WordSums(n) == 0 .. 65535 * n

ASSUME AddrAssumption == Addr \subseteq Nat /\ AddrSum \in [Addr -> WordSums(8)]

NoQuote == <<>>

Byte == 0 .. 255
HalfWord == WordSums(1)

\* No packet is longer than 65535 bytes.
IpHeader == [ttl : Byte, src : Addr, dst : Addr, proto : Byte,
             len : HalfWord, sum : HalfWord, other : WordSums(3)]
Data == [type : Byte, code : Byte, cksum : HalfWord, un : WordSums(2)]
Quote == [ip : IpHeader, data : Data]
Packet == [len : HalfWord, ip : IpHeader, data : Data,
           quote : Quote \cup {NoQuote}, rest : WordSums(32768), cut : WordSums(32768)]

\* Hosts are what the parser lets pass, with MTUs no smaller than minmtu.
Hosts(minmtu) == [addr : Addr, ttl : Byte, mtu : minmtu .. 65535]

\* netinet/ip_icmp.h, icmp6.h and in.h
IPPROTO_ICMP == 1
IPPROTO_ICMPV6 == 58
ICMP_ECHO == 8
ICMP6_ECHO_REQUEST == 128
ICMP_ECHOREPLY == 0
ICMP6_ECHO_REPLY == 129
ICMP_TIMXCEED == 11
ICMP6_TIME_EXCEEDED == 3
ICMP_TIMXCEED_INTRANS == 0
ICMP6_TIME_EXCEED_TRANSIT == 0
ICMP_UNREACH == 3
ICMP6_DST_UNREACH == 1
ICMP_UNREACH_HOST == 1
ICMP6_DST_UNREACH_ADDR == 3
ICMP_UNREACH_PORT == 3
ICMP6_DST_UNREACH_NOPORT == 4

\* sizeof(struct ip), sizeof(struct ip6_hdr), and with an ICMP error after them
IpSize == 20
IpIcmpSize == 56
Ip6Size == 40
IpIcmp6Size == 96

\* A 16-bit field as a little-endian CPU reads it.
htons(n) == 256 * (n % 256) + n \div 256

\* Word sums of headers: the IPv4 one without its checksum, which counts as 0.
IpWords(ip) ==
  ip.other + htons(ip.len) + (ip.ttl + 256 * ip.proto) + AddrSum[ip.src] + AddrSum[ip.dst]
Ip6Words(ip) ==
  ip.other + htons(ip.len) + (ip.proto + 256 * ip.ttl) + AddrSum[ip.src] + AddrSum[ip.dst]
DataWords(d) == (d.type + 256 * d.code) + d.cksum + d.un

-----------------------------------------------------------------------------
(* What both families do *)

\* Mutants of cksum_update: the sum is not cut to 16 bits; the carry is lost.
cksum_update_uncut(cksum, change) ==
  (((cksum + change) \div 65536) % 65536) + ((cksum + change) % 65536)
cksum_update_uncarried(cksum, change) == (cksum + change) % 65536

\* The old checksum with the change of the first word added, folded once: the
\* sum is an unsigned 32-bit one and the result is stored in 16 bits.
cksum_update(cksum, change) ==
  ((((cksum + change) \div 65536) % 65536) + ((cksum + change) % 65536)) % 65536

\* Mutant of append: the ICMP header is written before the packet is quoted.
append_late(p, size, type, code) ==
  LET data == [type |-> type, code |-> code, cksum |-> 0, un |-> 0]
  IN  [p EXCEPT !.len = size, !.rest = 0, !.data = data,
                !.quote = [ip |-> p.ip, data |-> data]]

\* "append new header": the IP header and the first 8 bytes are copied behind
\* the place of the ICMP header before that is written over the 8 bytes.
append(p, size, type, code) ==
  LET copied == [p EXCEPT !.len = size, !.rest = 0,
                          !.quote = [ip |-> p.ip, data |-> p.data]]
  IN  [copied EXCEPT !.data = [type |-> type, code |-> code, cksum |-> 0, un |-> 0]]

\* Mutant of readdress: the source is overwritten before it is copied.
readdress_late(self, ttl, p) ==
  [p EXCEPT !.ip.ttl = (self.ttl - ttl) % 256, !.ip.dst = self.addr, !.ip.src = self.addr]

\* The answer goes back where the packet came from, with the hop limit of a
\* packet that has passed the hosts before this one.
readdress(self, ttl, p) ==
  [p EXCEPT !.ip.ttl = (self.ttl - ttl) % 256,
            !.ip.dst = p.ip.src,
            !.ip.src = self.addr]

Ignored(p) == [ret |-> 0, pkt |-> [p EXCEPT !.len = 0]]
TooFar(p)  == [ret |-> 1, pkt |-> p]

-----------------------------------------------------------------------------
(* IPv4 *)

QuoteWords(q) == IpWords(q.ip) + q.ip.sum + DataWords(q.data)

icmp_error(p, type, code) ==
  LET a == append(p, IpIcmpSize, type, code)
  IN  [a EXCEPT !.data.cksum = inet_cksum(DataWords(a.data) + QuoteWords(a.quote)),
                !.ip.proto = IPPROTO_ICMP,
                !.ip.len = IpIcmpSize]

\* An echo request longer than the host's MTU is answered cut to that MTU.
icmp_echo_reply(self, p) ==
  LET reply == [p EXCEPT !.data.type = ICMP_ECHOREPLY, !.data.code = 0]
      words == DataWords([reply.data EXCEPT !.cksum = 0])
  IN  IF p.len <= self.mtu
      THEN [reply EXCEPT !.data.cksum =
              cksum_update(p.data.cksum, ICMP_ECHO - ICMP_ECHOREPLY)]
      ELSE [reply EXCEPT !.len = self.mtu, !.ip.len = self.mtu, !.rest = p.cut,
                         !.data.cksum = inet_cksum(words + p.cut)]

FakeHost_reply(self, ttl, p) ==
  LET receive_ttl   == p.ip.ttl - ttl
      dst_is_target == self.addr = p.ip.dst
      ping          == p.ip.proto = IPPROTO_ICMP
      answer(r) ==
        LET a == readdress(self, ttl, r)
        IN  [ret |-> 0, pkt |-> [a EXCEPT !.ip.sum = inet_cksum_header(IpWords(a.ip))]]
  IN  CASE p.ip.ttl <= ttl -> TooFar(p)
        [] receive_ttl = 1 /\ ~dst_is_target ->
             answer(icmp_error(p, ICMP_TIMXCEED, ICMP_TIMXCEED_INTRANS))
        [] receive_ttl > 1 /\ ~dst_is_target ->
             answer(icmp_error(p, ICMP_UNREACH, ICMP_UNREACH_HOST))
        [] receive_ttl > 0 /\ dst_is_target /\ ~ping ->
             answer(icmp_error(p, ICMP_UNREACH, ICMP_UNREACH_PORT))
        [] receive_ttl > 0 /\ dst_is_target /\ ping /\ p.data.type = ICMP_ECHO ->
             answer(icmp_echo_reply(self, p))
        [] OTHER -> Ignored(p)

-----------------------------------------------------------------------------
(* IPv6.  The checksum covers the addresses, so it is computed last, unless it *)
(* was updated: swapping source and destination does not change the sum.       *)

PseudoWords(ip) ==
  AddrSum[ip.src] + AddrSum[ip.dst] + htons(ip.len) + htons(ip.proto)

Quote6Words(q) == Ip6Words(q.ip) + DataWords(q.data)

\* Mutant of icmp6_error: the code is left 0.
icmp6_error_uncoded(p, type, code) ==
  [append(p, IpIcmp6Size, type, 0) EXCEPT !.ip.len = IpIcmp6Size - Ip6Size,
                                         !.ip.proto = IPPROTO_ICMPV6]

icmp6_error(p, type, code) ==
  [append(p, IpIcmp6Size, type, code) EXCEPT !.ip.len = IpIcmp6Size - Ip6Size,
                                            !.ip.proto = IPPROTO_ICMPV6]

icmp6_cut(self, p) ==
  [p EXCEPT !.len = self.mtu, !.ip.len = self.mtu - Ip6Size, !.rest = p.cut,
            !.data.type = ICMP6_ECHO_REPLY, !.data.code = 0]

FakeHost6_reply(self, ttl, p) ==
  LET receive_ttl   == p.ip.ttl - ttl
      dst_is_target == self.addr = p.ip.dst
      ping          == p.ip.proto = IPPROTO_ICMPV6
      checksum_ok(r) == [ret |-> 0, pkt |-> readdress(self, ttl, r)]
      answer(r) ==
        LET a     == [readdress(self, ttl, r) EXCEPT !.data.cksum = 0]
            quote == IF a.quote = NoQuote THEN a.rest ELSE Quote6Words(a.quote)
            sum   == inet_cksum_continue(PseudoWords(a.ip), DataWords(a.data) + quote)
        IN  [ret |-> 0, pkt |-> [a EXCEPT !.data.cksum = inet_cksum_finish(sum)]]
  IN  CASE p.ip.ttl <= ttl -> TooFar(p)
        [] receive_ttl = 1 /\ ~dst_is_target ->
             answer(icmp6_error(p, ICMP6_TIME_EXCEEDED, ICMP6_TIME_EXCEED_TRANSIT))
        [] receive_ttl > 1 /\ ~dst_is_target ->
             answer(icmp6_error(p, ICMP6_DST_UNREACH, ICMP6_DST_UNREACH_ADDR))
        [] receive_ttl > 0 /\ dst_is_target /\ ~ping ->
             answer(icmp6_error(p, ICMP6_DST_UNREACH, ICMP6_DST_UNREACH_NOPORT))
        [] receive_ttl > 0 /\ dst_is_target /\ ping /\ p.data.type = ICMP6_ECHO_REQUEST ->
             IF p.len <= self.mtu
             THEN checksum_ok([p EXCEPT
                    !.data.type = ICMP6_ECHO_REPLY, !.data.code = 0,
                    !.data.cksum = cksum_update(p.data.cksum,
                                                ICMP6_ECHO_REQUEST - ICMP6_ECHO_REPLY)])
             ELSE answer(icmp6_cut(self, p))
        [] OTHER -> Ignored(p)
=============================================================================
