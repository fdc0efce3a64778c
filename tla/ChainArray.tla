----------------------------- MODULE ChainArray -----------------------------
(***************************************************************************)
(* How a packet is answered from a chain array: HostChain4Array_reply and  *)
(* HostChain6Array_reply (chain.c:326-357) find the host and let it reply. *)
(* After them, what the answers mean to who sent the packet.               *)
(***************************************************************************)
EXTENDS Chain, Host

\* The least MTU the parser lets pass.
MinMtu(v6) == IF v6 THEN 1280 ELSE 576

\* What is left of the options: chains in order.
ChainArrays(v6) ==
  {chains \in Seq([hosts : Seq(Hosts(MinMtu(v6))), network : Nat, prefix : 0 .. inet_size(v6)]) :
     HostChainArray_sorted(chains)}

Refused(n, p) == [ret |-> n, pkt |-> p]

\* Errors of a host are numbered after those of the chain.
Numbered(r) == IF r.ret > 0 THEN Refused(r.ret + 18, r.pkt) ELSE r

HostChain4Array_reply(chains, p) ==
  LET hop == HostChainArray_find(FALSE, chains, p.ip.dst, p.ip.ttl)
  IN  IF p.ip.ttl = 0 THEN Refused(18, p)
      ELSE IF hop = NoHost THEN Refused(17, p)
      ELSE Numbered(FakeHost_reply(hop.host, hop.index, p))

HostChain6Array_reply(chains, p) ==
  LET hop == HostChainArray_find(TRUE, chains, p.ip.dst, p.ip.ttl)
  IN  IF p.ip.ttl = 0 THEN Refused(18, p)
      ELSE IF hop = NoHost THEN Refused(17, p)
      ELSE Numbered(FakeHost6_reply(hop.host, hop.index, p))

-----------------------------------------------------------------------------
(* Routes and answers *)

\* What a chain stands for: routers in a row.  A packet reaches its destination
\* if a router has that address and the TTL reaches it; it expires at the router
\* where its TTL does; past the last router it is astray.
Path(c, dst, ttl) ==
  LET n   == HostChain_nitem(c)
  IN  IF \E i \in 1 .. n : i <= ttl /\ c.hosts[i].addr = dst THEN <<dst, "target">>
      ELSE IF ttl <= n THEN <<c.hosts[ttl].addr, "transit">>
      ELSE <<c.hosts[n].addr, "astray">>

\* The kind of an answer: a traceroute goes on after "transit", ends at "target"
\* and gives up at "astray".
Kind4(p) == CASE p.data.type = ICMP_TIMXCEED -> "transit"
              [] p.data.type = ICMP_UNREACH /\ p.data.code = ICMP_UNREACH_HOST -> "astray"
              [] p.data.type = ICMP_UNREACH /\ p.data.code = ICMP_UNREACH_PORT -> "target"
              [] p.data.type = ICMP_ECHOREPLY -> "target"
              [] OTHER -> "other"
Kind6(p) == CASE p.data.type = ICMP6_TIME_EXCEEDED -> "transit"
              [] p.data.type = ICMP6_DST_UNREACH /\ p.data.code = ICMP6_DST_UNREACH_ADDR -> "astray"
              [] p.data.type = ICMP6_DST_UNREACH /\ p.data.code = ICMP6_DST_UNREACH_NOPORT -> "target"
              [] p.data.type = ICMP6_ECHO_REPLY -> "target"
              [] OTHER -> "other"

\* The sums a receiver checks.  What follows an ICMP header is either the quote
\* of an error or the rest of an echo.
IcmpWords(p) ==
  DataWords(p.data) + IF p.quote = NoQuote THEN p.rest ELSE QuoteWords(p.quote)
Icmp6Words(p) ==
  PseudoWords(p.ip) + DataWords(p.data)
    + IF p.quote = NoQuote THEN p.rest ELSE Quote6Words(p.quote)
=============================================================================
