-------------------------- MODULE TracerouteProofs --------------------------
(***************************************************************************)
(* Workers that share the chains and nothing else answer as if each were   *)
(* alone, and what a trace shows through them is the path of the chain: for *)
(* any number of workers and hops, and any chains.                         *)
(***************************************************************************)
EXTENDS Traceroute, ChainArrayProofs

-----------------------------------------------------------------------------
(* W(k) is an instance of Responder, and so has the functions of inet.c,     *)
(* chain.c and host.c once more.  They are the same functions.               *)

LEMMA SameCksum ==
  ASSUME NEW k, NEW x
  PROVE  W(k)!inet_cksum(x) = inet_cksum(x)
BY SMT DEF inet_cksum, W!inet_cksum, inet_cksum_finish, W!inet_cksum_finish,
           inet_cksum_continue, W!inet_cksum_continue

LEMMA SameCksumHeader ==
  ASSUME NEW k, NEW x
  PROVE  W(k)!inet_cksum_header(x) = inet_cksum_header(x)
BY SMT DEF inet_cksum_header, W!inet_cksum_header, inet_cksum_finish, W!inet_cksum_finish,
           inet_cksum_continue, W!inet_cksum_continue

LEMMA SameWords ==
  ASSUME NEW k, NEW x
  PROVE  /\ W(k)!IpWords(x) = IpWords(x) /\ W(k)!DataWords(x) = DataWords(x)
         /\ W(k)!QuoteWords(x) = QuoteWords(x)
BY SMT DEF IpWords, W!IpWords, htons, W!htons, DataWords, W!DataWords, QuoteWords, W!QuoteWords

LEMMA SameUpdate ==
  ASSUME NEW k, NEW x, NEW change
  PROVE  W(k)!cksum_update(x, change) = cksum_update(x, change)
BY SMT DEF cksum_update, W!cksum_update

\* The lookup of a host.
LEMMA SameHop ==
  ASSUME NEW k, NEW c, NEW dst, NEW ttl
  PROVE  W(k)!HostChain_find(c, dst, ttl) = HostChain_find(c, dst, ttl)
BY ZenonT(40) DEF HostChain_find, W!HostChain_find, FindAmong, W!FindAmong, Reach, W!Reach,
             HostChain_nitem, W!HostChain_nitem, NoHost, W!NoHost, Null, W!Null

\* The last of a set of indices.
LastOf(S) == CHOOSE j \in S : \A i \in S : i <= j

LEMMA SameFind ==
  ASSUME NEW k, NEW chains, NEW dst, NEW ttl
  PROVE  /\ W(k)!HostChainArray_find(FALSE, chains, dst, ttl)
              = HostChainArray_find(FALSE, chains, dst, ttl)
         /\ W(k)!NoHost = NoHost
<1> DEFINE find(j)  == HostChain_find(chains[j], dst, ttl)
           matching == {j \in DOMAIN chains : HostChain_in(FALSE, chains[j], dst)}
           tried    == {j \in matching : \A i \in matching :
                          i < j => find(i) # NoHost /\ ~find(i).found}
           hosts    == {j \in tried : find(j) # NoHost}
           wfind(j) == W(k)!HostChain_find(chains[j], dst, ttl)
           wmatch   == {j \in DOMAIN chains : W(k)!HostChain_in(FALSE, chains[j], dst)}
           wtried   == {j \in wmatch : \A i \in wmatch :
                          i < j => wfind(i) # W(k)!NoHost /\ ~wfind(i).found}
           whosts   == {j \in wtried : wfind(j) # W(k)!NoHost}
<1>1. wmatch = matching
  BY Zenon DEF HostChain_in, W!HostChain_in, membcmpEq, W!membcmpEq, Unit, W!Unit,
               inet_size, W!inet_size
<1>2. W(k)!NoHost = NoHost
  BY DEF NoHost, W!NoHost, Null, W!Null
<1>3. wtried = tried
  <2> HIDE DEF matching, wmatch
  <2>1. QED
    BY Zenon, <1>1, <1>2, SameHop
<1>4. whosts = hosts
  <2> HIDE DEF tried, wtried
  <2>1. QED
    BY Zenon, <1>2, <1>3, SameHop
<1>5. W(k)!HostChainArray_find(FALSE, chains, dst, ttl)
        = IF whosts = {} THEN W(k)!NoHost ELSE wfind(LastOf(whosts))
  BY Zenon DEF W!HostChainArray_find, LastOf
<1>6. HostChainArray_find(FALSE, chains, dst, ttl)
        = IF hosts = {} THEN NoHost ELSE find(LastOf(hosts))
  BY Zenon DEF HostChainArray_find, LastOf
<1> HIDE DEF hosts, whosts
<1>7. QED
  BY Zenon, <1>2, <1>4, <1>5, <1>6, SameHop

\* The answer of a host: what it makes of a packet, by the cases of FakeHost_reply.
Outcomes(p, ttl, near, tooFar, transit, astray, closed, echo, ignored) ==
  CASE p.ip.ttl <= ttl -> tooFar
    [] p.ip.ttl - ttl = 1 /\ ~near -> transit
    [] p.ip.ttl - ttl > 1 /\ ~near -> astray
    [] p.ip.ttl - ttl > 0 /\ near /\ ~(p.ip.proto = IPPROTO_ICMP) -> closed
    [] p.ip.ttl - ttl > 0 /\ near /\ (p.ip.proto = IPPROTO_ICMP) /\ p.data.type = ICMP_ECHO -> echo
    [] OTHER -> ignored

Sent(self, ttl, r) == [ret |-> 0, pkt |-> Signed(readdress(self, ttl, r))]

LEMMA SameSent ==
  ASSUME NEW k, NEW self, NEW ttl, NEW r
  PROVE  LET a == W(k)!readdress(self, ttl, r)
         IN  [ret |-> 0, pkt |-> [a EXCEPT !.ip.sum = W(k)!inet_cksum_header(W(k)!IpWords(a.ip))]]
               = Sent(self, ttl, r)
<1>1. PICK a : a = readdress(self, ttl, r)
  OBVIOUS
<1>2. W(k)!readdress(self, ttl, r) = a
  BY <1>1 DEF readdress, W!readdress
<1>3. W(k)!inet_cksum_header(W(k)!IpWords(a.ip)) = inet_cksum_header(IpWords(a.ip))
  BY Zenon, SameWords, SameCksumHeader
<1>4. QED
  BY <1>1, <1>2, <1>3 DEF Sent, Signed

LEMMA SameErrors ==
  ASSUME NEW k, NEW self, NEW p, NEW type, NEW code
  PROVE  /\ W(k)!icmp_error(p, type, code) = icmp_error(p, type, code)
         /\ W(k)!icmp_echo_reply(self, p) = icmp_echo_reply(self, p)
<1>1. W(k)!icmp_error(p, type, code) = icmp_error(p, type, code)
  BY Zenon, SameCksum, SameWords DEF icmp_error, W!icmp_error, append, W!append,
     IpIcmpSize, W!IpIcmpSize, IPPROTO_ICMP, W!IPPROTO_ICMP
<1>2. W(k)!icmp_echo_reply(self, p) = icmp_echo_reply(self, p)
  BY Zenon, SameCksum, SameWords, SameUpdate DEF icmp_echo_reply, W!icmp_echo_reply,
     ICMP_ECHOREPLY, W!ICMP_ECHOREPLY, ICMP_ECHO, W!ICMP_ECHO
<1>3. QED
  BY <1>1, <1>2

LEMMA SameHost ==
  ASSUME NEW k, NEW self, NEW ttl, NEW p
  PROVE  W(k)!FakeHost_reply(self, ttl, p) = FakeHost_reply(self, ttl, p)
<1> DEFINE near == self.addr = p.ip.dst
           wsent(r) == LET a == W(k)!readdress(self, ttl, r)
                       IN  [ret |-> 0,
                            pkt |-> [a EXCEPT !.ip.sum = W(k)!inet_cksum_header(W(k)!IpWords(a.ip))]]
<1>1. FakeHost_reply(self, ttl, p)
        = Outcomes(p, ttl, near, TooFar(p),
                   Sent(self, ttl, icmp_error(p, 11, 0)), Sent(self, ttl, icmp_error(p, 3, 1)),
                   Sent(self, ttl, icmp_error(p, 3, 3)), Sent(self, ttl, icmp_echo_reply(self, p)),
                   Ignored(p))
  BY DEF FakeHost_reply, Outcomes, Sent, Signed, IPPROTO_ICMP, ICMP_ECHO, ICMP_TIMXCEED,
         ICMP_TIMXCEED_INTRANS, ICMP_UNREACH, ICMP_UNREACH_HOST, ICMP_UNREACH_PORT
<1>2. W(k)!FakeHost_reply(self, ttl, p)
        = Outcomes(p, ttl, near, W(k)!TooFar(p),
                   wsent(W(k)!icmp_error(p, 11, 0)), wsent(W(k)!icmp_error(p, 3, 1)),
                   wsent(W(k)!icmp_error(p, 3, 3)), wsent(W(k)!icmp_echo_reply(self, p)),
                   W(k)!Ignored(p))
  BY DEF W!FakeHost_reply, Outcomes, IPPROTO_ICMP, ICMP_ECHO, W!IPPROTO_ICMP, W!ICMP_ECHO,
         W!ICMP_TIMXCEED, W!ICMP_TIMXCEED_INTRANS, W!ICMP_UNREACH, W!ICMP_UNREACH_HOST,
         W!ICMP_UNREACH_PORT
<1>3. ASSUME NEW r PROVE wsent(r) = Sent(self, ttl, r)
  BY SameSent
<1>4. W(k)!TooFar(p) = TooFar(p) /\ W(k)!Ignored(p) = Ignored(p)
  BY DEF TooFar, W!TooFar, Ignored, W!Ignored
<1>5. /\ wsent(W(k)!icmp_error(p, 11, 0)) = Sent(self, ttl, icmp_error(p, 11, 0))
      /\ wsent(W(k)!icmp_error(p, 3, 1)) = Sent(self, ttl, icmp_error(p, 3, 1))
      /\ wsent(W(k)!icmp_error(p, 3, 3)) = Sent(self, ttl, icmp_error(p, 3, 3))
      /\ wsent(W(k)!icmp_echo_reply(self, p)) = Sent(self, ttl, icmp_echo_reply(self, p))
  <2> HIDE DEF wsent
  <2>1. /\ W(k)!icmp_error(p, 11, 0) = icmp_error(p, 11, 0)
        /\ W(k)!icmp_error(p, 3, 1) = icmp_error(p, 3, 1)
        /\ W(k)!icmp_error(p, 3, 3) = icmp_error(p, 3, 3)
        /\ W(k)!icmp_echo_reply(self, p) = icmp_echo_reply(self, p)
    BY ZenonT(40), SameErrors
  <2>2. QED
    BY Zenon, <1>3, <2>1
<1> HIDE DEF wsent, near
<1>6. QED
  BY Zenon, <1>1, <1>2, <1>4, <1>5

\* The answer from a chain array.
LEMMA SameReply ==
  ASSUME NEW k, NEW chains, NEW p
  PROVE  W(k)!HostChain4Array_reply(chains, p) = HostChain4Array_reply(chains, p)
<1>1. ASSUME NEW r PROVE W(k)!Numbered(r) = Numbered(r)
  BY DEF Numbered, W!Numbered, Refused, W!Refused
<1>2. ASSUME NEW n PROVE W(k)!Refused(n, p) = Refused(n, p)
  BY DEF Refused, W!Refused
<1>3. PICK hop : hop = HostChainArray_find(FALSE, chains, p.ip.dst, p.ip.ttl)
  OBVIOUS
<1>4. HostChain4Array_reply(chains, p)
        = IF p.ip.ttl = 0 THEN Refused(18, p)
          ELSE IF hop = NoHost THEN Refused(17, p)
          ELSE Numbered(FakeHost_reply(hop.host, hop.index, p))
  BY <1>3 DEF HostChain4Array_reply
<1>5. W(k)!HostChain4Array_reply(chains, p)
        = IF p.ip.ttl = 0 THEN W(k)!Refused(18, p)
          ELSE IF hop = W(k)!NoHost THEN W(k)!Refused(17, p)
          ELSE W(k)!Numbered(W(k)!FakeHost_reply(hop.host, hop.index, p))
  <2>1. W(k)!HostChainArray_find(FALSE, chains, p.ip.dst, p.ip.ttl) = hop
    BY <1>3, SameFind
  <2>2. QED
    BY <2>1 DEF W!HostChain4Array_reply
<1>6. W(k)!NoHost = NoHost
  BY SameFind
<1>7. PICK f : f = FakeHost_reply(hop.host, hop.index, p)
  OBVIOUS
<1>8. W(k)!FakeHost_reply(hop.host, hop.index, p) = f
  BY <1>7, SameHost
<1>9. W(k)!Numbered(f) = Numbered(f) /\ W(k)!Refused(17, p) = Refused(17, p)
      /\ W(k)!Refused(18, p) = Refused(18, p)
  BY <1>1, <1>2
<1>10. QED
  BY <1>4, <1>5, <1>6, <1>7, <1>8, <1>9
-----------------------------------------------------------------------------
(* The path a trace should show *)

\* What the assumption says of a trace.
LEMMA TraceFields ==
  ASSUME NEW t \in Traces, NEW h \in Hops
  PROVE  /\ h \in Nat /\ 1 <= h /\ h <= 255
         /\ Client \in Addr /\ t.dst \in Addr /\ t.echo \in BOOLEAN
<1>1. h \in 1 .. 255 /\ Client \in Addr
  BY Zenon, TracerouteAssumption
<1>2. t \in [dst : Addr \ {Client}, echo : BOOLEAN]
  BY Zenon, TracerouteAssumption
<1>3. h \in Nat /\ 1 <= h /\ h <= 255
  BY SMT, <1>1
<1>4. QED
  BY <1>1, <1>2, <1>3

\* The chain arrays are what the parser lets pass.
LEMMA ArraysAreChains ==
  ASSUME NEW chains \in Arrays
  PROVE  chains \in ChainArrays(FALSE)
BY Zenon, TracerouteAssumption

\* The only chain that matches the destination of a trace is the one its path is of.
LEMMA PathOfRoute ==
  ASSUME NEW chains \in Arrays, NEW t \in Traces, NEW h \in Hops
  PROVE  \E c : /\ Matching(FALSE, chains, t.dst) # {}
                /\ \A j \in Matching(FALSE, chains, t.dst) : chains[j] = c
                /\ PathOf(chains, t)[h] = Path(c, t.dst, h)
<1>1. PICK c \in Range(chains) : {d \in Range(chains) : HostChain_in(FALSE, d, t.dst)} = {c}
  BY TracerouteAssumption
<1>2. Matching(FALSE, chains, t.dst) # {}
  <2>1. HostChain_in(FALSE, c, t.dst)
    BY <1>1
  <2>2. PICK j \in DOMAIN chains : chains[j] = c
    BY <1>1 DEF Range
  <2>3. QED
    BY <2>1, <2>2 DEF Matching
<1>3. ASSUME NEW j \in Matching(FALSE, chains, t.dst) PROVE chains[j] = c
  <2>1. chains[j] \in Range(chains) /\ HostChain_in(FALSE, chains[j], t.dst)
    BY DEF Matching, Range
  <2>2. QED
    BY <1>1, <2>1
<1>4. PathOf(chains, t)[h] = Path(c, t.dst, h)
  <2> DEFINE p == CHOOSE p \in Paths : <<p[1], p[2], p[3]>> = <<chains, t, h>>
             routes(a, s) == {d \in Range(a) : HostChain_in(FALSE, d, s.dst)}
             paths(a, s) == {<<a, s, i, Path(d, s.dst, i)>> : i \in Hops, d \in routes(a, s)}
  <2>1. Paths = UNION {paths(a, s) : a \in Arrays, s \in Traces}
    BY DEF Paths
  <2>2. c \in routes(chains, t)
    BY <1>1
  <2> HIDE DEF routes
  <2>3. <<chains, t, h, Path(c, t.dst, h)>> \in paths(chains, t)
    BY <2>2
  <2>4. PICK q : q = <<chains, t, h, Path(c, t.dst, h)>>
    OBVIOUS
  <2>5. q \in Paths /\ <<q[1], q[2], q[3]>> = <<chains, t, h>>
    <3> HIDE DEF paths
    <3>1. q \in Paths
      BY <2>1, <2>3, <2>4
    <3>2. QED
      BY <2>4, <3>1
  <2>6. p \in Paths /\ <<p[1], p[2], p[3]>> = <<chains, t, h>>
    BY Zenon, <2>5
  <2> HIDE DEF p
  <2>7. PICK a \in Arrays, s \in Traces : p \in paths(a, s)
    <3> HIDE DEF paths
    <3>1. QED
      BY <2>1, <2>6
  <2>8. PICK i \in Hops, d \in routes(a, s) : p = <<a, s, i, Path(d, s.dst, i)>>
    BY <2>7
  <2>9. a = chains /\ s = t /\ i = h
    BY <2>6, <2>8
  <2>10. d = c
    BY <1>1, <2>8, <2>9 DEF routes
  <2>11. p[4] = Path(c, t.dst, h)
    BY <2>8, <2>9, <2>10
  <2>12. PathOf(chains, t)[h] = p[4]
    BY DEF PathOf, p
  <2>13. QED
    BY <2>11, <2>12
<1>5. QED
  BY <1>2, <1>3, <1>4
-----------------------------------------------------------------------------
(* A probe and what comes of it *)

\* The checksum of an echo request verifies.
LEMMA EchoDataVerifies ==
  ASSUME NEW h, h \in Nat, h <= 255, NEW d, d = EchoData(h)
  PROVE  d \in Data /\ Verifies(DataWords(d)) /\ d.type = ICMP_ECHO /\ d.code = 0 /\ d.un = h
<1>1. PICK e : e = [type |-> 8, code |-> 0, cksum |-> 0, un |-> h]
  OBVIOUS
<1>2. PICK c : c = inet_cksum(DataWords(e))
  OBVIOUS
<1>3. d = [e EXCEPT !.cksum = c]
  BY <1>1, <1>2 DEF EchoData, ICMP_ECHO
<1>4. DataWords(e) = 8 + h
  BY <1>1 DEF DataWords
<1>5. c = inet_cksum_finish(8 + h)
  BY <1>2, <1>4 DEF inet_cksum, inet_cksum_continue
<1>6. c \in HalfWord /\ Verifies(8 + h + c)
  BY <1>5, FinishVerifies
<1>7. d = [type |-> 8, code |-> 0, cksum |-> c, un |-> h]
  BY <1>1, <1>3
<1>8. d \in Data
  <2>1. 8 \in Byte /\ 0 \in Byte /\ h \in WordSums(2)
    BY SMT, ByteBounds, WordSumsBounds
  <2>2. QED
    BY <1>6, <1>7, <2>1 DEF Data
<1>9. DataWords(d) = 8 + h + c
  <2>1. c \in Nat
    BY SMT, <1>6, HalfWordBounds
  <2>2. QED
    BY <1>7, <2>1 DEF DataWords
<1>10. QED
  BY <1>6, <1>7, <1>8, <1>9 DEF ICMP_ECHO

\* A probe is a packet of 28 bytes, and what follows its header tells its hop.
LEMMA ProbeFields ==
  ASSUME NEW t \in Traces, NEW h \in Hops, NEW p, p = ProbeOf(t, h)
  PROVE  /\ p \in Packet /\ p.quote = NoQuote /\ p.len = 28 /\ p.ip.len = 28 /\ p.rest = 0
         /\ p.ip.src = Client /\ p.ip.dst = t.dst /\ p.ip.ttl = h
         /\ p.ip.proto = IPPROTO_ICMP => t.echo
         /\ IF t.echo THEN p.data.un = h /\ p.data.code = 0 /\ Verifies(DataWords(p.data))
                      ELSE p.data.cksum = FirstPort + h
<1>1. /\ h \in Nat /\ 1 <= h /\ h <= 255
      /\ Client \in Addr /\ t.dst \in Addr /\ t.echo \in BOOLEAN
  BY TraceFields
<1>2. PICK d : d = IF t.echo THEN EchoData(h) ELSE UdpData(h)
  OBVIOUS
<1>3. PICK proto : proto = IF t.echo THEN IPPROTO_ICMP ELSE 17
  OBVIOUS
<1>4. /\ 0 \in HalfWord /\ 28 \in HalfWord /\ h \in Byte /\ 69 \in WordSums(3)
      /\ 0 \in WordSums(32768) /\ 128 \in Byte /\ 7 \in Byte /\ 65535 \in WordSums(2)
      /\ FirstPort + h \in HalfWord
  <2>1. 0 \in HalfWord /\ 28 \in HalfWord /\ FirstPort + h \in HalfWord
    BY SMT, <1>1, HalfWordBounds DEF FirstPort
  <2>2. h \in Byte /\ 128 \in Byte /\ 7 \in Byte
    BY SMT, <1>1, ByteBounds
  <2>3. 69 \in WordSums(3) /\ 65535 \in WordSums(2)
    BY SMT, WordSumsBounds
  <2>4. 0 \in WordSums(32768)
    BY NoWords
  <2>5. QED
    BY <2>1, <2>2, <2>3, <2>4
<1>5. proto \in Byte
  BY SMT, <1>3, ByteBounds DEF IPPROTO_ICMP
<1>6. PICK ip : ip = [ttl |-> h, src |-> Client, dst |-> t.dst, len |-> 28, sum |-> 0,
                      other |-> 69, proto |-> proto]
  OBVIOUS
<1>7. ip \in IpHeader
  BY <1>1, <1>4, <1>5, <1>6 DEF IpHeader
<1>8. UdpData(h) \in Data /\ UdpData(h).cksum = FirstPort + h
  BY <1>4 DEF UdpData, Data
<1>9. d \in Data
  BY <1>1, <1>2, <1>8, EchoDataVerifies
<1>10. p = [len |-> 28, quote |-> NoQuote, rest |-> 0, cut |-> 0, ip |-> ip, data |-> d]
  BY <1>2, <1>3, <1>6 DEF ProbeOf
<1>11. p \in Packet
  BY <1>4, <1>7, <1>9, <1>10 DEF Packet
<1>12. IF t.echo THEN d.un = h /\ d.code = 0 /\ Verifies(DataWords(d))
                 ELSE d.cksum = FirstPort + h
  BY <1>1, <1>2, <1>8, EchoDataVerifies
<1>13. p.ip.proto = IPPROTO_ICMP => t.echo
  BY <1>3, <1>6, <1>10 DEF IPPROTO_ICMP
<1>14. QED
  BY <1>6, <1>10, <1>11, <1>12, <1>13

\* The kinds of answers.
Kinds == {"transit", "target", "astray", "other"}

\* Answer a is the one that hop h of trace t should show: undamaged, to the client, for
\* a probe of that hop, and from the router and of the kind the path has there.
Right(chains, t, h, a) ==
  /\ a.ip.src \in Addr /\ a.ip.dst = Client
  /\ Verifies(IpWords(a.ip) + a.ip.sum) /\ Verifies(IcmpWords(a))
  /\ IF a.quote = NoQuote THEN t.echo /\ a.data.type = ICMP_ECHOREPLY ELSE a.quote.ip.dst = t.dst
  /\ LET data == IF a.quote = NoQuote THEN a.data ELSE a.quote.data
     IN  h = IF t.echo THEN data.un ELSE data.cksum - FirstPort
  /\ <<a.ip.src, Kind4(a)>> = PathOf(chains, t)[h]

\* What the host found answers to a probe is right.
LEMMA HostAnswersRight ==
  ASSUME NEW chains \in Arrays, NEW t \in Traces, NEW h \in Hops, NEW p, p = ProbeOf(t, h),
         NEW hop, hop = HopFor(FALSE, chains, p), hop # NoHost,
         NEW a, Answers4(hop.host, hop.index, p, a)
  PROVE  Right(chains, t, h, a)
<1>1. /\ p \in Packet /\ p.quote = NoQuote /\ p.len = 28 /\ p.ip.len = 28 /\ p.rest = 0
      /\ p.ip.src = Client /\ p.ip.dst = t.dst /\ p.ip.ttl = h
      /\ p.ip.proto = IPPROTO_ICMP => t.echo
      /\ IF t.echo THEN p.data.un = h /\ p.data.code = 0 /\ Verifies(DataWords(p.data))
                   ELSE p.data.cksum = FirstPort + h
  BY ProbeFields
<1>2. a \in Packet /\ a.ip.src \in Addr /\ a.ip.dst = Client
  <2>1. a \in Packet /\ a.ip.dst = Client
    BY <1>1 DEF Answers4
  <2>2. a.ip \in IpHeader
    BY <2>1 DEF Packet
  <2>3. QED
    BY <2>1, <2>2 DEF IpHeader
<1>3. chains \in ChainArrays(FALSE) /\ h \in Nat
  BY TraceFields, ArraysAreChains
<1>4. PICK c : /\ Matching(FALSE, chains, t.dst) # {}
               /\ \A j \in Matching(FALSE, chains, t.dst) : chains[j] = c
               /\ PathOf(chains, t)[h] = Path(c, t.dst, h)
  BY PathOfRoute
<1>5. <<a.ip.src, Kind4(a)>> = PathOf(chains, t)[h]
  <2>1. hop = HostChainArray_find(FALSE, chains, t.dst, h)
    BY <1>1 DEF HopFor
  <2>2. Path(c, t.dst, h) = <<hop.host.addr, KindOf(hop, t.dst, h)>>
    <3>1. PICK v6, dst : v6 = FALSE /\ dst = t.dst
      OBVIOUS
    <3>2. /\ chains \in ChainArrays(v6)
          /\ Matching(v6, chains, dst) # {}
          /\ \A j \in Matching(v6, chains, dst) : chains[j] = c
          /\ hop = HostChainArray_find(v6, chains, dst, h) /\ hop # NoHost
      BY <1>3, <1>4, <2>1, <3>1
    <3>3. Path(c, dst, h) = <<hop.host.addr, KindOf(hop, dst, h)>>
      BY ONLY <1>3, <3>2, RouteEndsAtHop
    <3>4. QED
      BY <3>1, <3>3
  <2>3. a.ip.src = hop.host.addr /\ Kind4(a) = KindOf(hop, t.dst, h)
    BY <1>1 DEF Answers4, KindOf
  <2>4. QED
    BY <1>4, <2>2, <2>3
<1>6. CASE a.quote # NoQuote
  <2>1. a.quote = [ip |-> p.ip, data |-> p.data]
    BY <1>6 DEF Answers4
  <2>2. a.quote.ip.dst = t.dst /\ a.quote.data = p.data
    BY <1>1, <2>1
  <2>3. h = IF t.echo THEN p.data.un ELSE p.data.cksum - FirstPort
    BY <1>1, <1>3 DEF FirstPort
  <2>4. QED
    BY <1>2, <1>5, <1>6, <2>2, <2>3 DEF Answers4, Right
<1>7. CASE a.quote = NoQuote
  <2>1. /\ p.ip.proto = IPPROTO_ICMP
        /\ a.data.type = ICMP_ECHOREPLY /\ a.data.un = p.data.un
        /\ Verifies(IcmpWords(p)) =>
             Verifies((IF a.len = p.len THEN 256 * p.data.code ELSE 0) + IcmpWords(a))
    BY <1>7 DEF Answers4
  <2>2. t.echo
    BY <1>1, <2>1
  <2>3. Verifies(IcmpWords(p))
    <3>1. DataWords(p.data) \in Nat
      <4>1. p.data \in Data
        BY <1>1 DEF Packet
      <4>2. QED
        BY SMT, <4>1, DataWordsBound
    <3>2. IcmpWords(p) = DataWords(p.data)
      BY <1>1, <3>1 DEF IcmpWords
    <3>3. QED
      BY <1>1, <2>2, <3>2
  <2>4. Verifies(IcmpWords(a))
    <3>1. IcmpWords(a) \in Nat
      <4>1. a.data \in Data /\ a.rest \in WordSums(32768)
        BY <1>2 DEF Packet
      <4>2. DataWords(a.data) \in Nat /\ a.rest \in Nat
        BY SMT, <4>1, DataWordsBound, WordSumsBounds
      <4>3. QED
        BY <1>7, <4>2 DEF IcmpWords
    <3>2. (IF a.len = p.len THEN 256 * p.data.code ELSE 0) + IcmpWords(a) = IcmpWords(a)
      BY <1>1, <2>2, <3>1
    <3>3. QED
      BY <2>1, <2>3, <3>2
  <2>5. QED
    BY <1>1, <1>2, <1>5, <1>7, <2>1, <2>2, <2>4 DEF Answers4, Right
<1>8. QED
  BY <1>6, <1>7

\* What comes of a probe: an error of the lookup, nothing, or a right answer.
LEMMA ProbeAnswered ==
  ASSUME NEW chains \in Arrays, NEW t \in Traces, NEW h \in Hops, NEW p, p = ProbeOf(t, h),
         NEW r, r = HostChain4Array_reply(chains, p)
  PROVE  /\ r.ret \in {0, 17, 18} /\ r.pkt \in Packet
         /\ r.ret = 0 /\ r.pkt.len > 0 => Right(chains, t, h, r.pkt)
<1>1. p \in Packet /\ p.quote = NoQuote /\ p.len = 28
  BY ProbeFields
<1>2. PICK hop : hop = HopFor(FALSE, chains, p)
  OBVIOUS
<1>3. Outcome(FALSE, hop, p, r)
  <2>1. chains \in ChainArrays(FALSE)
    BY ArraysAreChains
  <2>2. p.len > 0
    BY <1>1
  <2>3. QED
    BY ONLY <1>1, <1>2, <2>1, <2>2, ChainsReply4, r = HostChain4Array_reply(chains, p)
<1>4. CASE r.ret \in {17, 18} /\ r.pkt = p
  BY <1>1, <1>4
<1>5. CASE r = Ignored(p)
  <2>1. r.ret = 0 /\ r.pkt \in Packet /\ r.pkt.len = 0
    BY <1>1, <1>5, IgnoredFields
  <2>2. QED
    BY <2>1
<1>6. CASE r.ret = 0 /\ hop # NoHost /\ Answers(FALSE, hop, p, r.pkt)
  <2>1. Answers4(hop.host, hop.index, p, r.pkt)
    BY <1>6 DEF Answers
  <2>2. Right(chains, t, h, r.pkt)
    BY <1>2, <1>6, <2>1, HostAnswersRight
  <2>3. r.pkt \in Packet
    BY <2>1 DEF Answers4
  <2>4. QED
    BY <1>6, <2>2, <2>3
<1>7. QED
  BY <1>3, <1>4, <1>5, <1>6 DEF Outcome
-----------------------------------------------------------------------------
(* The inductive invariant: what waits in a queue or lies in a buffer is a     *)
(* probe, until a right answer is written over it; and nothing but right       *)
(* answers is on its way.                                                      *)

\* The probes of a trace, and where a worker may be in its turn.
ProbesFor(t) == {ProbeOf(t, h) : h \in Hops}
Turns == [at : {"read", "reply", "write", "continue"}, ret : {0, 17, 18},
          received : Packet \cup {NoPacket}, packet : Packet \cup {NoPacket}]

\* Locals of a worker's turn that trace t may leave.
TurnFor(chains, t, w) ==
  /\ w \in Turns
  /\ w.at = "read" => w = Turn
  /\ w.at = "reply" => /\ w.ret = 0
                       /\ w.received \in ProbesFor(t) /\ w.packet = w.received
  /\ w.at = "write" => \E h \in Hops : Right(chains, t, h, w.packet)

\* The inductive invariant.
IInv ==
  /\ v4_chains \in Arrays
  /\ client \in Traces
  /\ shown \in [Hops -> {Unanswered} \cup (Addr \X Kinds)]
  /\ queue \in [Workers -> Seq(ProbesFor(client))]
  /\ \A k \in Workers : Len(queue[k]) <= MaxQueue
  /\ worker \in [Workers -> Turns]
  /\ \A k \in Workers : TurnFor(v4_chains, client, worker[k])
  /\ \A a \in wire : \E h \in Hops : Right(v4_chains, client, h, a)

\* A right answer is acceptable, is about its hop and is of some kind.
LEMMA RightIsAcceptable ==
  ASSUME NEW h \in Hops, NEW a, Right(v4_chains, client, h, a)
  PROVE  /\ Acceptable(a) /\ HopOf(a) = h
         /\ <<a.ip.src, Kind4(a)>> = PathOf(v4_chains, client)[h]
         /\ <<a.ip.src, Kind4(a)>> \in Addr \X Kinds
<1>1. HopOf(a) = h
  BY DEF Right, HopOf
<1>2. Acceptable(a)
  BY <1>1 DEF Right, Acceptable
<1>3. Kind4(a) \in Kinds
  BY DEF Kind4, Kinds
<1>4. QED
  BY <1>1, <1>2, <1>3 DEF Right

\* No queue holds a packet, no turn has begun and no answer is on its way.
LEMMA InitIInv == Init => IInv
<1> SUFFICES ASSUME Init PROVE IInv
  OBVIOUS
<1>1. MaxQueue \in Nat
  BY Zenon, TracerouteAssumption
<1>2. Turn \in Turns
  BY DEF Turn, Turns
<1>3. \A k \in Workers : TurnFor(v4_chains, client, worker[k])
  BY <1>2 DEF Init, TurnFor, Turn
<1>4. queue \in [Workers -> Seq(ProbesFor(client))] /\ \A k \in Workers : Len(queue[k]) <= MaxQueue
  BY <1>1 DEF Init
<1>5. worker \in [Workers -> Turns]
  BY <1>2 DEF Init
<1>6. v4_chains \in Arrays /\ client \in Traces
  BY DEF Init
<1>7. shown \in [Hops -> {Unanswered} \cup (Addr \X Kinds)]
  BY DEF Init
<1>8. \A a \in wire : \E h \in Hops : Right(v4_chains, client, h, a)
  BY DEF Init
<1>9. QED
  BY <1>3, <1>4, <1>5, <1>6, <1>7, <1>8 DEF IInv

\* A probe is one of the trace, and it is appended to a queue that has room.
LEMMA ProbeStep ==
  ASSUME IInv, NEW h \in Hops, Probe(h)
  PROVE  IInv'
<1>1. PICK k \in Workers : /\ Len(queue[k]) < MaxQueue
                           /\ queue' = [queue EXCEPT ![k] = Append(@, ProbeOf(client, h))]
  BY DEF Probe
<1>2. UNCHANGED <<v4_chains, client, shown, worker, wire>>
  BY DEF Probe
<1>3. PICK q : q = Append(queue[k], ProbeOf(client, h))
  OBVIOUS
<1>4. PICK P : P = ProbesFor(client)
  OBVIOUS
<1>5. q \in Seq(P) /\ Len(q) <= MaxQueue
  <2>1. ProbeOf(client, h) \in P
    BY <1>4 DEF ProbesFor
  <2>2. queue[k] \in Seq(P)
    BY <1>4 DEF IInv
  <2>3. MaxQueue \in Nat
    BY Zenon, TracerouteAssumption
  <2>4. QED
    BY <1>1, <1>3, <2>1, <2>2, <2>3
<1>6. queue' \in [Workers -> Seq(P)] /\ \A j \in Workers : Len(queue'[j]) <= MaxQueue
  BY <1>1, <1>3, <1>4, <1>5 DEF IInv
<1>7. QED
  BY <1>2, <1>4, <1>6 DEF IInv

\* What is shown is from an address and of a kind.
LEMMA DeliverStep ==
  ASSUME IInv, NEW a \in wire, Deliver(a)
  PROVE  IInv'
<1>1. wire' \subseteq wire /\ UNCHANGED <<v4_chains, client, queue, worker>>
  BY DEF Deliver
<1>2. PICK h \in Hops : Right(v4_chains, client, h, a)
  BY DEF IInv
<1>3. Acceptable(a) /\ HopOf(a) = h /\ <<a.ip.src, Kind4(a)>> \in Addr \X Kinds
  BY <1>2, RightIsAcceptable
<1>4. PICK x : x = <<a.ip.src, Kind4(a)>>
  OBVIOUS
<1>5. shown' = [shown EXCEPT ![h] = x] \/ shown' = shown
  BY <1>3, <1>4 DEF Deliver
<1>6. shown' \in [Hops -> {Unanswered} \cup (Addr \X Kinds)]
  BY <1>3, <1>4, <1>5 DEF IInv
<1>7. QED
  BY <1>1, <1>6 DEF IInv

\* A worker takes the first packet of its queue.
LEMMA ReadStep ==
  ASSUME IInv, NEW k \in Workers, Read(k)
  PROVE  IInv'
<1>1. /\ UNCHANGED <<v4_chains, client, shown, wire>>
      /\ queue[k] # <<>>
      /\ queue' = [queue EXCEPT ![k] = Tail(@)]
  BY DEF Read
<1>2. PICK P : P = ProbesFor(client)
  OBVIOUS
<1>3. queue[k] \in Seq(P) /\ Len(queue[k]) <= MaxQueue
  BY <1>2 DEF IInv
<1>4. Head(queue[k]) \in P /\ Tail(queue[k]) \in Seq(P) /\ Len(Tail(queue[k])) <= MaxQueue
  <2>1. MaxQueue \in Nat
    BY Zenon, TracerouteAssumption
  <2>2. QED
    BY <1>1, <1>3, <2>1
<1>5. queue' \in [Workers -> Seq(P)] /\ \A j \in Workers : Len(queue'[j]) <= MaxQueue
  BY <1>1, <1>2, <1>4 DEF IInv
<1>6. PICK p : p = Head(queue[k])
  OBVIOUS
<1>7. PICK w : w = [at |-> "reply", received |-> p, packet |-> p, ret |-> 0]
  OBVIOUS
<1>8. worker' = [worker EXCEPT ![k] = w]
  BY <1>6, <1>7 DEF Read
<1>9. TurnFor(v4_chains, client, w)
  <2>1. p \in ProbesFor(client)
    BY <1>2, <1>4, <1>6
  <2>2. p \in Packet
    BY <2>1, ProbeFields DEF ProbesFor, IInv
  <2>3. w \in Turns
    BY <1>7, <2>2 DEF Turns
  <2>4. QED
    BY <1>7, <2>1, <2>3 DEF TurnFor
<1>10. worker' \in [Workers -> Turns] /\ \A j \in Workers : TurnFor(v4_chains, client, worker'[j])
  BY <1>8, <1>9 DEF IInv, TurnFor
<1>11. QED
  BY <1>1, <1>2, <1>5, <1>10 DEF IInv

\* What Reply looks up is what the chains answer.
LEMMA ReplyIsReply ==
  ASSUME NEW k \in Workers, Reply(k), worker[k] \in Turns
  PROVE  \E r : /\ r = HostChain4Array_reply(v4_chains, worker[k].packet)
                /\ worker' = [worker EXCEPT
                     ![k] = [at |-> IF r.ret = 0 /\ r.pkt.len > 0 THEN "write" ELSE "continue",
                             received |-> worker[k].received, packet |-> r.pkt, ret |-> r.ret]]
<1>1. PICK t \in Replies :
        /\ t[1] = v4_chains /\ t[2] = worker[k].packet
        /\ worker' = [worker EXCEPT
             ![k].packet = t[3].pkt,
             ![k].ret = t[3].ret,
             ![k].at = IF t[3].ret = 0 /\ t[3].pkt.len > 0 THEN "write" ELSE "continue"]
  BY DEF Reply
<1>2. PICK a \in Arrays, p \in Probes : t = <<a, p, HostChain4Array_reply(a, p)>>
  BY DEF Replies
<1>3. PICK r : r = HostChain4Array_reply(a, p)
  OBVIOUS
<1>4. a = v4_chains /\ p = worker[k].packet /\ t[3] = r
  BY <1>1, <1>2, <1>3
<1>5. PICK at : at = IF r.ret = 0 /\ r.pkt.len > 0 THEN "write" ELSE "continue"
  OBVIOUS
<1>6. worker' = [worker EXCEPT ![k].packet = r.pkt, ![k].ret = r.ret, ![k].at = at]
  BY <1>1, <1>4, <1>5
<1>7. PICK w : w = worker[k]
  OBVIOUS
<1>8. [w EXCEPT !.packet = r.pkt, !.ret = r.ret, !.at = at]
        = [at |-> at, received |-> w.received, packet |-> r.pkt, ret |-> r.ret]
  <2>1. PICK at0, ret0, received0, packet0 :
          w = [at |-> at0, ret |-> ret0, received |-> received0, packet |-> packet0]
    BY <1>7 DEF Turns
  <2>2. PICK x, y : x = r.pkt /\ y = r.ret
    OBVIOUS
  <2>3. [w EXCEPT !.packet = x, !.ret = y, !.at = at]
          = [at |-> at, received |-> received0, packet |-> x, ret |-> y]
    <3>1. PICK w1 : w1 = [w EXCEPT !.packet = x]
      OBVIOUS
    <3>2. w1 = [at |-> at0, ret |-> ret0, received |-> received0, packet |-> x]
      BY <2>1, <3>1
    <3>3. PICK w2 : w2 = [w1 EXCEPT !.ret = y]
      OBVIOUS
    <3>4. w2 = [at |-> at0, ret |-> y, received |-> received0, packet |-> x]
      BY <3>2, <3>3
    <3>5. [w2 EXCEPT !.at = at] = [at |-> at, ret |-> y, received |-> received0, packet |-> x]
      BY <3>4
    <3>6. QED
      BY <3>1, <3>3, <3>5
  <2>4. QED
    BY <2>1, <2>2, <2>3
<1>9. worker' = [worker EXCEPT ![k] = [at |-> at, received |-> w.received,
                                       packet |-> r.pkt, ret |-> r.ret]]
  BY <1>6, <1>7, <1>8
<1>10. QED
  BY <1>3, <1>4, <1>5, <1>7, <1>9

\* A worker writes a right answer over its probe, or none.
LEMMA ReplyStep ==
  ASSUME IInv, NEW k \in Workers, Reply(k)
  PROVE  IInv'
<1>1. /\ UNCHANGED <<v4_chains, client, shown, queue, wire>>
      /\ worker[k].at = "reply"
  BY DEF Reply
<1>2. worker[k] \in Turns /\ v4_chains \in Arrays /\ client \in Traces
  BY DEF IInv
<1>3. PICK r : /\ r = HostChain4Array_reply(v4_chains, worker[k].packet)
               /\ worker' = [worker EXCEPT
                    ![k] = [at |-> IF r.ret = 0 /\ r.pkt.len > 0 THEN "write" ELSE "continue",
                            received |-> worker[k].received, packet |-> r.pkt, ret |-> r.ret]]
  BY <1>2, ReplyIsReply
<1>4. PICK h \in Hops : worker[k].packet = ProbeOf(client, h)
  BY <1>1 DEF IInv, TurnFor, ProbesFor
<1>5. /\ r.ret \in {0, 17, 18} /\ r.pkt \in Packet
      /\ r.ret = 0 /\ r.pkt.len > 0 => Right(v4_chains, client, h, r.pkt)
  <2>1. PICK chains, t, p : chains = v4_chains /\ t = client /\ p = worker[k].packet
    OBVIOUS
  <2>2. /\ chains \in Arrays /\ t \in Traces /\ p = ProbeOf(t, h)
        /\ r = HostChain4Array_reply(chains, p)
    BY <1>2, <1>3, <1>4, <2>1
  <2>3. /\ r.ret \in {0, 17, 18} /\ r.pkt \in Packet
        /\ r.ret = 0 /\ r.pkt.len > 0 => Right(chains, t, h, r.pkt)
    BY ONLY h \in Hops, <2>2, ProbeAnswered
  <2>4. QED
    BY <2>1, <2>3
<1>6. PICK w : w = [at |-> IF r.ret = 0 /\ r.pkt.len > 0 THEN "write" ELSE "continue",
                    received |-> worker[k].received, packet |-> r.pkt, ret |-> r.ret]
  OBVIOUS
<1>7. TurnFor(v4_chains, client, w)
  <2>1. w \in Turns
    BY <1>2, <1>5, <1>6 DEF Turns
  <2>2. w.at # "read" /\ w.at # "reply"
    BY <1>6
  <2>3. w.at = "write" => Right(v4_chains, client, h, w.packet)
    BY <1>5, <1>6
  <2>4. QED
    BY <2>1, <2>2, <2>3 DEF TurnFor
<1>8. worker' = [worker EXCEPT ![k] = w]
  BY <1>3, <1>6
<1>9. worker' \in [Workers -> Turns] /\ \A j \in Workers : TurnFor(v4_chains, client, worker'[j])
  BY <1>7, <1>8 DEF IInv, TurnFor
<1>10. QED
  BY <1>1, <1>9 DEF IInv

\* A worker sends a right answer, or nothing, and begins anew.
LEMMA WriteStep ==
  ASSUME IInv, NEW k \in Workers, Write(k)
  PROVE  IInv'
<1>1. UNCHANGED <<v4_chains, client, shown, queue>>
  BY DEF Write
<1>2. worker' = [worker EXCEPT ![k] = Turn]
  BY DEF Write
<1>3. TurnFor(v4_chains, client, Turn)
  BY DEF TurnFor, Turn, Turns
<1>4. worker' \in [Workers -> Turns] /\ \A j \in Workers : TurnFor(v4_chains, client, worker'[j])
  BY <1>2, <1>3 DEF IInv, TurnFor
<1>5. \A a \in wire' : \E h \in Hops : Right(v4_chains, client, h, a)
  <2>1. CASE worker[k].at = "write"
    <3>1. wire' = wire \cup {worker[k].packet}
      BY <2>1 DEF Write
    <3>2. \E h \in Hops : Right(v4_chains, client, h, worker[k].packet)
      BY <2>1 DEF IInv, TurnFor
    <3>3. QED
      BY <3>1, <3>2 DEF IInv
  <2>2. CASE worker[k].at # "write"
    <3>1. wire' = wire
      BY <2>2 DEF Write
    <3>2. QED
      BY <3>1 DEF IInv
  <2>3. QED
    BY <2>1, <2>2
<1>6. QED
  BY <1>1, <1>4, <1>5 DEF IInv

\* Whatever is read, answered, overtaken or lost: what waits in a queue is a probe,
\* and what is written is the answer that its hop of the path should give.
THEOREM InductiveInvariant == Spec => []IInv
<1>1. ASSUME IInv, [Next]_vars PROVE IInv'
  <2>1. ASSUME NEW h \in Hops, Probe(h) PROVE IInv'
    BY <1>1, <2>1, ProbeStep
  <2>2. ASSUME NEW a \in wire, Deliver(a) PROVE IInv'
    BY <1>1, <2>2, DeliverStep
  <2>3. ASSUME NEW a \in wire, Lose(a) PROVE IInv'
    <3>1. wire' \subseteq wire /\ UNCHANGED <<v4_chains, client, shown, queue, worker>>
      BY <2>3 DEF Lose
    <3>2. QED
      BY <1>1, <3>1 DEF IInv
  <2>4. ASSUME NEW k \in Workers, Read(k) PROVE IInv'
    BY <1>1, <2>4, ReadStep
  <2>5. ASSUME NEW k \in Workers, Reply(k) PROVE IInv'
    BY <1>1, <2>5, ReplyStep
  <2>6. ASSUME NEW k \in Workers, Write(k) PROVE IInv'
    BY <1>1, <2>6, WriteStep
  <2>7. CASE UNCHANGED vars
    BY <1>1, <2>7 DEF IInv, vars
  <2>8. QED
    BY <1>1, <2>1, <2>2, <2>3, <2>4, <2>5, <2>6, <2>7 DEF Next, WorkerStep
<1>2. QED
  BY <1>1, InitIInv, PTL DEF Spec
-----------------------------------------------------------------------------
(* The properties *)

\* No queue overflows, only probes of the trace wait in them, and what is shown and
\* what is on its way is from hosts.
THEOREM TypeCorrect == Spec => []TypeOK
<1>1. ASSUME IInv PROVE TypeOK
  <2>1. v4_chains \in Arrays /\ client \in Traces
    BY <1>1 DEF IInv
  <2>2. \A h \in Hops : shown[h] \in {Unanswered} \cup
                          (Addr \X {"transit", "target", "astray", "other"})
    BY <1>1 DEF IInv, Kinds
  <2>3. ASSUME NEW k \in Workers
        PROVE  /\ Len(queue[k]) <= MaxQueue
               /\ \A j \in DOMAIN queue[k] : \E h \in Hops : queue[k][j] = ProbeOf(client, h)
               /\ worker[k].at \in {"read", "reply", "write", "continue"}
               /\ worker[k].ret \in {0, 17, 18, 19}
    <3>1. Len(queue[k]) <= MaxQueue /\ queue[k] \in Seq(ProbesFor(client)) /\ worker[k] \in Turns
      BY <1>1 DEF IInv
    <3>2. ASSUME NEW j \in DOMAIN queue[k] PROVE queue[k][j] \in ProbesFor(client)
      BY <3>1
    <3>3. QED
      BY <3>1, <3>2 DEF ProbesFor, Turns
  <2>4. ASSUME NEW a \in wire PROVE a.ip.src \in Addr /\ a.ip.dst = Client
    BY <1>1 DEF IInv, Right
  <2>5. QED
    BY <2>1, <2>2, <2>3, <2>4 DEF TypeOK
<1>2. QED
  BY <1>1, InductiveInvariant, PTL

\* Each worker begins as a responder does, with the chains alone.
LEMMA AloneInit ==
  ASSUME Init, NEW k \in Workers
  PROVE  W(k)!Init
<1>1. v4_chains \in Arrays /\ worker[k] = Turn
  BY DEF Init
<1>2. PICK cfg : cfg = <<v4_chains, <<>>>>
  OBVIOUS
<1>3. /\ cfg \in {<<a, <<>>>> : a \in Arrays}
      /\ v4_chains = cfg[1] /\ <<>> = cfg[2]
  BY <1>1, <1>2
<1>4. /\ worker[k].at = "read" /\ worker[k].received = <<>>
      /\ worker[k].packet = <<>> /\ worker[k].ret = 0
  BY <1>1 DEF Turn, NoPacket
<1>5. QED
  BY Zenon, <1>3, <1>4 DEF W!Init, W!NoPacket

\* The packets a worker reads are the probes, and none of them is short.
LEMMA AloneRead ==
  ASSUME IInv, NEW k \in Workers, Read(k)
  PROVE  W(k)!Read
<1>1. /\ v4_chains' = v4_chains /\ worker[k].at = "read" /\ queue[k] # <<>>
      /\ worker' = [worker EXCEPT ![k] = [at |-> "reply", received |-> Head(queue[k]),
                                          packet |-> Head(queue[k]), ret |-> 0]]
  BY DEF Read
<1>2. PICK p : p = Head(queue[k])
  OBVIOUS
<1>3. worker'[k] = [at |-> "reply", received |-> p, packet |-> p, ret |-> 0]
  BY <1>1, <1>2 DEF IInv
<1>4. p \in ProbesFor(client) /\ client \in Traces
  <2>1. PICK P : P = ProbesFor(client)
    OBVIOUS
  <2>2. queue[k] \in Seq(P) /\ client \in Traces
    BY <2>1 DEF IInv
  <2>3. QED
    BY <1>1, <1>2, <2>1, <2>2
<1>5. p \in Probes /\ p.len = 28
  BY <1>4, ProbeFields DEF ProbesFor, Probes
<1>6. ~W(k)!Short(FALSE, p)
  BY <1>5 DEF W!Short, W!IpSize
<1>7. /\ worker[k].at = "read" /\ worker'[k].at = "reply" /\ worker'[k].ret = 0
      /\ worker'[k].received = p /\ worker'[k].packet = p
  BY <1>1, <1>3
<1>8. (4' = 6) = FALSE /\ 4' \in {4, 6}
  OBVIOUS
<1>9. ~W(k)!Short(4' = 6, p)
  BY <1>6, <1>8
<1>10. p \in IF 4' = 6 THEN {} ELSE Probes
  BY <1>5, <1>8
<1>11. QED
  BY <1>1, <1>7, <1>8, <1>9, <1>10 DEF W!Read, W!Buffers

\* The answer is the one Responder describes.
LEMMA AloneReply ==
  ASSUME IInv, NEW k \in Workers, Reply(k)
  PROVE  W(k)!Reply4
<1>1. v4_chains' = v4_chains /\ worker[k].at = "reply"
  BY DEF Reply
<1>2. worker[k] \in Turns /\ v4_chains \in Arrays /\ client \in Traces
  BY DEF IInv
<1>3. PICK r : /\ r = HostChain4Array_reply(v4_chains, worker[k].packet)
               /\ worker' = [worker EXCEPT
                    ![k] = [at |-> IF r.ret = 0 /\ r.pkt.len > 0 THEN "write" ELSE "continue",
                            received |-> worker[k].received, packet |-> r.pkt, ret |-> r.ret]]
  BY <1>2, ReplyIsReply
<1>4. worker'[k] = [at |-> IF r.ret = 0 /\ r.pkt.len > 0 THEN "write" ELSE "continue",
                    received |-> worker[k].received, packet |-> r.pkt, ret |-> r.ret]
  BY <1>3 DEF IInv
<1>5. W(k)!HostChain4Array_reply(v4_chains, worker[k].packet) = r
  BY <1>3, SameReply
<1>6. v4_chains # <<>>
  <2>1. PICK c \in Range(v4_chains) : TRUE
    BY <1>2, Zenon, TracerouteAssumption
  <2>2. QED
    BY <2>1 DEF Range
<1>7. W(k)!Handled(r)
  BY <1>4 DEF W!Handled
<1>8. QED
  BY <1>1, <1>4, <1>5, <1>6, <1>7 DEF W!Reply4, W!NoChains

\* After a turn its locals are gone.
LEMMA AloneWrite ==
  ASSUME IInv, NEW k \in Workers, Write(k)
  PROVE  W(k)!Write
<1>1. /\ v4_chains' = v4_chains /\ worker[k].at \in {"write", "continue"}
      /\ worker' = [worker EXCEPT ![k] = Turn]
  BY DEF Write
<1>2. worker'[k] = Turn
  BY <1>1 DEF IInv
<1>3. QED
  BY <1>1, <1>2 DEF W!Write, W!NoPacket, NoPacket, Turn

\* A step that is not worker k's leaves its turn alone.
LEMMA AloneStutter ==
  ASSUME IInv, NEW k \in Workers, v4_chains' = v4_chains, worker'[k] = worker[k]
  PROVE  UNCHANGED W(k)!vars
BY DEF W!vars

\* However the others interleave with it, each worker is the responder that
\* Responder describes and ResponderProofs proves correct.
THEOREM WorkersRespondAlone == Spec => WorkersRespond
<1>1. Init => \A k \in Workers : W(k)!Init
  BY AloneInit
<1>2. ASSUME IInv, [Next]_vars
      PROVE  \A k \in Workers : [W(k)!Next]_(W(k)!vars)
  <2> SUFFICES ASSUME NEW k \in Workers PROVE [W(k)!Next]_(W(k)!vars)
    OBVIOUS
  <2>1. ASSUME NEW h \in Hops, Probe(h) PROVE UNCHANGED W(k)!vars
    BY <1>2, <2>1, AloneStutter DEF Probe
  <2>2. ASSUME NEW a \in wire, Deliver(a) \/ Lose(a) PROVE UNCHANGED W(k)!vars
    BY <1>2, <2>2, AloneStutter DEF Deliver, Lose
  <2>3. ASSUME NEW j \in Workers, WorkerStep(j), j # k PROVE UNCHANGED W(k)!vars
    <3>1. v4_chains' = v4_chains
      BY <2>3 DEF WorkerStep, Read, Reply, Write
    <3>2. worker'[k] = worker[k]
      <4>1. worker \in [Workers -> Turns]
        BY <1>2 DEF IInv
      <4>2. CASE Read(j) \/ Write(j)
        BY <2>3, <4>1, <4>2 DEF Read, Write
      <4>3. CASE Reply(j)
        BY <2>3, <4>1, <4>3, ReplyIsReply
      <4>4. QED
        BY <2>3, <4>2, <4>3 DEF WorkerStep
    <3>3. QED
      BY <1>2, <3>1, <3>2, AloneStutter
  <2>4. ASSUME WorkerStep(k) PROVE W(k)!Next
    <3>1. CASE Read(k)
      BY <1>2, <3>1, AloneRead DEF W!Next
    <3>2. CASE Reply(k)
      BY <1>2, <3>2, AloneReply DEF W!Next
    <3>3. CASE Write(k)
      BY <1>2, <3>3, AloneWrite DEF W!Next
    <3>4. QED
      BY <2>4, <3>1, <3>2, <3>3 DEF WorkerStep
  <2>5. CASE UNCHANGED vars
    BY <1>2, <2>5, AloneStutter DEF vars
  <2>6. QED
    BY <1>2, <2>1, <2>2, <2>3, <2>4, <2>5 DEF Next
<1>3. QED
  BY <1>1, <1>2, InductiveInvariant, PTL DEF Spec, WorkersRespond

\* Traceroute implements PathTrace, but for its liveness: nothing is shown at a hop
\* but the router that the path of the destination's chain has there, and what is
\* shown stays, however probes and answers overtake each other, are lost or sent
\* twice, and whichever worker answers them.
THEOREM ShowsNothingElse == Spec => PT!Safety
<1>1. Init => PT!Init
  <2> SUFFICES ASSUME Init PROVE PT!Init
    OBVIOUS
  <2>1. DOMAIN PathOf(v4_chains, client) = Hops
    BY DEF PathOf
  <2>2. QED
    BY <2>1 DEF Init, PT!Init, PT!Unanswered, Unanswered
<1>2. ASSUME IInv, [Next]_vars PROVE [PT!Next]_(PT!vars)
  <2>1. PICK path : path = PathOf(v4_chains, client)
    OBVIOUS
  <2>2. v4_chains' = v4_chains /\ client' = client
    BY <1>2 DEF Next, Probe, Deliver, Lose, WorkerStep, Read, Reply, Write, vars
  <2>3. PathOf(v4_chains, client)' = path
    BY <2>1, <2>2
  <2>4. DOMAIN path = Hops
    BY <2>1 DEF PathOf
  <2>5. ASSUME NEW a \in wire, Deliver(a) PROVE [PT!Next]_(PT!vars)
    <3>1. PICK h \in Hops : Right(v4_chains, client, h, a)
      BY <1>2 DEF IInv
    <3>2. /\ Acceptable(a) /\ HopOf(a) = h
          /\ <<a.ip.src, Kind4(a)>> = path[h]
      BY <2>1, <3>1, RightIsAcceptable
    <3>3. CASE shown[h] = Unanswered
      <4>1. shown' = [shown EXCEPT ![h] = path[h]]
        BY <2>5, <3>2, <3>3 DEF Deliver
      <4>2. PT!Reveal(h)
        BY <2>1, <2>3, <3>3, <4>1 DEF PT!Reveal, PT!Unanswered, Unanswered
      <4>3. QED
        BY <2>1, <2>4, <4>2 DEF PT!Next
    <3>4. CASE shown[h] # Unanswered
      <4>1. shown' = shown
        BY <2>5, <3>2, <3>4 DEF Deliver
      <4>2. QED
        BY <2>1, <2>3, <4>1 DEF PT!vars
    <3>5. QED
      BY <3>3, <3>4
  <2>6. ASSUME UNCHANGED shown PROVE [PT!Next]_(PT!vars)
    BY <2>1, <2>3, <2>6 DEF PT!vars
  <2>7. QED
    BY <1>2, <2>5, <2>6 DEF Next, Probe, Lose, WorkerStep, Read, Reply, Write, vars
<1>3. QED
  BY <1>1, <1>2, InductiveInvariant, PTL DEF Spec, PT!Safety
=============================================================================
