-------------------------- MODULE ChainInitProofs --------------------------
(***************************************************************************)
(* Proofs about the parser of chains, for buffers and words of any size    *)
(* and tokens with any values: it keeps to its buffer, it makes a host of  *)
(* every address, and MTUs and TTLs fit the place a host has on its path.  *)
(***************************************************************************)
EXTENDS ChainInit, SequenceTheorems, TLAPS

\* No number of a word is changed by cutting it to a word, and any other
\* becomes one.
LEMMA WordOfWord ==
  /\ \A n \in Int : Word(n) \in 0 .. 2 ^ WordBits - 1
  /\ \A n \in 0 .. 2 ^ WordBits - 1 : Word(n) = n
  /\ \A n \in Nat : Word(n) <= n
<1> DEFINE m == 2 ^ WordBits
<1>1. m \in Nat \ {0}  BY WordAssumption
<1> HIDE DEF m
<1>2. \A n \in Int : n % m \in 0 .. m - 1  BY <1>1
<1>3. \A n \in 0 .. m - 1 : n % m = n  BY <1>1
<1>4. \A n \in Nat : n % m <= n  BY <1>1
<1> QED  BY <1>2, <1>3, <1>4 DEF Word, m

\* The addresses from one to another of the same leading words are counted
\* right, as long as there are less of them than a word has values.
LEMMA CountOfRange ==
  ASSUME NEW first \in Nat, NEW last \in Nat, Lead(first) = Lead(last)
  PROVE  LET distance == IF last > first THEN last - first ELSE first - last
         IN  distance + 1 < 2 ^ WordBits
               => n_addr(Last(first), Last(last)) = distance + 1
<1> DEFINE distance == IF last > first THEN last - first ELSE first - last
           a == Last(first)
           b == Last(last)
<1> SUFFICES ASSUME distance + 1 < 2 ^ WordBits
             PROVE  n_addr(a, b) = distance + 1
    OBVIOUS
<1>1. a \in Int /\ b \in Int
  BY WordOfWord, WordAssumption DEF Last
<1>2. last - first = b - a
  <2> HIDE DEF a, b
  <2>1. first - a = last - b  BY DEF Lead, a, b
  <2> QED  BY <2>1, <1>1
<1>3. (b - a) * (IF b > a THEN 1 ELSE -1) + 1 = distance + 1
  <2> HIDE DEF a, b
  <2>1. CASE b > a  BY <2>1, <1>1, <1>2
  <2>2. CASE ~(b > a)  BY <2>2, <1>1, <1>2
  <2> QED  BY <2>1, <2>2
<1>4. distance + 1 \in 0 .. 2 ^ WordBits - 1  BY WordAssumption
<1> QED  BY <1>3, <1>4, WordOfWord DEF n_addr

-----------------------------------------------------------------------------
(* The inductive invariant *)

\* Beyond the properties: the options are set once there is a host, and the
\* current MTU is not larger than that of any host so far.
Inv ==
  /\ TypeOK
  /\ HostForEachName
  /\ FitsBuffer
  /\ i > 0 => ttl > 0 /\ mtu > 0
  /\ \A k \in 1 .. i : mtu <= hosts[k].mtu
  /\ MtuNeverGrows
  /\ ~ranged => \A k \in 1 .. i : k <= hosts[k].ttl

LEMMA InitInv == Init => Inv
<1> SUFFICES ASSUME Init PROVE Inv  OBVIOUS
<1>1. hosts = <<>> /\ i = 0  BY DEF Init, i
<1>2. hosts \in Seq(Host)  BY <1>1
<1>3. inet_size(v6) \in Nat  BY WidthAssumption DEF inet_size
<1>4. TypeOK
  <2>1. v6 \in BOOLEAN /\ route_set \in BOOLEAN /\ ranged \in BOOLEAN  BY DEF Init
  <2>2. ttl \in 0 .. MAXTTL /\ mtu \in 0 .. IP_MAXPACKET
    BY LimitsAssumption DEF Init
  <2>3. network \in Nat /\ prefix \in 0 .. inet_size(v6)  BY <1>3 DEF Init
  <2>4. tokens \in 0 .. MaxTokens /\ named \in Nat  BY TokensAssumption DEF Init
  <2> QED  BY <1>2, <2>1, <2>2, <2>3, <2>4 DEF Init, TypeOK
<1>5. HostForEachName /\ FitsBuffer
  BY <1>1, LimitsAssumption DEF Init, HostForEachName, FitsBuffer
<1> QED  BY <1>1, <1>4, <1>5 DEF Inv, MtuNeverGrows

\* The options that the next host gets are in their ranges, and its MTU is not
\* larger than that of any host before it.
LEMMA NextOptions ==
  ASSUME Inv
  PROVE  /\ Options.ttl \in 1 .. MAXTTL
         /\ Options.mtu \in 1 .. IP_MAXPACKET
         /\ \A k \in 1 .. i : Options.mtu <= hosts[k].mtu
<1>1. i \in Nat
  <2>1. hosts \in Seq(Host)  BY DEF Inv, TypeOK
  <2> QED  BY <2>1 DEF i
<1>2. ttl \in 0 .. MAXTTL /\ mtu \in 0 .. IP_MAXPACKET /\ v6 \in BOOLEAN
  BY DEF Inv, TypeOK
<1>3. DefaultTtl \in 1 .. MAXTTL /\ DefaultMtu \in 1 .. IP_MAXPACKET
  <2>1. MinMtu[v6] \in Nat \ {0}  BY <1>2, LimitsAssumption
  <2>2. DefaultMtu \in MinMtu[v6] .. IP_MAXPACKET  BY <1>2, LimitsAssumption
  <2>3. IP_MAXPACKET \in Nat /\ DefaultTtl \in 1 .. MAXTTL  BY LimitsAssumption
  <2> QED  BY <2>1, <2>2, <2>3
<1>4. CASE i = 0  BY <1>2, <1>3, <1>4, LimitsAssumption DEF Options
<1>5. CASE i > 0
  <2>1. ttl > 0 /\ mtu > 0 /\ \A k \in 1 .. i : mtu <= hosts[k].mtu
    BY <1>5 DEF Inv
  <2>2. Options.ttl = ttl /\ Options.mtu = mtu  BY <1>5 DEF Options
  <2> QED  BY <1>2, <2>1, <2>2
<1> QED  BY <1>1, <1>4, <1>5

\* What an address or a range adds: hosts behind the others, with the options.
LEMMA AddHosts ==
  ASSUME Inv, NEW addrs \in Seq(Nat), Add(addrs)
  PROVE  /\ hosts' \in Seq(Host)
         /\ i' = i + Len(addrs)
         /\ \A k \in 1 .. i : hosts'[k] = hosts[k]
         /\ \A k \in i + 1 .. i' : hosts'[k].ttl = Options.ttl /\ hosts'[k].mtu = Options.mtu
         /\ ttl' = Options.ttl /\ mtu' = Options.mtu
<1> DEFINE new == [k \in DOMAIN addrs |-> [addr |-> addrs[k], ttl |-> Options.ttl,
                                           mtu |-> Options.mtu]]
<1>1. new \in Seq(Host) /\ Len(new) = Len(addrs)
  <2>1. \A k \in 1 .. Len(addrs) : new[k] \in Host
    BY NextOptions DEF Host
  <2>2. new \in [1 .. Len(addrs) -> Host]
    <3>1. DOMAIN addrs = 1 .. Len(addrs)  OBVIOUS
    <3> QED  BY <2>1, <3>1
  <2> QED  BY <2>2
<1>2. hosts \in Seq(Host)  BY DEF Inv, TypeOK
<1>3. hosts' = hosts \o new  BY DEF Add
<1>4. \A k \in DOMAIN addrs : new[k].ttl = Options.ttl /\ new[k].mtu = Options.mtu
  OBVIOUS
<1>5. DOMAIN addrs = 1 .. Len(addrs)  OBVIOUS
<1> HIDE DEF new
<1>6. hosts' \in Seq(Host) /\ Len(hosts') = Len(hosts) + Len(addrs)
  <2>1. new \in Seq(Host)  BY <1>1
  <2>2. hosts \o new \in Seq(Host)  BY <1>2, <2>1, ConcatProperties
  <2>3. Len(hosts \o new) = Len(hosts) + Len(new)  BY <1>2, <2>1, ConcatProperties
  <2> QED  BY <1>1, <1>3, <2>2, <2>3
<1>7. \A k \in 1 .. i : hosts'[k] = hosts[k]
  BY <1>1, <1>2, <1>3 DEF i
<1>8. \A k \in i + 1 .. i' : hosts'[k] = new[k - i] /\ k - i \in 1 .. Len(addrs)
  BY <1>1, <1>2, <1>3, <1>6 DEF i
<1>9. ttl' = Options.ttl /\ mtu' = Options.mtu  BY DEF Add
<1> QED  BY <1>4, <1>5, <1>6, <1>7, <1>8, <1>9 DEF i

-----------------------------------------------------------------------------
(* Each action preserves the invariant *)

LEMMA TokenType ==
  ASSUME TypeOK, Token
  PROVE  /\ v6' \in BOOLEAN /\ inet_size(v6)' = inet_size(v6)
         /\ tokens' \in 0 .. MaxTokens
<1>1. tokens \in 0 .. MaxTokens /\ MaxTokens \in Nat
  BY TokensAssumption DEF TypeOK
<1>2. tokens' = tokens + 1 /\ tokens < MaxTokens  BY DEF Token
<1>3. v6' = v6 /\ v6 \in BOOLEAN  BY DEF Token, TypeOK
<1>4. tokens' \in 0 .. MaxTokens  BY <1>1, <1>2
<1> QED  BY <1>3, <1>4 DEF inet_size

\* Steps that add no host.
LEMMA KeptHosts ==
  ASSUME Inv, TypeOK', UNCHANGED <<hosts, named, ranged>>,
         i > 0 => ttl' > 0 /\ mtu' > 0,
         \A k \in 1 .. i : mtu' <= hosts[k].mtu
  PROVE  Inv'
<1>1. HostForEachName' /\ FitsBuffer'
  BY DEF Inv, HostForEachName, FitsBuffer, Countable, i
<1>2. MtuNeverGrows'  BY DEF Inv, MtuNeverGrows, i
<1>3. (~ranged => \A k \in 1 .. i : k <= hosts[k].ttl)'  BY DEF Inv, i
<1>4. (i > 0 => ttl > 0 /\ mtu > 0)' /\ (\A k \in 1 .. i : mtu <= hosts[k].mtu)'
  BY DEF i
<1> QED  BY <1>1, <1>2, <1>3, <1>4 DEF Inv

Errors == {"ttl", "mtu", "route", "too long", "range", "address", "unknown", "no value"}

LEMMA FailInv ==
  ASSUME Inv, Token, NEW error \in Errors, Fail(error)
  PROVE  Inv'
<1>1. TypeOK'
  <2>1. TypeOK  BY DEF Inv
  <2>2. ret' \in {"parsing", "ok", "empty", "ttl", "mtu", "route", "too long", "range",
                  "address", "unknown", "no value"}
    BY DEF Fail, Errors
  <2>3. UNCHANGED <<hosts, named, ranged, ttl, mtu, network, prefix, route_set>>
    BY DEF Fail, options
  <2> QED  BY <2>1, <2>2, <2>3, TokenType DEF TypeOK
<1>2. UNCHANGED <<hosts, named, ranged, ttl, mtu>>  BY DEF Fail, options
<1> QED  BY <1>1, <1>2, KeptHosts DEF Inv

LEMMA TtlOptionInv ==
  ASSUME Inv, NEW value \in Ttls, TtlOption(value)
  PROVE  Inv'
<1>1. Token  BY DEF TtlOption
<1>2. CASE value \in i + 1 .. MAXTTL
  <2>1. ttl' = value /\ UNCHANGED <<hosts, mtu, network, prefix, route_set, ret, named, ranged>>
    BY <1>2 DEF TtlOption
  <2>2. value \in 1 .. MAXTTL
    <3>1. hosts \in Seq(Host)  BY DEF Inv, TypeOK
    <3>2. i \in Nat  BY <3>1 DEF i
    <3>3. value \in Int  BY TokensAssumption
    <3> QED  BY <1>2, <3>2, <3>3, LimitsAssumption
  <2>3. TypeOK'
    <3>1. ttl' \in 0 .. MAXTTL  BY <2>1, <2>2, LimitsAssumption
    <3>2. TypeOK  BY DEF Inv
    <3> QED  BY <1>1, <2>1, <3>1, <3>2, TokenType DEF TypeOK
  <2> QED  BY <2>1, <2>2, <2>3, KeptHosts DEF Inv
<1>3. CASE value \notin i + 1 .. MAXTTL
  BY <1>1, <1>3, FailInv DEF TtlOption, Errors
<1> QED  BY <1>2, <1>3

LEMMA MtuOptionInv ==
  ASSUME Inv, NEW value \in Mtus, MtuOption(value)
  PROVE  Inv'
<1> DEFINE bound == IF mtu = 0 THEN IP_MAXPACKET ELSE mtu
<1>1. Token  BY DEF MtuOption
<1>2. CASE value \in MinMtu[v6] .. bound
  <2>1. mtu' = value /\ UNCHANGED <<hosts, ttl, network, prefix, route_set, ret, named, ranged>>
    BY <1>2 DEF MtuOption
  <2>2. mtu \in 0 .. IP_MAXPACKET /\ v6 \in BOOLEAN  BY DEF Inv, TypeOK
  <2>3. MinMtu[v6] \in Nat \ {0} /\ IP_MAXPACKET \in Nat  BY <2>2, LimitsAssumption
  <2>4. value \in Int  BY TokensAssumption
  <2>5. value \in 1 .. IP_MAXPACKET /\ (mtu # 0 => value <= mtu)
    BY <1>2, <2>2, <2>3, <2>4
  <2>6. TypeOK'
    <3>1. mtu' \in 0 .. IP_MAXPACKET  BY <2>1, <2>3, <2>5
    <3>2. TypeOK  BY DEF Inv
    <3> QED  BY <1>1, <2>1, <3>1, <3>2, TokenType DEF TypeOK
  <2>7. i > 0 => ttl' > 0 /\ mtu' > 0
    BY <2>1, <2>5 DEF Inv
  <2>8. \A k \in 1 .. i : mtu' <= hosts[k].mtu
    <3> SUFFICES ASSUME NEW k \in 1 .. i PROVE mtu' <= hosts[k].mtu  OBVIOUS
    <3>1. hosts \in Seq(Host)  BY DEF Inv, TypeOK
    <3>2. i \in Nat /\ hosts[k] \in Host  BY <3>1 DEF i
    <3>3. mtu # 0 /\ mtu <= hosts[k].mtu  BY <2>2, <3>2 DEF Inv
    <3>4. hosts[k].mtu \in Nat  BY <2>3, <3>2 DEF Host
    <3> QED  BY <2>1, <2>2, <2>4, <2>5, <3>3, <3>4
  <2> QED  BY <2>1, <2>6, <2>7, <2>8, KeptHosts
<1>3. CASE value \notin MinMtu[v6] .. bound
  BY <1>1, <1>3, FailInv DEF MtuOption, Errors
<1> QED  BY <1>2, <1>3

LEMMA RouteOptionInv ==
  ASSUME Inv, NEW route \in Routes[v6], RouteOption(route[1], route[2])
  PROVE  Inv'
<1>1. Token  BY DEF RouteOption
<1>2. CASE /\ TRUE \in Accepted(route[1], route[2])
           /\ network' = route[1] /\ prefix' = route[2] /\ route_set' = TRUE
           /\ UNCHANGED <<hosts, ttl, mtu, ret, named, ranged>>
  <2>1. v6 \in BOOLEAN  BY DEF Inv, TypeOK
  <2>2. route[1] \in Nat /\ route[2] \in Nat
    <3>1. route \in Nat \X Nat  BY <2>1, TokensAssumption
    <3> QED  BY <3>1
  <2>3. ~(route[2] > inet_size(v6))  BY <1>2 DEF Accepted
  <2>4. inet_size(v6) \in Nat  BY <2>1, WidthAssumption DEF inet_size
  <2>5. TypeOK'
    <3>1. network' \in Nat /\ prefix' \in 0 .. inet_size(v6)' /\ route_set' \in BOOLEAN
      <4>1. inet_size(v6)' = inet_size(v6)  BY <1>1, TokenType DEF Inv
      <4> QED  BY <1>2, <2>2, <2>3, <2>4, <4>1
    <3>2. TypeOK  BY DEF Inv
    <3> QED  BY <1>1, <1>2, <3>1, <3>2, TokenType DEF TypeOK
  <2> QED  BY <1>2, <2>5, KeptHosts DEF Inv
<1>3. CASE Fail("route")
  BY <1>1, <1>3, FailInv DEF Errors
<1> QED  BY <1>2, <1>3 DEF RouteOption

\* Steps that add hosts, as many as the addresses they name, which their TTL
\* outlives or which are a range's.
LEMMA AddInv ==
  ASSUME Inv, Token, NEW addrs \in Seq(Nat), Add(addrs),
         named' \in Nat, ranged' \in BOOLEAN, ranged => ranged',
         HostForEachName', FitsBuffer',
         ~ranged' => i' <= Options.ttl
  PROVE  Inv'
<1>1. /\ hosts \in Seq(Host) /\ i \in Nat
      /\ hosts' \in Seq(Host) /\ i' \in Nat
  <2>1. hosts \in Seq(Host)  BY DEF Inv, TypeOK
  <2>2. hosts' \in Seq(Host)  BY AddHosts
  <2> QED  BY <2>1, <2>2 DEF i
<1>2. i' = i + Len(addrs) /\ Len(addrs) \in Nat  BY AddHosts
<1>3. /\ \A k \in 1 .. i : hosts'[k] = hosts[k]
      /\ \A k \in i + 1 .. i' : hosts'[k].ttl = Options.ttl /\ hosts'[k].mtu = Options.mtu
      /\ ttl' = Options.ttl /\ mtu' = Options.mtu
  BY AddHosts
<1>4. /\ Options.ttl \in 1 .. MAXTTL
      /\ Options.mtu \in 1 .. IP_MAXPACKET
      /\ \A k \in 1 .. i : Options.mtu <= hosts[k].mtu
  BY NextOptions
<1>5. MAXTTL \in Nat /\ IP_MAXPACKET \in Nat  BY LimitsAssumption
<1>6. TypeOK'
  <2>1. ttl' \in 0 .. MAXTTL /\ mtu' \in 0 .. IP_MAXPACKET  BY <1>3, <1>4, <1>5
  <2>2. UNCHANGED <<network, prefix, route_set, ret>>  BY DEF Add
  <2>3. TypeOK  BY DEF Inv
  <2> QED  BY <1>1, <2>1, <2>2, <2>3, TokenType DEF TypeOK
<1>7. (i > 0 => ttl > 0 /\ mtu > 0)'  BY <1>3, <1>4, <1>5
<1>8. (\A k \in 1 .. i : mtu <= hosts[k].mtu)'
  <2> SUFFICES ASSUME NEW k \in 1 .. i' PROVE mtu' <= hosts'[k].mtu  OBVIOUS
  <2>1. CASE k \in 1 .. i  BY <1>3, <1>4, <2>1
  <2>2. CASE k \in i + 1 .. i'  BY <1>3, <1>4, <1>5, <2>2
  <2> QED  BY <1>1, <2>1, <2>2
<1>9. MtuNeverGrows'
  <2> SUFFICES ASSUME NEW j \in 1 .. i', NEW k \in 1 .. i', j <= k
               PROVE  hosts'[k].mtu <= hosts'[j].mtu
      BY DEF MtuNeverGrows
  <2>1. CASE k \in 1 .. i
    <3>1. j \in 1 .. i  BY <1>1, <2>1
    <3> QED  BY <1>3, <2>1, <3>1 DEF Inv, MtuNeverGrows
  <2>2. CASE k \in i + 1 .. i'
    <3>1. hosts'[k].mtu = mtu'  BY <1>3, <2>2
    <3> QED  BY <1>8, <3>1
  <2> QED  BY <1>1, <2>1, <2>2
<1>10. (~ranged => \A k \in 1 .. i : k <= hosts[k].ttl)'
  <2> SUFFICES ASSUME ~ranged', NEW k \in 1 .. i' PROVE k <= hosts'[k].ttl  OBVIOUS
  <2>1. CASE k \in 1 .. i  BY <1>3, <2>1 DEF Inv
  <2>2. CASE k \in i + 1 .. i'  BY <1>1, <1>3, <1>4, <1>5, <2>2
  <2> QED  BY <1>1, <2>1, <2>2
<1> QED  BY <1>6, <1>7, <1>8, <1>9, <1>10 DEF Inv

\* There is room for a host, and a TTL left for it, when a chain is not too long.
LEMMA RoomForOne ==
  ASSUME Inv, ~TooLong
  PROVE  i \in Nat /\ i < Options.ttl /\ i < MAXTTL
<1>1. hosts \in Seq(Host)  BY DEF Inv, TypeOK
<1>2. i \in Nat  BY <1>1 DEF i
<1>3. Options.ttl \in 1 .. MAXTTL /\ MAXTTL \in Nat  BY NextOptions, LimitsAssumption
<1>4. CASE i = 0  BY <1>3, <1>4
<1>5. CASE i > 0
  <2>1. Options.ttl = ttl  BY <1>5 DEF Options
  <2>2. ~(i >= ttl)  BY <1>5 DEF TooLong
  <2> QED  BY <1>2, <1>3, <2>1, <2>2
<1> QED  BY <1>2, <1>4, <1>5

LEMMA SingleInv ==
  ASSUME Inv, NEW addr \in Addresses[v6], Single(addr)
  PROVE  Inv'
<1>1. Token  BY DEF Single
<1>2. CASE TooLong  BY <1>1, <1>2, FailInv DEF Single, Errors
<1>3. CASE ~TooLong
  <2>1. Add(<<addr>>) /\ named' = named + 1 /\ ranged' = ranged
    BY <1>3 DEF Single
  <2>2. <<addr>> \in Seq(Nat) /\ Len(<<addr>>) = 1
    <3>1. v6 \in BOOLEAN  BY DEF Inv, TypeOK
    <3>2. addr \in Nat  BY <3>1, TokensAssumption
    <3> QED  BY <3>2
  <2>3. i' = i + 1  BY <2>1, <2>2, AddHosts
  <2>4. i \in Nat /\ i < Options.ttl /\ i < MAXTTL  BY <1>3, RoomForOne
  <2>5. Options.ttl \in Nat /\ MAXTTL \in Nat  BY NextOptions, LimitsAssumption
  <2>6. named \in Nat /\ ranged \in BOOLEAN  BY DEF Inv, TypeOK
  <2>7. HostForEachName'
    BY <2>1, <2>3, <2>6, WordAssumption DEF Inv, HostForEachName, Countable
  <2>8. FitsBuffer'
    BY <2>3, <2>4, <2>5 DEF FitsBuffer
  <2>9. named' \in Nat /\ ranged' \in BOOLEAN /\ (ranged => ranged')  BY <2>1, <2>6
  <2>10. i' <= Options.ttl  BY <2>3, <2>4, <2>5
  <2> QED  BY <1>1, <2>1, <2>2, <2>7, <2>8, <2>9, <2>10, AddInv
<1> QED  BY <1>2, <1>3

LEMMA AddRangeInv ==
  ASSUME Inv, NEW first \in Addresses[v6], NEW last \in Addresses[v6],
         AddRange(first, last)
  PROVE  Inv'
<1> DEFINE n == n_addr(Last(first), Last(last))
           distance == IF last > first THEN last - first ELSE first - last
           addrs == IF first = last THEN <<first>>
                    ELSE [k \in 1 .. n |-> RangeAt(first, Last(last), k)]
<1>1. Token  BY DEF AddRange
<1>2. CASE Fail("too long")  BY <1>1, <1>2, FailInv DEF Errors
<1>3. CASE Fail("range")  BY <1>1, <1>3, FailInv DEF Errors
<1>4. CASE /\ ~TooLong
           /\ first = last \/ (Lead(first) = Lead(last) /\ Word(i + n) < MAXTTL)
           /\ Add(addrs)
           /\ named' = named + 1 + distance
           /\ ranged' = TRUE
  <2>1. first \in Nat /\ last \in Nat
    <3>1. v6 \in BOOLEAN  BY DEF Inv, TypeOK
    <3> QED  BY <3>1, TokensAssumption
  <2>2. n \in Nat /\ Last(last) \in Nat /\ Last(first) \in Nat /\ Last(first) <= first
    <3>1. Last(first) \in Nat /\ Last(last) \in Nat /\ Last(first) <= first
      BY <2>1, WordOfWord, WordAssumption DEF Last
    <3>2. (Last(last) - Last(first)) * (IF Last(last) > Last(first) THEN 1 ELSE -1) + 1 \in Int
      BY <3>1
    <3> QED  BY <3>1, <3>2, WordOfWord, WordAssumption DEF n_addr
  <2>3. addrs \in Seq(Nat) /\ Len(addrs) = (IF first = last THEN 1 ELSE n)
    <3>1. CASE first = last  BY <2>1, <3>1
    <3>2. CASE first # last
      <4>1. \A k \in 1 .. n : RangeAt(first, Last(last), k) \in Nat
        <5> SUFFICES ASSUME NEW k \in 1 .. n PROVE RangeAt(first, Last(last), k) \in Nat
            OBVIOUS
        <5>1. Last(first) + (k - 1) * (IF Last(last) > Last(first) THEN 1 ELSE -1) \in Int
          BY <2>2
        <5>2. Word(Last(first) + (k - 1) * (IF Last(last) > Last(first) THEN 1 ELSE -1)) \in Nat
          BY <5>1, WordOfWord, WordAssumption
        <5>3. Lead(first) \in Nat  BY <2>1, <2>2 DEF Lead
        <5> QED  BY <5>2, <5>3 DEF RangeAt
      <4> HIDE DEF n
      <4>2. [k \in 1 .. n |-> RangeAt(first, Last(last), k)] \in [1 .. n -> Nat]
        BY <4>1
      <4> QED  BY <2>2, <3>2, <4>2
    <3> QED  BY <3>1, <3>2
  <2>4. i' = i + (IF first = last THEN 1 ELSE n)
    <3> HIDE DEF addrs
    <3> QED  BY <1>4, <2>3, AddHosts
  <2>5. i \in Nat /\ i < MAXTTL /\ MAXTTL \in Nat  BY <1>4, RoomForOne, LimitsAssumption
  <2>6. named \in Nat /\ named' \in Nat
    <3>1. named \in Nat  BY DEF Inv, TypeOK
    <3>2. distance \in Nat  BY <2>1
    <3> QED  BY <1>4, <3>1, <3>2
  <2>7. Countable' => i = named /\ i' = named' /\ i' <= MAXTTL
    <3> SUFFICES ASSUME Countable' PROVE i = named /\ i' = named' /\ i' <= MAXTTL
        OBVIOUS
    <3>1. distance \in Nat  BY <2>1
    <3>2. named' < 2 ^ WordBits /\ named + distance + 1 < 2 ^ WordBits
      BY <1>4, <2>6, <3>1 DEF Countable
    <3>3. i = named
      BY <2>6, <3>1, <3>2, WordAssumption DEF Inv, HostForEachName, Countable
    <3>4. CASE first = last
      BY <1>4, <2>1, <2>4, <2>5, <3>3, <3>4
    <3>5. CASE first # last
      <4>1. distance + 1 < 2 ^ WordBits  BY <2>6, <3>1, <3>2, WordAssumption
      <4>2. n = distance + 1  BY <1>4, <2>1, <3>5, <4>1, CountOfRange
      <4> HIDE DEF n
      <4>3. i + n \in 0 .. 2 ^ WordBits - 1
        BY <2>5, <3>1, <3>2, <3>3, <4>2, WordAssumption
      <4>4. i + n < MAXTTL  BY <1>4, <3>5, <4>3, WordOfWord
      <4> QED  BY <1>4, <2>2, <2>4, <2>5, <3>1, <3>3, <3>5, <4>2, <4>4
    <3> QED  BY <3>4, <3>5
  <2>8. HostForEachName' /\ FitsBuffer'  BY <2>7 DEF HostForEachName, FitsBuffer
  <2> HIDE DEF addrs
  <2> QED  BY <1>1, <1>4, <2>3, <2>6, <2>8, AddInv
<1> QED  BY <1>2, <1>3, <1>4 DEF AddRange

LEMMA EndInv ==
  ASSUME Inv, End
  PROVE  Inv'
<1>1. UNCHANGED <<v6, hosts, ttl, mtu, network, prefix, route_set, tokens, named, ranged>>
  BY DEF End, options
<1>2. ret' \in {"empty", "ok"}  BY DEF End
<1>3. TypeOK'
  <2>1. TypeOK  BY DEF Inv
  <2> QED  BY <1>1, <1>2, <2>1 DEF TypeOK, inet_size
<1> QED  BY <1>1, <1>3, KeptHosts DEF Inv

-----------------------------------------------------------------------------
(* Theorems *)

LEMMA StepInv == Inv /\ [Next]_vars => Inv'
<1> SUFFICES ASSUME Inv, [Next]_vars PROVE Inv'  OBVIOUS
<1>1. ASSUME NEW value \in Ttls, TtlOption(value) PROVE Inv'  BY <1>1, TtlOptionInv
<1>2. ASSUME NEW value \in Mtus, MtuOption(value) PROVE Inv'  BY <1>2, MtuOptionInv
<1>3. ASSUME NEW route \in Routes[v6], RouteOption(route[1], route[2]) PROVE Inv'
  BY <1>3, RouteOptionInv
<1>4. ASSUME NEW addr \in Addresses[v6], Single(addr) PROVE Inv'  BY <1>4, SingleInv
<1>5. ASSUME NEW first \in Addresses[v6], NEW last \in Addresses[v6], AddRange(first, last)
      PROVE  Inv'
  BY <1>5, AddRangeInv
<1>6. CASE Broken
  <2>1. Token  BY <1>6 DEF Broken
  <2>2. PICK error \in {"address", "unknown", "no value", "route"} : Fail(error)
    BY <1>6 DEF Broken
  <2> QED  BY <2>1, <2>2, FailInv DEF Errors
<1>7. CASE End  BY <1>7, EndInv
<1>8. CASE UNCHANGED vars
  <2>1. UNCHANGED <<v6, hosts, ttl, mtu, network, prefix, route_set, ret, tokens, named, ranged>>
    BY <1>8 DEF vars
  <2>2. TypeOK'
    <3>1. TypeOK  BY DEF Inv
    <3> QED  BY <2>1, <3>1 DEF TypeOK, inet_size
  <2> QED  BY <2>1, <2>2, KeptHosts DEF Inv
<1> QED  BY <1>1, <1>2, <1>3, <1>4, <1>5, <1>6, <1>7, <1>8 DEF Next

\* Inv is an invariant of HostChain_init, whatever the buffer's size, the width
\* of a word and the tokens.
THEOREM Invariance == Spec => []Inv
BY InitInv, StepInv, PTL DEF Spec

\* What HostChain_init keeps stays in its type: so no TTL is larger than
\* MAXTTL, no MTU larger than a packet can be, and none of a host's is 0.
THEOREM TypeCorrect == Spec => []TypeOK
<1>1. Inv => TypeOK  BY DEF Inv
<1> QED  BY <1>1, Invariance, PTL

\* HostChain_init writes no host behind its buffer (chain.c:210, chain.c:260),
\* as long as the addresses named can be counted in a word.
THEOREM KeepsToBuffer == Spec => []FitsBuffer
<1>1. Inv => FitsBuffer  BY DEF Inv
<1> QED  BY <1>1, Invariance, PTL

\* HostChain_init makes one host of every address named (chain.c:259), as long
\* as they can be counted in a word.
THEOREM HostsOfNames == Spec => []HostForEachName
<1>1. Inv => HostForEachName  BY DEF Inv
<1> QED  BY <1>1, Invariance, PTL

\* Without ranges, each host of a parsed chain has a TTL that is not used up
\* where it stands, in whatever order the TTL changes (chain.c:162, chain.c:210).
THEOREM TtlOutlives == Spec => []TtlOutlivesAddresses
<1>1. Inv => TtlOutlivesAddresses
  <2> SUFFICES ASSUME Inv, ~ranged, NEW k \in 1 .. i PROVE hosts[k].ttl >= k
      BY DEF TtlOutlivesAddresses, TtlOutlivesChain
  <2>1. hosts \in Seq(Host)  BY DEF Inv, TypeOK
  <2>2. hosts[k] \in Host /\ k \in Nat  BY <2>1 DEF i
  <2>3. hosts[k].ttl \in Nat  BY <2>2, LimitsAssumption DEF Host
  <2>4. k <= hosts[k].ttl  BY DEF Inv
  <2> QED  BY <2>2, <2>3, <2>4
<1> QED  BY <1>1, Invariance, PTL

\* No host of a chain passes larger packets on than the hosts before it, in
\* whatever order options and addresses are given (chain.c:166, chain.c:205).
THEOREM MtusShrink == Spec => []MtuNeverGrows
<1>1. Inv => MtuNeverGrows  BY DEF Inv
<1> QED  BY <1>1, Invariance, PTL
=============================================================================
