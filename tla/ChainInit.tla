----------------------------- MODULE ChainInit -----------------------------
(***************************************************************************)
(* HostChain_init (chain.c:137-307): the parser of a chain, one action per *)
(* kind of token.  Tokens are already split and their numbers and          *)
(* addresses converted; a token that is not well formed is one of Broken's *)
(* errors.  The buffer holds MAXTTL hosts, the null terminator is written  *)
(* after it has been resized.                                              *)
(***************************************************************************)
EXTENDS Inet, Sequences

CONSTANTS MAXTTL,       \* 255: hosts the buffer holds, and the largest TTL
          MinMtu,       \* 576, or 1280 for IPv6
          IP_MAXPACKET, \* 65535
          DefaultTtl,   \* 64
          DefaultMtu,   \* 1500
          Ttls, Mtus, Addresses, Routes,  \* the values tokens may have
          MaxTokens     \* bound on the tokens of one chain

ASSUME LimitsAssumption ==
  /\ MAXTTL \in Nat /\ DefaultTtl \in 1 .. MAXTTL
  /\ MinMtu \in [BOOLEAN -> Nat \ {0}] /\ IP_MAXPACKET \in Nat
  /\ \A v \in BOOLEAN : DefaultMtu \in MinMtu[v] .. IP_MAXPACKET
ASSUME TokensAssumption ==
  /\ Ttls \subseteq Int /\ Mtus \subseteq Int /\ MaxTokens \in Nat
  /\ Addresses \in [BOOLEAN -> SUBSET Nat]
  /\ Routes \in [BOOLEAN -> SUBSET (Nat \X Nat)]
ASSUME WordAssumption == 2 ^ WordBits \in Nat \ {0}

VARIABLES v6,
          hosts,      \* the hosts written so far: i is their number
          ttl, mtu,   \* the current options, 0 when not given
          network, prefix, route_set,
          ret,        \* "parsing", "ok" or an error number's name
          tokens,     \* tokens read
          named,      \* addresses that the tokens read so far name
          ranged      \* whether one of them was a range

vars == <<v6, hosts, ttl, mtu, network, prefix, route_set, ret, tokens, named, ranged>>
options == <<ttl, mtu, network, prefix, route_set>>

Init ==
  /\ v6 \in BOOLEAN
  /\ hosts = <<>>
  /\ ttl = 0 /\ mtu = 0
  /\ network = 0 /\ prefix = 0 /\ route_set = FALSE
  /\ ret = "parsing"
  /\ tokens = 0 /\ named = 0 /\ ranged = FALSE

i == Len(hosts)

\* Another token is read.
Token ==
  /\ ret = "parsing"
  /\ tokens < MaxTokens
  /\ tokens' = tokens + 1
  /\ UNCHANGED v6

Fail(error) ==
  /\ ret' = error
  /\ UNCHANGED <<hosts, named, ranged, options>>

-----------------------------------------------------------------------------
(* Options *)

\* Mutant of TtlOption: no upper bound.
TtlOptionUnbounded(value) ==
  /\ Token
  /\ IF value > i
     THEN /\ ttl' = value
          /\ UNCHANGED <<hosts, mtu, network, prefix, route_set, ret, named, ranged>>
     ELSE Fail("ttl")

TtlOption(value) ==
  /\ Token
  /\ IF value \in i + 1 .. MAXTTL
     THEN /\ ttl' = value
          /\ UNCHANGED <<hosts, mtu, network, prefix, route_set, ret, named, ranged>>
     ELSE Fail("ttl")

\* Mutant of MtuOption: bounded by the largest packet alone.
MtuOptionFree(value) ==
  /\ Token
  /\ IF value \in MinMtu[v6] .. IP_MAXPACKET
     THEN /\ mtu' = value
          /\ UNCHANGED <<hosts, ttl, network, prefix, route_set, ret, named, ranged>>
     ELSE Fail("mtu")

MtuOption(value) ==
  /\ Token
  /\ IF value \in MinMtu[v6] .. (IF mtu = 0 THEN IP_MAXPACKET ELSE mtu)
     THEN /\ mtu' = value
          /\ UNCHANGED <<hosts, ttl, network, prefix, route_set, ret, named, ranged>>
     ELSE Fail("mtu")

\* Whether a route passes, which is not defined for all of them.
Accepted(net, len) ==
  IF route_set \/ len > inet_size(v6) THEN {FALSE} ELSE inet_isnetwork(v6, net, len)

RouteOption(net, len) ==
  /\ Token
  /\ \/ /\ TRUE \in Accepted(net, len)
        /\ network' = net /\ prefix' = len /\ route_set' = TRUE
        /\ UNCHANGED <<hosts, ttl, mtu, ret, named, ranged>>
     \/ /\ FALSE \in Accepted(net, len)
        /\ Fail("route")

-----------------------------------------------------------------------------
(* Addresses *)

\* The first address sets the defaults of the options that came before it.
Options == [ttl |-> IF i = 0 /\ ttl = 0 THEN DefaultTtl ELSE ttl,
            mtu |-> IF i = 0 /\ mtu = 0 THEN DefaultMtu ELSE mtu]

\* Hosts for these addresses are added with the current options.
Add(addrs) ==
  /\ hosts' = hosts \o [k \in DOMAIN addrs |->
                          [addr |-> addrs[k], ttl |-> Options.ttl, mtu |-> Options.mtu]]
  /\ ttl' = Options.ttl /\ mtu' = Options.mtu
  /\ UNCHANGED <<network, prefix, route_set, ret>>

\* Mutants of TooLong: never, and one host too late.
TooLongNever == FALSE
TooLongLate == i > 0 /\ i > ttl

TooLong == i > 0 /\ i >= ttl

Single(addr) ==
  /\ Token
  /\ IF TooLong THEN Fail("too long")
     ELSE /\ Add(<<addr>>)
          /\ named' = named + 1
          /\ UNCHANGED ranged

\* The count of a range, its sum with i and the addresses in it are computed in
\* unsigned 32-bit words, on the last word of an address.
Word(n) == n % 2 ^ WordBits
Last(addr) == Word(addr)
Lead(addr) == addr - Last(addr)
\* Mutant of n_addr: the last address is left out.
n_addr_short(start, stop) == Word((stop - start) * (IF stop > start THEN 1 ELSE -1))
n_addr(start, stop) ==
  Word((stop - start) * (IF stop > start THEN 1 ELSE -1) + 1)
RangeAt(first, stop, k) ==
  Lead(first) + Word(Last(first) + (k - 1) * (IF stop > Last(first) THEN 1 ELSE -1))

AddRange(first, last) ==
  /\ Token
  /\ LET n == n_addr(Last(first), Last(last))
     IN  \/ TooLong /\ Fail("too long")
         \/ /\ ~TooLong /\ (Lead(first) # Lead(last) \/ Word(i + n) >= MAXTTL)
            /\ first # last
            /\ Fail("range")
         \/ /\ ~TooLong
            /\ first = last \/ (Lead(first) = Lead(last) /\ Word(i + n) < MAXTTL)
            /\ Add(IF first = last THEN <<first>>
                   ELSE [k \in 1 .. n |-> RangeAt(first, Last(last), k)])
            /\ named' = named + 1 + (IF last > first THEN last - first ELSE first - last)
            /\ ranged' = TRUE

\* Not an address, an unknown option, an option without a value, a route
\* without a network or a prefix.
Broken ==
  /\ Token
  /\ \E error \in {"address", "unknown", "no value", "route"} : Fail(error)

\* The string is used up.  Giving back the rest of the buffer (chain.c:299, whose
\* result is not checked) succeeds: realloc only has to shorten it.
End ==
  /\ ret = "parsing"
  /\ ret' = IF i = 0 THEN "empty" ELSE "ok"
  /\ UNCHANGED <<v6, hosts, options, tokens, named, ranged>>

Next ==
  \/ \E value \in Ttls : TtlOption(value)
  \/ \E value \in Mtus : MtuOption(value)
  \/ \E route \in Routes[v6] : RouteOption(route[1], route[2])
  \/ \E addr \in Addresses[v6] : Single(addr)
  \/ \E first, last \in Addresses[v6] : AddRange(first, last)
  \/ Broken
  \/ End

Spec == Init /\ [][Next]_vars

-----------------------------------------------------------------------------
(* Properties *)

Host == [addr : Nat, ttl : 1 .. MAXTTL, mtu : 1 .. IP_MAXPACKET]

TypeOK ==
  /\ v6 \in BOOLEAN /\ route_set \in BOOLEAN /\ ranged \in BOOLEAN
  /\ hosts \in Seq(Host)
  /\ ttl \in 0 .. MAXTTL /\ mtu \in 0 .. IP_MAXPACKET
  /\ network \in Nat /\ prefix \in 0 .. inet_size(v6)
  /\ ret \in {"parsing", "ok", "empty", "ttl", "mtu", "route", "too long", "range",
             "address", "unknown", "no value"}
  /\ tokens \in 0 .. MaxTokens /\ named \in Nat

\* The addresses named so far can be counted in a word.
Countable == named < 2 ^ WordBits

\* No host is written behind the buffer of MAXTTL hosts, however single addresses,
\* ranges and TTLs are mixed, as long as the addresses can be counted in a word.
\* (Otherwise i + n_addr wraps, and so may pass the test against MAXTTL: what is
\* left of the model from there on is the count of the hosts.)
FitsBuffer == Countable => i <= MAXTTL

\* So long, too, there is one host for every address that the tokens name, in
\* ranges up and down, whatever the words in front of their last one.
HostForEachName == Countable => i = named

\* A host answers with its TTL less the number of hosts before it: parsing
\* refuses a chain in which that is not positive ("address chain longer than
\* current TTL", chain.c:92).
TtlOutlivesChain == ret = "ok" => \A k \in 1 .. i : hosts[k].ttl >= k

\* So it does as long as no range is used, in whatever order TTLs change.
TtlOutlivesAddresses == ~ranged => TtlOutlivesChain

\* A chain is a path: no router passes larger packets on than those before it
\* do, whatever the order of the options and the default.
MtuNeverGrows == \A j, k \in 1 .. i : j <= k => hosts[k].mtu <= hosts[j].mtu
=============================================================================
