------------------------------- MODULE Chain -------------------------------
(***************************************************************************)
(* chain.c: how a packet finds the host that answers it.  A chain is       *)
(* [hosts, network, prefix]; its hosts [addr, ttl, mtu] are a sequence     *)
(* whose end is the null terminator the parser writes, so that an explicit *)
(* null address inside it ends the chain early, as in the code.  A chain   *)
(* array is the sequence of the chains before its own terminator.          *)
(***************************************************************************)
EXTENDS Inet, Sequences

\* BaseFakeHost_isnull: the unspecified address ends a chain.
Null == 0

NoHost == [host |-> [addr |-> Null, ttl |-> 0, mtu |-> 0], index |-> 0, found |-> FALSE]

\* The hosts before the first null one.
HostChain_nitem(c) ==
  CHOOSE n \in 0 .. Len(c.hosts) :
    /\ n < Len(c.hosts) => c.hosts[n + 1].addr = Null
    /\ \A i \in 1 .. n : c.hosts[i].addr # Null

HostChain_in(v6, c, addr) ==
  c.prefix = 0 \/ membcmpEq(c.network, addr, c.prefix, inet_size(v6))

\* The first host of chain c with address addr among the first n, or the last of
\* them; none if there are none.
FindAmong(c, addr, n) ==
  LET hits == {i \in 0 .. n - 1 : c.hosts[i + 1].addr = addr}
      at(i, found) == [host |-> c.hosts[i + 1], index |-> i, found |-> found]
  IN  IF hits # {} THEN at(CHOOSE i \in hits : \A j \in hits : i <= j, TRUE)
      ELSE IF n <= 0 THEN NoHost
      ELSE at(n - 1, FALSE)

\* How many hosts of c a packet may pass.
Reach(c, ttl) == IF ttl < HostChain_nitem(c) THEN ttl ELSE HostChain_nitem(c)

\* Mutants of HostChain_find: one host more, and one less, than ttl reaches.
HostChain_find_past(c, addr, ttl) == FindAmong(c, addr, Reach(c, ttl + 1))
HostChain_find_short(c, addr, ttl) == FindAmong(c, addr, Reach(c, ttl - 1))

\* The host that answers addr, among those ttl reaches.
HostChain_find(c, addr, ttl) == FindAmong(c, addr, Reach(c, ttl))

\* Mutant of HostChainArray_find: the first chain that matches decides.
HostChainArray_find_first(v6, chains, addr, ttl) ==
  LET matching == {j \in DOMAIN chains : HostChain_in(v6, chains[j], addr)}
      first    == CHOOSE j \in matching : \A k \in matching : j <= k
  IN  IF matching = {} THEN NoHost ELSE HostChain_find(chains[first], addr, ttl)

\* Matching chains are tried in order until one has the address, or is empty;
\* every one tried overwrites the host of the one before.
HostChainArray_find(v6, chains, addr, ttl) ==
  LET matching == {j \in DOMAIN chains : HostChain_in(v6, chains[j], addr)}
      find(j)  == HostChain_find(chains[j], addr, ttl)
      tried    == {j \in matching : \A k \in matching :
                     k < j => find(k) # NoHost /\ ~find(k).found}
      hosts    == {j \in tried : find(j) # NoHost}
  IN  IF hosts = {} THEN NoHost ELSE find(CHOOSE j \in hosts : \A k \in hosts : k <= j)

\* HostChain_shift: the route moves, and the hosts before the terminator do.
HostChain_shift(v6, c, offset, prefix) ==
  LET moved(addr) == inet_shift(v6, addr, offset, prefix)
      host(k) == IF k <= HostChain_nitem(c) THEN [c.hosts[k] EXCEPT !.addr = moved(@)]
                 ELSE c.hosts[k]
  IN  [c EXCEPT !.network = moved(@), !.hosts = [k \in DOMAIN c.hosts |-> host(k)]]

\* HostChain_copy, but for the buffer: hosts behind an early terminator are lost.
HostChain_copy(c) == [c EXCEPT !.hosts = SubSeq(@, 1, HostChain_nitem(c))]

\* HostChain_compare <= 0: longer prefixes first, then networks in order.  The
\* network of a chain without a route is never set.  The code compares 32 or 8 bytes
\* (chain.c:35), what lies behind the network in the structure too: chains with the
\* same route may come in any order.
HostChain_le(a, b) ==
  \/ a.prefix > b.prefix
  \/ a.prefix = b.prefix /\ (a.prefix = 0 \/ a.network <= b.network)

\* What HostChainArray_sort leaves behind.
HostChainArray_sorted(chains) ==
  \A j, k \in DOMAIN chains : j < k => HostChain_le(chains[j], chains[k])
=============================================================================
