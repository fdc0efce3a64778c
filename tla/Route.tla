------------------------------- MODULE Route -------------------------------
(***************************************************************************)
(* A route that the parser of a chain accepts (chain.c:176-188) and an     *)
(* address it is matched against, then moved together as -E moves a chain  *)
(* and its hosts (chain.c:69-80).                                          *)
(***************************************************************************)
EXTENDS Inet

CONSTANTS Networks(_),   \* the networks tried, by v6
          Tried(_, _, _),  \* and the addresses, by v6, network and prefix
          Shifts,        \* the numbers of blocks -E moves by
          MaxShift       \* bound on the shifts of one route

ASSUME ShiftsAssumption == Shifts \subseteq Int /\ MaxShift \in Nat

VARIABLES v6, network, prefix, addr, shifts

vars == <<v6, network, prefix, addr, shifts>>

Init ==
  /\ v6 \in BOOLEAN
  /\ network \in Networks(v6) \cap Addrs(v6)
  /\ prefix \in 0 .. inet_size(v6)
  /\ TRUE \in inet_isnetwork(v6, network, prefix)
  /\ addr \in Tried(v6, network, prefix) \cap Addrs(v6)
  /\ shifts = 0

\* HostChain_shift, by blocks of a prefix that main() found no longer than that of
\* the chain.
Shift(offset, by) ==
  /\ shifts < MaxShift
  /\ network' = inet_shift(v6, network, offset, by)
  /\ addr' = inet_shift(v6, addr, offset, by)
  /\ shifts' = shifts + 1
  /\ UNCHANGED <<v6, prefix>>

Next == \E offset \in Shifts, by \in 1 .. prefix : Shift(offset, by)

Spec == Init /\ [][Next]_vars

-----------------------------------------------------------------------------
(* Properties *)

\* HostChain_in
Matches == prefix = 0 \/ membcmpEq(network, addr, prefix, inet_size(v6))

\* A route that was accepted covers one interval of addresses, and starts it:
\* the byte-wise membcmp, the word-wise route check and the arithmetic of the
\* ranges agree on what a prefix is, also when a prefix ends inside a byte or a
\* word.  (A default route is matched without looking at its network.)
RouteIsInterval ==
  Matches <=> \/ prefix = 0
              \/ addr \in network .. network + 2 ^ (inet_size(v6) - prefix) - 1

\* Moved by whole blocks of a shorter or equal prefix, a route is still one the
\* parser would accept, and it still covers a host of its chain, or still does
\* not, even when the move wraps past the last address.
ShiftKeepsRoute ==
  [][/\ prefix > 0 => inet_isnetwork(v6, network', prefix) = {TRUE}
     /\ Matches' = Matches]_vars
=============================================================================
