---------------------------- MODULE RouteProofs ----------------------------
(***************************************************************************)
(* A route covers one interval of addresses, and stays one when it is      *)
(* shifted: for addresses of any width, any route and any shifts.          *)
(***************************************************************************)
EXTENDS Route, ChainArrayProofs

\* The width of an address of this family.
Size == inet_size(v6)

\* The inductive invariant: no bit of the network is set behind its prefix.
IInv ==
  /\ v6 \in BOOLEAN
  /\ network \in Addrs(v6) /\ addr \in Addrs(v6)
  /\ prefix \in 0 .. Size
  /\ prefix > 0 => Clear(network, prefix, Size)

\* Prefixes are numbers.
LEMMA PrefixType ==
  ASSUME v6 \in BOOLEAN, prefix \in 0 .. Size
  PROVE  prefix \in Nat /\ prefix <= Size /\ Size \in Nat
BY SizeType DEF Size

\* The parser lets no other route pass.
LEMMA InitIInv ==
  ASSUME Init
  PROVE  IInv
<1>1. /\ v6 \in BOOLEAN /\ network \in Addrs(v6) /\ addr \in Addrs(v6) /\ prefix \in 0 .. Size
      /\ TRUE \in inet_isnetwork(v6, network, prefix)
  BY DEF Init, Size
<1>2. prefix > 0 => Clear(network, prefix, Size)
  <2>1. SUFFICES ASSUME prefix > 0 PROVE Clear(network, prefix, Size)
    OBVIOUS
  <2>2. prefix \in Nat \ {0} /\ prefix <= Size
    BY <1>1, <2>1, PrefixType
  <2>3. network \in Nat
    BY <1>1, SizeType, PowerPositive DEF Addrs
  <2>4. inet_isnetwork(v6, network, prefix) = {Clear(network, prefix, Size)}
    BY <1>1, <2>2, <2>3, ChecksClear DEF Size
  <2>5. QED
    BY <1>1, <2>4
<1>3. QED
  BY <1>1, <1>2 DEF IInv

\* A shift moves the network by blocks it is made of.
LEMMA ShiftIInv ==
  ASSUME IInv, NEW offset, offset \in Shifts, NEW by, by \in 1 .. prefix, Shift(offset, by)
  PROVE  IInv' /\ v6' = v6 /\ prefix' = prefix
         /\ (membcmpEq(network', addr', prefix, Size) <=> membcmpEq(network, addr, prefix, Size))
         /\ (prefix > 0 => Clear(network', prefix, Size))
<1>1. /\ v6 \in BOOLEAN /\ network \in Addrs(v6) /\ addr \in Addrs(v6) /\ prefix \in 0 .. Size
      /\ prefix > 0 => Clear(network, prefix, Size)
  BY DEF IInv
<1>2. prefix \in Nat /\ prefix <= Size
  BY <1>1, PrefixType
<1>3. by \in 0 .. prefix /\ offset \in Int
  BY <1>2, ShiftsAssumption
<1>4. /\ network' = inet_shift(v6, network, offset, by) /\ addr' = inet_shift(v6, addr, offset, by)
      /\ v6' = v6 /\ prefix' = prefix
  BY DEF Shift
<1>5. /\ network' \in Addrs(v6)
      /\ Moves(network, network', offset * 2 ^ (prefix - by), prefix, Size)
  BY <1>1, <1>2, <1>3, <1>4, ShiftMoves DEF Size
<1>6. addr' \in Addrs(v6)
  BY <1>1, <1>2, <1>3, <1>4, ShiftMoves DEF Size
<1>7. prefix > 0 => Clear(network', prefix, Size)
  BY <1>1, <1>5 DEF Moves
<1>8. membcmpEq(network', addr', prefix, Size) <=> membcmpEq(network, addr, prefix, Size)
  BY <1>1, <1>2, <1>3, <1>4, ShiftKeepsMatch DEF Size
<1>9. IInv'
  BY <1>1, <1>4, <1>5, <1>6, <1>7 DEF IInv, Size
<1>10. QED
  BY <1>4, <1>7, <1>8, <1>9

\* So does every step.
LEMMA NextIInv ==
  ASSUME IInv, [Next]_vars
  PROVE  IInv'
<1>1. CASE Next
  BY <1>1, ShiftIInv DEF Next
<1>2. CASE UNCHANGED vars
  BY <1>2 DEF vars, IInv, Size
<1>3. QED
  BY <1>1, <1>2

\* What _inet_isnetwork4 and 6 accept and inet_shift moves has no bit behind its
\* prefix (inet.c:85-160), for words and bytes of any width.
THEOREM InductiveInvariant == Spec => []IInv
<1>1. Init => IInv
  BY InitIInv
<1>2. IInv /\ [Next]_vars => IInv'
  BY NextIInv
<1>3. QED
  BY <1>1, <1>2, PTL DEF Spec

-----------------------------------------------------------------------------
\* membcmp, the route check of the parser and the ranges of main() agree on what a
\* prefix is (inet.c:58-105).
THEOREM RoutesAreIntervals == Spec => []RouteIsInterval
<1>1. ASSUME IInv PROVE RouteIsInterval
  <2>1. /\ v6 \in BOOLEAN /\ network \in Addrs(v6) /\ addr \in Addrs(v6) /\ prefix \in 0 .. Size
        /\ prefix > 0 => Clear(network, prefix, Size)
    BY <1>1 DEF IInv
  <2>2. CASE prefix = 0
    BY <2>2 DEF RouteIsInterval, Matches
  <2>3. CASE prefix # 0
    <3>1. Clear(network, prefix, Size)
      BY <2>1, <2>3, PrefixType
    <3>2. membcmpEq(network, addr, prefix, Size)
            <=> addr \in network .. network + 2 ^ (Size - prefix) - 1
      BY <2>1, <3>1, CoversInterval DEF Size
    <3>3. QED
      BY <2>3, <3>2 DEF RouteIsInterval, Matches, Size
  <2>4. QED
    BY <2>2, <2>3
<1>2. QED
  BY <1>1, InductiveInvariant, PTL

\* -E moves a chain to where its route is one, and matches the addresses it should
\* (chain.c:69-80, inet.c:121-147).
THEOREM ShiftsKeepRoutes == Spec => ShiftKeepsRoute
<1> DEFINE Keeps == /\ prefix > 0 => inet_isnetwork(v6, network', prefix) = {TRUE}
                    /\ Matches' = Matches
<1>1. ASSUME IInv, Next PROVE Keeps
  <2>1. PICK offset \in Shifts, by \in 1 .. prefix : Shift(offset, by)
    BY <1>1 DEF Next
  <2>2. /\ v6' = v6 /\ prefix' = prefix /\ IInv'
        /\ membcmpEq(network', addr', prefix, Size) <=> membcmpEq(network, addr, prefix, Size)
        /\ prefix > 0 => Clear(network', prefix, Size)
    BY <1>1, <2>1, ShiftIInv
  <2>3. Matches' <=> Matches
    BY <2>2 DEF Matches, Size
  <2>4. Matches \in BOOLEAN /\ Matches' \in BOOLEAN
    BY DEF Matches
  <2>5. ASSUME prefix > 0 PROVE inet_isnetwork(v6, network', prefix) = {TRUE}
    <3>1. v6 \in BOOLEAN /\ prefix \in 0 .. Size /\ network' \in Addrs(v6)
      BY <1>1, <2>2 DEF IInv
    <3>2. prefix \in Nat \ {0} /\ prefix <= Size
      BY <2>5, <3>1, PrefixType
    <3>3. network' \in Nat
      BY <3>1, SizeType, PowerPositive DEF Addrs
    <3>4. inet_isnetwork(v6, network', prefix) = {Clear(network', prefix, Size)}
      BY <3>1, <3>2, <3>3, ChecksClear DEF Size
    <3>5. Clear(network', prefix, Size) = TRUE
      BY <2>2, <2>5 DEF Clear
    <3>6. QED
      BY <3>4, <3>5
  <2>6. QED
    BY <2>3, <2>4, <2>5
<1>2. IInv /\ [Next]_vars => [Keeps]_vars
  BY <1>1
<1>3. QED
  BY <1>2, InductiveInvariant, PTL DEF Spec, ShiftKeepsRoute
=============================================================================
