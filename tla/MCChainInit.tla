---------------------------- MODULE MCChainInit ----------------------------
(***************************************************************************)
(* Instances of ChainInit for TLC: a buffer of 6 hosts and words of four   *)
(* bits, so that ranges fit, do not fit, and wrap; MTUs count in units     *)
(* that keep the order of the real limits (576 < 1280 < 1500 < 65535).     *)
(***************************************************************************)
EXTENDS ChainInit

MCMinMtu == [six \in BOOLEAN |-> IF six THEN 3 ELSE 2]

\* Short ranges and some with nearly all the addresses of a word; the last IPv6
\* address differs from the others in its leading words.
SomeAddresses == [six \in BOOLEAN |-> IF six THEN {17, 19, 31, 35} ELSE {1, 3, 8, 15}]

\* Routes as <<network, prefix>>, among them some with bits after the prefix and
\* one with a prefix longer than the address.
MCRoutes ==
  [six \in BOOLEAN |-> IF six THEN {<<0, 0>>, <<16, 12>>, <<17, 12>>, <<0, 17>>}
                       ELSE {<<8, 1>>, <<3, 2>>, <<1, 0>>}]
=============================================================================
