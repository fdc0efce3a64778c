----------------------------- MODULE MCOptions -----------------------------
(***************************************************************************)
(* Instances of Options for TLC, with IPv4 addresses of four bits: chains  *)
(* that may be duplicated once, several times and past the last address,   *)
(* and one without a route, which may not.                                 *)
(***************************************************************************)
EXTENDS Options

Chain(addrs, network, prefix) ==
  [hosts |-> [k \in DOMAIN addrs |-> [addr |-> addrs[k]]],
   network |-> network, prefix |-> prefix]

MCSpecs ==
  [v6 \in BOOLEAN |->
     IF v6 THEN {Chain(<<257, 256>>, 256, 8)}
     ELSE {Chain(<<5, 6>>, 4, 2), Chain(<<13, 12>>, 12, 2), Chain(<<3>>, 0, 0)}]

MCProcessors == {-1, 0, 2}
\* None, too many, and 18, of which an int of four bits keeps a 2.
MCThreads == {0, 5, 18}
=============================================================================
