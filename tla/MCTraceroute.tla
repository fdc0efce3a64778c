---------------------------- MODULE MCTraceroute ----------------------------
(***************************************************************************)
(* An instance of Traceroute for TLC: IPv4 addresses have two bits, and the *)
(* client is elsewhere.                                                    *)
(***************************************************************************)
EXTENDS Traceroute

MCAddr == 0 .. 255
MCAddrSum == [a \in MCAddr |-> 257 * a]
MCHops == 1 .. 3

Host1 == [addr |-> 1, ttl |-> 64, mtu |-> 1500]
Host2 == [addr |-> 2, ttl |-> 64, mtu |-> 1500]
Host3 == [addr |-> 3, ttl |-> 64, mtu |-> 1500]

\* One chain for every address, or two of half each: a destination is the last
\* host, one before it, or none.
MCArrays ==
  {<<[hosts |-> <<Host2, Host3, Host1>>, network |-> 0, prefix |-> 0]>>,
   <<[hosts |-> <<Host3, Host1>>, network |-> 0, prefix |-> 1],
     [hosts |-> <<Host2>>, network |-> 2, prefix |-> 1]>>}
MCTraces == {[dst |-> 1, echo |-> TRUE], [dst |-> 3, echo |-> FALSE]}
=============================================================================
