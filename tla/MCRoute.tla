------------------------------ MODULE MCRoute ------------------------------
(***************************************************************************)
(* Routes for TLC: every IPv4 one, and those of IPv6 whose networks are    *)
(* patterns of all ones, of ones in some words or bytes only, and of zeros.*)
(***************************************************************************)
EXTENDS Route

Patterns(six) == IF six THEN {0, 65535, 42405, 3855, 61440} ELSE Addrs(FALSE)

Block(six, p) == 2 ^ (inet_size(six) - p)

\* The patterns, and the networks they are in.
MCNetworks(six) ==
  {x - (x % Block(six, p)) : x \in Patterns(six), p \in 0 .. inet_size(six)}

\* The addresses at the edges of a network, and those farthest from it.
MCTried(six, n, p) ==
  {n - 1, n, n + 1, n + Block(six, p) - 1, n + Block(six, p), 0, 2 ^ inet_size(six) - 1}
=============================================================================
