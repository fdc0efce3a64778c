------------------------------- MODULE MCLog -------------------------------
(***************************************************************************)
(* Instances of Log for TLC: main() and two workers, or main() alone.      *)
(***************************************************************************)
EXTENDS Log

CONSTANTS main, w1, w2

MCThreads == {main, w1, w2}
MCAlone == {main}

\* rdnstun asks for 0, which is kept as EXIT_FAILURE; for what is 0 only in a
\* byte, the harder case, the event must replace it again.
MCExitStatus == {256}
=============================================================================
