------------------------------ MODULE Lifetime ------------------------------
(***************************************************************************)
(* What the life cycle of rdnstun promises about the things its threads    *)
(* share, without saying how.  Every user has a handle of its own (the fd  *)
(* of a tun queue) and all users read one table (the two chain arrays).    *)
(* A user works only with an open handle and the table in place.  A handle *)
(* is opened once, closed once and never under its user; the table goes    *)
(* last, once, when nobody works and no handle is left open.               *)
(***************************************************************************)
CONSTANT Users

VARIABLES working,   \* the users at work
          handle,    \* the handle of each user
          table      \* the shared table

vars == <<working, handle, table>>

Init == /\ working = {}
        /\ handle = [u \in Users |-> "none"]
        /\ table = "live"

Open(u) == /\ handle[u] = "none"
           /\ table = "live"
           /\ handle' = [handle EXCEPT ![u] = "open"]
           /\ UNCHANGED <<working, table>>

Start(u) == /\ u \notin working
            /\ handle[u] = "open"
            /\ table = "live"
            /\ working' = working \cup {u}
            /\ UNCHANGED <<handle, table>>

Stop(u) == /\ u \in working
           /\ working' = working \ {u}
           /\ UNCHANGED <<handle, table>>

Close(u) == /\ u \notin working
            /\ handle[u] = "open"
            /\ handle' = [handle EXCEPT ![u] = "closed"]
            /\ UNCHANGED <<working, table>>

Release == /\ working = {}
           /\ \A u \in Users : handle[u] # "open"
           /\ table = "live"
           /\ table' = "freed"
           /\ UNCHANGED <<working, handle>>

Next == \/ \E u \in Users : Open(u) \/ Start(u) \/ Stop(u) \/ Close(u)
        \/ Release

Spec == Init /\ [][Next]_vars
=============================================================================
