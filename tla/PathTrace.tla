----------------------------- MODULE PathTrace -----------------------------
(***************************************************************************)
(* What rdnstun promises to who traces it: "used to display a long path in *)
(* a traceroute-like tool" (README.md).  There is a path, and every hop of *)
(* it shows up once, in any order, and goes on showing what it showed.     *)
(***************************************************************************)

VARIABLES path,    \* path[h]: the router at hop h and how it answers
          shown    \* shown[h]: what the tool has displayed for it

vars == <<path, shown>>

Unanswered == <<>>

Init == shown = [h \in DOMAIN path |-> Unanswered]

Reveal(h) == /\ shown[h] = Unanswered
             /\ shown' = [shown EXCEPT ![h] = path[h]]
             /\ UNCHANGED path

Next == \E h \in DOMAIN path : Reveal(h)

Safety == Init /\ [][Next]_vars

Spec == Safety /\ WF_vars(Next)
=============================================================================
