------------------------------- MODULE MCChat -------------------------------
(***************************************************************************)
(* Small instances of Chat: two commands, in the pairs that meet.          *)
(***************************************************************************)
EXTENDS Chat, TLC

CONSTANTS c1, c2, m1, m2

Ask(kind, message) == [kind |-> kind, message |-> message, byOwner |-> TRUE]
ByStranger(r) == [r EXCEPT !.byOwner = FALSE]
Pair(r, s) == (c1 :> r @@ c2 :> s)

(* Two clicks on one card, a command and what undoes it, and the kinds     *)
(* that meet nobody.                                                       *)
Meetings ==
    {Pair(Ask("accept", m1), Ask("reject", m1)),
     Pair(Ask("recover", m1), Ask("restart", m2)),
     Pair(Ask("cancel", m1), Ask("reject", m2)),
     Pair(Ask("pause", m1), Ask("resume", m2)),
     Pair(Ask("confirm", m1), Ask("draft", m2)),
     Pair(Ask("show", m1), Ask("wizard", m2)),
     Pair(ByStranger(Ask("confirm", m1)), ByStranger(Ask("recover", m2)))}
=============================================================================
