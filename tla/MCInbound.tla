----------------------------- MODULE MCInbound ------------------------------
(***************************************************************************)
(* Small instances of Inbound: two people and two workers.  A task that is *)
(* completed twice and found by polling; one whose completion is polled    *)
(* and told; and a node that is restarted while events are under way.      *)
(***************************************************************************)
EXTENDS Inbound

CONSTANTS ann, bob, w1, w2

Scope(sources, versions, done, mishaps) ==
    [sources |-> sources, versions |-> versions, done |-> done, trouble |-> mishaps]

SmallScopes == {Scope({"poll"}, 0, 2, 2), Scope({"poll"}, 2, 1, 1),
                Scope({"poll", "event"}, 0, 1, 1), Scope({"event"}, 1, 1, 2)}
=============================================================================
