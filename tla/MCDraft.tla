------------------------------ MODULE MCDraft -------------------------------
(***************************************************************************)
(* Small instances of Draft and AgentContext: two pages and a selection;   *)
(* an upload that overlaps with the freeze; a version that is revoked and  *)
(* published again; two workers with trouble; a file and a version that    *)
(* planner and agent read.                                                 *)
(***************************************************************************)
EXTENDS AgentContext

CONSTANTS guide, f1, f2, p1, p2, w1, w2, root

Scope(sources, files, edits, moving, mishaps) ==
    [sources |-> sources, files |-> files, edits |-> edits, catalog |-> moving,
     trouble |-> mishaps]

SmallScopes == {Scope({guide}, {}, 2, FALSE, 1), Scope({}, {f1, f2}, 0, FALSE, 1),
                Scope({guide}, {}, 1, TRUE, 1), Scope({}, {f1}, 0, FALSE, 2),
                Scope({guide}, {f1}, 1, TRUE, 0)}
=============================================================================
