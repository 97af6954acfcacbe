----------------------------- MODULE MCDelivery -----------------------------
(***************************************************************************)
(* Small instances of Delivery: two instances, one central worker, a       *)
(* device of ann's.  Bob has work too, but no device, so that his node can *)
(* take the only place of a list.                                          *)
(***************************************************************************)
EXTENDS Delivery

CONSTANTS i1, i2, c1, d1, t1, t2, ann, bob

OwnDevice == d1 :> ann

Scope(one, two, whims, mishaps) ==
    [work |-> i1 :> one @@ i2 :> two, unpaired |-> {}, turns |-> whims,
     trouble |-> mishaps]

SmallScopes == {Scope(ann, "none", 2, 1), Scope(ann, "none", 1, 2),
                Scope("central", ann, 1, 1), Scope("central", bob, 1, 1),
                [Scope(ann, "none", 3, 1) EXCEPT !.unpaired = {d1}]}
=============================================================================
