------------------------------ MODULE MCLegacy -------------------------------
(***************************************************************************)
(* Small instances of Legacy: a draft, a task and a review; a review by    *)
(* the person who made what is reviewed; two gates over one draft; a task  *)
(* beside an automated branch.  Each with a turn of its owner, or with     *)
(* something that goes wrong.                                              *)
(***************************************************************************)
EXTENDS Legacy

CONSTANTS a, k, r, g, c, ann, bob, own

Line(ns, ds) == [nodes |-> ns, deps |-> [n \in Node |-> IF n \in DOMAIN ds THEN ds[n] ELSE {}]]
Plan(d, e, t) == [dag |-> d, turns |-> e, mishaps |-> t]

WhoDoes == (k :> bob) @@ (r :> ann) @@ (g :> bob)
Order == (a :> 1) @@ (k :> 2) @@ (c :> 3) @@ (r :> 4) @@ (g :> 5)
Once == [n \in Gate |-> 1]
(* draft a, task r, review g *)
Straight == Line({a, r, g}, (r :> {a}) @@ (g :> {r}))
(* card k, task r, review g by who made k *)
Own == Line({k, r, g}, (r :> {k}) @@ (g :> {r}))
(* check c and review g over one draft *)
TwoGates == Line({a, c, g}, (c :> {a}) @@ (g :> {a}))
(* task r beside an automated branch *)
Beside == Line({a, c, r, g}, (c :> {a}) @@ (g :> {r}))
(* Check c may be put beside task r, or taken out. *)
Checked == Line({a, c, r, g}, (c :> {a}) @@ (r :> {a}) @@ (g :> {r}))
Longer == Line({a, c, r, g}, (c :> {a}) @@ (r :> {a}) @@ (g :> {r, c}))
Grown == {Checked, Longer, Straight}
Small == {Plan(Straight, 1, 0), Plan(Straight, 0, 1), Plan(Own, 1, 0),
          Plan(TwoGates, 2, 0), Plan(TwoGates, 0, 1), Plan(Beside, 1, 0), Plan(Beside, 0, 1)}
=============================================================================
