---------------------------- MODULE MCTemplates ----------------------------
(***************************************************************************)
(* A small instance of Templates: definitions of two nodes for one or two  *)
(* roles, with and without a required input, and one that is refused.      *)
(***************************************************************************)
EXTENDS Templates, TLC

CONSTANTS x, y,         \* the keys
          lead, hand,   \* the roles
          topic         \* the parameter

Definition(roles, deps, takes) ==
    [nodes |-> {x, y}, deps |-> [k \in Keys |-> IF k \in DOMAIN deps THEN deps[k] ELSE {}],
     executor |-> [k \in Keys |-> "human"], rejectTarget |-> [k \in Keys |-> NoKey],
     role |-> roles, consumes |-> [k \in Keys |-> {}],
     uses |-> [k \in Keys |-> takes], takes |-> takes, needs |-> takes]

Alone == Definition(x :> lead @@ y :> lead, y :> {x}, {})
Shared == Definition(x :> lead @@ y :> hand, y :> {x}, {})
Asking == Definition(x :> lead @@ y :> hand, y :> {x}, {topic})
Cyclic == Definition(x :> lead @@ y :> lead, x :> {y} @@ y :> {x}, {})

Library == {Alone, Shared, Asking, Cyclic}

Symmetric == Permutations(Authors)
=============================================================================
