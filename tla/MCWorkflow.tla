----------------------------- MODULE MCWorkflow -----------------------------
(***************************************************************************)
(* Small instances of Workflow: three keys, snapshots written as tables.   *)
(***************************************************************************)
EXTENDS Workflow, TLC

CONSTANTS a, b, c,      \* the keys
          ann, bob,     \* the people
          v, w          \* the workers

(* deps, executor and reject target of the nodes in ns; keys outside of ns *)
(* get harmless values. *)
Graph(ns, deps, exec, reject, owners) ==
    [nodes |-> ns,
     deps |-> [k \in Keys |-> IF k \in DOMAIN deps THEN deps[k] ELSE {}],
     executor |-> [k \in Keys |-> IF k \in DOMAIN exec THEN exec[k] ELSE "human"],
     owner |-> [k \in Keys |-> IF k \in owners THEN bob ELSE ann],
     rejectTarget |-> [k \in Keys |->
                          IF k \in DOMAIN reject THEN reject[k] ELSE NoKey]]

(* agent a, whose result human b accepts or sends back, then agent c *)
Review == Graph({a, b, c}, b :> {a} @@ c :> {b}, a :> "agent" @@ c :> "agent",
                b :> a, {})
(* agent a before agent b *)
Pair == Graph({a, b}, b :> {a}, a :> "agent" @@ b :> "agent", << >>, {})

(* What edits may arrive at: b removed; human c added beside b; b given to *)
(* a tool, freed of a, and joined with a by a new human c; and a cycle that *)
(* validation refuses. *)
Solo == Graph({a}, << >>, a :> "agent", << >>, {})
Grown == Graph({a, b, c}, b :> {a} @@ c :> {a}, a :> "agent" @@ b :> "agent",
               << >>, {})
Joined == Graph({a, b, c}, c :> {a, b}, a :> "agent" @@ b :> "tool", << >>, {b})
Cyclic == Graph({a, b, c}, b :> {a, c} @@ c :> {b}, a :> "agent", << >>, {})

AnyDraft == {Pair, Review}
FutureEdits == {Pair, Solo, Grown, Joined, Cyclic}

BothServeAll == [x \in Workers |-> {"agent", "tool"}]
=============================================================================
