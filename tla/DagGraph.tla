------------------------------ MODULE DagGraph ------------------------------
(***************************************************************************)
(* Instance snapshots and the questions graph.py asks of them.             *)
(*                                                                         *)
(* A snapshot is the record                                                *)
(*   [nodes, deps, executor, owner, rejectTarget]                          *)
(* nodes is the set of node keys the frozen graph defines; the other       *)
(* fields are functions on Keys and mean something on nodes only.          *)
(* rejectTarget[k] # NoKey says that k carries work.decision and names the *)
(* dependency a rejection sends back for rework.  Titles, objectives,      *)
(* outputs and acceptance texts are validated per node by the code and do  *)
(* not reach any decision the modules built on this one take.              *)
(*                                                                         *)
(* Every operator is a closed formula, so that modules which use it can be *)
(* proved about: what the loops of graph.py compute, not how.              *)
(***************************************************************************)
CONSTANTS Keys,         \* node keys
          People,       \* persons who may own a node
          NoKey         \* "no reject_target": not a decision node

ASSUME KeyAssumption == NoKey \notin Keys

Executors == {"human", "agent", "tool"}

Snapshot ==
    [nodes: SUBSET Keys, deps: [Keys -> SUBSET Keys],
     executor: [Keys -> Executors], owner: [Keys -> People],
     rejectTarget: [Keys -> Keys \cup {NoKey}]]

-----------------------------------------------------------------------------
(* direct_successors: the nodes that name k among their deps. *)
Successors(g, k) == {x \in g.nodes : k \in g.deps[x]}

(* A set of keys with every direct successor of its members. *)
SuccessorClosed(g, C) == \A x \in g.nodes : g.deps[x] \cap C # {} => x \in C

(* target plus reachable_downstream(target), the least successor-closed    *)
(* set around the target: what a node restart resets.                      *)
Affected(g, k) ==
    {x \in g.nodes :
        \A C \in SUBSET g.nodes : k \in C /\ SuccessorClosed(g, C) => x \in C}

(* reachable_downstream: found only through at least one edge, so k itself *)
(* is in it exactly when k lies on a cycle.                                *)
Downstream(g, k) == UNION {Affected(g, x) : x \in Successors(g, k)}

(* What topological_order decides: no non-empty set of nodes in which      *)
(* everyone waits for someone of the set.                                  *)
Acyclic(g) ==
    \A S \in SUBSET g.nodes : S # {} => \E x \in S : g.deps[x] \cap S = {}

(* decision_config: the node is an accept-or-reject decision. *)
IsDecision(g, k) == g.rejectTarget[k] # NoKey

(* validate_snapshot with the part of _validate_work that relates nodes. *)
Valid(g) ==
    /\ g.nodes # {}
    /\ \A k \in g.nodes :
        /\ g.deps[k] \subseteq g.nodes \ {k}
        /\ IsDecision(g, k) => /\ g.executor[k] = "human"
                               /\ g.rejectTarget[k] \in g.deps[k]
    /\ Acyclic(g)

(* ready_node_keys: pending nodes whose dependencies are all done. *)
ReadyKeys(g, status) ==
    {k \in g.nodes : /\ status[k] = "pending"
                     /\ \A d \in g.deps[k] : status[d] = "done"}

Roots(g) == {k \in g.nodes : g.deps[k] = {}}

(* _node_spec equality field by field: what update_node may change. *)
SameSpec(g, h, k) ==
    /\ g.deps[k] = h.deps[k]
    /\ g.executor[k] = h.executor[k]
    /\ g.owner[k] = h.owner[k]
    /\ g.rejectTarget[k] = h.rejectTarget[k]

=============================================================================
