---------------------------- MODULE Definitions ----------------------------
(***************************************************************************)
(* What a person or a model writes down before there is an instance: a     *)
(* definition, a graph whose nodes name roles instead of people.  This is  *)
(* template_service.py without its store: which definitions are accepted,  *)
(* and what becomes of one when roles and inputs are bound.                *)
(*                                                                         *)
(* A definition is the record                                              *)
(*   [nodes, deps, executor, rejectTarget, role, consumes, uses, takes,    *)
(*    needs]                                                               *)
(* consumes and uses are the work.inputs of a node: the dependencies and   *)
(* the parameters it refers to.  takes are the declared parameters, needs  *)
(* those that are required and have no default.                            *)
(***************************************************************************)
EXTENDS DagGraph, FiniteSets

CONSTANTS Roles,        \* names of owner roles
          Params        \* names of parameters

(* validate_template_definition; unknown fields, texts and the contents of *)
(* agent and tool are validated per node and decide nothing else.          *)
ValidDefinition(d) ==
    /\ d.needs \subseteq d.takes
    /\ \A k \in d.nodes : d.uses[k] \subseteq d.takes /\ d.consumes[k] \subseteq d.deps[k]
    /\ Valid(d)

RolesOf(d) == {d.role[k] : k \in d.nodes}

(* A slip: roles nobody was bound to are left open. *)
KnownRoles(d, owners) == DOMAIN owners \subseteq RolesOf(d)

(* Every role is bound, and nothing else is. *)
FitsRoles(d, owners) == DOMAIN owners = RolesOf(d)

(* instantiate_template_version: when it does not raise. *)
CanInstantiate(d, given, owners) ==
    /\ ValidDefinition(d)
    /\ d.needs \subseteq given /\ given \subseteq d.takes
    /\ FitsRoles(d, owners)

=============================================================================
