------------------------------ MODULE Planning ------------------------------
(***************************************************************************)
(* From what somebody asks for, in the chat or in the console, to the plan *)
(* a draft is made of.  PlanningService refuses what cannot be planned,    *)
(* writes travel plans itself when it may search the web, asks a model for *)
(* the others, shows it its mistake once, and checks whatever comes back,  *)
(* because nothing a model returns is trusted.                             *)
(*                                                                         *)
(* A plan is a definition with listed, the order its nodes are written in, *)
(* and what words are looked for in travel plans: which nodes hand over    *)
(* sources, which needs a node asks for, which topics a search is about.   *)
(***************************************************************************)
EXTENDS Definitions, Sequences, Naturals

CONSTANTS
    Requests,           \* what people ask for, with or without a search backend
    Candidates(_),      \* what a model may answer to a request
    TravelPlan          \* the plan of planning/travel.py

Request == [web: BOOLEAN, travel: BOOLEAN, external: BOOLEAN, noWeb: BOOLEAN,
            stated: BOOLEAN, party: BOOLEAN, material: {"none", "partial", "complete"}]

ASSUME RequestAssumption == Requests \subseteq Request

(* A candidate has a list of nodes; the travel plan starts with the form   *)
(* on which people say what they need.                                     *)
ASSUME PlanAssumption ==
    /\ \A r \in Requests : \A d \in Candidates(r) :
          "nodes" \in DOMAIN d /\ d.nodes \subseteq Keys
    /\ {"nodes", "deps", "asks"} \subseteq DOMAIN TravelPlan
    /\ TravelPlan.nodes \subseteq Keys
    /\ \A k \in Roots(TravelPlan) : TravelPlan.asks[k] # {}

Needs == {"party", "rest"}
Topics == {"sights", "transport"}
MaxNodes == 8
MaxCalls == 2

VARIABLES request, pc, calls, plan

planVars == <<request, pc, calls, plan>>

NoPlan == [nodes |-> {}]

PlanInit == request \in Requests /\ pc = "asked" /\ calls = 0 /\ plan = NoPlan

-----------------------------------------------------------------------------
(* validate_request *)

(* The web is forbidden and the material does not make up for it. *)
Refused(r) ==
    r.noWeb /\ (r.material = "none" \/ (r.travel /\ r.material # "complete"))

Unavailable(r) == ~r.noWeb /\ (r.travel \/ r.external) /\ ~r.web

(* TravelTemplatePlannerRuntime: no model is asked. *)
Deterministic(r) == r.travel /\ ~r.noWeb /\ r.web

-----------------------------------------------------------------------------
(* The candidate *)

Material(r) == IF r.material = "none" THEN {} ELSE {"material"}

Agents(d) == {k \in d.nodes : d.executor[k] = "agent"}
Tools(d) == {k \in d.nodes : d.executor[k] = "tool"}
Decisions(d) == {k \in d.nodes : d.executor[k] = "human" /\ IsDecision(d, k)}
Plain(d, k) == d.executor[k] = "human" /\ ~IsDecision(d, k)
Terminals(d) == {k \in d.nodes : Successors(d, k) = {}}

(* The inputs are the server's, and every agent reads the material. *)
Bound(d, r) ==
    [d EXCEPT !.takes = {"text"} \cup Material(r), !.needs = {"text"} \cup Material(r),
              !.uses = [k \in Keys |-> @[k] \cup
                          IF k \in Agents(d) THEN Material(r) ELSE {}]]

(* The validator walks the list once: a node knows the agents before it. *)
Before(d, k, x) ==
    \E i, j \in 1 .. Len(d.listed) : i < j /\ d.listed[i] = k /\ d.listed[j] = x

KnownOwners(d) == RolesOf(d) \subseteq Roles

WellFormed(d, r) ==
    /\ Cardinality(d.nodes) \in 1 .. MaxNodes
    /\ KnownOwners(d)
    /\ Tools(d) # {} => r.web
    /\ \A k \in d.nodes : d.consumes[k] = d.deps[k]
    /\ \A k \in Agents(d) \cup Tools(d) : d.deps[k] # {}
    /\ \A k \in Decisions(d) :
        d.executor[d.rejectTarget[k]] = "agent" /\ Before(d, d.rejectTarget[k], k)

(* A person reads what an agent made; people start, and people decide. *)
StartsWithPeople(d) == \A k \in Roots(d) : Plain(d, k)

(* A slip: it is enough that one end decides. *)
DecidesSomewhere(d) == Terminals(d) \cap Decisions(d) # {}

EndsWithPeople(d) == Terminals(d) \subseteq Decisions(d)

Supervised(d) ==
    Agents(d) # {} =>
        /\ \E a \in Agents(d), h \in d.nodes :
            d.executor[h] = "human" /\ a \in d.deps[h] /\ Before(d, a, h)
        /\ StartsWithPeople(d) /\ EndsWithPeople(d)

(* What the roots ask for, with what the request says already. *)
Gathered(d, r) ==
    (UNION {d.asks[k] : k \in Roots(d)}) \cup IF r.party THEN {"party"} ELSE {}

Sources(d) == Roots(d) \cap d.hands

(* A slip: nobody looks who reads the sources. *)
SourcesHandedOver(d) == Sources(d) # {}

ReviewedReadSources(d) ==
    /\ Sources(d) # {}
    /\ \A k \in Decisions(d) : d.deps[d.rejectTarget[k]] \cap Sources(d) # {}

Researched(d) ==
    LET read == UNION {d.deps[a] : a \in Agents(d)} IN
    \A t \in Topics : \E k \in Tools(d) : t \in d.topics[k] /\ k \in read

(* _validate_domain_shape *)
Suits(d, r) ==
    r.travel =>
        /\ Needs \subseteq Gathered(d, r)
        /\ IF r.noWeb THEN Tools(d) = {} /\ ReviewedReadSources(d)
                      ELSE r.web /\ Researched(d)

(* GeneratedDraftValidator.validate *)
Acceptable(d, r) == WellFormed(d, r) /\ Supervised(d) /\ Suits(d, r) /\ ValidDefinition(d)

-----------------------------------------------------------------------------
Goto(where) == pc' = where /\ UNCHANGED <<request, calls, plan>>

(* PlanningService.plan and the runtimes up to the first call of a model *)
Ask ==
    /\ pc = "asked"
    /\ IF Refused(request) \/ Unavailable(request) THEN Goto("rejected")
       ELSE IF ~Deterministic(request) THEN Goto("model")
       ELSE IF ~request.stated THEN Goto("rejected")
       ELSE /\ plan' = TravelPlan /\ pc' = "proposed" /\ UNCHANGED <<request, calls>>

(* The model answers with something that is no definition, or with a       *)
(* candidate; a rejected one is sent back once. *)
Answered ==
    /\ pc = "model"
    /\ calls' = calls + 1 /\ UNCHANGED request
    /\ \/ pc' = (IF calls' < MaxCalls THEN "model" ELSE "rejected") /\ UNCHANGED plan
       \/ /\ plan' \in {d \in {Bound(c, request) : c \in Candidates(request)} :
                            Acceptable(d, request)}
          /\ pc' = "proposed"

(* No route to a model: the worker tries the whole request again later. *)
Unreachable == pc = "model" /\ Goto("failed")

(* PlanningService binds and checks again, whoever made the candidate. *)
Check ==
    /\ pc = "proposed"
    /\ LET d == Bound(plan, request) IN
       /\ plan' = d
       /\ pc' = IF Acceptable(d, request) THEN "planned" ELSE "rejected"
       /\ UNCHANGED <<request, calls>>

(* The worker makes the draft: its two people fill the roles. *)
Materialize ==
    /\ pc = "planned"
    /\ Goto(IF /\ RolesOf(plan) \subseteq Roles
               /\ CanInstantiate(plan, plan.takes, [r \in RolesOf(plan) |-> r])
            THEN "saved" ELSE "unusable")

PlanNext == Ask \/ Answered \/ Unreachable \/ Check \/ Materialize

PlanSpec == PlanInit /\ [][PlanNext]_planVars

-----------------------------------------------------------------------------
(* Types of all variables. *)
PlanTypeOK ==
    /\ request \in Request /\ calls \in 0 .. MaxCalls
    /\ pc \in {"asked", "model", "proposed", "planned", "saved", "unusable",
               "rejected", "failed"}
    /\ pc \in {"planned", "saved"} => plan.nodes \subseteq Keys

(* Agents work for people: in a plan that is kept, however it branches,    *)
(* every chain that leads to an agent starts with a person who only gives  *)
(* input, and every chain that leads on from it ends with a person who     *)
(* accepts or sends work back to an agent; sending back repeats the        *)
(* decision itself and never what people gave at the start (the local      *)
(* checks of draft_validation.py 195-385 on roots, ends and targets).  And *)
(* the worker that makes the draft knows somebody for every role in it     *)
(* (console_drafts.py 1337-1345, role_bindings.py 1019-1031). *)
AgentsAnswerToPeople ==
    PlanTypeOK /\ pc # "unusable" /\ (pc \in {"planned", "saved"} =>
        \A a \in Agents(plan) :
            /\ \E k \in plan.nodes \ {a} : a \in Affected(plan, k)
            /\ \A k \in Roots(plan) : a \in Affected(plan, k) => Plain(plan, k)
            /\ \A k \in Affected(plan, a) : Successors(plan, k) = {} =>
                /\ k \in Decisions(plan)
                /\ LET again == Affected(plan, plan.rejectTarget[k]) IN
                   /\ plan.executor[plan.rejectTarget[k]] = "agent"
                   /\ k \in again /\ again \cap Roots(plan) = {})

(* A travel plan rests on sources.  Where the web is forbidden nothing     *)
(* searches it, the material covers the trip, and every result somebody    *)
(* decides about was made from sources a person handed over; else both     *)
(* sights and transport were researched, after people had said what they   *)
(* need (draft_validation.py 445-593).  That the form comes before the     *)
(* research is the template's doing (travel.py 63-270): the validator asks *)
(* that some root has it and that every search has something before it.    *)
TravelRestsOnSources ==
    pc \in {"planned", "saved"} /\ request.travel =>
        IF request.noWeb
        THEN /\ Tools(plan) = {} /\ request.material = "complete"
             /\ \A k \in Decisions(plan) :
                 \E s \in Sources(plan) : plan.rejectTarget[k] \in Affected(plan, s)
        ELSE \A t \in Topics : \E k \in Tools(plan) :
                /\ t \in plan.topics[k]
                /\ Affected(plan, k) \cap Agents(plan) # {}
                /\ \E s \in Roots(plan) : plan.asks[s] # {} /\ k \in Affected(plan, s)

=============================================================================
