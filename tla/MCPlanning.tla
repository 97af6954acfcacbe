---------------------------- MODULE MCPlanning -----------------------------
(***************************************************************************)
(* A small instance of Planning.  A model answers with every graph of four *)
(* nodes whose dependencies point to smaller keys, written in this order   *)
(* or backwards; for a trip it also decides what the first two ask for and *)
(* hand over.                                                              *)
(***************************************************************************)
EXTENDS Planning, TLC, SequencesExt

CONSTANTS k1, k2, k3, k4, k5, requester, collaborator, stranger

Ordered == <<k1, k2, k3, k4, k5>>
Answers == {k1, k2, k3, k4}
Earlier(k) == {Ordered[i] : i \in {j \in 1 .. 5 : \E m \in 1 .. 5 : Ordered[m] = k /\ j < m}}

Asked == {r \in Request :
    /\ ~r.travel => ~r.stated /\ ~r.party /\ r.material # "partial"
    /\ r.noWeb => ~r.stated /\ ~r.external
    /\ r.external => r.material = "none"
    /\ ~r.web => r.material # "partial" /\ ~r.stated /\ ~r.party}

(* Every way to fill in the node k: an executor and, for a person, a       *)
(* decision about one of the dependencies. *)
Nodes(k) ==
    {[deps |-> D, executor |-> e, target |-> t] :
        D \in SUBSET Earlier(k), e \in Executors, t \in Answers \cup {NoKey}}

Fit(n) == n.target # NoKey => n.executor = "human" /\ n.target \in n.deps

Keep(k) == {n \in Nodes(k) : Fit(n)}

Plan(n1, n2, n3, n4, order, owner, asks, hands) ==
    LET n == k1 :> n1 @@ k2 :> n2 @@ k3 :> n3 @@ k4 :> n4 IN
    LET deps == [k \in Keys |-> IF k \in Answers THEN n[k].deps ELSE {}] IN
    [nodes |-> Answers, deps |-> deps, consumes |-> deps,
     executor |-> [k \in Keys |-> IF k \in Answers THEN n[k].executor ELSE "human"],
     rejectTarget |-> [k \in Keys |-> IF k \in Answers THEN n[k].target ELSE NoKey],
     role |-> [k \in Keys |-> IF k = k4 THEN owner ELSE requester],
     uses |-> [k \in Keys |-> {}], takes |-> {}, needs |-> {},
     listed |-> order, hands |-> hands,
     asks |-> [k \in Keys |-> IF k = k1 THEN asks ELSE {}],
     topics |-> [k \in Keys |-> {}]]

Orders == {SubSeq(Ordered, 1, 4), Reverse(SubSeq(Ordered, 1, 4))}

TripAnswers ==
    {Plan(n1, n2, n3, n4, SubSeq(Ordered, 1, 4), requester, asks, hands) :
        n1 \in Keep(k1), n2 \in Keep(k2), n3 \in Keep(k3), n4 \in Keep(k4),
        asks \in {{"rest"}, Needs}, hands \in SUBSET {k1, k2}}

OtherAnswers ==
    {Plan(n1, n2, n3, n4, order, owner, {}, {}) :
        n1 \in Keep(k1), n2 \in Keep(k2), n3 \in Keep(k3), n4 \in Keep(k4),
        order \in Orders, owner \in {collaborator, stranger}}

Answer(r) == IF r.travel THEN TripAnswers ELSE OtherAnswers

Trip ==
    LET deps == [k \in Keys |-> CASE k = k1 -> {} [] k \in {k2, k3} -> {k1}
                                  [] k = k4 -> {k1, k2, k3} [] k = k5 -> {k4}] IN
    [nodes |-> Keys, deps |-> deps, consumes |-> deps,
     executor |-> [k \in Keys |-> IF k \in {k2, k3} THEN "tool"
                                  ELSE IF k = k4 THEN "agent" ELSE "human"],
     rejectTarget |-> [k \in Keys |-> IF k = k5 THEN k4 ELSE NoKey],
     role |-> [k \in Keys |-> requester],
     uses |-> [k \in Keys |-> IF k = k1 THEN {"text"} ELSE {}], takes |-> {}, needs |-> {},
     listed |-> Ordered, hands |-> {},
     asks |-> [k \in Keys |-> IF k = k1 THEN Needs ELSE {}],
     topics |-> [k \in Keys |-> CASE k = k2 -> {"sights"} [] k = k3 -> {"transport"}
                                  [] OTHER -> {}]]
=============================================================================
