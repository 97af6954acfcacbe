---------------------------- MODULE LeasedQueue -----------------------------
(***************************************************************************)
(* What a queue with leases promises whoever puts work into it: an item is *)
(* settled by the worker that holds it and by no other, also when that     *)
(* other still has it in its hands; it can be claimed again only after its *)
(* lease ran out; it is given up only after the allowed number of tries;   *)
(* and an item that is done stays done.                                    *)
(***************************************************************************)
EXTENDS Naturals

CONSTANTS Items, Workers, Nobody, MaxTries

VARIABLES
    phase,      \* of each item: absent, open, held, done or dropped
    holder,     \* who holds it
    live,       \* whether the lease of a held item still runs
    tries,      \* how often it was claimed
    hands       \* of each worker: what it is working on, held or lost

queue == <<phase, holder, live, tries, hands>>

Init ==
    /\ phase \in [Items -> {"absent", "open"}]
    /\ holder = [i \in Items |-> Nobody]
    /\ live = [i \in Items |-> FALSE]
    /\ tries = [i \in Items |-> 0]
    /\ hands = [w \in Workers |-> {}]

Enter(i) ==
    /\ phase[i] = "absent"
    /\ phase' = [phase EXCEPT ![i] = "open"]
    /\ UNCHANGED <<holder, live, tries, hands>>

Free(i) == phase[i] = "open" \/ (phase[i] = "held" /\ ~live[i])

(* A worker with empty hands claims several free items at once. *)
Claim(w, S) ==
    /\ hands[w] = {}
    /\ hands' = [hands EXCEPT ![w] = S]
    /\ phase' = [i \in Items |-> IF i \in S THEN "held" ELSE phase[i]]
    /\ holder' = [i \in Items |-> IF i \in S THEN w ELSE holder[i]]
    /\ live' = [i \in Items |-> IF i \in S THEN TRUE ELSE live[i]]
    /\ tries' = [i \in Items |-> IF i \in S THEN tries[i] + 1 ELSE tries[i]]

Expire(i) ==
    /\ phase[i] = "held" /\ live[i]
    /\ live' = [live EXCEPT ![i] = FALSE]
    /\ UNCHANGED <<phase, holder, tries, hands>>

(* The holder may settle even when its lease ran out, as long as nobody    *)
(* else has claimed the item since. *)
Settle(w, i, p) ==
    /\ phase[i] = "held" /\ holder[i] = w
    /\ p \in {"done", "open", "dropped"}
    /\ p = "open" => tries[i] < MaxTries
    /\ p = "dropped" => tries[i] >= MaxTries
    /\ hands' = [hands EXCEPT ![w] = @ \ {i}]
    /\ phase' = [phase EXCEPT ![i] = p]
    /\ holder' = [holder EXCEPT ![i] = Nobody]
    /\ live' = [live EXCEPT ![i] = FALSE]
    /\ UNCHANGED tries

(* A worker dies or gives up what it was at; what it held stays held. *)
LetFall(w) ==
    /\ hands' = [hands EXCEPT ![w] = {}]
    /\ UNCHANGED <<phase, holder, live, tries>>

Next ==
    \/ \E i \in Items : Enter(i) \/ Expire(i)
    \/ \E w \in Workers :
        \/ LetFall(w)
        \/ \E S \in SUBSET {i \in Items : Free(i)} : Claim(w, S)
        \/ \E i \in hands[w], p \in {"done", "open", "dropped"} : Settle(w, i, p)

Spec == Init /\ [][Next]_queue

=============================================================================
