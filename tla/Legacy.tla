------------------------------- MODULE Legacy --------------------------------
(***************************************************************************)
(* The first engine, still shipped: src/larkflow/service.py drives one     *)
(* LangGraph program over a checkpoint.  Work runs in super-steps, which   *)
(* are barriers: while one human of a super-step has not answered, nobody  *)
(* else gets on, unless the driver writes the state back and starts a new  *)
(* super-step (a beat).  Every beat gives the waiting interrupts new ids,  *)
(* so cards already in people's hands must be rebound, and those of an     *)
(* earlier round must not.  Gates send work back within a budget; sending  *)
(* back other people's work needs somebody's consent; the owner may edit   *)
(* what lies ahead and release a gate that gave up.                        *)
(*                                                                         *)
(* One instance.  A critical section holds its lock, so one job is at work *)
(* at a time; a crash, an executor or Feishu may cut it short (mishaps).   *)
(* Roles and the persons they resolve to are the same thing here.          *)
(***************************************************************************)
EXTENDS Naturals, FiniteSets, FiniteSetsExt, TLC

CONSTANTS Node, Human, Gate,
          Ticket,       \* humans who finish a Feishu task; others get a card
          Assignee, Owner, NoOne,
          Rank,         \* position in the list of nodes
          Budget, MaxUnblocks, MaxPending,
          Plans,        \* graphs to start with, the turns of owners and
                        \* people's requests, how much may go wrong
          Edits         \* graphs edits may arrive at

ASSUME LegacyAssumption ==
    /\ Human \subseteq Node /\ Gate \subseteq Node /\ Ticket \subseteq Human \ Gate
    /\ NoOne \notin {Assignee[n] : n \in Human} \cup {Owner}
    /\ Budget \in [Gate -> Nat \ {0}] /\ MaxUnblocks \in Nat /\ MaxPending \in Nat

VARIABLES
    dag,        \* [nodes, deps]
    status, attempts, reopens,
    seen,       \* the round in which a node was done, and of its inputs
    verdict,    \* what a failed gate sends back, on whose word
    grants,     \* unblocks of each gate: granted, refunded
    requests,   \* to send back work of others
    open,       \* tasks of the current super-step that have not finished
    asked,      \* those of them that wait for a human
    cards,      \* cards and tasks in people's hands
    leads,      \* those that lead to an interrupt that waits
    idem,       \* rounds dispatched, by the local table
    done,       \* Feishu tasks that show as completed
    told, unheard,
    driver,     \* the job at work
    sweep,
    cut,        \* a job stopped that had cards to rebind or work to send back
    turns, mishaps

run == <<dag, status, attempts, reopens, seen, verdict, grants, requests>>
step == <<open, asked>>
feishu == <<cards, leads, idem, done>>
notice == <<told, unheard>>
legacyVars == <<run, step, feishu, notice, driver, sweep, cut, turns, mishaps>>

AtRest == [at |-> "idle", write |-> FALSE, advancing |-> FALSE, keep |-> {},
         kept |-> {}, skip |-> {}, then |-> "end", request |-> {}]
NoSweep == [at |-> "off"]
Nothing == [targets |-> {}, by |-> NoOne, approved |-> NoOne]
GoesWrong == mishaps > 0 /\ mishaps' = mishaps - 1
Turn == turns > 0 /\ turns' = turns - 1

(* start: the state of a new instance, and its first invoke *)
LegacyInit ==
    /\ \E p \in Plans : dag = p.dag /\ turns = p.turns /\ mishaps = p.mishaps
    /\ status = [n \in Node |-> "pending"]
    /\ attempts = [n \in Node |-> 0] /\ reopens = [n \in Node |-> 0]
    /\ seen = [n \in Node |-> <<>>] /\ verdict = [n \in Node |-> Nothing]
    /\ grants = [n \in Node |-> [given |-> 0, more |-> 0, back |-> 0, less |-> 0]]
    /\ requests = {} /\ open = {} /\ asked = {}
    /\ cards = {} /\ leads = {} /\ idem = {} /\ done = {}
    /\ told = {} /\ unheard = {} /\ cut = FALSE /\ sweep = NoSweep
    /\ driver = [AtRest EXCEPT !.at = "dispatch"]

-----------------------------------------------------------------------------
(* The graph *)

(* deps_ancestors *)
Ancestors(d, n) ==
    {m \in d.nodes : \A C \in SUBSET d.nodes :
        d.deps[n] \subseteq C /\ (\A x \in C : d.deps[x] \subseteq C) => m \in C}

(* stale_downstream *)
Downstream(d, t) == {m \in d.nodes : t \in Ancestors(d, m)}

(* ready_nodes *)
Ready(d, st) ==
    {n \in d.nodes : st[n] = "pending" /\ \A m \in d.deps[n] : st[m] = "done"}

-----------------------------------------------------------------------------
(* Sending work back *)

(* granted_budget: refunds are subtracted *)
Granted(g) == IF grants[g].more > grants[g].less THEN grants[g].more - grants[g].less
              ELSE 0

(* effective_reopen_budget *)
UsedUp(g) == reopens[g] >= Budget[g] + Granted(g)

(* reopen_targets without the illegal ones *)
Targets(g) == verdict[g].targets \cap Ancestors(dag, g)

Failed == {n \in dag.nodes : status[n] = "failed"}
Reopening == {g \in Failed : ~UsedUp(g) /\ Targets(g) # {}}

(* What is reset when t is sent back by g. *)
Redone(g, T) == T \cup {g} \cup UNION {Downstream(dag, t) : t \in T}

(* reopen_resets.  Later gates of the list overrule earlier ones.          *)
Halted ==
    {g \in Failed \ Reopening :
        \A h \in Reopening : Rank[h] > Rank[g] => g \notin Redone(h, Targets(h))}
Reset == (UNION {Redone(g, Targets(g)) : g \in Reopening}) \ Halted

Stalled == Reset \cup Halted # {} \/ ~(Ready(dag, status) \subseteq asked)

-----------------------------------------------------------------------------
(* What may be answered *)

(* _answered: a blocked gate does not wait for anybody either *)
Answered(g) == status[g] \in {"done", "failed", "blocked"}

(* collateral_humans *)
Collateral(p, g, t) ==
    {n \in Downstream(dag, t) \ ({t, g} \cup Downstream(dag, g)) :
        n \in Human /\ Assignee[n] # p}

(* has_standing *)
Standing(p, g) == p = Owner \/ p = Assignee[g]

(* reopen_verdict: those that need consent *)
Crossing(p, g, T) == IF p = Owner THEN {} ELSE {t \in T : Collateral(p, g, t) # {}}

(* approvers_for *)
Approvers(T) == {Owner} \cup {Assignee[t] : t \in T \cap Human}

(* _live_escalations *)
Waiting(g) ==
    {r \in requests : /\ r.gate = g /\ r.verdict = "none" /\ r.round = attempts[g]
                      /\ ~Answered(g)}

Slot(c) == <<c.node, c.attempt>>
Copies(n) == Cardinality({c \in cards : Slot(c) = <<n, attempts[n]>> /\ c.copy > 0})
Message(n) ==
    [node |-> n, attempt |-> attempts[n], copy |-> Copies(n) + 1,
     of |-> [m \in dag.deps[n] |-> attempts[m]]]

(* The row of correlations leads to the last task of a round. *)
Recorded(c) ==
    /\ Slot(c) \in idem /\ c.copy > 0
    /\ \A e \in cards : Slot(e) = Slot(c) => e.copy <= c.copy

-----------------------------------------------------------------------------
(* The driver.  A job holds the lock of the instance from its first step   *)
(* until it is idle again.                                                 *)

LockFree == driver.at = "idle"

(* A slip: whoever waits at the same node keeps the card, whatever round.  *)
KeepAll(reset) == asked

(* _write_state: the interrupts that go on waiting for the same answer *)
Kept(reset) == asked \ (Reset \cup reset)

(* _write_state: a new checkpoint ends the super-step that was under way.  *)
Write(reset, then, request) ==
    /\ driver' = [AtRest EXCEPT !.at = "dispatch", !.write = TRUE, !.then = then,
                 !.keep = Kept(reset), !.request = request,
                 !.kept = {c \in leads : c.node \in Kept(reset)},
                 !.advancing = driver.advancing]
    /\ open' = {} /\ asked' = {} /\ leads' = {}

(* Where graph.invoke returns to. *)
Returned == IF driver.write THEN "rebind" ELSE "hand"

(* dispatch and route *)
Dispatch ==
    /\ driver.at = "dispatch" /\ open = {}
    /\ LET st == [n \in Node |-> IF n \in Reset THEN "pending"
                                 ELSE IF n \in Halted THEN "blocked" ELSE status[n]]
           ready == Ready(dag, st)
       IN /\ status' = st
          /\ attempts' = [n \in Node |-> attempts[n] + IF n \in Reset THEN 1 ELSE 0]
          /\ reopens' = [n \in Node |->
                            reopens[n] + IF n \in Failed \cap Reset THEN 1 ELSE 0]
          /\ unheard' = {g \in unheard \cup Halted : st[g] = "blocked"}
          /\ open' = ready
          /\ driver' = [driver EXCEPT !.at = IF ready = {} THEN Returned ELSE "workers"]
    /\ leads' = {}
    /\ UNCHANGED <<dag, seen, verdict, grants, requests, asked, cards, idem, done,
                   told, sweep, cut, turns, mishaps>>

(* finish, for the automated nodes that came to an end *)
EngineFinish(ended, fails) ==
    /\ status' = [n \in Node |-> IF n \in fails THEN "failed"
                                 ELSE IF n \in ended THEN "done" ELSE status[n]]
    /\ verdict' = [n \in Node |->
                     IF n \in fails THEN [Nothing EXCEPT !.targets = dag.deps[n]]
                     ELSE verdict[n]]
    /\ seen' = [n \in Node |->
                  IF n \in ended
                  THEN [by |-> "engine", round |-> attempts[n],
                        of |-> [m \in dag.deps[n] |-> attempts[m]]]
                  ELSE seen[n]]

(* tool_worker, llm_worker, human_worker: one super-step *)
SuperStep ==
    /\ driver.at = "workers"
    /\ LET autos == open \ Human IN
       /\ \E fails \in SUBSET (autos \cap Gate) : EngineFinish(autos, fails)
       /\ open' = open \cap Human /\ asked' = open \cap Human
       /\ driver' = [driver EXCEPT !.at = IF open \cap Human = {} THEN "dispatch" ELSE Returned]
    /\ UNCHANGED <<dag, attempts, reopens, grants, requests, feishu, notice, sweep,
                   cut, turns, mishaps>>

(* Where an exception leads: out of the call, except that an advance closes *)
(* old tasks on the way, and that unblock pays back for a failed retry.     *)
Thrown ==
    IF driver.advancing
    THEN [AtRest EXCEPT !.at = "close", !.request = driver.request,
                      !.then = IF driver.then = "retry" THEN "refund" ELSE "end"]
    ELSE AtRest

(* An executor raises; what others of the super-step did is kept. *)
Raise ==
    /\ driver.at = "workers" /\ GoesWrong
    /\ \E x \in open \ Human :
        /\ \E ended \in SUBSET (open \ (Human \cup {x})) :
            \E fails \in SUBSET (ended \cap Gate) :
                EngineFinish(ended, fails) /\ open' = open \ ended
        /\ asked' = open \cap Human
    /\ driver' = Thrown
    /\ UNCHANGED <<dag, attempts, reopens, grants, requests, feishu, notice, sweep,
                   turns>>
    /\ cut' = (cut \/ driver.kept # {} \/ Reopening' # {})

(* The process dies. *)
Crash ==
    /\ ~LockFree /\ GoesWrong
    /\ driver' = AtRest /\ sweep' = NoSweep /\ cut' = (cut \/ driver.kept # {} \/ Reopening # {})
    /\ leads' = {c \in leads : c.copy > 0}
    /\ UNCHANGED <<run, step, cards, idem, done, notice, turns>>

(* A slip: the new ids are not noted. *)
RebindNone(kept) == {}

(* put_remap *)
Remapped(kept) == {c \in kept : c.node \in asked}

(* _remap_interrupts; the advance that follows skips who was rebound *)
Rebind ==
    /\ driver.at = "rebind"
    /\ leads' = leads \cup Remapped(driver.kept)
    /\ driver' = [driver EXCEPT !.at = "hand", !.kept = {}, !.keep = {},
                          !.skip = driver.keep \cap asked]
    /\ UNCHANGED <<run, step, cards, idem, done, notice, sweep, cut, turns, mishaps>>

-----------------------------------------------------------------------------
(* Telling people *)

(* _once, with the key of _dispatch_key *)
Unasked(n) == <<n, attempts[n]>> \notin idem

(* A slip: once told, never again. *)
NoticeOf(g) == <<g, grants[g].given - grants[g].back>>

(* The key under which the owner is told that a gate gave up. *)
Notice(g) == <<g, grants[g].given - grants[g].back, attempts[g]>>

Stuck == {g \in dag.nodes : status[g] = "blocked"}

(* _handle: _provision for every human who waits, _project.  Of those who  *)
(* are asked, some cannot be reached (bad), some were but the reply is     *)
(* lost (ghost).                                                           *)
Hand ==
    /\ driver.at = "hand"
    /\ LET need == asked \ driver.skip
           new == {n \in need : Unasked(n)}
           mute == {g \in Stuck : Notice(g) \notin told}
       IN \E bad \in SUBSET new, deaf \in SUBSET mute : \E ghost \in SUBSET bad :
           LET sent == {Message(n) : n \in (new \ bad) \cup ghost}
               filed == {<<n, attempts[n]>> : n \in new \ bad} IN
           /\ IF bad \cup deaf = {} THEN UNCHANGED mishaps ELSE GoesWrong
           /\ cards' = cards \cup sent
           /\ idem' = idem \cup filed
           /\ leads' =
                leads \cup {c \in sent : c.node \notin Ticket \/ Slot(c) \in filed}
                      \cup {c \in cards : /\ c.node \in need \cap Ticket /\ Recorded(c)
                                          /\ c.attempt = attempts[c.node]}
           /\ told' = told \cup {Notice(g) : g \in mute \ deaf}
           /\ unheard' = unheard \ (mute \ deaf)
    /\ driver' = [driver EXCEPT !.at = IF Stalled THEN "beat" ELSE "close", !.skip = {},
                          !.advancing = TRUE]
    /\ UNCHANGED <<run, step, done, sweep, cut, turns>>

(* _pump: another beat *)
Beat ==
    /\ driver.at = "beat" /\ Write({}, driver.then, driver.request)
    /\ UNCHANGED <<run, cards, idem, done, notice, sweep, cut, turns, mishaps>>

(* _close_stale_tasks: tasks of earlier rounds are completed for people *)
Stale == {c \in cards : /\ c.node \in Ticket \cap dag.nodes /\ Recorded(c)
                        /\ c.attempt < attempts[c.node]}

(* The end of an advance, and of the job unless something is left to write *)
Close ==
    /\ driver.at = "close" /\ done' = done \cup Stale
    /\ driver' = IF driver.then \in {"verdict", "refund"}
              THEN [AtRest EXCEPT !.at = "record", !.then = driver.then,
                                !.request = driver.request]
              ELSE AtRest
    /\ UNCHANGED <<run, step, cards, leads, idem, notice, sweep, cut, turns, mishaps>>

(* What an approval did, or that an unblock came to nothing, is put on file. *)
Record ==
    /\ driver.at = "record"
    /\ IF driver.then = "verdict"
       THEN /\ requests' = (requests \ {driver.request})
                              \cup {[driver.request EXCEPT !.verdict = "approved"]}
            /\ UNCHANGED grants
       ELSE /\ grants' = [grants EXCEPT ![driver.request.gate].back = @ + 1,
                                        ![driver.request.gate].less = @ + driver.request.more]
            /\ UNCHANGED requests
    /\ Write({}, "end", driver.request)
    /\ UNCHANGED <<dag, status, attempts, reopens, seen, verdict, cards, idem, done,
                   notice, sweep, cut, turns, mishaps>>

-----------------------------------------------------------------------------
(* What people do *)

(* graph.invoke with the answer of n, given in view of message c *)
Answer(n, c, by, bad, then, request) ==
    /\ status' = [status EXCEPT ![n] = IF bad = Nothing THEN "done" ELSE "failed"]
    /\ verdict' = [verdict EXCEPT ![n] = bad]
    /\ seen' = [seen EXCEPT ![n] = [by |-> by, round |-> c.attempt, of |-> c.of]]
    /\ open' = open \ {n} /\ asked' = asked \ {n}
    /\ leads' = {e \in leads : e.node # n}
    /\ driver' = [AtRest EXCEPT !.then = then, !.request = request,
                 !.at = IF open = {n} THEN "dispatch"
                        ELSE IF open \ asked = {} THEN "hand" ELSE "workers"]

(* Who may press "pass": can_answer. *)
MayAnswer(p, n) == p = Assignee[n]

(* resume: the interrupt a card or task leads to waits. *)
Live(c) == LockFree /\ c \in leads /\ c.node \in asked

(* resume, from a card: pass, or finish *)
Pass(c, p) ==
    /\ Live(c) /\ c.copy > 0 /\ c.node \notin Ticket /\ MayAnswer(p, c.node)
    /\ Answer(c.node, c, "card", Nothing, "end", {})
    /\ UNCHANGED <<dag, attempts, reopens, grants, requests, cards, idem, done,
                   notice, sweep, cut, turns, mishaps>>

(* resume, from a card: send back T, all of it within the person's right *)
SendBack(c, p, T) ==
    /\ Live(c) /\ c.node \in Gate /\ T # {} /\ T \subseteq Ancestors(dag, c.node)
    /\ Standing(p, c.node) /\ Crossing(p, c.node, T) = {}
    /\ Answer(c.node, c, "card", [Nothing EXCEPT !.targets = T, !.by = p], "end", {})
    /\ UNCHANGED <<dag, attempts, reopens, grants, requests, cards, idem, done,
                   notice, sweep, cut, turns, mishaps>>

(* _escalate: part of T is other people's work. *)
Escalate(c, p, T) ==
    /\ Live(c) /\ c.node \in Gate /\ T # {} /\ T \subseteq Ancestors(dag, c.node)
    /\ Standing(p, c.node) /\ Crossing(p, c.node, T) # {}
    /\ Turn /\ Cardinality(Waiting(c.node)) < MaxPending
    /\ \A r \in Waiting(c.node) : r.by # p \/ r.targets # T
    /\ requests' = requests \cup
         {[gate |-> c.node, by |-> p, targets |-> T, round |-> attempts[c.node],
           seq |-> Cardinality({r \in requests : r.gate = c.node}) + 1,
           approvers |-> Approvers(Crossing(p, c.node, T)), verdict |-> "none",
           ran |-> 0]}
    /\ Write({}, "end", {})
    /\ UNCHANGED <<dag, status, attempts, reopens, seen, verdict, grants, cards, idem,
                   done, notice, sweep, cut, mishaps>>

(* A slip: who asks for consent may give it. *)
AnyApprover(p, r) == p \in r.approvers

(* _can_approve, and nobody for himself *)
MayApprove(p, r) == p \in r.approvers /\ p # r.by

(* Still to be decided: neither decided nor overtaken. *)
Pending(r) == r \in Waiting(r.gate)

(* _settle_escalation: reject *)
Reject(r, p) ==
    /\ LockFree /\ Pending(r) /\ MayApprove(p, r)
    /\ requests' = (requests \ {r}) \cup {[r EXCEPT !.verdict = "rejected"]}
    /\ Write({}, "end", {})
    /\ UNCHANGED <<dag, status, attempts, reopens, seen, verdict, grants, cards, idem,
                   done, notice, sweep, cut, turns, mishaps>>

(* _settle_escalation, _execute_approved_reopen: the gate is answered, and  *)
(* only when all came of it is the approval put on file.                    *)
Approve(r, p) ==
    LET ran == [r EXCEPT !.ran = @ + 1]
        view == [attempt |-> r.round, of |-> [m \in dag.deps[r.gate] |-> attempts[m]]]
    IN /\ LockFree /\ Pending(r) /\ MayApprove(p, r)
       /\ r.targets \subseteq Ancestors(dag, r.gate) /\ r.gate \in asked
       /\ requests' = (requests \ {r}) \cup {ran}
       /\ Answer(r.gate, view, "card",
                 [targets |-> r.targets, by |-> r.by, approved |-> p], "verdict", ran)
       /\ UNCHANGED <<dag, attempts, reopens, grants, cards, idem, done, notice, sweep,
                      cut, turns, mishaps>>

(* The person completes the task. *)
Complete(c) ==
    /\ c.node \in Ticket /\ c \notin done /\ done' = done \cup {c}
    /\ UNCHANGED <<run, step, cards, leads, idem, notice, driver, sweep, cut, turns,
                   mishaps>>

(* _route, resume: the event of a completed task; it may never come, or often. *)
TaskEvent(c) ==
    /\ Live(c) /\ c \in done /\ Recorded(c)
    /\ Answer(c.node, c, "task", Nothing, "end", {})
    /\ UNCHANGED <<dag, attempts, reopens, grants, requests, cards, idem, done,
                   notice, sweep, cut, turns, mishaps>>

-----------------------------------------------------------------------------
(* What the owner and the operators do *)

(* The new graph, if validate_template agrees. *)
SoundGraph(d) ==
    \A n \in d.nodes : d.deps[n] \subseteq d.nodes /\ n \notin Ancestors(d, n)

(* What instances start from has been validated too. *)
Graph == [nodes : SUBSET Node, deps : [Node -> SUBSET Node]]
ASSUME PlansAssumption ==
    /\ \A p \in Plans : p.dag \in Graph /\ SoundGraph(p.dag) /\ p.mishaps \in Nat
    /\ Edits \subseteq Graph

(* _assert_editable, with the interrupts as running nodes *)
Frozen(n) == status[n] # "pending" \/ n \in asked

(* apply_ops with one operation: d adds n, removes it, or gives it other deps *)
EditOf(n, d) ==
    /\ \A m \in (dag.nodes \cup d.nodes) \ {n} :
        m \in dag.nodes \cap d.nodes /\ d.deps[m] = dag.deps[m]
    /\ n \in dag.nodes => ~Frozen(n)

EditGraph(d) ==
    /\ LockFree /\ Turn
    /\ d # dag /\ SoundGraph(d) /\ \E n \in Node : EditOf(n, d)
    /\ dag' = d /\ Write({}, "end", {})
    /\ UNCHANGED <<status, attempts, reopens, seen, verdict, grants, requests, cards,
                   idem, done, notice, sweep, cut, mishaps>>

(* unblock: another chance for a gate that gave up, T redone before it *)
Unblock(g, T, more) ==
    LET reset == {g} \cup (IF T = {} THEN {} ELSE Redone(g, T)) IN
    /\ LockFree /\ Turn /\ g \in Stuck /\ grants[g].given - grants[g].back < MaxUnblocks
    /\ T \subseteq Ancestors(dag, g)
    /\ status' = [n \in Node |-> IF n \in reset THEN "pending" ELSE status[n]]
    /\ attempts' = [n \in Node |-> attempts[n] + IF n \in reset THEN 1 ELSE 0]
    /\ grants' = [grants EXCEPT ![g].given = @ + 1, ![g].more = @ + more]
    /\ unheard' = unheard \ reset
    /\ Write(reset, "retry", [gate |-> g, more |-> more])
    /\ UNCHANGED <<dag, reopens, seen, verdict, requests, cards, idem, done, told,
                   sweep, cut, mishaps>>

(* reconcile, when it would change anything *)
Reconcile ==
    /\ LockFree
    /\ \/ Stalled \/ ~(Stale \subseteq done)
       \/ \E n \in asked : Unasked(n)
       \/ \E c \in cards : /\ c.node \in asked \cap Ticket /\ Recorded(c)
                           /\ c.attempt = attempts[c.node] /\ c \notin leads
       \/ \E g \in Stuck : Notice(g) \notin told
    /\ driver' = [AtRest EXCEPT !.at = "hand", !.advancing = TRUE]
    /\ UNCHANGED <<run, step, feishu, notice, sweep, cut, turns, mishaps>>

-----------------------------------------------------------------------------
(* _sweep_tasks asks Feishu about the tasks of those who wait.  It holds no *)
(* lock: it reads the rounds, then the interrupts, then Feishu, and resumes. *)

SweepRounds(n) ==
    /\ sweep = NoSweep /\ n \in Ticket \cap asked
    /\ \E c \in cards : c.node = n /\ c.attempt = attempts[n] /\ Recorded(c)
    /\ sweep' = [at |-> "interrupts",
                 as |-> [node |-> n, attempt |-> attempts[n], copy |-> 0,
                         of |-> [m \in dag.deps[n] |-> attempts[m]]]]
    /\ UNCHANGED <<run, step, feishu, notice, driver, cut, turns, mishaps>>

SweepInterrupts ==
    /\ sweep.at = "interrupts" /\ sweep.as.node \in asked
    /\ sweep' = [sweep EXCEPT !.at = "task"]
    /\ leads' = leads \cup {sweep.as}
    /\ UNCHANGED <<run, step, cards, idem, done, notice, driver, cut, turns, mishaps>>

(* The task of the round that was read shows as completed. *)
Swept == \E c \in done : Slot(c) = Slot(sweep.as) /\ Recorded(c)

SweepResume ==
    /\ sweep.at = "task" /\ Live(sweep.as) /\ Swept
    /\ Answer(sweep.as.node, sweep.as, "sweep", Nothing, "end", {})
    /\ sweep' = NoSweep
    /\ UNCHANGED <<dag, attempts, reopens, grants, requests, cards, idem, done,
                   notice, cut, turns, mishaps>>

(* The task is not completed, or its interrupt is gone. *)
SweepEnds ==
    /\ \/ sweep.at = "interrupts" /\ sweep.as.node \notin asked
       \/ sweep.at = "task" /\ ~(Swept /\ (LockFree => sweep.as \in leads))
    /\ sweep' = NoSweep /\ leads' = leads \ {sweep.as}
    /\ UNCHANGED <<run, step, cards, idem, done, notice, driver, cut, turns, mishaps>>

-----------------------------------------------------------------------------
Drive == Dispatch \/ SuperStep \/ Rebind \/ Hand \/ Beat \/ Close \/ Record
Sweep == (\E n \in Ticket : SweepRounds(n)) \/ SweepInterrupts \/ SweepResume \/ SweepEnds
Persons == {Assignee[n] : n \in Human} \cup {Owner}

LegacyNext ==
    \/ Drive \/ Raise \/ Crash \/ Reconcile \/ Sweep
    \/ \E c \in cards :
         \/ Complete(c) \/ TaskEvent(c)
         \/ \E p \in Persons :
              \/ Pass(c, p)
              \/ \E T \in SUBSET dag.nodes : SendBack(c, p, T) \/ Escalate(c, p, T)
    \/ \E r \in requests, p \in Persons : Reject(r, p) \/ Approve(r, p)
    \/ \E d \in Edits : EditGraph(d)
    \/ \E g \in Stuck : \E T \in SUBSET dag.nodes : \E more \in {1} : Unblock(g, T, more)

LegacySpec == LegacyInit /\ [][LegacyNext]_legacyVars

(* serve goes on reconciling and sweeping; every call comes to an end.     *)
LegacyFairSpec ==
    LegacySpec /\ WF_legacyVars(Drive) /\ WF_legacyVars(Reconcile) /\ WF_legacyVars(Sweep)

-----------------------------------------------------------------------------
(* Properties *)

LegacyTypeOK ==
    /\ dag.nodes \subseteq Node
    /\ status \in [Node -> {"pending", "done", "failed", "blocked"}]
    /\ asked \subseteq open \cap Human /\ open \subseteq Node
    /\ \A c \in leads : c \in cards \/ c.copy = 0

(* What is done was done in the round the node is in, after its inputs, and *)
(* in view of the rounds they are in: no verdict on an old version passes a *)
(* new one.  A job that was cut short hides who waits from the editor of   *)
(* the graph: then a node may get an input its person never saw.  The sweep *)
(* is left out here, see SweptInItsRound.                                   *)
FreshWork ==
    /\ LegacyTypeOK
    /\ \A n \in dag.nodes : status[n] = "done" /\ seen[n].by # "sweep" =>
        /\ seen[n].round = attempts[n]
        /\ \A m \in dag.deps[n] : status[m] = "done"
        /\ cut \/ /\ dag.deps[n] \subseteq DOMAIN seen[n].of
                  /\ \A m \in dag.deps[n] : seen[n].of[m] = attempts[m]

(* A task that counts as finished was finished in its own round.  Not what *)
(* the code does: README, section 7. *)
SweptInItsRound ==
    \A n \in dag.nodes :
        status[n] = "done" /\ seen[n].by = "sweep" => seen[n].round = attempts[n]

(* One thing is asked of a person once, but for what went wrong, and who     *)
(* waits holds a message that still leads to him, however many beats went    *)
(* by, unless one was cut short.                                            *)
AskedOnce ==
    /\ \A c \in cards : c.copy = 1 \/ \E p \in Plans : c.copy <= 1 + p.mishaps - mishaps
    /\ LockFree /\ ~cut =>
         \A n \in asked : <<n, attempts[n]>> \in idem =>
             \E c \in leads : Slot(c) = <<n, attempts[n]>> /\ c.copy > 0

(* Work of others is sent back by the owner, or with the consent of         *)
(* another person who may give it.  A request is carried out once at most,   *)
(* shows as approved only if it was, and as rejected only if it was not.     *)
WithConsent ==
    /\ \A g \in Failed \cap Human :
         LET v == verdict[g] IN
         \/ v.by = Owner
         \/ /\ v.by = Assignee[g]
            /\ \/ \A t \in v.targets, n \in Node :
                     n \in Collateral(v.by, g, t) => status[n] # "done"
               \/ v.approved \in Approvers(v.targets) \ {v.by}
    /\ \A q \in requests :
         q.ran <= 1 /\ (q.verdict # "none" => (q.ran = 1 <=> q.verdict = "approved"))

(* Whoever it is the turn of is asked, a task completed in time counts even *)
(* if its event never came, and the owner hears of every gate that gave up.  *)
(* And it comes to an end: the budget of all gates, with what was granted,   *)
(* bounds the rounds of every node.                                          *)
Unread(n) ==
    /\ status[n] = "pending"
    /\ \E c \in done : Slot(c) = <<n, attempts[n]>> /\ Recorded(c)
Rounds == MapThenSumSet(LAMBDA g : Budget[g] + grants[g].more + grants[g].given, Gate)
NobodyForgotten ==
    /\ \A n \in Human : LET Due == n \in Ready(dag, status) /\ Unasked(n) IN Due ~> ~Due
    /\ \A n \in Ticket : Unread(n) ~> ~Unread(n)
    /\ \A g \in Gate : g \in unheard ~> g \notin unheard
    /\ [](\A n \in Node : attempts[n] <= Rounds)
=============================================================================
