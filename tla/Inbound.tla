------------------------------ MODULE Inbound -------------------------------
(***************************************************************************)
(* How the completion of a Feishu task ends a human node.  A poller and,   *)
(* when they arrive, events put a signal into an inbox; one worker reads   *)
(* the task and stores what it saw, another looks up the node and submits. *)
(* Meanwhile people complete and reopen tasks, the node changes hands,     *)
(* is restarted, submitted elsewhere or canceled, and the projection       *)
(* reassigns the task later than the node.                                 *)
(*                                                                         *)
(* One node is modelled.  Its commands are those of Workflow.tla and the   *)
(* making of its tasks is Projection.tla's, both reduced to what the inbox *)
(* can see.  Deaths, failures, pauses and leases that run out under a      *)
(* worker are bounded together, as trouble.                                *)
(***************************************************************************)
EXTENDS Naturals, FiniteSets

CONSTANTS People, Workers, Nobody, Scopes, MaxAttempt, MaxDone, MaxTries

ASSUME InboundAssumption ==
    /\ Nobody \notin Workers \cup People
    /\ MaxAttempt \in Nat \ {0} /\ MaxTries \in Nat \ {0}
    /\ MaxDone \in Nat \ {0}
    /\ Scopes \subseteq [sources: SUBSET {"event", "poll"}, versions: Nat,
                         done: 1..MaxDone, trouble: Nat]

VARIABLES
    scope,      \* bounds: sources of signals, changes, completions, trouble
    node,       \* status, owner, version and current attempt
    bound,      \* attempts whose projection row names the task
    task,       \* Feishu: state, assignee, who completed it, and how often
    fresh,      \* history: tasks completed since node and assignee changed last
    inbox,      \* the signals, by their id
    job,        \* memory of the workers
    doneBy,     \* history: who completed which attempt's task
    submitted,  \* history: attempts submitted from here
    trouble

world == <<node, bound, task, fresh, doneBy>>
vars == <<scope, world, inbox, job, submitted, trouble>>

Attempts == 1..MaxAttempt
(* Every completion makes a new completed_at; a poll's id is derived from  *)
(* it, an event brings an id of its own. *)
Ids == {"event", "poll"} \X Attempts \X (1..MaxDone)
NothingSeen == [who |-> Nobody, by |-> Nobody]
NoRow == [status |-> "none", tries |-> 0, seen |-> NothingSeen,
          outcome |-> "none", holder |-> Nobody, live |-> FALSE]
Idle == [pc |-> "idle", id |-> <<"none", 0, 0>>, seen |-> NothingSeen,
         version |-> 0, outcome |-> "none"]
Spend == trouble > 0 /\ trouble' = trouble - 1
Ended == {"done", "canceled"}

Init ==
    /\ scope \in Scopes
    /\ node \in [status: {"waiting"}, owner: People, version: {0}, attempt: {1}]
    /\ bound = {}
    /\ task = [a \in Attempts |-> [state |-> "absent", who |-> Nobody,
                                   by |-> Nobody, at |-> 0]]
    /\ fresh = {}
    /\ inbox = [i \in Ids |-> NoRow]
    /\ job = [w \in Workers |-> Idle]
    /\ doneBy = {} /\ submitted = {} /\ trouble = scope.trouble

-----------------------------------------------------------------------------
(* The node and its tasks, as the other parts change them. *)

Change(n) ==
    /\ node.version < scope.versions
    /\ node' = [n EXCEPT !.version = @ + 1]
    /\ fresh' = {}

(* transfer_human_task *)
Transfer(p) ==
    /\ node.status = "waiting" /\ p # node.owner
    /\ Change([node EXCEPT !.owner = p])
    /\ UNCHANGED <<bound, task, doneBy>>

(* The owner submits on the console, or the instance is canceled. *)
End(s) ==
    /\ node.status = "waiting"
    /\ Change([node EXCEPT !.status = s])
    /\ UNCHANGED <<bound, task, doneBy>>

Restart ==
    /\ node.status \in {"waiting", "done"} /\ node.attempt < MaxAttempt
    /\ Change([node EXCEPT !.status = "ready", !.attempt = @ + 1])
    /\ UNCHANGED <<bound, task, doneBy>>

Activate ==
    /\ node.status = "ready"
    /\ Change([node EXCEPT !.status = "waiting"])
    /\ UNCHANGED <<bound, task, doneBy>>

(* create_task, and save_projection after it. *)
CreateTask ==
    LET a == node.attempt IN
    /\ node.status = "waiting" /\ task[a].state = "absent"
    /\ task' = [task EXCEPT ![a].state = "open", ![a].who = node.owner]
    /\ UNCHANGED <<node, bound, fresh, doneBy>>

SaveProjection(a) ==
    /\ task[a].state # "absent" /\ a \notin bound
    /\ bound' = bound \cup {a}
    /\ UNCHANGED <<node, task, fresh, doneBy>>

(* reassign_task, some time after the transfer and maybe after the next:   *)
(* it asks for the owner of its own time.  Whether a completed task opens  *)
(* again is Feishu's to say. *)
Reassign(s) ==
    LET a == node.attempt IN
    /\ node.status = "waiting" /\ a \in bound /\ task[a].who # node.owner
    /\ s \in {"open", task[a].state}
    /\ task' = [task EXCEPT ![a].who = node.owner, ![a].state = s]
    /\ fresh' = fresh \ {a}
    /\ UNCHANGED <<node, bound, doneBy>>

(* Anybody who can see a task may complete it, or open it again. *)
CompleteTask(a, p) ==
    /\ task[a].state = "open" /\ task[a].at < scope.done
    /\ task' = [task EXCEPT ![a].state = "done", ![a].by = p, ![a].at = @ + 1]
    /\ fresh' = fresh \cup {a}
    /\ doneBy' = doneBy \cup {<<a, p>>}
    /\ UNCHANGED <<node, bound>>

Reopen(a) ==
    /\ task[a].state = "done"
    /\ task' = [task EXCEPT ![a].state = "open"]
    /\ UNCHANGED <<node, bound, fresh, doneBy>>

World ==
    /\ \/ \E p \in People : Transfer(p)
       \/ \E s \in Ended : End(s)
       \/ Restart \/ Activate \/ CreateTask
       \/ \E a \in Attempts : SaveProjection(a) \/ Reopen(a)
       \/ \E s \in {"open", "done"} : Reassign(s)
       \/ \E a \in Attempts, p \in People : CompleteTask(a, p)
    /\ UNCHANGED <<inbox, job, submitted, trouble>>

-----------------------------------------------------------------------------
(* Signals *)

(* append_inbox: a known id changes nothing. *)
Append(id) ==
    inbox' = IF inbox[id].status # "none" THEN inbox
             ELSE [inbox EXCEPT ![id].status = "pending"]

(* TaskEventInboxBridge; Feishu may send an event late, again or never. *)
Event(a, n) ==
    /\ n <= task[a].at
    /\ "event" \in scope.sources /\ Append(<<"event", a, n>>)
    /\ UNCHANGED <<world, job, submitted, trouble>>

(* A slip: one signal for each task, whenever it was completed. *)
TaskSignal(a) == <<"poll", a, 1>>

Signal(a) == <<"poll", a, task[a].at>>

(* CompletionPoller: the task of a waiting node is read and found done. *)
Poll ==
    LET a == node.attempt IN
    /\ "poll" \in scope.sources
    /\ node.status = "waiting" /\ a \in bound /\ task[a].state = "done"
    /\ Append(Signal(a))
    /\ UNCHANGED <<world, job, submitted, trouble>>

-----------------------------------------------------------------------------
(* Leases *)

Claim(w, id, to, pc) ==
    /\ job[w].pc = "idle"
    /\ inbox' = [inbox EXCEPT ![id].status = to, ![id].holder = w,
                              ![id].live = TRUE,
                              ![id].tries = IF to = "verifying" /\ @ < MaxTries
                                            THEN @ + 1 ELSE @]
    /\ job' = [job EXCEPT ![w] = [Idle EXCEPT !.pc = pc, !.id = id]]
    /\ UNCHANGED <<world, submitted, trouble>>

Lapsed(id, s) == inbox[id].status = s /\ ~inbox[id].live

Mine(w, s) == inbox[job[w].id].status = s /\ inbox[job[w].id].holder = w

Settle(w, row) ==
    /\ inbox' = [inbox EXCEPT ![job[w].id] = [row EXCEPT !.holder = Nobody,
                                                         !.live = FALSE]]
    /\ job' = [job EXCEPT ![w] = Idle]

(* InvalidInboxClaimError: the row is not this worker's any more. *)
LostClaim(w) ==
    /\ \/ job[w].pc \in {"seen", "unseen"} /\ ~Mine(w, "verifying")
       \/ job[w].pc \in {"decided", "failed"} /\ ~Mine(w, "processing")
    /\ job' = [job EXCEPT ![w] = Idle]
    /\ UNCHANGED <<world, inbox, submitted, trouble>>

(* Certain when the worker is gone, trouble while it is at work. *)
LeaseEnds(id) ==
    /\ inbox[id].live
    /\ inbox' = [inbox EXCEPT ![id].live = FALSE]
    /\ IF job[inbox[id].holder].id = id THEN Spend ELSE UNCHANGED trouble
    /\ UNCHANGED <<world, job, submitted>>

Die(w) ==
    /\ job[w].pc # "idle" /\ Spend
    /\ job' = [job EXCEPT ![w] = Idle]
    /\ UNCHANGED <<world, inbox, submitted>>

-----------------------------------------------------------------------------
(* TaskVerificationWorker *)

ClaimVerification(w, id) ==
    /\ inbox[id].status \in {"pending", "unverified"} \/ Lapsed(id, "verifying")
    /\ Claim(w, id, "verifying", "read")

(* get_task.  It may fail, or not yet show the completion or by whom. *)
ReadTask(w) ==
    LET t == task[job[w].id[2]] IN
    /\ job[w].pc = "read"
    /\ \/ /\ t.state = "done"
          /\ job' = [job EXCEPT ![w].pc = "seen", ![w].seen = [who |-> t.who,
                                                               by |-> t.by]]
          /\ UNCHANGED trouble
       \/ /\ job' = [job EXCEPT ![w].pc = "unseen"]
          /\ IF t.state = "done" THEN Spend ELSE UNCHANGED trouble
    /\ UNCHANGED <<world, inbox, submitted>>

(* mark_inbox_verified; later tries are counted, but to no effect. *)
MarkVerified(w) ==
    /\ job[w].pc = "seen" /\ Mine(w, "verifying")
    /\ Settle(w, [inbox[job[w].id] EXCEPT !.status = "verified", !.tries = 0,
                                          !.seen = job[w].seen])
    /\ UNCHANGED <<world, submitted, trouble>>

AfterFailure(row) == IF row.tries >= MaxTries THEN "exhausted" ELSE "unverified"

(* mark_inbox_verification_failed, or mark_inbox_verification_exhausted. *)
MarkUnverified(w) ==
    /\ job[w].pc = "unseen" /\ Mine(w, "verifying")
    /\ Settle(w, [inbox[job[w].id] EXCEPT !.status = AfterFailure(inbox[job[w].id])])
    /\ UNCHANGED <<world, submitted, trouble>>

-----------------------------------------------------------------------------
(* WorkflowInboundWorker *)

ClaimProcessing(w, id) ==
    /\ inbox[id].status \in {"verified", "unprocessed"} \/ Lapsed(id, "processing")
    /\ Claim(w, id, "processing", "look")

(* A slip: whoever completed the task, it is done. *)
AcceptsAnybody(seen) == seen.who = node.owner

(* _validate_task, on the task as it was when it was verified. *)
Accepts(seen) == seen.who = node.owner /\ seen.by = node.owner

(* _process, up to the call of submit_human. *)
Judgement(id, seen) ==
    CASE id[2] \notin bound -> "unbound"
      [] id[2] \in bound \ {node.attempt} -> "stale"
      [] id[2] \in bound \cap {node.attempt} /\ node.status \in Ended -> "ended"
      [] OTHER -> IF node.status = "waiting" /\ Accepts(seen) THEN "submit"
                  ELSE "rejected"

Look(w) ==
    LET outcome == Judgement(job[w].id, inbox[job[w].id].seen) IN
    /\ job[w].pc = "look"
    /\ job' = [job EXCEPT ![w].pc = IF outcome = "submit" THEN "submit"
                                    ELSE "decided",
                          ![w].outcome = outcome, ![w].version = node.version]
    /\ UNCHANGED <<world, inbox, submitted, trouble>>

(* submit_human under the attempt and node version that were looked at. *)
Submit(w) ==
    /\ job[w].pc = "submit"
    /\ node.status = "waiting" /\ node.version = job[w].version
    /\ node' = [node EXCEPT !.status = "done", !.version = @ + 1]
    /\ fresh' = {}
    /\ submitted' = submitted \cup {node.attempt}
    /\ job' = [job EXCEPT ![w].pc = "decided", ![w].outcome = "submitted"]
    /\ UNCHANGED <<bound, task, doneBy, inbox, trouble>>

(* StaleAttemptError, or the instance is paused: try again later. *)
Refused(w) ==
    /\ job[w].pc = "submit"
    /\ IF node.status # "waiting" \/ node.version # job[w].version
       THEN UNCHANGED trouble ELSE Spend
    /\ job' = [job EXCEPT ![w].pc = "failed"]
    /\ UNCHANGED <<world, inbox, submitted>>

(* A slip: somebody else was faster, so it must be done. *)
ConcurrentMeansDone(w) == "ended"

(* ConcurrentUpdateError: is the node over?  Otherwise it failed. *)
AfterConflict(w) == IF node.status \in Ended THEN "ended" ELSE "none"

(* The save found another version of the instance. *)
Conflict(w) ==
    /\ job[w].pc = "submit" /\ Spend
    /\ job' = [job EXCEPT ![w].outcome = AfterConflict(w),
                          ![w].pc = IF AfterConflict(w) = "none" THEN "failed"
                                    ELSE "decided"]
    /\ UNCHANGED <<world, inbox, submitted>>

(* mark_inbox_processed; what was seen stays in the row, read by nobody. *)
MarkProcessed(w) ==
    /\ job[w].pc = "decided" /\ Mine(w, "processing")
    /\ Settle(w, [NoRow EXCEPT !.status = "processed", !.outcome = job[w].outcome])
    /\ UNCHANGED <<world, submitted, trouble>>

(* mark_inbox_failed *)
MarkFailed(w) ==
    /\ job[w].pc = "failed" /\ Mine(w, "processing")
    /\ Settle(w, [inbox[job[w].id] EXCEPT !.status = "unprocessed"])
    /\ UNCHANGED <<world, submitted, trouble>>

-----------------------------------------------------------------------------
Finish(w) ==
    \/ ReadTask(w) \/ MarkVerified(w) \/ MarkUnverified(w)
    \/ Look(w) \/ Submit(w) \/ Refused(w) \/ MarkProcessed(w) \/ MarkFailed(w)
    \/ LostClaim(w)

TakeUp(id) ==
    \E w \in Workers : ClaimVerification(w, id) \/ ClaimProcessing(w, id)

Step ==
    \/ World \/ Poll
    \/ \E a \in Attempts, n \in 1..MaxDone : Event(a, n)
    \/ \E id \in Ids : LeaseEnds(id) \/ TakeUp(id)
    \/ \E w \in Workers : Finish(w) \/ Die(w) \/ Conflict(w)

Next == Step /\ UNCHANGED scope

Spec == Init /\ [][Next]_vars

(* Pollers and workers run in loops, and one that died is started again.   *)
(* A worker takes up some row that is due, no matter which. *)
FairSpec ==
    /\ Spec
    /\ WF_vars(Poll /\ UNCHANGED scope)
    /\ WF_vars((\E id \in Ids : LeaseEnds(id)) /\ UNCHANGED scope)
    /\ WF_vars((\E id \in Ids : TakeUp(id)) /\ UNCHANGED scope)
    /\ \A w \in Workers : WF_vars(Finish(w) /\ UNCHANGED scope)

-----------------------------------------------------------------------------
Seen == [who: People \cup {Nobody}, by: People \cup {Nobody}]
Outcomes == {"none", "unbound", "stale", "ended", "submit", "rejected", "submitted"}

(* The types. *)
TypeOK ==
    /\ scope \in Scopes
    /\ node \in [status: {"ready", "waiting"} \cup Ended, owner: People,
                 version: 0..(scope.versions + 1), attempt: Attempts]
    /\ bound \subseteq Attempts
    /\ task \in [Attempts -> [state: {"absent", "open", "done"},
                              who: People \cup {Nobody},
                              by: People \cup {Nobody}, at: 0..MaxDone]]
    /\ fresh \subseteq Attempts
    /\ inbox \in [Ids -> [status: {"none", "pending", "verifying", "unverified",
                                   "exhausted", "verified", "processing",
                                   "unprocessed", "processed"},
                          tries: 0..MaxTries, seen: Seen, outcome: Outcomes,
                          holder: Workers \cup {Nobody}, live: BOOLEAN]]
    /\ job \in [Workers -> [pc: {"idle", "read", "seen", "unseen", "look",
                                 "submit", "decided", "failed"},
                            id: Ids \cup {Idle.id}, seen: Seen,
                            version: 0..(scope.versions + 1), outcome: Outcomes]]
    /\ doneBy \subseteq Attempts \X People
    /\ submitted \subseteq Attempts
    /\ trouble \in 0..scope.trouble

(* What was submitted on somebody's behalf was done by that person: who    *)
(* owns the node at that moment has completed the task of that very        *)
(* attempt, however the node, the task and the worker's copy of both moved *)
(* in between (_process, _validate_task, submit_human). *)
DoneByTheOwner ==
    [][submitted' # submitted => <<node.attempt, node.owner>> \in doneBy]_vars

(* What the inbox says became of a signal is so: the attempt was submitted *)
(* here, or is over, or was left for another (the outcomes of _process).   *)
OutcomeIsTrue ==
    TypeOK /\ \A id \in Ids :
        /\ inbox[id].outcome = "submitted" => id[2] \in submitted
        /\ inbox[id].outcome = "stale" => node.attempt > id[2]
        /\ inbox[id].outcome = "ended" => node.attempt > id[2] \/ node.status \in Ended

(* The owner of the waiting node has completed its task, as Feishu and the *)
(* projection have it, and the poller runs. *)
Finished ==
    LET a == node.attempt IN
    /\ "poll" \in scope.sources
    /\ node.status = "waiting" /\ a \in bound /\ a \in fresh
    /\ task[a].state = "done" /\ task[a].who = node.owner /\ task[a].by = node.owner

(* The signal of that completion was given up. *)
GivenUp == \E id \in Ids : id = Signal(node.attempt) /\ inbox[id].status = "exhausted"

(* A completion is found: the node is submitted, unless the task or the    *)
(* node changes first, or verification failed so often that the signal was *)
(* given up. *)
CompletionFound == Finished ~> (~Finished \/ GivenUp)

(* Polling is reliable: the same without giving up.  Not what the code     *)
(* does: README, section 7. *)
PollingIsReliable == Finished ~> ~Finished

=============================================================================
