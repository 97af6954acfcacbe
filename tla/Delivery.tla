------------------------------ MODULE Delivery -------------------------------
(***************************************************************************)
(* How automated work reaches those who do it: central workers tick        *)
(* through the instances with something due, and the devices of people     *)
(* (Edge) ask the gateway, whose threads do the same for them.  A node is  *)
(* looked at, claimed, read again, executed and settled in steps of their  *)
(* own, while owners restart, edit and pause.  A device keeps its lease    *)
(* alive in a second thread and must not send what it may have lost.       *)
(*                                                                         *)
(* Every instance has one automated node here.  A command on an instance   *)
(* is atomic or refused for a conflict (Store).  Node version and claim    *)
(* token change together, one number stands for both.  Trouble bounds      *)
(* what goes wrong, turns what owners and operators do.                    *)
(***************************************************************************)
EXTENDS Naturals, FiniteSets, Sequences, SequencesExt

CONSTANTS Instances, Central, Devices, Threads, People, OwnerOf, Nobody,
          Scopes, MaxAttempt, Limit

ASSUME DeliveryAssumption ==
    /\ Nobody \notin Central \cup Devices /\ Central \cap (Devices \cup Threads) = {}
    /\ OwnerOf \in [Devices -> People] /\ "central" \notin People
    /\ MaxAttempt \in Nat \ {0} /\ Limit \in Nat \ {0}
    /\ Scopes \subseteq [work: [Instances -> People \cup {"central", "none"}],
                         unpaired: SUBSET Devices, turns: Nat, trouble: Nat]

VARIABLES
    node,       \* of each instance
    paused,     \* instances that are paused
    due,        \* instances in the order in which their nodes came due
    scan,       \* what a worker's tick, or a thread of the gateway, is at
    job,        \* memory of the workers and devices
    beat,       \* the heartbeat threads of the devices
    lost,       \* devices whose renewal failed
    on,         \* devices whose agent runs
    revoked,
    unpaired,   \* devices without a credential
    codes,      \* people for whom a pairing code is out
    turns, trouble

world == <<node, paused, due>>
pairing == <<unpaired, codes>>
device == <<beat, lost, on, revoked, pairing>>
vars == <<world, scan, job, device, turns, trouble>>

Clerks == Central \cup Threads
Workers == Central \cup Devices
NoScan == [pc |-> "idle", by |-> Nobody, heard |-> FALSE, list |-> <<>>,
           item |-> Nobody, fits |-> FALSE, attempt |-> 0, claim |-> 0]
NoJob == [pc |-> "idle", item |-> Nobody, attempt |-> 0, claim |-> 0, inputs |-> 0,
          good |-> FALSE]
Spend == trouble > 0 /\ trouble' = trouble - 1

Init ==
    /\ \E s \in Scopes :
        /\ node = [i \in Instances |->
                    [work |-> s.work[i],
                     status |-> IF s.work[i] = "none" THEN "done" ELSE "ready",
                     attempt |-> 1, claim |-> 0, holder |-> Nobody, live |-> FALSE,
                     from |-> 1]]
        /\ turns = s.turns /\ trouble = s.trouble
        /\ unpaired = s.unpaired /\ on = Devices \ s.unpaired
    /\ due \in SetToSeqs(Instances) /\ paused = {}
    /\ scan = [c \in Clerks |-> NoScan] /\ job = [w \in Workers |-> NoJob]
    /\ beat = [d \in Devices |-> "off"] /\ lost = {} /\ revoked = {} /\ codes = {}

-----------------------------------------------------------------------------
(* Who may do what *)

(* _eligible_automated_node_keys, _device_can_run *)
Serves(w, i) == node[i].work = IF w \in Central THEN "central" ELSE OwnerOf[w]

(* A slip: a claim whose worker is gone is not given to another. *)
ReadyOnly(i) == node[i].status = "ready"

Takable(i) == node[i].status = "ready" \/ (node[i].status = "running" /\ ~node[i].live)

(* runnable_instance_ids *)
Runnable == {i \in Instances \ paused : Takable(i)}

Candidates ==
    LET found == SelectSeq(due, LAMBDA i : i \in Runnable) IN
    SubSeq(found, 1, IF Len(found) < Limit THEN Len(found) ELSE Limit)

NotRunning(i) == i \in paused \/ node[i].status \in {"done", "failed"}

(* The inputs are captured when the attempt is activated. *)
Captured(i) == IF node[i].status = "ready" THEN 0 ELSE node[i].attempt

(* A slip: the worker is known, so the claim need not be compared. *)
AcceptedHolder(w) ==
    LET n == node[job[w].item] IN n.status = "running" /\ n.holder = w /\ n.live

(* check_automated_completion; the same for a failure and for a renewal. *)
Accepted(w) ==
    /\ AcceptedHolder(w)
    /\ node[job[w].item].attempt = job[w].attempt /\ node[job[w].item].claim = job[w].claim

ToEnd(i) == Append(Remove(due, i), i)

-----------------------------------------------------------------------------
(* The owners of the instances and of the devices *)

Reset(n) == [n EXCEPT !.status = "ready", !.attempt = @ + 1, !.from = 0,
                      !.holder = Nobody, !.live = FALSE]

Restart(i) ==
    /\ node[i].status \in {"running", "done", "failed"} /\ node[i].attempt < MaxAttempt
    /\ i \notin paused /\ node[i].work # "none"
    /\ node' = [node EXCEPT ![i] = Reset(@)]
    /\ due' = ToEnd(i) /\ UNCHANGED <<paused, scan, job, device>>

(* update_node: executor, kind or owner of what was not started. *)
Edit(i, work) ==
    /\ node[i].status = "ready" /\ work # node[i].work
    /\ node' = [node EXCEPT ![i].work = work] /\ due' = ToEnd(i)
    /\ UNCHANGED <<paused, scan, job, device>>

Pause(i) ==
    /\ ~NotRunning(i)
    /\ paused' = paused \cup {i} /\ UNCHANGED <<node, due, scan, job, device>>

Resume(i) ==
    /\ i \in paused
    /\ paused' = paused \ {i} /\ UNCHANGED <<node, due, scan, job, device>>

Revoke(d) ==
    /\ d \notin revoked \cup unpaired
    /\ revoked' = revoked \cup {d} /\ UNCHANGED <<world, scan, job, beat, lost, on, pairing>>

IssuePairing(p) ==
    /\ p \notin codes
    /\ codes' = codes \cup {p}
    /\ UNCHANGED <<world, scan, job, beat, lost, on, revoked, unpaired>>

(* EdgeDeviceLock: one agent uses a credential, to the end of its work. *)
Unlocked(d) == job[d].pc = "idle" /\ beat[d] = "off"

(* Somebody starts or stops the agent; stopped, it ends what it is at. *)
Switch(d) ==
    /\ d \in on \/ (Unlocked(d) /\ d \notin unpaired)
    /\ on' = IF d \in on THEN on \ {d} ELSE on \cup {d}
    /\ UNCHANGED <<world, scan, job, beat, lost, revoked, pairing>>

Owners ==
    /\ turns > 0 /\ turns' = turns - 1
    /\ \/ \E i \in Instances :
            \/ Restart(i) \/ Pause(i) \/ Resume(i)
            \/ \E work \in People \cup {"central"} : Edit(i, work)
       \/ \E d \in Devices : Revoke(d) \/ Switch(d)
       \/ \E p \in People : IssuePairing(p)
    /\ UNCHANGED trouble

(* The answer with the credential may be lost, or not be saved. *)
Keep(d) ==
    \/ unpaired' = unpaired \ {d} /\ UNCHANGED trouble
    \/ Spend /\ UNCHANGED unpaired

(* A code is used up together with the row of the new device. *)
PairDevice(d) ==
    /\ d \in unpaired /\ OwnerOf[d] \in codes
    /\ codes' = codes \ {OwnerOf[d]} /\ Keep(d)
    /\ UNCHANGED <<world, scan, job, beat, lost, on, revoked, turns>>

CodeExpires(p) ==
    /\ p \in codes
    /\ codes' = codes \ {p}
    /\ UNCHANGED <<world, scan, job, beat, lost, on, revoked, unpaired, turns, trouble>>

-----------------------------------------------------------------------------
(* The way to a claim: WorkflowWorker.run_once, EdgeControlService.claim *)

StartTick(c) ==
    /\ scan[c].pc = "idle" /\ job[c].pc = "idle" /\ Runnable # {}
    /\ scan' = [scan EXCEPT ![c] = [NoScan EXCEPT !.pc = "look", !.by = c, !.heard = TRUE,
                                                  !.list = Candidates]]
    /\ UNCHANGED <<world, job, device, turns, trouble>>

(* A device that is revoked is told so, and its agent stops. *)
Poll(d, t) ==
    /\ d \in on /\ job[d].pc = "idle" /\ beat[d] = "off" /\ scan[t].pc = "idle"
    /\ IF d \in revoked
       THEN on' = on \ {d} /\ UNCHANGED <<scan, job>>
       ELSE /\ Runnable # {}
            /\ scan' = [scan EXCEPT ![t] = [NoScan EXCEPT !.pc = "look", !.by = d,
                                                !.heard = TRUE, !.list = Candidates]]
            /\ job' = [job EXCEPT ![d].pc = "asking"]
            /\ UNCHANGED on
    /\ UNCHANGED <<world, beat, lost, revoked, pairing, turns, trouble>>

(* The device no longer waits, the thread does not know. *)
GiveUp(d) ==
    /\ job[d].pc = "asking" /\ Spend
    /\ scan' = [c \in Clerks |-> IF scan[c].by = d THEN [scan[c] EXCEPT !.heard = FALSE]
                                 ELSE scan[c]]
    /\ job' = [job EXCEPT ![d] = NoJob]
    /\ UNCHANGED <<world, device, turns>>

(* The tick or the request ends without a claim. *)
EndScan(c) ==
    /\ scan' = [scan EXCEPT ![c] = NoScan]
    /\ job' = IF scan[c].heard THEN [job EXCEPT ![scan[c].by] = NoJob] ELSE job

Look(c) ==
    LET list == scan[c].list IN
    /\ scan[c].pc = "look"
    /\ IF list = <<>> THEN EndScan(c)
       ELSE /\ scan' = [scan EXCEPT ![c] = [@ EXCEPT !.pc = "dispatch",
                            !.item = Head(list), !.list = Tail(list),
                            !.fits = Serves(scan[c].by, Head(list))]]
            /\ UNCHANGED job
    /\ UNCHANGED <<world, device, turns, trouble>>

LookFurther(c) == scan' = [scan EXCEPT ![c].pc = "look"]

(* dispatch_due; a central worker calls it for every candidate.  That the  *)
(* instance no longer runs ends the whole tick, or request.                *)
Dispatch(c) ==
    LET i == scan[c].item IN
    /\ scan[c].pc = "dispatch"
    /\ \/ /\ ~(scan[c].fits /\ Takable(i)) \/ NotRunning(i)
          /\ IF NotRunning(i) /\ (scan[c].by \in Central \/ scan[c].fits)
             THEN EndScan(c) ELSE LookFurther(c) /\ UNCHANGED job
          /\ UNCHANGED <<node, trouble>>
       \/ /\ scan[c].fits /\ Takable(i) /\ ~NotRunning(i)
          /\ node' = [node EXCEPT ![i] =
                [@ EXCEPT !.status = "running", !.claim = node[i].claim + 1,
                          !.holder = scan[c].by, !.live = TRUE]]
          /\ scan' = [scan EXCEPT ![c] = [@ EXCEPT !.pc = "fetch",
                !.attempt = node[i].attempt, !.claim = node[i].claim + 1]]
          /\ UNCHANGED <<job, trouble>>
       \/ /\ scan[c].fits /\ Takable(i) /\ ~NotRunning(i) /\ Spend
          /\ LookFurther(c) /\ UNCHANGED <<node, job>>
    /\ UNCHANGED <<due, paused, device, turns>>

(* _execution_request: the instance is read again for what to work on. A   *)
(* device does any personal work, a central worker only central work.      *)
Fetch(c) ==
    LET s == scan[c]
        i == s.item
        given == [pc |-> "work", item |-> i, attempt |-> s.attempt, claim |-> s.claim,
                  inputs |-> Captured(i),
                  good |-> (node[i].work = "central") = (s.by \in Central)] IN
    /\ s.pc = "fetch"
    /\ scan' = [scan EXCEPT ![c] = NoScan]
    /\ \/ /\ s.heard
          /\ job' = [job EXCEPT ![s.by] = given]
          /\ IF s.by \in Devices
             THEN beat' = [beat EXCEPT ![s.by] = "waiting"] /\ lost' = lost \ {s.by}
             ELSE UNCHANGED <<beat, lost>>
          /\ UNCHANGED trouble
       \/ /\ s.heard /\ s.by \in Devices /\ Spend
          /\ job' = [job EXCEPT ![s.by] = NoJob] /\ UNCHANGED <<beat, lost>>
       \/ ~s.heard /\ UNCHANGED <<job, beat, lost, trouble>>
    /\ UNCHANGED <<world, on, revoked, pairing, turns>>

-----------------------------------------------------------------------------
(* The work of a central worker, and its result *)

Perform(w) ==
    /\ job[w].pc = "work"
    /\ \/ job[w].good /\ job' = [job EXCEPT ![w].pc = "complete"] /\ UNCHANGED trouble
       \/ ~job[w].good /\ job' = [job EXCEPT ![w].pc = "fail"] /\ UNCHANGED trouble
       \/ job[w].good /\ Spend /\ job' = [job EXCEPT ![w].pc = "fail"]
    /\ UNCHANGED <<world, scan, device, turns>>

(* A result counts whether the instance runs or is paused; it settles the  *)
(* instance, whose only node this is.                                      *)
Settled(w, status) ==
    /\ node' = [node EXCEPT ![job[w].item] =
            [@ EXCEPT !.status = status, !.holder = Nobody, !.live = FALSE,
                      !.from = job[w].inputs]]
    /\ paused' = paused \ {job[w].item} /\ UNCHANGED due

(* _complete and _fail; a result that is refused, or conflicts, is dropped. *)
Report(w) ==
    /\ job[w].pc \in {"complete", "fail"}
    /\ \/ /\ Accepted(w) /\ UNCHANGED trouble
          /\ Settled(w, IF job[w].pc = "complete" THEN "done" ELSE "failed")
       \/ ~Accepted(w) /\ UNCHANGED <<world, trouble>>
       \/ Accepted(w) /\ Spend /\ UNCHANGED world
    /\ job' = [job EXCEPT ![w] = NoJob]
    /\ UNCHANGED <<scan, device, turns>>

-----------------------------------------------------------------------------
(* The two threads of a device: EdgeWorker.run_once *)

(* A slip: the executor is not known to have ended. *)
NeverSees(d) == FALSE

(* execution_stop, as the heartbeat sees it *)
SeesStop(d) == job[d].pc # "work"

(* The executor ends with a result or without; stopped, it may have none. *)
Execute(d) ==
    /\ job[d].pc = "work"
    /\ \/ job' = [job EXCEPT ![d].pc = "join"] /\ UNCHANGED trouble
       \/ /\ job' = [job EXCEPT ![d].pc = "join", ![d].good = FALSE]
          /\ d \in lost \/ d \notin on
          /\ UNCHANGED trouble
       \/ job' = [job EXCEPT ![d].pc = "join", ![d].good = FALSE] /\ Spend
    /\ UNCHANGED <<world, scan, device, turns>>

(* It waits for the lock, so for a renewal that is under way, and sends no *)
(* result when one has failed.  It tells the server of no failure.         *)
Join(d) ==
    /\ job[d].pc = "join" /\ beat[d] \notin {"asking", "renewing"}
    /\ job' = [job EXCEPT ![d] = IF @.good /\ d \notin lost
                                 THEN [@ EXCEPT !.pc = "send"] ELSE NoJob]
    /\ UNCHANGED <<world, scan, device, turns, trouble>>

(* The interval is over, or the thread sees that it may end. *)
Beat(d) ==
    /\ beat[d] = "waiting"
    /\ beat' = [beat EXCEPT ![d] = IF SeesStop(d) THEN "off" ELSE "due"]
    /\ UNCHANGED <<world, scan, job, lost, on, revoked, pairing, turns, trouble>>

TakeLock(d) ==
    /\ beat[d] = "due"
    /\ beat' = [beat EXCEPT ![d] = IF SeesStop(d) THEN "off" ELSE "asking"]
    /\ UNCHANGED <<world, scan, job, lost, on, revoked, pairing, turns, trouble>>

RenewalLost(d) == lost' = lost \cup {d} /\ beat' = [beat EXCEPT ![d] = "off"]

RenewAuth(d) ==
    /\ beat[d] = "asking"
    /\ IF d \in revoked THEN RenewalLost(d)
       ELSE beat' = [beat EXCEPT ![d] = "renewing"] /\ UNCHANGED lost
    /\ UNCHANGED <<world, scan, job, on, revoked, pairing, turns, trouble>>

(* _require_lease_owner: the device may still do what it has claimed. *)
LeaseOwner(d) == Serves(d, job[d].item)

Renew(d) ==
    /\ beat[d] = "renewing"
    /\ \/ /\ LeaseOwner(d) /\ Accepted(d) /\ UNCHANGED <<lost, trouble>>
          /\ beat' = [beat EXCEPT ![d] = "waiting"]
       \/ ~(LeaseOwner(d) /\ Accepted(d)) /\ RenewalLost(d) /\ UNCHANGED trouble
       \/ Spend /\ RenewalLost(d)
    /\ UNCHANGED <<world, scan, job, on, revoked, pairing, turns>>

(* EdgeControlService.complete: the device is authenticated, then its      *)
(* claim is checked.  An agent that is refused as unknown stops for good.  *)
Send(d) ==
    /\ job[d].pc = "send"
    /\ \/ /\ d \in revoked /\ UNCHANGED trouble
          /\ job' = [job EXCEPT ![d] = NoJob] /\ on' = on \ {d}
       \/ /\ d \notin revoked /\ UNCHANGED <<on, trouble>>
          /\ job' = [job EXCEPT ![d].pc = "commit"]
       \/ Spend /\ job' = [job EXCEPT ![d] = NoJob] /\ UNCHANGED on
    /\ UNCHANGED <<world, scan, beat, lost, revoked, pairing, turns>>

Commit(d) ==
    LET owner == LeaseOwner(d) IN
    /\ job[d].pc = "commit"
    /\ \/ owner /\ Accepted(d) /\ Settled(d, "done") /\ UNCHANGED <<on, trouble>>
       \/ owner /\ ~Accepted(d) /\ UNCHANGED <<world, on, trouble>>
       \/ ~owner /\ on' = on \ {d} /\ UNCHANGED <<world, trouble>>
       \/ Spend /\ UNCHANGED <<world, on>>
    /\ job' = [job EXCEPT ![d] = NoJob]
    /\ UNCHANGED <<scan, beat, lost, revoked, pairing, turns>>

-----------------------------------------------------------------------------
(* Time and crashes *)

Working(i) ==
    \/ \E w \in Workers :
        job[w].item = i /\ w = node[i].holder /\ job[w].claim = node[i].claim
    \/ \E c \in Clerks : scan[c].pc = "fetch" /\ scan[c].item = i

LeaseEnds(i) ==
    /\ node[i].live
    /\ node' = [node EXCEPT ![i].live = FALSE] /\ due' = ToEnd(i)
    /\ UNCHANGED <<paused, scan, job, device, turns>>

Late(i) == LeaseEnds(i) /\ Working(i) /\ Spend
Forgotten(i) == LeaseEnds(i) /\ ~Working(i) /\ UNCHANGED trouble

(* A worker, or the agent of a device, is killed and started again. *)
Die(w) ==
    /\ Spend
    /\ job' = [job EXCEPT ![w] = NoJob]
    /\ beat' = [d \in Devices |-> IF d = w THEN "off" ELSE beat[d]]
    /\ scan' = [c \in Clerks |->
                    IF scan[c].by # w THEN scan[c]
                    ELSE IF c = w THEN NoScan ELSE [scan[c] EXCEPT !.heard = FALSE]]
    /\ UNCHANGED <<world, lost, on, revoked, pairing, turns>>

(* The gateway is killed and started again. *)
GatewayDies ==
    /\ \E t \in Threads : scan[t].pc # "idle"
    /\ Spend
    /\ scan' = [c \in Clerks |-> IF c \in Threads THEN NoScan ELSE scan[c]]
    /\ job' = [w \in Workers |-> IF w \in Devices /\ job[w].pc = "asking"
                                 THEN NoJob ELSE job[w]]
    /\ UNCHANGED <<world, device, turns>>

Clerk(c) == Look(c) \/ Dispatch(c) \/ Fetch(c)
Server(w) == StartTick(w) \/ Clerk(w) \/ Perform(w) \/ Report(w)
Agent(d) == (\E t \in Threads : Poll(d, t)) \/ Execute(d) \/ Join(d) \/ Send(d) \/ Commit(d)
Heart(d) == Beat(d) \/ TakeLock(d) \/ RenewAuth(d) \/ Renew(d)

Next ==
    \/ Owners
    \/ \E w \in Central : Server(w)
    \/ \E t \in Threads : Clerk(t)
    \/ \E d \in Devices : Agent(d) \/ Heart(d) \/ GiveUp(d) \/ PairDevice(d)
    \/ \E p \in People : CodeExpires(p)
    \/ \E i \in Instances : Late(i) \/ Forgotten(i)
    \/ \E w \in Workers : Die(w)
    \/ GatewayDies

Spec == Init /\ [][Next]_vars

(* The daemons tick, threads and agents go on, and leases end.             *)
FairSpec ==
    /\ Spec
    /\ \A w \in Central : WF_vars(Server(w))
    /\ \A t \in Threads : WF_vars(Clerk(t))
    /\ \A d \in Devices : WF_vars(Agent(d)) /\ WF_vars(Heart(d))
    /\ \A i \in Instances : WF_vars(Forgotten(i))

-----------------------------------------------------------------------------
(* Properties *)

(* Every variable has its type; only a running node is held, under the     *)
(* lease that was given last: a restart takes it away (NodeInstance).      *)
TypeOK ==
    /\ DOMAIN node = Instances /\ paused \subseteq Instances
    /\ \A i \in Instances :
        /\ node[i].status \in {"ready", "running", "done", "failed"}
        /\ node[i].attempt \in 1..MaxAttempt /\ node[i].claim \in Nat
        /\ (node[i].holder # Nobody) = (node[i].status = "running")
        /\ node[i].live => node[i].status = "running"
    /\ \A c \in Clerks : scan[c].pc \in {"idle", "look", "dispatch", "fetch"}
    /\ \A w \in Workers : job[w].pc \in {"idle", "asking", "work", "complete", "fail",
                                         "join", "send", "commit"}
    /\ lost \cup on \cup revoked \cup unpaired \subseteq Devices /\ codes \subseteq People

(* A result that was accepted was made from the inputs of the attempt it   *)
(* settles: not from those of an attempt that a restart has replaced while *)
(* the request was read, executed or answered, nor for a device whose      *)
(* request was given up and claimed the node once more                     *)
(* (_execution_request, check_automated_completion).                       *)
OwnResults ==
    TypeOK /\ \A i \in Instances :
        node[i].status \in {"done", "failed"} => node[i].from = node[i].attempt

(* While a device sends a result none of its renewals has failed, and none *)
(* is still under way that could: the renewing thread and the executing    *)
(* one are in step (EdgeWorker.run_once).                                  *)
NoneLost ==
    \A d \in Devices :
        job[d].pc \in {"send", "commit"} =>
            d \notin lost /\ beat[d] \notin {"asking", "renewing"}

(* A node is claimed by those only who may do it (the owner's own devices, *)
(* or the central workers for work of theirs).  Not what the code does:    *)
(* README, section 7.                                                      *)
ClaimedByServer ==
    [][\A i \in Instances :
        node[i].claim # node'[i].claim => Serves(node'[i].holder, i)]_vars

Waiting(i) == i \notin paused /\ node[i].status \in {"ready", "running"}
CanServe(w, i) == Serves(w, i) /\ (w \in Central \/ w \in on \ revoked)
Crowded(w, i) == Cardinality({j \in Runnable \ {i} : ~Serves(w, j)}) >= Limit

(* Work that is due is done in the end, whatever crashes, conflicts and    *)
(* late leases there are, if somebody is there to do it and if fewer than  *)
(* Limit instances are due that he cannot serve: those take all the places *)
(* of his list (runnable_instance_ids, run_once, claim).                   *)
Served ==
    \A i \in Instances, w \in Workers :
        []<>(~Waiting(i) \/ ~CanServe(w, i) \/ Crowded(w, i))
=============================================================================
