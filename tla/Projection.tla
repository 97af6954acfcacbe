----------------------------- MODULE Projection -----------------------------
(***************************************************************************)
(* How one human node reaches Feishu.  Every command that changes the node *)
(* writes an event into the outbox in its own transaction; projection      *)
(* workers claim the events under a lease, read the node as it is by then, *)
(* call Feishu, and record what they created.  A transaction never spans a *)
(* call, so each database access and each call is a step of its own.       *)
(*                                                                         *)
(* Processes: the daemon, which reconciles when it starts, and operators'  *)
(* one-shot commands, which run beside it.  Feishu is external.            *)
(*                                                                         *)
(* Abstractions: other nodes matter only through the batch a worker        *)
(* claims; decision cards, messages and documents are not modelled here.   *)
(* Bounds: MaxVersion and MaxAttempt on the node, MaxLife on how often it  *)
(* is created, MaxGen on tasks deleted by hand, Trouble on crashes,        *)
(* failures, leases that run out under a worker, operators' commands and   *)
(* removals.                                                               *)
(***************************************************************************)
EXTENDS Integers, FiniteSets

CONSTANTS Daemon, Operators, Nobody, People, NoOne,
          MaxVersion, MaxAttempt, MaxLife,
          MaxGen,       \* bound on repairs of a task
          MaxTries,     \* max_attempts of an event
          Trouble

Workers == {Daemon} \cup Operators

ASSUME ProjectionAssumption ==
    /\ Daemon \notin Operators /\ Nobody \notin Workers
    /\ NoOne \notin People
    /\ MaxVersion \in Nat /\ MaxAttempt \in Nat \ {0} /\ MaxLife \in Nat \ {0}
    /\ MaxTries \in Nat \ {0} /\ MaxGen \in Nat /\ Trouble \in Nat

VARIABLES
    node,       \* row of workflow_node_instances
    past,       \* status of its earlier attempts
    outbox,     \* events by aggregate_version; 0 is the create request
    projection, \* rows of workflow_projections by attempt
    task,       \* Feishu: tasks by attempt and repair generation
    job,        \* memory of the workers
    life,       \* how often the node was created
    overlap,    \* history: an operator ran beside the daemon
    trouble     \* disturbances still allowed

vars == <<node, past, outbox, projection, task, job, life, overlap, trouble>>
authority == <<node, past, life>>

Events == 0 .. MaxVersion
NoEvent == -1
AttemptNo == 1 .. MaxAttempt
Generation == 0 .. MaxGen
Terminal == {"done", "canceled"}
NodeStatus == {"absent", "pending", "ready", "waiting"} \cup Terminal

NoRow == [gen |-> 0, sync |-> 0, status |-> "none", completed |-> FALSE]
NoTask == [state |-> "none", members |-> {}, keys |-> {}]
NoJob == [pc |-> "down", batch |-> {}, event |-> NoEvent, attempt |-> 1,
          seen |-> [status |-> "absent", owner |-> NoOne, version |-> 0],
          row |-> NoRow]

Spend == trouble > 0 /\ trouble' = trouble - 1

-----------------------------------------------------------------------------
(* The node, as Workflow.tla has it, and the event of each command. *)

LastAt == CHOOSE x \in {outbox[v].at : v \in Events} :
              \A v \in Events : outbox[v].at <= x

RowAt(state, at, a, from) ==
    [state |-> state, at |-> at, holder |-> Nobody, live |-> FALSE,
     tries |-> 0, attempt |-> a, from |-> from]

NoEventYet == RowAt("none", 0, 1, NoOne)

(* _write_outbox: ON CONFLICT DO NOTHING. *)
Request(v, a, from) ==
    outbox' = IF outbox[v].state # "none" THEN outbox
              ELSE [outbox EXCEPT ![v] = RowAt("pending", LastAt + 1, a, from)]

(* The instance was confirmed: every node has a row and a create request. *)
Init ==
    /\ node \in [status: {"pending", "ready"}, version: {0}, attempt: {1},
                 owner: People]
    /\ past = [a \in AttemptNo |-> "none"]
    /\ outbox = [v \in Events |-> IF v = 0 THEN RowAt("pending", 1, 1, NoOne)
                                           ELSE NoEventYet]
    /\ projection = [a \in AttemptNo |-> NoRow]
    /\ task = [a \in AttemptNo |-> [g \in Generation |-> NoTask]]
    /\ job = [w \in Workers |-> NoJob]
    /\ life = 1 /\ overlap = FALSE /\ trouble = Trouble

NewVersion == node.version < MaxVersion

(* unlock_after, and edits of a node that has not started: no event. *)
Prepare(s, p) ==
    /\ node.status \in {"pending", "ready"} /\ NewVersion
    /\ node' = [node EXCEPT !.status = s, !.owner = p, !.version = @ + 1]
    /\ UNCHANGED <<past, outbox, life>>

(* dispatch *)
Activate ==
    /\ node.status = "ready" /\ NewVersion
    /\ node' = [node EXCEPT !.status = "waiting", !.version = @ + 1]
    /\ Request(node.version + 1, node.attempt, NoOne)
    /\ UNCHANGED <<past, life>>

(* submit_human, or the cancellation of the instance *)
End(s) ==
    /\ \/ s = "done" /\ node.status = "waiting"
       \/ s = "canceled" /\ node.status \in {"pending", "ready", "waiting"}
    /\ NewVersion
    /\ node' = [node EXCEPT !.status = s, !.version = @ + 1]
    /\ Request(node.version + 1, node.attempt, NoOne)
    /\ UNCHANGED <<past, life>>

(* transfer_human_task *)
Transfer(p) ==
    /\ node.status = "waiting" /\ p # node.owner /\ NewVersion
    /\ node' = [node EXCEPT !.owner = p, !.version = @ + 1]
    /\ Request(node.version + 1, node.attempt, node.owner)
    /\ UNCHANGED <<past, life>>

LeftAs == IF node.status = "done" THEN "done" ELSE "canceled"

(* confirm_restart: the event asks for the attempt that is left behind. *)
Restart(s) ==
    /\ node.status \in {"pending", "ready", "waiting", "done"}
    /\ NewVersion /\ node.attempt < MaxAttempt
    /\ past' = [past EXCEPT ![node.attempt] = LeftAs]
    /\ node' = [node EXCEPT !.status = s, !.version = @ + 1, !.attempt = @ + 1]
    /\ Request(node.version + 1, node.attempt, NoOne)
    /\ UNCHANGED life

(* An edit removes a node that has not started.  Foreign keys keep a node  *)
(* that has a projection row. *)
Remove ==
    /\ node.status \in {"pending", "ready"} /\ life < MaxLife
    /\ \A a \in AttemptNo : projection[a] = NoRow
    /\ node' = [node EXCEPT !.status = "absent", !.attempt = 1, !.version = 0]
    /\ past' = [a \in AttemptNo |-> "none"]
    /\ Spend
    /\ UNCHANGED <<outbox, projection, task, job, life, overlap>>

(* A later edit adds it again: same id, version 0, no event. *)
AddAgain(s, p) ==
    /\ node.status = "absent"
    /\ node' = [status |-> s, version |-> 0, attempt |-> 1, owner |-> p]
    /\ life' = life + 1
    /\ UNCHANGED <<past, outbox>>

Command ==
    /\ \/ \E s \in {"pending", "ready"}, p \in People :
            Prepare(s, p) \/ AddAgain(s, p)
       \/ \E s \in {"pending", "ready"} : Restart(s)
       \/ \E s \in Terminal : End(s)
       \/ \E p \in People : Transfer(p)
       \/ Activate
    /\ UNCHANGED <<projection, task, job, overlap, trouble>>

-----------------------------------------------------------------------------
(* The outbox. *)

(* A slip: claims whose worker is gone are not taken over. *)
ClaimableFresh(v) == outbox[v].state \in {"pending", "failed"}

(* A slip: the lease is not looked at. *)
ClaimableAtOnce(v) == outbox[v].state \in {"pending", "failed", "processing"}

Claimable(v) ==
    \/ outbox[v].state \in {"pending", "failed"}
    \/ outbox[v].state = "processing" /\ ~outbox[v].live

(* mark_outbox statements: only the worker whose claim it still is. *)
Mine(w, v) == outbox[v].state = "processing" /\ outbox[v].holder = w

Settled(v, state, at) ==
    outbox' = [outbox EXCEPT ![v].state = state, ![v].at = at,
                             ![v].holder = Nobody, ![v].live = FALSE]

(* A job without what is no longer needed once the event can be settled. *)
At(j, pc) ==
    IF pc \in {"publish", "fail"}
    THEN [NoJob EXCEPT !.pc = pc, !.batch = j.batch, !.event = j.event]
    ELSE [j EXCEPT !.pc = pc]

Goto(w, pc) == job' = [job EXCEPT ![w] = At(@, pc)]

(* After an event: the next one of the batch, or the next tick. *)
Rest(w) ==
    job' = [job EXCEPT ![w] =
              [NoJob EXCEPT !.pc = IF job[w].batch = {} THEN "idle" ELSE "next",
                            !.batch = job[w].batch]]

(* InvalidOutboxClaimError leaves run_once and drops the rest of the batch.*)
Abort(w) == job' = [job EXCEPT ![w] = [NoJob EXCEPT !.pc = "idle"]]

(* claim_outbox: all that is due, the limit being above MaxVersion.  An     *)
(* event that failed is due when its delay is over, which may be later. *)
Claim(w) ==
    /\ job[w].pc = "idle"
    /\ \E S \in SUBSET {v \in Events : Claimable(v)} :
        /\ S # {}
        /\ \A v \in Events :
            Claimable(v) /\ outbox[v].state # "failed" => v \in S
        /\ outbox' = [v \in Events |->
                IF v \in S THEN [outbox[v] EXCEPT !.state = "processing",
                                      !.holder = w, !.live = TRUE, !.tries = @ + 1]
                ELSE outbox[v]]
        /\ job' = [job EXCEPT ![w].pc = "next", ![w].batch = S]
    /\ UNCHANGED <<authority, projection, task, overlap, trouble>>

Publish(w) ==
    LET v == job[w].event IN
    /\ job[w].pc = "publish"
    /\ CASE v = NoEvent -> Rest(w) /\ UNCHANGED outbox
         [] v # NoEvent /\ Mine(w, v) ->
                Settled(v, "published", outbox[v].at) /\ Rest(w)
         [] OTHER -> Abort(w) /\ UNCHANGED outbox
    /\ UNCHANGED <<authority, projection, task, overlap, trouble>>

(* The exception handler: retry later, or give up. *)
Fail(w) ==
    LET v == job[w].event IN
    /\ job[w].pc = "fail"
    /\ CASE v = NoEvent -> Rest(w) /\ UNCHANGED outbox
         [] v # NoEvent /\ Mine(w, v) ->
                /\ IF outbox[v].tries >= MaxTries
                   THEN Settled(v, "exhausted", outbox[v].at)
                   ELSE Settled(v, "failed", LastAt + 1)
                /\ Rest(w)
         [] OTHER -> Abort(w) /\ UNCHANGED outbox
    /\ UNCHANGED <<authority, projection, task, overlap, trouble>>

(* The events a worker still means to settle, its claim or no longer. *)
Hands(w) == (job[w].batch \cup {job[w].event}) \ {NoEvent}

(* Time passes over a claim.  It is trouble only under a worker that still *)
(* means to settle it. *)
Expire(v) ==
    LET used == v \in Hands(outbox[v].holder) IN
    /\ outbox[v].state = "processing" /\ outbox[v].live
    /\ outbox' = [outbox EXCEPT ![v].live = FALSE]
    /\ IF used THEN Spend ELSE UNCHANGED trouble
    /\ UNCHANGED <<authority, projection, task, job, overlap>>

-----------------------------------------------------------------------------
(* _project_task, for the event or, while reconciling, for the node itself. *)

(* A slip: the node answers for every attempt. *)
NodeStatusFor(a) == node.status

(* effective_status *)
Effective(a) == IF a = node.attempt THEN node.status ELSE past[a]

Seen(a) == [status |-> Effective(a), owner |-> node.owner,
            version |-> node.version]

(* Rows and tasks are kept by attempt. *)
Slot(j) == j.attempt

Ended(j) == j.seen.status \in Terminal

(* repository.get and what _project decides on the aggregate alone. *)
Take(w) ==
    /\ job[w].pc = "next"
    /\ \E v \in job[w].batch :
        LET a == outbox[v].attempt IN
        /\ \A u \in job[w].batch : outbox[v].at <= outbox[u].at
        /\ job' = [job EXCEPT ![w] =
              At([job[w] EXCEPT !.batch = @ \ {v}, !.event = v, !.attempt = a,
                                !.seen = Seen(a)],
                 CASE node.status = "absent" -> "publish"
                   [] node.status # "absent" /\ a > node.attempt -> "fail"
                   [] /\ node.status # "absent" /\ a <= node.attempt
                      /\ Effective(a) \in {"pending", "ready"} -> "publish"
                   [] OTHER -> "lookup")]
    /\ UNCHANGED <<authority, outbox, projection, task, overlap, trouble>>

(* What remains to be done once the task is known to exist. *)
AfterVerify(j) ==
    LET from == IF j.event = NoEvent THEN NoOne ELSE outbox[j.event].from IN
    CASE from # NoOne /\ ~Ended(j) /\ from # j.seen.owner -> "assign"
      [] Ended(j) /\ ~j.row.completed -> "close"
      [] /\ from = NoOne \/ Ended(j) \/ from = j.seen.owner
         /\ Ended(j) = j.row.completed /\ j.row.status = j.seen.status
         /\ j.row.sync >= j.seen.version -> "publish"
      [] OTHER -> "save"

AfterLookup(j) ==
    CASE j.row = NoRow -> IF Ended(j) THEN "publish" ELSE "create"
      [] j.row # NoRow /\ j.event = NoEvent /\ ~Ended(j) -> "verify"
      [] OTHER -> AfterVerify(j)

Lookup(w) ==
    LET j == [job[w] EXCEPT !.row = projection[Slot(job[w])]] IN
    /\ job[w].pc = "lookup"
    /\ job' = [job EXCEPT ![w] = At(j, AfterLookup(j))]
    /\ UNCHANGED <<authority, outbox, projection, task, overlap, trouble>>

(* create_task is idempotent in its client token. *)
CreateTask(a, g, p) ==
    task' = IF task[a][g].state # "none" THEN task
            ELSE [task EXCEPT ![a][g] = [state |-> "open", members |-> {p},
                                         keys |-> {}]]

Create(w) ==
    /\ job[w].pc = "create"
    /\ CreateTask(Slot(job[w]), 0, job[w].seen.owner)
    /\ Goto(w, "record")
    /\ UNCHANGED <<authority, outbox, projection, overlap, trouble>>

(* The conflict clause of save_projection: the identity of the task does   *)
(* not change and the version does not go back. *)
Savable(old, new) ==
    old = NoRow \/ (old.gen = new.gen /\ new.sync >= old.sync)

Newer(x, y) == IF x >= y THEN x ELSE y

(* The row a worker writes once the task is as it should be. *)
FinalRow(j) ==
    [gen |-> j.row.gen, sync |-> Newer(j.row.sync, j.seen.version),
     status |-> j.seen.status, completed |-> Ended(j)]

Write(w, new, pc) ==
    LET a == Slot(job[w]) IN
    IF Savable(projection[a], new) /\ node.status # "absent"
    THEN /\ projection' = [projection EXCEPT ![a] = new]
         /\ job' = [job EXCEPT ![w] = At([@ EXCEPT !.row = new], pc)]
    ELSE Goto(w, "fail") /\ UNCHANGED projection

Record(w) ==
    LET s == job[w].seen IN
    /\ job[w].pc = "record"
    /\ Write(w, [gen |-> 0, sync |-> s.version, status |-> s.status,
                 completed |-> FALSE], "save")
    /\ UNCHANGED <<authority, outbox, task, overlap, trouble>>

Verify(w) ==
    LET j == job[w] IN
    /\ j.pc = "verify"
    /\ Goto(w, IF task[Slot(j)][j.row.gen].state = "deleted" THEN "recreate"
               ELSE AfterVerify(j))
    /\ UNCHANGED <<authority, outbox, projection, task, overlap, trouble>>

Recreate(w) ==
    LET j == job[w] IN
    /\ j.pc = "recreate"
    /\ CreateTask(Slot(j), j.row.gen + 1, j.seen.owner)
    /\ Goto(w, "replace")
    /\ UNCHANGED <<authority, outbox, projection, overlap, trouble>>

(* replace_projection_external: only on the row that was read. *)
Replace(w) ==
    LET j == job[w] a == Slot(j)
        new == [gen |-> j.row.gen + 1, sync |-> Newer(j.row.sync, j.seen.version),
                status |-> j.seen.status, completed |-> FALSE]
    IN /\ j.pc = "replace"
       /\ IF projection[a].gen = j.row.gen /\ projection[a].sync <= new.sync
          THEN /\ projection' = [projection EXCEPT ![a] = new]
               /\ job' = [job EXCEPT ![w] = At([@ EXCEPT !.row = new], "save")]
          ELSE Goto(w, "fail") /\ UNCHANGED projection
       /\ UNCHANGED <<authority, outbox, task, overlap, trouble>>

(* reassign_task; a repeated key is the same request to Feishu. *)
Assign(w) ==
    LET j == job[w]
        t == task[Slot(j)][j.row.gen]
    IN /\ j.pc = "assign"
       /\ IF t.state = "deleted" THEN Goto(w, "fail") /\ UNCHANGED task
          ELSE /\ Goto(w, "save")
               /\ task' = IF j.seen.version \in t.keys THEN task
                    ELSE [task EXCEPT ![Slot(j)][j.row.gen] =
                            [t EXCEPT !.members = (@ \ {outbox[j.event].from})
                                                     \cup {j.seen.owner},
                                      !.keys = @ \cup {j.seen.version}]]
       /\ UNCHANGED <<authority, outbox, projection, overlap, trouble>>

Close(w) ==
    LET j == job[w] IN
    /\ j.pc = "close"
    /\ IF task[Slot(j)][j.row.gen].state = "deleted"
       THEN Goto(w, "fail") /\ UNCHANGED task
       ELSE /\ Goto(w, "save")
            /\ task' = [task EXCEPT ![Slot(j)][j.row.gen].state = "closed"]
    /\ UNCHANGED <<authority, outbox, projection, overlap, trouble>>

Save(w) ==
    /\ job[w].pc = "save"
    /\ Write(w, FinalRow(job[w]), "publish")
    /\ UNCHANGED <<authority, outbox, task, overlap, trouble>>

-----------------------------------------------------------------------------
(* Processes. *)

(* projection_instance_ids finds the instance for the sake of this node. *)
Due ==
    LET r == projection[node.attempt] IN
    \/ node.status = "waiting"
    \/ node.status \in Terminal /\ r # NoRow /\ ~r.completed

(* reconcile_all: the current attempt, if it has started.  Another node may*)
(* bring the instance in even when this one is not due. *)
Reconcile(w) ==
    /\ job[w].pc = "down"
    /\ IF w = Daemon THEN UNCHANGED <<overlap, trouble>>
                     ELSE overlap' = TRUE /\ Spend
    /\ \/ /\ node.status \in {"waiting"} \cup Terminal
          /\ job' = [job EXCEPT ![w] =
                [NoJob EXCEPT !.pc = "lookup", !.attempt = node.attempt,
                              !.seen = Seen(node.attempt)]]
       \/ /\ ~Due
          /\ Goto(w, "idle")
    /\ UNCHANGED <<authority, outbox, projection, task>>

(* project-once; repeated for as long as the operator pleases. *)
RunOnce(w) ==
    /\ w \in Operators /\ job[w].pc = "down"
    /\ Goto(w, "idle") /\ Spend /\ overlap' = TRUE
    /\ UNCHANGED <<authority, outbox, projection, task>>

Exit(w) ==
    /\ w \in Operators /\ job[w].pc = "idle"
    /\ Goto(w, "down")
    /\ UNCHANGED <<authority, outbox, projection, task, overlap, trouble>>

(* Calls and statements fail, before or after they took effect.  An error  *)
(* while the event itself is being settled leaves run_once. *)
Raise(w) ==
    /\ job[w].pc \notin {"down", "idle", "next"}
    /\ IF job[w].pc \in {"publish", "fail"} THEN Abort(w) ELSE Goto(w, "fail")
    /\ Spend
    /\ UNCHANGED <<authority, outbox, projection, task, overlap>>

Crash(w) ==
    /\ job[w].pc # "down"
    /\ job' = [job EXCEPT ![w] = NoJob] /\ Spend
    /\ UNCHANGED <<authority, outbox, projection, task, overlap>>

(* Somebody deletes a task in Feishu. *)
DeleteTask(a, g) ==
    /\ task[a][g].state = "open" /\ g < MaxGen
    /\ task' = [task EXCEPT ![a][g].state = "deleted"]
    /\ UNCHANGED <<authority, outbox, projection, job, overlap, trouble>>

Step(w) ==
    \/ Claim(w) \/ Take(w) \/ Lookup(w) \/ Create(w) \/ Record(w) \/ Verify(w)
    \/ Recreate(w) \/ Replace(w) \/ Assign(w) \/ Close(w) \/ Save(w)
    \/ Publish(w) \/ Fail(w)

Next ==
    \/ Command \/ Remove
    \/ \E w \in Workers :
        Step(w) \/ Reconcile(w) \/ RunOnce(w) \/ Exit(w) \/ Raise(w) \/ Crash(w)
    \/ \E v \in Events : Expire(v)
    \/ \E a \in AttemptNo, g \in Generation : DeleteTask(a, g)

Spec == Init /\ [][Next]_vars

(* systemd restarts the daemon, a process that runs goes on, and claims    *)
(* expire; whatever else happens is bounded, so that it is enough to ask   *)
(* for one of the three.  Nobody owes the node a command. *)
Fairness ==
    WF_vars(\/ Reconcile(Daemon)
            \/ \E w \in Workers : Step(w)
            \/ \E v \in Events : Expire(v))

FairSpec == Spec /\ Fairness

-----------------------------------------------------------------------------
NodeRow == [status: NodeStatus, version: Events, attempt: AttemptNo, owner: People]
Event == [state: {"none", "pending", "processing", "failed", "published", "exhausted"},
          at: Nat, holder: Workers \cup {Nobody}, live: BOOLEAN, tries: Nat,
          attempt: AttemptNo, from: People \cup {NoOne}]
Row == [gen: Generation, sync: Events,
        status: {"none"} \cup NodeStatus, completed: BOOLEAN]
Task == [state: {"none", "open", "closed", "deleted"},
         members: SUBSET People, keys: SUBSET Events]
PC == {"down", "idle", "next", "lookup", "create", "record", "verify",
       "recreate", "replace", "assign", "close", "save", "publish", "fail"}
Job == [pc: PC, batch: SUBSET Events, event: Events \cup {NoEvent},
        attempt: AttemptNo,
        seen: [status: {"none"} \cup NodeStatus,
               owner: People \cup {NoOne}, version: Events],
        row: Row]

(* Types of all variables. *)
TypeOK ==
    /\ node \in NodeRow
    /\ past \in [AttemptNo -> {"none"} \cup Terminal]
    /\ outbox \in [Events -> Event]
    /\ projection \in [AttemptNo -> Row]
    /\ task \in [AttemptNo -> [Generation -> Task]]
    /\ job \in [Workers -> Job]
    /\ life \in 1 .. MaxLife /\ overlap \in BOOLEAN /\ trouble \in 0 .. Trouble

Attempts == {a \in AttemptNo : node.status # "absent" /\ a <= node.attempt}

Quiet ==
    /\ \A v \in Events : outbox[v].state \in {"none", "published"}
    /\ \A w \in Workers : job[w].pc \in {"down", "idle"}

Undisturbed == trouble = Trouble

OpenFor(a) == {g \in Generation : task[a][g].state = "open"}

(* Those the node was taken from while it waited in attempt a. *)
Former(a) ==
    {outbox[v].from : v \in {v \in Events : outbox[v].attempt = a}} \ {NoOne, node.owner}

(* The owner is among the members of the task, and alone unless the node   *)
(* was taken from two others. *)
AssignedTo(members) ==
    /\ node.owner \in members
    /\ members \subseteq {node.owner} \cup Former(node.attempt)
    /\ (\A p, q \in Former(node.attempt) : p = q) => members = {node.owner}

(* A waiting node has its recorded task, open unless deleted by hand. *)
Shown(a) ==
    Effective(a) = "waiting" =>
        /\ projection[a] # NoRow /\ ~projection[a].completed
        /\ task[a][projection[a].gen].state \in {"open", "deleted"}
        /\ Undisturbed => AssignedTo(task[a][projection[a].gen].members)

(* The recorded task of an attempt that ended is closed; a task nobody     *)
(* recorded is left behind only by a crash or a failed statement. *)
PutAway(a) ==
    Effective(a) \in Terminal =>
        /\ projection[a] # NoRow =>
              projection[a].completed /\ task[a][projection[a].gen].state = "closed"
        /\ Undisturbed => OpenFor(a) = {}

(* Once the daemon has handled every event, a waiting node has its task:   *)
(* its activation is requested through the outbox after the commit.  A     *)
(* violation: an event of a node's earlier life has taken its place        *)
(* (README, section 7). *)
ActivationsReachFeishu ==
    Quiet /\ job[Daemon].pc = "idle" =>
        \A a \in Attempts : Effective(a) = "waiting" => projection[a] # NoRow

(* A task is its owner's alone: a transfer takes it from the former owner. *)
(* A violation: two transfers are projected late, from one and the same    *)
(* version of the node, and share an idempotency key (README, section 7).  *)
TaskIsTheOwners ==
    Quiet /\ Undisturbed /\ ~overlap /\ life = 1 =>
        \A a \in Attempts : Effective(a) = "waiting" =>
            task[a][projection[a].gen].members = {node.owner}

(* Whoever else works at the same time and however old its view of the     *)
(* node is, no worker closes the task of an attempt that is still to be    *)
(* answered: completion must be a person's signal.  Only a node that was   *)
(* removed and added again under a second worker is exposed to it. *)
ClosedOnlyWhenEnded ==
    ~overlap \/ life = 1 =>
    \A a \in AttemptNo, g \in Generation :
        task[a][g].state = "closed" =>
            a \in Attempts /\ Effective(a) \in Terminal

(* With the daemon alone and a node that was not removed and added again,  *)
(* Feishu shows the node as it is once every event is published: whatever  *)
(* crashed, failed, was retried or handled out of order on the way         *)
(* (projection.py:684-834); and on the way, even with others at work, no   *)
(* task is closed before its attempt has ended. *)
Mirrored ==
    /\ ClosedOnlyWhenEnded
    /\ Quiet /\ ~overlap /\ life = 1 => \A a \in Attempts : Shown(a) /\ PutAway(a)

(* A projection row is never deleted, never returns to an older version    *)
(* and never returns to a task that was replaced (save_projection,         *)
(* replace_projection_external). *)
RowsOnlyAdvance ==
    [][\A a \in AttemptNo : projection[a] # NoRow =>
            /\ projection'[a] # NoRow
            /\ projection'[a].sync >= projection[a].sync
            /\ projection'[a].gen >= projection[a].gen]_vars

(* The outbox is a queue with leases. *)
Phase(v) ==
    CASE outbox[v].state = "none" -> "absent"
      [] outbox[v].state \in {"pending", "failed"} -> "open"
      [] outbox[v].state = "processing" -> "held"
      [] outbox[v].state = "published" -> "done"
      [] OTHER -> "dropped"

Queue == INSTANCE LeasedQueue WITH
            Items <- Events,
            phase <- [v \in Events |-> Phase(v)],
            holder <- [v \in Events |-> outbox[v].holder],
            live <- [v \in Events |-> outbox[v].live],
            tries <- [v \in Events |-> outbox[v].tries],
            hands <- [w \in Workers |-> Hands(w)]

(* Every step of the workers and of the commands is a step of the queue:   *)
(* claims of other workers' live events, settling under a lost claim and   *)
(* giving up early never happen (claim_outbox and the mark_outbox statements). *)
IsLeasedQueue == Queue!Spec

(* An event is published or given up in the end, although the daemon may   *)
(* crash under its claim and calls may fail. *)
Drains ==
    \A v \in Events :
        outbox[v].state \in {"pending", "processing", "failed"} ~>
            outbox[v].state \in {"published", "exhausted"}

=============================================================================
