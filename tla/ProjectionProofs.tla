-------------------------- MODULE ProjectionProofs --------------------------
(***************************************************************************)
(* The inductive invariant of Projection, for any number of events,        *)
(* attempts, repairs and projecting processes, and what rests on it: the   *)
(* outbox is a queue with leases, projection rows only advance, no worker  *)
(* closes the task of an attempt that is still to be answered, and Feishu  *)
(* shows the node as it is once every event is handled.                    *)
(***************************************************************************)
EXTENDS Projection, TLAPS

(* LastAt is a maximum: some event is last. *)
Latest == \E m \in Events : \A v \in Events : outbox[v].at <= outbox[m].at

(* An event nobody works on has no traces of a claim. *)
EventOK(e) ==
    /\ e.state = "processing" => e.holder \in Workers
    /\ e.state # "processing" => e.holder = Nobody /\ e.live = FALSE
    /\ e.state = "none" => e.tries = 0

Working == {"lookup", "create", "record", "verify", "recreate", "replace",
            "assign", "close", "save"}

(* A worker at rest has nothing in its hands; one at work has read the     *)
(* node, and repairs only tasks that may be repaired. *)
JobOK(j) ==
    /\ j.pc \in {"down", "idle"} => j.batch = {} /\ j.event = NoEvent
    /\ j.pc = "next" => j.event = NoEvent
    /\ j.event \notin j.batch
    /\ j.pc \in Working => j.seen.owner \in People
    /\ j.pc \in {"recreate", "replace"} => j.row.gen < MaxGen

OutboxInv == Latest /\ \A v \in Events : EventOK(outbox[v])
JobInv == \A w \in Workers : JobOK(job[w])
BoundsInv ==
    /\ node.status = "absent" => life < MaxLife
    /\ \A a \in AttemptNo, g \in Generation :
          task[a][g].state = "deleted" => g < MaxGen

ProjectionInv == TypeOK /\ OutboxInv /\ JobInv /\ BoundsInv

-----------------------------------------------------------------------------
(* Building blocks of the types. *)
LEMMA Constants ==
    /\ NoRow \in Row /\ NoTask \in Task /\ NoJob \in Job /\ JobOK(NoJob)
    /\ NoEventYet \in Event /\ EventOK(NoEventYet)
    /\ 0 \in Events /\ 1 \in AttemptNo /\ 0 \in Generation
  <1>1. 0 \in Events /\ 1 \in AttemptNo /\ 0 \in Generation
    BY ProjectionAssumption DEF Events, AttemptNo, Generation
  <1>2. NoRow \in Row
    BY <1>1 DEF NoRow, Row
  <1>3. NoTask \in Task
    BY DEF NoTask, Task
  <1>4. NoJob \in Job
    BY <1>1, <1>2 DEF NoJob, Job, PC, NodeStatus
  <1>5. JobOK(NoJob)
    BY DEF NoJob, JobOK, Working
  <1>6. NoEventYet \in Event /\ EventOK(NoEventYet)
    BY <1>1 DEF NoEventYet, RowAt, Event, EventOK
  <1> QED
    BY <1>1, <1>2, <1>3, <1>4, <1>5, <1>6

(* What At keeps of a job. *)
LEMMA AtType ==
    ASSUME NEW j \in Job, NEW pc \in PC
    PROVE  /\ At(j, pc) \in Job
           /\ At(j, pc).pc = pc
           /\ At(j, pc).batch = j.batch /\ At(j, pc).event = j.event
           /\ pc \notin {"publish", "fail"} => At(j, pc) = [j EXCEPT !.pc = pc]
  <1>1. CASE pc \in {"publish", "fail"}
    <2>1. At(j, pc) = [pc |-> pc, batch |-> j.batch, event |-> j.event,
                       attempt |-> NoJob.attempt, seen |-> NoJob.seen,
                       row |-> NoJob.row]
      BY <1>1 DEF At, NoJob
    <2> QED
      BY <1>1, <2>1, Constants DEF Job
  <1>2. CASE pc \notin {"publish", "fail"}
    BY <1>2 DEF At, Job
  <1> QED
    BY <1>1, <1>2

(* Some event comes last, and the next place is behind it. *)
LEMMA LastType ==
    ASSUME TypeOK, Latest
    PROVE  LastAt \in Nat /\ \A v \in Events : outbox[v].at <= LastAt
  <1> DEFINE Places == {outbox[v].at : v \in Events}
  <1>1. \A v \in Events : outbox[v].at \in Nat
    BY DEF TypeOK, Event
  <1>2. \E x \in Places : \A v \in Events : outbox[v].at <= x
    BY DEF Latest
  <1>3. LastAt \in Places /\ \A v \in Events : outbox[v].at <= LastAt
    BY <1>2 DEF LastAt
  <1> QED
    BY <1>1, <1>3

(* Replacing one event. *)
LEMMA OutboxStep ==
    ASSUME TypeOK, OutboxInv, NEW u \in Events, NEW e \in Event, EventOK(e),
           e.at = LastAt + 1 \/ e.at = outbox[u].at,
           outbox' = [outbox EXCEPT ![u] = e]
    PROVE  outbox' \in [Events -> Event] /\ OutboxInv'
  <1>1. outbox' \in [Events -> Event]
    BY DEF TypeOK
  <1>2. \A v \in Events : EventOK(outbox'[v])
    BY DEF TypeOK, OutboxInv
  <1>3. \A v \in Events : outbox[v].at \in Nat /\ outbox'[v].at \in Nat
    BY <1>1 DEF TypeOK, Event
  <1>4. LastAt \in Nat /\ \A v \in Events : outbox[v].at <= LastAt
    BY LastType DEF OutboxInv
  <1>5. CASE e.at = LastAt + 1
    <2>1. \A v \in Events : outbox'[v].at <= outbox'[u].at
      BY <1>3, <1>4, <1>5 DEF TypeOK
    <2> QED
      BY <2>1, <1>1, <1>2 DEF OutboxInv, Latest
  <1>6. CASE e.at = outbox[u].at
    <2>1. \A v \in Events : outbox'[v].at = outbox[v].at
      BY <1>6 DEF TypeOK
    <2> QED
      BY <2>1, <1>1, <1>2 DEF OutboxInv, Latest
  <1> QED
    BY <1>5, <1>6

(* Replacing the memory of one worker. *)
LEMMA JobStep ==
    ASSUME TypeOK, JobInv, NEW w \in Workers, NEW j \in Job, JobOK(j),
           job' = [job EXCEPT ![w] = j]
    PROVE  job' \in [Workers -> Job] /\ JobInv'
  BY DEF TypeOK, JobInv

(* Steps that change memory only. *)
LEMMA MemoryStep ==
    ASSUME ProjectionInv, NEW w \in Workers, NEW j \in Job, JobOK(j),
           job' = [job EXCEPT ![w] = j],
           overlap' \in BOOLEAN, UNCHANGED trouble \/ Spend,
           UNCHANGED <<authority, outbox, projection, task>>
    PROVE  ProjectionInv'
  <1>1. job' \in [Workers -> Job] /\ JobInv'
    BY JobStep DEF ProjectionInv
  <1>2. trouble' \in 0 .. Trouble
    BY ProjectionAssumption DEF ProjectionInv, TypeOK, Spend
  <1>3. TypeOK'
    BY <1>1, <1>2 DEF ProjectionInv, TypeOK, authority
  <1> QED
    BY <1>1, <1>3
    DEF ProjectionInv, OutboxInv, Latest, BoundsInv, authority

(* What a worker may go on to. *)
LEMMA GotoStep ==
    ASSUME ProjectionInv, NEW w \in Workers, NEW pc \in PC, Goto(w, pc),
           pc \notin {"down", "idle", "next"},
           pc \in Working => job[w].pc \in Working,
           pc \in {"recreate", "replace"} => job[w].row.gen < MaxGen
    PROVE  \E j \in Job : JobOK(j) /\ job' = [job EXCEPT ![w] = j]
  <1>1. job[w] \in Job /\ JobOK(job[w])
    BY DEF ProjectionInv, TypeOK, JobInv
  <1>2. At(job[w], pc) \in Job /\ JobOK(At(job[w], pc))
    BY <1>1, AtType DEF JobOK, Working, Job
  <1>3. job' = [job EXCEPT ![w] = At(job[w], pc)]
    BY DEF Goto
  <1> QED
    BY <1>2, <1>3

(* After an event. *)
LEMMA RestStep ==
    ASSUME ProjectionInv, NEW w \in Workers, Rest(w) \/ Abort(w)
    PROVE  \E j \in Job : JobOK(j) /\ job' = [job EXCEPT ![w] = j]
  <1>1. job[w] \in Job
    BY DEF ProjectionInv, TypeOK
  <1>2. CASE Rest(w)
    <2> DEFINE j == [NoJob EXCEPT !.pc = IF job[w].batch = {} THEN "idle" ELSE "next",
                                  !.batch = job[w].batch]
    <2>1. job[w].batch \in SUBSET Events
      BY <1>1 DEF Job
    <2>2. NoEvent \notin Events
      BY DEF NoEvent, Events
    <2>3. j.batch = job[w].batch /\ j.event = NoEvent
          /\ j.pc = IF job[w].batch = {} THEN "idle" ELSE "next"
      BY DEF NoJob
    <2>4. j \in Job
      BY <2>1, <2>3, Constants DEF Job, PC, NoJob
    <2>5. JobOK(j)
      BY <2>1, <2>2, <2>3 DEF JobOK, Working
    <2> QED
      BY <1>2, <2>4, <2>5 DEF Rest
  <1>3. CASE Abort(w)
    <2> DEFINE j == [NoJob EXCEPT !.pc = "idle"]
    <2>1. j \in Job /\ JobOK(j)
      BY Constants DEF Job, PC, NoJob, JobOK, Working
    <2> QED
      BY <1>3, <2>1 DEF Abort
  <1> QED
    BY <1>2, <1>3

-----------------------------------------------------------------------------
(* The steps of a worker that change nothing but its memory. *)
LEMMA SeenType ==
    ASSUME ProjectionInv, NEW a \in AttemptNo
    PROVE  /\ Seen(a) \in [status: {"none"} \cup NodeStatus,
                          owner: People \cup {NoOne}, version: Events]
           /\ Seen(a).owner \in People
  BY DEF ProjectionInv, TypeOK, NodeRow, Seen, Effective, NodeStatus, Terminal

(* A worker takes the next event of its batch. *)
LEMMA TakeStep ==
    ASSUME ProjectionInv, NEW w \in Workers, Take(w)
    PROVE  ProjectionInv'
  <1> DEFINE B(v) == [job[w] EXCEPT !.batch = @ \ {v}, !.event = v,
                            !.attempt = outbox[v].attempt,
                            !.seen = Seen(outbox[v].attempt)]
             P(v) == CASE node.status = "absent" -> "publish"
                   [] node.status # "absent" /\ outbox[v].attempt > node.attempt
                        -> "fail"
                   [] /\ node.status # "absent"
                      /\ outbox[v].attempt <= node.attempt
                      /\ Effective(outbox[v].attempt) \in {"pending", "ready"}
                        -> "publish"
                   [] OTHER -> "lookup"
  <1>1. PICK v \in job[w].batch : job' = [job EXCEPT ![w] = At(B(v), P(v))]
    BY DEF Take
  <1> DEFINE a == outbox[v].attempt
             b == B(v)
             pc == P(v)
  <1>2. job[w] \in Job /\ v \in Events
    BY DEF ProjectionInv, TypeOK, Job
  <1>3. a \in AttemptNo
    BY <1>2 DEF ProjectionInv, TypeOK, Event
  <1>4. pc \in {"publish", "fail", "lookup"}
    OBVIOUS
  <1>5. /\ Seen(a) \in [status: {"none"} \cup NodeStatus,
                        owner: People \cup {NoOne}, version: Events]
        /\ Seen(a).owner \in People
    BY <1>3, SeenType
  <1>6. b \in Job
    BY <1>2, <1>3, <1>5 DEF Job
  <1>7. /\ b.seen.owner \in People /\ b.event = v
        /\ b.batch = job[w].batch \ {v}
    BY <1>2, <1>5 DEF Job
  <1>9. job' = [job EXCEPT ![w] = At(b, pc)]
    BY <1>1
  <1> HIDE DEF b, pc
  <1>8. At(b, pc) \in Job /\ JobOK(At(b, pc))
    BY <1>4, <1>6, <1>7, AtType DEF PC, JobOK, Working, Job
  <1> QED
    BY <1>8, <1>9, MemoryStep DEF Take, ProjectionInv, TypeOK

(* After a look at the row there is always something to do. *)
LEMMA AfterLookupType ==
    ASSUME NEW j
    PROVE  /\ AfterVerify(j) \in {"assign", "close", "publish", "save"}
           /\ AfterLookup(j) \in {"publish", "create", "verify", "assign",
                                  "close", "save"}
  BY DEF AfterVerify, AfterLookup

(* The worker reads the node and the row of its attempt. *)
LEMMA LookupStep ==
    ASSUME ProjectionInv, NEW w \in Workers, Lookup(w)
    PROVE  ProjectionInv'
  <1> DEFINE j == [job[w] EXCEPT !.row = projection[Slot(job[w])]]
             pc == AfterLookup(j)
  <1>1. job[w] \in Job /\ JobOK(job[w]) /\ job[w].pc = "lookup"
    BY DEF ProjectionInv, TypeOK, JobInv, Lookup
  <1>2. projection[Slot(job[w])] \in Row
    BY <1>1 DEF ProjectionInv, TypeOK, Slot, Job
  <1>3. /\ j \in Job /\ j.seen = job[w].seen /\ j.event = job[w].event
        /\ j.batch = job[w].batch
    BY <1>1, <1>2 DEF Job
  <1>4. pc \in {"publish", "create", "verify", "assign", "close", "save"}
    BY AfterLookupType
  <1>5. job' = [job EXCEPT ![w] = At(j, pc)]
    BY DEF Lookup
  <1> HIDE DEF j, pc
  <1>6. At(j, pc) \in Job /\ JobOK(At(j, pc))
    BY <1>1, <1>3, <1>4, AtType DEF PC, JobOK, Working, Job
  <1> QED
    BY <1>5, <1>6, MemoryStep DEF Lookup, ProjectionInv, TypeOK

(* The recorded task is looked for in Feishu. *)
LEMMA VerifyStep ==
    ASSUME ProjectionInv, NEW w \in Workers, Verify(w)
    PROVE  ProjectionInv'
  <1> DEFINE j == job[w]
             gone == task[Slot(j)][j.row.gen].state = "deleted"
             pc == IF gone THEN "recreate" ELSE AfterVerify(j)
  <1>1. j \in Job /\ j.pc = "verify"
    BY DEF ProjectionInv, TypeOK, Verify
  <1>2. j.row.gen \in Generation /\ Slot(j) \in AttemptNo
    BY <1>1 DEF Job, Row, Slot
  <1>3. gone => j.row.gen < MaxGen
    BY <1>2 DEF ProjectionInv, BoundsInv
  <1>4. pc \in {"recreate", "assign", "close", "publish", "save"}
    BY AfterLookupType
  <1>5. pc = "recreate" => gone
    BY AfterLookupType
  <1>6. Goto(w, pc)
    BY DEF Verify
  <1> HIDE DEF pc, gone
  <1>7. \E k \in Job : JobOK(k) /\ job' = [job EXCEPT ![w] = k]
    BY <1>1, <1>3, <1>4, <1>5, <1>6, GotoStep DEF PC, Working
  <1> QED
    BY <1>7, MemoryStep DEF Verify, ProjectionInv, TypeOK

(* Starting, stopping, failing and dying. *)
LEMMA ProcessStep ==
    ASSUME ProjectionInv, NEW w \in Workers,
           Reconcile(w) \/ RunOnce(w) \/ Exit(w) \/ Raise(w) \/ Crash(w)
    PROVE  ProjectionInv'
  <1>1. job[w] \in Job /\ JobOK(job[w])
    BY DEF ProjectionInv, TypeOK, JobInv
  <1>2. overlap' \in BOOLEAN /\ (UNCHANGED trouble \/ Spend)
        /\ UNCHANGED <<authority, outbox, projection, task>>
    BY DEF ProjectionInv, TypeOK, Reconcile, RunOnce, Exit, Raise, Crash
  <1>3. CASE Reconcile(w)
    <2>1. CASE job' = [job EXCEPT ![w] =
                [NoJob EXCEPT !.pc = "lookup", !.attempt = node.attempt,
                              !.seen = Seen(node.attempt)]]
      <3> DEFINE j == [NoJob EXCEPT !.pc = "lookup", !.attempt = node.attempt,
                                    !.seen = Seen(node.attempt)]
      <3>1. node.attempt \in AttemptNo
        BY DEF ProjectionInv, TypeOK, NodeRow
      <3>2. /\ Seen(node.attempt) \in [status: {"none"} \cup NodeStatus,
                                owner: People \cup {NoOne}, version: Events]
            /\ Seen(node.attempt).owner \in People
        BY <3>1, SeenType
      <3>3. j \in Job
        BY <3>1, <3>2, Constants DEF Job, PC, NoJob
      <3>4. JobOK(j)
        BY <3>2 DEF JobOK, NoJob, Working
      <3> QED
        BY <2>1, <3>3, <3>4, <1>2, MemoryStep
    <2>2. CASE Goto(w, "idle") /\ job[w].pc = "down"
      <3>1. At(job[w], "idle") \in Job /\ JobOK(At(job[w], "idle"))
        BY <1>1, <2>2, AtType DEF PC, JobOK, Working, Job
      <3> QED
        BY <2>2, <3>1, <1>2, MemoryStep DEF Goto
    <2> QED
      BY <1>3, <2>1, <2>2 DEF Reconcile
  <1>4. CASE RunOnce(w) \/ Exit(w)
    <2>1. PICK pc \in {"idle", "down"} :
            Goto(w, pc) /\ job[w].pc \in {"idle", "down"}
      BY <1>4 DEF RunOnce, Exit
    <2>2. At(job[w], pc) \in Job /\ JobOK(At(job[w], pc))
      BY <1>1, <2>1, AtType DEF PC, JobOK, Working, Job
    <2> QED
      BY <2>1, <2>2, <1>2, MemoryStep DEF Goto
  <1>5. CASE Raise(w)
    <2>1. CASE Abort(w)
      BY <2>1, RestStep, <1>2, MemoryStep
    <2>2. CASE Goto(w, "fail")
      <3>1. \E k \in Job : JobOK(k) /\ job' = [job EXCEPT ![w] = k]
        BY <2>2, GotoStep DEF PC, Working
      <3> QED
        BY <3>1, <1>2, MemoryStep
    <2> QED
      BY <1>5, <2>1, <2>2 DEF Raise
  <1>6. CASE Crash(w)
    BY <1>6, <1>2, Constants, MemoryStep DEF Crash
  <1> QED
    BY <1>3, <1>4, <1>5, <1>6

-----------------------------------------------------------------------------
(* Steps at Feishu. *)
TasksInv ==
    /\ task \in [AttemptNo -> [Generation -> Task]]
    /\ \A a \in AttemptNo, g \in Generation :
          task[a][g].state = "deleted" => g < MaxGen

(* One task changes, and is deletable only below the last generation. *)
LEMMA TaskStep ==
    ASSUME TasksInv, NEW a \in AttemptNo, NEW g \in Generation,
           NEW t \in Task, t.state = "deleted" => g < MaxGen,
           task' = [task EXCEPT ![a][g] = t]
    PROVE  TasksInv'
  <1>1. task' \in [AttemptNo -> [Generation -> Task]]
    BY DEF TasksInv
  <1>2. \A b \in AttemptNo, h \in Generation :
          task'[b][h] = IF b = a /\ h = g THEN t ELSE task[b][h]
    BY DEF TasksInv
  <1> QED
    BY <1>1, <1>2 DEF TasksInv

(* A task is created, or was already under this key. *)
LEMMA CreateTaskStep ==
    ASSUME TasksInv, NEW a \in AttemptNo, NEW g \in Generation,
           NEW p \in People, CreateTask(a, g, p)
    PROVE  TasksInv'
  <1>1. [state |-> "open", members |-> {p}, keys |-> {}] \in Task
    BY DEF Task
  <1>2. CASE task[a][g].state # "none"
    BY <1>2 DEF CreateTask, TasksInv
  <1>3. CASE task[a][g].state = "none"
    BY <1>1, <1>3, TaskStep DEF CreateTask
  <1> QED
    BY <1>2, <1>3

(* Steps that change tasks and the memory of a worker. *)
LEMMA FeishuStep ==
    ASSUME ProjectionInv, TasksInv', NEW w \in Workers, NEW pc \in PC,
           Goto(w, pc), pc \in {"record", "replace", "save", "fail"},
           job[w].pc \in Working,
           pc = "replace" => job[w].row.gen < MaxGen,
           UNCHANGED <<authority, outbox, projection, overlap, trouble>>
    PROVE  ProjectionInv'
  <1>1. \E j \in Job : JobOK(j) /\ job' = [job EXCEPT ![w] = j]
    BY GotoStep DEF Working
  <1>2. job' \in [Workers -> Job] /\ JobInv'
    BY <1>1, JobStep DEF ProjectionInv
  <1>3. TypeOK'
    BY <1>2 DEF ProjectionInv, TypeOK, TasksInv, authority
  <1> QED
    BY <1>2, <1>3 DEF ProjectionInv, OutboxInv, Latest, BoundsInv, TasksInv, authority

(* The calls of Feishu that a worker makes. *)
LEMMA CallStep ==
    ASSUME ProjectionInv, NEW w \in Workers,
           Create(w) \/ Recreate(w) \/ Assign(w) \/ Close(w)
    PROVE  ProjectionInv'
  <1> DEFINE j == job[w]
             a == Slot(j)
             g == j.row.gen
  <1>1. j \in Job /\ JobOK(j) /\ TasksInv
    BY DEF ProjectionInv, TypeOK, JobInv, BoundsInv, TasksInv
  <1>2. a \in AttemptNo /\ g \in Generation /\ 0 \in Generation
    BY <1>1, Constants DEF Job, Row, Slot
  <1>3. task[a][g] \in Task
    BY <1>1, <1>2 DEF TasksInv
  <1>4. CASE Create(w)
    <2>1. j.seen.owner \in People
      BY <1>1, <1>4 DEF Create, JobOK, Working
    <2>2. TasksInv'
      BY <1>1, <1>2, <1>4, <2>1, CreateTaskStep DEF Create
    <2> QED
      BY <1>4, <2>2, FeishuStep DEF Create, PC, Working
  <1>5. CASE Recreate(w)
    <2>1. j.seen.owner \in People /\ g < MaxGen
      BY <1>1, <1>5 DEF Recreate, JobOK, Working
    <2>2. g + 1 \in Generation
      BY <1>2, <2>1, ProjectionAssumption DEF Generation
    <2>3. TasksInv'
      BY <1>1, <1>2, <1>5, <2>1, <2>2, CreateTaskStep DEF Recreate
    <2> QED
      BY <1>5, <2>1, <2>3, FeishuStep DEF Recreate, PC, Working
  <1>6. CASE Assign(w)
    <2>1. CASE UNCHANGED task
      <3>1. TasksInv'
        BY <1>1, <2>1 DEF TasksInv
      <3>2. PICK pc \in {"save", "fail"} : Goto(w, pc)
        BY <1>6 DEF Assign
      <3> QED
        BY <1>6, <3>1, <3>2, FeishuStep DEF Assign, PC, Working
    <2>2. CASE ~UNCHANGED task
      <3> DEFINE t == [task[a][g] EXCEPT
                         !.members = (@ \ {outbox[j.event].from}) \cup {j.seen.owner},
                         !.keys = @ \cup {j.seen.version}]
      <3>1. /\ Goto(w, "save") /\ task[a][g].state # "deleted"
            /\ task' = [task EXCEPT ![a][g] = t]
        BY <1>6, <2>2 DEF Assign
      <3>2. j.seen.owner \in People /\ j.seen.version \in Events
        BY <1>1, <1>6 DEF Assign, JobOK, Working, Job
      <3>3. t \in Task /\ t.state = task[a][g].state
        BY <1>3, <3>2 DEF Task
      <3> HIDE DEF t
      <3>4. TasksInv'
        BY <1>1, <1>2, <3>1, <3>3, TaskStep
      <3> QED
        BY <1>6, <3>1, <3>4, FeishuStep DEF Assign, PC, Working
    <2> QED
      BY <2>1, <2>2
  <1>7. CASE Close(w)
    <2>1. CASE UNCHANGED task
      <3>1. TasksInv'
        BY <1>1, <2>1 DEF TasksInv
      <3>2. PICK pc \in {"save", "fail"} : Goto(w, pc)
        BY <1>7 DEF Close
      <3> QED
        BY <1>7, <3>1, <3>2, FeishuStep DEF Close, PC, Working
    <2>2. CASE ~UNCHANGED task
      <3> DEFINE t == [task[a][g] EXCEPT !.state = "closed"]
      <3>1. Goto(w, "save") /\ task' = [task EXCEPT ![a][g] = t]
        BY <1>3, <1>7, <2>2 DEF Close, Task
      <3>2. t \in Task /\ t.state = "closed"
        BY <1>3 DEF Task
      <3> HIDE DEF t
      <3>3. TasksInv'
        BY <1>1, <1>2, <3>1, <3>2, TaskStep
      <3> QED
        BY <1>7, <3>1, <3>3, FeishuStep DEF Close, PC, Working
    <2> QED
      BY <2>1, <2>2
  <1> QED
    BY <1>4, <1>5, <1>6, <1>7

(* Somebody deletes a task. *)
LEMMA DeleteTaskStep ==
    ASSUME ProjectionInv, NEW a \in AttemptNo, NEW g \in Generation,
           DeleteTask(a, g)
    PROVE  ProjectionInv'
  <1> DEFINE t == [task[a][g] EXCEPT !.state = "deleted"]
  <1>1. TasksInv /\ task[a][g] \in Task
    BY DEF ProjectionInv, TypeOK, BoundsInv, TasksInv
  <1>2. t \in Task /\ g < MaxGen /\ task' = [task EXCEPT ![a][g] = t]
    BY <1>1 DEF DeleteTask, Task
  <1> HIDE DEF t
  <1>3. TasksInv'
    BY <1>1, <1>2, TaskStep
  <1>4. TypeOK'
    BY <1>3 DEF DeleteTask, ProjectionInv, TypeOK, TasksInv, authority
  <1> QED
    BY <1>3, <1>4
    DEF DeleteTask, ProjectionInv, OutboxInv, Latest, JobInv, BoundsInv, TasksInv,
        authority

-----------------------------------------------------------------------------
(* Steps at the projection rows. *)
LEMMA RowStep ==
    ASSUME ProjectionInv, NEW w \in Workers, NEW pc \in PC, NEW new \in Row,
           pc \in {"save", "publish"}, pc = "save" => job[w].pc \in Working,
           \/ /\ Goto(w, "fail") /\ UNCHANGED projection
           \/ /\ projection' = [projection EXCEPT ![Slot(job[w])] = new]
              /\ job' = [job EXCEPT ![w] = At([job[w] EXCEPT !.row = new], pc)],
           UNCHANGED <<authority, outbox, task, overlap, trouble>>
    PROVE  ProjectionInv'
  <1>1. job[w] \in Job /\ JobOK(job[w]) /\ Slot(job[w]) \in AttemptNo
    BY DEF ProjectionInv, TypeOK, JobInv, Job, Slot
  <1>2. /\ projection' \in [AttemptNo -> Row]
        /\ \E j \in Job : JobOK(j) /\ job' = [job EXCEPT ![w] = j]
    <2>1. CASE Goto(w, "fail") /\ UNCHANGED projection
      BY <2>1, GotoStep DEF PC, Working, ProjectionInv, TypeOK
    <2>2. CASE /\ projection' = [projection EXCEPT ![Slot(job[w])] = new]
               /\ job' = [job EXCEPT ![w] = At([job[w] EXCEPT !.row = new], pc)]
      <3> DEFINE k == [job[w] EXCEPT !.row = new]
      <3>1. /\ k \in Job /\ k.seen = job[w].seen /\ k.event = job[w].event
            /\ k.batch = job[w].batch
        BY <1>1 DEF Job
      <3> HIDE DEF k
      <3>2. At(k, pc) \in Job /\ JobOK(At(k, pc))
        BY <1>1, <3>1, AtType DEF JobOK, Working, Job
      <3>3. job' = [job EXCEPT ![w] = At(k, pc)]
        BY <2>2 DEF k
      <3>4. projection' \in [AttemptNo -> Row]
        BY <2>2 DEF ProjectionInv, TypeOK
      <3> QED
        BY <3>2, <3>3, <3>4
    <2> QED
      BY <2>1, <2>2
  <1>3. job' \in [Workers -> Job] /\ JobInv'
    BY <1>2, JobStep DEF ProjectionInv
  <1>4. TypeOK'
    BY <1>2, <1>3 DEF ProjectionInv, TypeOK, authority
  <1> QED
    BY <1>3, <1>4 DEF ProjectionInv, OutboxInv, Latest, BoundsInv, authority

(* The newer of two versions is a version. *)
LEMMA NewerType ==
    ASSUME NEW x \in Events, NEW y \in Events
    PROVE  Newer(x, y) \in Events /\ Newer(x, y) >= x
  BY ProjectionAssumption DEF Newer, Events

(* The writes to the projection row. *)
LEMMA WriteStep ==
    ASSUME ProjectionInv, NEW w \in Workers, Record(w) \/ Replace(w) \/ Save(w)
    PROVE  ProjectionInv'
  <1> DEFINE j == job[w]
  <1>1. j \in Job /\ JobOK(j)
    BY DEF ProjectionInv, TypeOK, JobInv
  <1>2. /\ j.row \in Row /\ j.seen.status \in {"none"} \cup NodeStatus
        /\ j.seen.version \in Events
        /\ Newer(j.row.sync, j.seen.version) \in Events
    BY <1>1, NewerType DEF Job, Row
  <1>3. CASE Record(w)
    <2> DEFINE new == [gen |-> 0, sync |-> j.seen.version,
                       status |-> j.seen.status, completed |-> FALSE]
    <2>1. new \in Row
      BY <1>2, Constants DEF Row
    <2>2. \/ /\ Goto(w, "fail") /\ UNCHANGED projection
          \/ /\ projection' = [projection EXCEPT ![Slot(job[w])] = new]
             /\ job' = [job EXCEPT ![w] = At([job[w] EXCEPT !.row = new], "save")]
      BY <1>3 DEF Record, Write
    <2> HIDE DEF new
    <2> QED
      BY <1>3, <2>1, <2>2, RowStep DEF Record, PC, Working
  <1>4. CASE Replace(w)
    <2> DEFINE new == [gen |-> j.row.gen + 1,
                       sync |-> Newer(j.row.sync, j.seen.version),
                       status |-> j.seen.status, completed |-> FALSE]
    <2>1. j.row.gen + 1 \in Generation
      BY <1>1, <1>2, <1>4, ProjectionAssumption
      DEF Replace, JobOK, Row, Generation
    <2>2. new \in Row
      BY <1>2, <2>1 DEF Row
    <2>3. \/ /\ Goto(w, "fail") /\ UNCHANGED projection
          \/ /\ projection' = [projection EXCEPT ![Slot(job[w])] = new]
             /\ job' = [job EXCEPT ![w] = At([job[w] EXCEPT !.row = new], "save")]
      BY <1>4 DEF Replace
    <2> HIDE DEF new
    <2> QED
      BY <1>4, <2>2, <2>3, RowStep DEF Replace, PC, Working
  <1>5. CASE Save(w)
    <2>1. FinalRow(j) \in Row
      BY <1>2 DEF FinalRow, Row, Ended
    <2>2. \/ /\ Goto(w, "fail") /\ UNCHANGED projection
          \/ /\ projection' = [projection EXCEPT ![Slot(job[w])] = FinalRow(j)]
             /\ job' = [job EXCEPT ![w] =
                          At([job[w] EXCEPT !.row = FinalRow(j)], "publish")]
      BY <1>5 DEF Save, Write
    <2> QED
      BY <1>5, <2>1, <2>2, RowStep DEF Save, PC
  <1> QED
    BY <1>3, <1>4, <1>5

-----------------------------------------------------------------------------
(* Steps at the outbox. *)
LEMMA ClaimStep ==
    ASSUME ProjectionInv, NEW w \in Workers, Claim(w)
    PROVE  ProjectionInv'
  <1>1. PICK S \in SUBSET Events :
          /\ outbox' = [v \in Events |->
                IF v \in S THEN [outbox[v] EXCEPT !.state = "processing",
                                      !.holder = w, !.live = TRUE, !.tries = @ + 1]
                ELSE outbox[v]]
          /\ job' = [job EXCEPT ![w].pc = "next", ![w].batch = S]
    BY DEF Claim
  <1>2. job[w] \in Job /\ JobOK(job[w]) /\ job[w].pc = "idle"
    BY DEF ProjectionInv, TypeOK, JobInv, Claim
  <1>3. job' \in [Workers -> Job] /\ JobInv'
    <2> DEFINE j == [job[w] EXCEPT !.pc = "next", !.batch = S]
    <2>1. j \in Job /\ j.pc = "next" /\ j.batch = S /\ j.event = NoEvent
      BY <1>2 DEF Job, PC, JobOK
    <2>2. NoEvent \notin S
      BY DEF NoEvent, Events
    <2>3. JobOK(j)
      BY <2>1, <2>2 DEF JobOK, Working
    <2>4. job' = [job EXCEPT ![w] = j]
      BY <1>1, <1>2 DEF ProjectionInv, TypeOK
    <2> HIDE DEF j
    <2> QED
      BY <2>1, <2>3, <2>4, JobStep DEF ProjectionInv
  <1>4. \A v \in Events : /\ outbox'[v] \in Event /\ EventOK(outbox'[v])
                          /\ outbox'[v].at = outbox[v].at
    <2> SUFFICES ASSUME NEW v \in Events
                 PROVE  /\ outbox'[v] \in Event /\ EventOK(outbox'[v])
                        /\ outbox'[v].at = outbox[v].at
      OBVIOUS
    <2>1. outbox[v] \in Event /\ EventOK(outbox[v])
      BY DEF ProjectionInv, TypeOK, OutboxInv
    <2>2. CASE v \in S
      <3> DEFINE e == [outbox[v] EXCEPT !.state = "processing", !.holder = w,
                                        !.live = TRUE, !.tries = @ + 1]
      <3>1. outbox'[v] = e
        BY <1>1, <2>2
      <3>2. e \in Event
        <4>1. outbox[v].tries + 1 \in Nat
          BY <2>1 DEF Event
        <4>2. e = [outbox[v] EXCEPT !.state = "processing", !.holder = w,
                                    !.live = TRUE, !.tries = outbox[v].tries + 1]
          OBVIOUS
        <4> HIDE DEF e
        <4> QED
          BY <2>1, <4>1, <4>2 DEF Event
      <3>3. e.state = "processing" /\ e.holder = w /\ e.at = outbox[v].at
        BY <2>1 DEF Event
      <3> HIDE DEF e
      <3> QED
        BY <3>1, <3>2, <3>3 DEF EventOK
    <2>3. CASE v \notin S
      BY <1>1, <2>1, <2>3
    <2> QED
      BY <2>2, <2>3
  <1>5. outbox' \in [Events -> Event]
    BY <1>1, <1>4
  <1>6. OutboxInv'
    BY <1>4 DEF ProjectionInv, OutboxInv, Latest
  <1>7. TypeOK'
    BY <1>3, <1>5 DEF Claim, ProjectionInv, TypeOK, authority
  <1> QED
    BY <1>3, <1>6, <1>7 DEF Claim, ProjectionInv, BoundsInv, authority

(* An event that is settled. *)
LEMMA SettledStep ==
    ASSUME ProjectionInv, NEW v \in Events, NEW at,
           NEW state \in {"published", "exhausted", "failed"},
           at = LastAt + 1 \/ at = outbox[v].at,
           outbox[v].state = "processing", Settled(v, state, at)
    PROVE  outbox' \in [Events -> Event] /\ OutboxInv'
  <1> DEFINE e == [outbox[v] EXCEPT !.state = state, !.at = at,
                                    !.holder = Nobody, !.live = FALSE]
  <1>1. outbox[v] \in Event
    BY DEF ProjectionInv, TypeOK
  <1>2. at \in Nat
    BY <1>1, LastType DEF ProjectionInv, OutboxInv, Event
  <1>3. e \in Event /\ EventOK(e) /\ e.at = at
    BY <1>1, <1>2 DEF Event, EventOK
  <1>4. outbox' = [outbox EXCEPT ![v] = e]
    BY <1>1 DEF Settled, ProjectionInv, TypeOK
  <1> HIDE DEF e
  <1> QED
    BY <1>3, <1>4, OutboxStep DEF ProjectionInv

(* An event is published or fails. *)
LEMMA SettleStep ==
    ASSUME ProjectionInv, NEW w \in Workers, Publish(w) \/ Fail(w)
    PROVE  ProjectionInv'
  <1> DEFINE v == job[w].event
  <1>1. Rest(w) \/ Abort(w)
    BY DEF Publish, Fail
  <1>2. job' \in [Workers -> Job] /\ JobInv'
    BY <1>1, RestStep, JobStep DEF ProjectionInv
  <1>3. v \in Events \cup {NoEvent}
    BY DEF ProjectionInv, TypeOK, Job
  <1>4. outbox' \in [Events -> Event] /\ OutboxInv'
    <2>1. CASE UNCHANGED outbox
      BY <2>1 DEF ProjectionInv, TypeOK, OutboxInv, Latest
    <2>2. CASE v # NoEvent /\ Mine(w, v) /\ Settled(v, "published", outbox[v].at)
      BY <1>3, <2>2, SettledStep DEF Mine
    <2>3. CASE v # NoEvent /\ Mine(w, v) /\ Settled(v, "exhausted", outbox[v].at)
      BY <1>3, <2>3, SettledStep DEF Mine
    <2>4. CASE v # NoEvent /\ Mine(w, v) /\ Settled(v, "failed", LastAt + 1)
      BY <1>3, <2>4, SettledStep DEF Mine
    <2> QED
      BY <2>1, <2>2, <2>3, <2>4 DEF Publish, Fail
  <1>5. UNCHANGED <<authority, projection, task, overlap, trouble>>
    BY DEF Publish, Fail
  <1>6. TypeOK'
    BY <1>2, <1>4, <1>5 DEF ProjectionInv, TypeOK, authority
  <1> QED
    BY <1>2, <1>4, <1>5, <1>6 DEF ProjectionInv, BoundsInv, authority

(* The lease of an event ends. *)
LEMMA ExpireStep ==
    ASSUME ProjectionInv, NEW v \in Events, Expire(v)
    PROVE  ProjectionInv'
  <1> DEFINE e == [outbox[v] EXCEPT !.live = FALSE]
  <1>1. outbox[v] \in Event /\ EventOK(outbox[v])
    BY DEF ProjectionInv, TypeOK, OutboxInv
  <1>2. e \in Event /\ EventOK(e) /\ e.at = outbox[v].at
    BY <1>1 DEF Event, EventOK, Expire
  <1>3. outbox' = [outbox EXCEPT ![v] = e]
    BY <1>1 DEF Expire, ProjectionInv, TypeOK
  <1> HIDE DEF e
  <1>4. outbox' \in [Events -> Event] /\ OutboxInv'
    BY <1>2, <1>3, OutboxStep DEF ProjectionInv
  <1>5. trouble' \in 0 .. Trouble
    BY ProjectionAssumption DEF Expire, Spend, ProjectionInv, TypeOK
  <1>6. TypeOK'
    BY <1>4, <1>5 DEF Expire, ProjectionInv, TypeOK, authority
  <1> QED
    BY <1>4, <1>6 DEF Expire, ProjectionInv, JobInv, BoundsInv, authority

-----------------------------------------------------------------------------
(* Commands. *)
LEMMA RequestStep ==
    ASSUME ProjectionInv, NEW v \in Events, NEW a \in AttemptNo,
           NEW from \in People \cup {NoOne}, Request(v, a, from)
    PROVE  outbox' \in [Events -> Event] /\ OutboxInv'
  <1>1. CASE UNCHANGED outbox
    BY <1>1 DEF ProjectionInv, TypeOK, OutboxInv, Latest
  <1>2. CASE outbox' = [outbox EXCEPT ![v] = RowAt("pending", LastAt + 1, a, from)]
    <2> DEFINE e == RowAt("pending", LastAt + 1, a, from)
    <2>1. LastAt \in Nat
      BY LastType DEF ProjectionInv, OutboxInv
    <2>2. e \in Event /\ EventOK(e) /\ e.at = LastAt + 1
      BY <2>1 DEF RowAt, Event, EventOK
    <2> HIDE DEF e
    <2> QED
      BY <1>2, <2>2, OutboxStep DEF ProjectionInv, e
  <1> QED
    BY <1>1, <1>2 DEF Request

(* A command changes the node and may write an event. *)
LEMMA CommandStep ==
    ASSUME ProjectionInv, Command
    PROVE  ProjectionInv'
  <1>1. node \in NodeRow /\ node.version \in Events /\ node.attempt \in AttemptNo
        /\ node.owner \in People /\ node.status \in NodeStatus
    BY DEF ProjectionInv, TypeOK, NodeRow
  <1>2. NewVersion => node.version + 1 \in Events
    BY <1>1, ProjectionAssumption DEF NewVersion, Events
  <1>3. UNCHANGED <<projection, task, job, overlap, trouble>>
    BY DEF Command
  <1> SUFFICES /\ node' \in NodeRow
               /\ past' \in [AttemptNo -> {"none"} \cup Terminal]
               /\ life' \in 1 .. MaxLife
               /\ outbox' \in [Events -> Event] /\ OutboxInv'
               /\ node'.status = "absent" => life' < MaxLife
    BY <1>3 DEF ProjectionInv, TypeOK, JobInv, BoundsInv
  <1>4. UNCHANGED outbox => outbox' \in [Events -> Event] /\ OutboxInv'
    BY DEF ProjectionInv, TypeOK, OutboxInv, Latest
  <1>5. ASSUME NEW s \in {"pending", "ready"}, NEW p \in People, Prepare(s, p)
        PROVE  /\ node' \in NodeRow /\ node'.status # "absent"
               /\ UNCHANGED <<past, outbox, life>>
    BY <1>1, <1>2, <1>5 DEF Prepare, NodeRow, NodeStatus
  <1>6. ASSUME NEW s \in {"pending", "ready"}, NEW p \in People, AddAgain(s, p)
        PROVE  /\ node' \in NodeRow /\ node'.status # "absent"
               /\ life' \in 1 .. MaxLife /\ UNCHANGED <<past, outbox>>
    BY <1>1, <1>6, Constants, ProjectionAssumption
    DEF AddAgain, NodeRow, NodeStatus, ProjectionInv, TypeOK, BoundsInv
  <1>7. ASSUME NEW s \in {"pending", "ready"}, Restart(s)
        PROVE  /\ node' \in NodeRow /\ node'.status # "absent"
               /\ past' \in [AttemptNo -> {"none"} \cup Terminal]
               /\ Request(node.version + 1, node.attempt, NoOne) /\ NewVersion
               /\ UNCHANGED life
    <2>1. node.attempt + 1 \in AttemptNo
      BY <1>1, <1>7, ProjectionAssumption DEF Restart, AttemptNo
    <2>2. node' \in NodeRow /\ node'.status # "absent"
      BY <1>1, <1>2, <1>7, <2>1 DEF Restart, NodeRow, NodeStatus
    <2>3. LeftAs \in Terminal
      BY DEF LeftAs, Terminal
    <2> QED
      BY <1>7, <2>2, <2>3 DEF Restart, ProjectionInv, TypeOK
  <1>8. ASSUME NEW s \in Terminal, End(s)
        PROVE  /\ node' \in NodeRow /\ node'.status # "absent"
               /\ Request(node.version + 1, node.attempt, NoOne) /\ NewVersion
               /\ UNCHANGED <<past, life>>
    BY <1>1, <1>2, <1>8 DEF End, NodeRow, NodeStatus, Terminal
  <1>9. ASSUME NEW p \in People, Transfer(p)
        PROVE  /\ node' \in NodeRow /\ node'.status # "absent"
               /\ Request(node.version + 1, node.attempt, node.owner) /\ NewVersion
               /\ UNCHANGED <<past, life>>
    BY <1>1, <1>2, <1>9 DEF Transfer, NodeRow
  <1>10. ASSUME Activate
         PROVE  /\ node' \in NodeRow /\ node'.status # "absent"
                /\ Request(node.version + 1, node.attempt, NoOne) /\ NewVersion
                /\ UNCHANGED <<past, life>>
    BY <1>1, <1>2, <1>10 DEF Activate, NodeRow, NodeStatus
  <1>11. ASSUME NEW from \in People \cup {NoOne}, NewVersion,
                Request(node.version + 1, node.attempt, from)
         PROVE  outbox' \in [Events -> Event] /\ OutboxInv'
    BY <1>1, <1>2, <1>11, RequestStep
  <1>12. CASE \E s \in {"pending", "ready"}, p \in People :
                Prepare(s, p) \/ AddAgain(s, p)
    BY <1>4, <1>5, <1>6, <1>12 DEF ProjectionInv, TypeOK
  <1>13. CASE \E s \in {"pending", "ready"} : Restart(s)
    BY <1>7, <1>11, <1>13 DEF ProjectionInv, TypeOK
  <1>14. CASE \E s \in Terminal : End(s)
    BY <1>8, <1>11, <1>14 DEF ProjectionInv, TypeOK
  <1>15. CASE \E p \in People : Transfer(p)
    BY <1>1, <1>9, <1>11, <1>15 DEF ProjectionInv, TypeOK
  <1>16. CASE Activate
    BY <1>10, <1>11, <1>16 DEF ProjectionInv, TypeOK
  <1> QED
    BY <1>12, <1>13, <1>14, <1>15, <1>16 DEF Command

(* The node is removed by an edit. *)
LEMMA RemoveStep ==
    ASSUME ProjectionInv, Remove
    PROVE  ProjectionInv'
  <1>1. node' \in NodeRow
    BY Constants DEF Remove, ProjectionInv, TypeOK, NodeRow, NodeStatus
  <1>2. past' \in [AttemptNo -> {"none"} \cup Terminal]
    BY DEF Remove
  <1>3. trouble' \in 0 .. Trouble
    BY ProjectionAssumption DEF Remove, Spend, ProjectionInv, TypeOK
  <1>4. TypeOK'
    BY <1>1, <1>2, <1>3 DEF Remove, ProjectionInv, TypeOK
  <1> QED
    BY <1>4 DEF Remove, ProjectionInv, OutboxInv, Latest, JobInv, BoundsInv

-----------------------------------------------------------------------------
(* Confirmed instances are in order. *)
LEMMA InitProjection == Init => ProjectionInv
  <1> SUFFICES ASSUME Init PROVE ProjectionInv
    OBVIOUS
  <1>1. RowAt("pending", 1, 1, NoOne) \in Event /\ EventOK(RowAt("pending", 1, 1, NoOne))
    BY Constants DEF RowAt, Event, EventOK
  <1>2. outbox \in [Events -> Event] /\ \A v \in Events : EventOK(outbox[v])
    BY <1>1, Constants DEF Init
  <1>3. Latest
    <2>1. \A v \in Events : outbox[v].at = IF v = 0 THEN 1 ELSE 0
      BY DEF Init, RowAt, NoEventYet
    <2> QED
      BY <2>1, Constants DEF Latest
  <1>4. TypeOK
    <2>1. node \in NodeRow
      BY Constants DEF Init, NodeRow, NodeStatus
    <2>2. projection \in [AttemptNo -> Row] /\ job \in [Workers -> Job]
      BY Constants DEF Init
    <2>3. task \in [AttemptNo -> [Generation -> Task]]
      BY Constants DEF Init
    <2>4. life \in 1 .. MaxLife /\ trouble \in 0 .. Trouble
      BY ProjectionAssumption DEF Init
    <2> QED
      BY <1>2, <2>1, <2>2, <2>3, <2>4 DEF Init, TypeOK
  <1>5. BoundsInv
    BY DEF Init, BoundsInv, NoTask
  <1>6. JobInv
    BY Constants DEF Init, JobInv
  <1> QED
    BY <1>2, <1>3, <1>4, <1>5, <1>6 DEF ProjectionInv, OutboxInv

(* Every step keeps the invariant. *)
LEMMA NextProjection == ProjectionInv /\ [Next]_vars => ProjectionInv'
  <1> SUFFICES ASSUME ProjectionInv, [Next]_vars PROVE ProjectionInv'
    OBVIOUS
  <1>1. CASE Command
    BY <1>1, CommandStep
  <1>2. CASE Remove
    BY <1>2, RemoveStep
  <1>3. CASE \E w \in Workers : Step(w)
    BY <1>3, ClaimStep, TakeStep, LookupStep, VerifyStep, CallStep, WriteStep,
       SettleStep DEF Step
  <1>4. CASE \E w \in Workers :
               Reconcile(w) \/ RunOnce(w) \/ Exit(w) \/ Raise(w) \/ Crash(w)
    BY <1>4, ProcessStep
  <1>5. CASE \E v \in Events : Expire(v)
    BY <1>5, ExpireStep
  <1>6. CASE \E a \in AttemptNo, g \in Generation : DeleteTask(a, g)
    BY <1>6, DeleteTaskStep
  <1>7. CASE UNCHANGED vars
    BY <1>7 DEF vars, ProjectionInv, TypeOK, OutboxInv, Latest, JobInv, BoundsInv
  <1> QED
    BY <1>1, <1>2, <1>3, <1>4, <1>5, <1>6, <1>7 DEF Next

(* Projection is well-typed: repairs, attempts and versions stay in their  *)
(* bounds, and somebody is named wherever a person is needed. *)
THEOREM Types == Spec => []TypeOK
  <1>1. ProjectionInv => TypeOK
    BY DEF ProjectionInv
  <1> QED
    BY <1>1, InitProjection, NextProjection, PTL DEF Spec

-----------------------------------------------------------------------------
(* The outbox is a queue with leases, whatever the workers, the commands   *)
(* and Feishu do, and projection rows only advance.                        *)

(* What a job means to settle. *)
InHand(j) == (j.batch \cup {j.event}) \ {NoEvent}

SameEvents ==
    \A v \in Events : /\ Phase(v)' = Phase(v)
                      /\ outbox'[v].holder = outbox[v].holder
                      /\ outbox'[v].live = outbox[v].live
                      /\ outbox'[v].tries = outbox[v].tries

SameHands == \A w \in Workers : Hands(w)' = Hands(w)

-----------------------------------------------------------------------------
(* Steps the queue does not see. *)
LEMMA Unseen ==
    ASSUME SameEvents, SameHands
    PROVE  UNCHANGED Queue!queue
  BY DEF SameEvents, SameHands, Queue!queue

(* Without a write the queue sees the same events. *)
LEMMA OutboxUnchanged ==
    ASSUME UNCHANGED outbox
    PROVE  SameEvents
  BY DEF SameEvents, Phase

(* What is in the hands of one worker says nothing of the others. *)
LEMMA HandsStep ==
    ASSUME TypeOK, NEW w \in Workers, NEW j, job' = [job EXCEPT ![w] = j]
    PROVE  \A u \in Workers : Hands(u)' = IF u = w THEN InHand(j) ELSE Hands(u)
  BY DEF TypeOK, Hands, InHand

(* Going on with an event keeps it in hand. *)
LEMMA GotoKeepsHands ==
    ASSUME ProjectionInv, NEW w \in Workers, NEW pc \in PC, NEW j \in Job,
           j.batch = job[w].batch, j.event = job[w].event,
           job' = [job EXCEPT ![w] = At(j, pc)]
    PROVE  SameHands
  <1>1. InHand(At(j, pc)) = Hands(w)
    BY AtType DEF InHand, Hands
  <1> QED
    BY <1>1, HandsStep DEF ProjectionInv, SameHands

-----------------------------------------------------------------------------
(* Steps of the queue. *)
LEMMA EnterStep ==
    ASSUME ProjectionInv, NEW v \in Events, NEW a, NEW from, Request(v, a, from),
           SameHands
    PROVE  UNCHANGED Queue!queue \/ Queue!Enter(v)
  <1>1. CASE UNCHANGED outbox
    BY <1>1, OutboxUnchanged, Unseen
  <1>2. CASE /\ outbox[v].state = "none"
             /\ outbox' = [outbox EXCEPT ![v] = RowAt("pending", LastAt + 1, a, from)]
    <2>1. EventOK(outbox[v]) /\ outbox \in [Events -> Event]
      BY DEF ProjectionInv, OutboxInv, TypeOK
    <2>2. /\ outbox[v].holder = Nobody /\ outbox[v].live = FALSE
          /\ outbox[v].tries = 0
      BY <1>2, <2>1 DEF EventOK
    <2>3. \A u \in Events :
            /\ Phase(u)' = IF u = v THEN "open" ELSE Phase(u)
            /\ outbox'[u].holder = outbox[u].holder
            /\ outbox'[u].live = outbox[u].live
            /\ outbox'[u].tries = outbox[u].tries
      BY <1>2, <2>1, <2>2 DEF Phase, RowAt
    <2>4. Phase(v) = "absent"
      BY <1>2 DEF Phase
    <2> QED
      BY <2>3, <2>4 DEF Queue!Enter, SameHands
  <1> QED
    BY <1>1, <1>2 DEF Request

(* A worker that drops its events lets them fall in the queue. *)
LEMMA LetFallStep ==
    ASSUME ProjectionInv, NEW w \in Workers, NEW j, InHand(j) = {},
           job' = [job EXCEPT ![w] = j], UNCHANGED outbox
    PROVE  Queue!LetFall(w)
  <1>1. \A u \in Workers : Hands(u)' = IF u = w THEN {} ELSE Hands(u)
    BY HandsStep DEF ProjectionInv
  <1>2. [u \in Workers |-> Hands(u)]' = [[u \in Workers |-> Hands(u)] EXCEPT ![w] = {}]
    BY <1>1
  <1> QED
    BY <1>2, OutboxUnchanged DEF Queue!LetFall, SameEvents

(* A claim of the outbox is a claim of the queue. *)
LEMMA QueueClaim ==
    ASSUME ProjectionInv, NEW w \in Workers, Claim(w)
    PROVE  \E S \in SUBSET {v \in Events : Queue!Free(v)} : Queue!Claim(w, S)
  <1>1. PICK S \in SUBSET {v \in Events : Claimable(v)} :
          /\ outbox' = [v \in Events |->
                IF v \in S THEN [outbox[v] EXCEPT !.state = "processing",
                                      !.holder = w, !.live = TRUE, !.tries = @ + 1]
                ELSE outbox[v]]
          /\ job' = [job EXCEPT ![w].pc = "next", ![w].batch = S]
    BY DEF Claim
  <1>2. job[w] \in Job /\ JobOK(job[w]) /\ job[w].pc = "idle"
    BY DEF ProjectionInv, TypeOK, JobInv, Claim
  <1>3. Hands(w) = {}
    BY <1>2 DEF JobOK, Hands
  <1>4. \A u \in Workers : Hands(u)' = IF u = w THEN S ELSE Hands(u)
    <2> DEFINE j == [job[w] EXCEPT !.pc = "next", !.batch = S]
    <2>1. j.batch = S /\ j.event = NoEvent
      BY <1>2 DEF Job, JobOK
    <2>2. NoEvent \notin S
      BY DEF NoEvent, Events
    <2>3. InHand(j) = S
      BY <2>1, <2>2 DEF InHand
    <2>4. job' = [job EXCEPT ![w] = j]
      BY <1>1, <1>2 DEF ProjectionInv, TypeOK
    <2> HIDE DEF j
    <2> QED
      BY <2>3, <2>4, HandsStep DEF ProjectionInv
  <1>5. \A v \in Events :
          /\ Phase(v)' = IF v \in S THEN "held" ELSE Phase(v)
          /\ outbox'[v].holder = IF v \in S THEN w ELSE outbox[v].holder
          /\ outbox'[v].live = IF v \in S THEN TRUE ELSE outbox[v].live
          /\ outbox'[v].tries = IF v \in S THEN outbox[v].tries + 1
                                ELSE outbox[v].tries
    <2> SUFFICES ASSUME NEW v \in Events
                 PROVE  /\ Phase(v)' = IF v \in S THEN "held" ELSE Phase(v)
                        /\ outbox'[v].holder = IF v \in S THEN w ELSE outbox[v].holder
                        /\ outbox'[v].live = IF v \in S THEN TRUE ELSE outbox[v].live
                        /\ outbox'[v].tries = IF v \in S THEN outbox[v].tries + 1
                                              ELSE outbox[v].tries
      OBVIOUS
    <2>1. outbox[v] \in Event
      BY DEF ProjectionInv, TypeOK
    <2>2. CASE v \in S
      <3>1. outbox'[v] = [outbox[v] EXCEPT !.state = "processing", !.holder = w,
                                    !.live = TRUE, !.tries = outbox[v].tries + 1]
        BY <1>1, <2>2
      <3>2. outbox'[v].state = "processing" /\ outbox'[v].holder = w
            /\ outbox'[v].live = TRUE /\ outbox'[v].tries = outbox[v].tries + 1
        BY <2>1, <3>1 DEF Event
      <3> QED
        BY <2>2, <3>2 DEF Phase
    <2>3. CASE v \notin S
      BY <1>1, <2>3 DEF Phase
    <2> QED
      BY <2>2, <2>3
  <1>6. \A v \in S : Queue!Free(v)
    BY <1>1 DEF Claimable, Queue!Free, Phase
  <1>7. Queue!Claim(w, S)
    BY <1>1, <1>3, <1>4, <1>5 DEF Queue!Claim
  <1> QED
    BY <1>1, <1>6, <1>7

(* A lease that ends in the outbox ends in the queue. *)
LEMMA QueueExpire ==
    ASSUME ProjectionInv, NEW v \in Events, Expire(v)
    PROVE  Queue!Expire(v)
  <1>1. outbox[v] \in Event /\ outbox \in [Events -> Event]
    BY DEF ProjectionInv, TypeOK
  <1>2. \A u \in Events :
          /\ Phase(u)' = Phase(u)
          /\ outbox'[u].holder = outbox[u].holder
          /\ outbox'[u].live = IF u = v THEN FALSE ELSE outbox[u].live
          /\ outbox'[u].tries = outbox[u].tries
    BY <1>1 DEF Expire, Phase, Event
  <1>3. Phase(v) = "held" /\ outbox[v].live
    BY DEF Expire, Phase
  <1>4. SameHands
    BY DEF Expire, SameHands, Hands
  <1> QED
    BY <1>2, <1>3, <1>4 DEF Queue!Expire, SameHands

(* What is settled in the outbox is settled in the queue, by who holds it. *)
LEMMA QueueSettle ==
    ASSUME ProjectionInv, NEW w \in Workers, NEW v \in Events, v = job[w].event,
           NEW state \in {"published", "exhausted", "failed"}, NEW at,
           Mine(w, v), Settled(v, state, at), Rest(w),
           state = "failed" => outbox[v].tries < MaxTries,
           state = "exhausted" => outbox[v].tries >= MaxTries
    PROVE  v \in Hands(w) /\ \E p \in {"done", "open", "dropped"} : Queue!Settle(w, v, p)
  <1> DEFINE p == IF state = "published" THEN "done"
                  ELSE IF state = "failed" THEN "open" ELSE "dropped"
  <1>1. outbox[v] \in Event /\ outbox \in [Events -> Event]
    BY DEF ProjectionInv, TypeOK
  <1>2. job[w] \in Job /\ JobOK(job[w])
    BY DEF ProjectionInv, TypeOK, JobInv
  <1>3. NoEvent \notin Events
    BY DEF NoEvent, Events
  <1>4. \A u \in Events :
          /\ Phase(u)' = IF u = v THEN p ELSE Phase(u)
          /\ outbox'[u].holder = IF u = v THEN Nobody ELSE outbox[u].holder
          /\ outbox'[u].live = IF u = v THEN FALSE ELSE outbox[u].live
          /\ outbox'[u].tries = outbox[u].tries
    <2> DEFINE e == [outbox[v] EXCEPT !.state = state, !.at = at,
                                      !.holder = Nobody, !.live = FALSE]
    <2>1. outbox' = [outbox EXCEPT ![v] = e]
      BY <1>1 DEF Settled
    <2>2. /\ e.state = state /\ e.holder = Nobody /\ e.live = FALSE
          /\ e.tries = outbox[v].tries
      BY <1>1 DEF Event
    <2> HIDE DEF e
    <2> QED
      BY <1>1, <2>1, <2>2 DEF Phase
  <1>5. \A u \in Workers : Hands(u)' = IF u = w THEN Hands(w) \ {v} ELSE Hands(u)
    <2> DEFINE j == [NoJob EXCEPT !.pc = IF job[w].batch = {} THEN "idle" ELSE "next",
                                  !.batch = job[w].batch]
    <2>1. j.batch = job[w].batch /\ j.event = NoEvent
      BY DEF NoJob
    <2>2. job' = [job EXCEPT ![w] = j]
      BY DEF Rest
    <2> HIDE DEF j
    <2>3. InHand(j) = Hands(w) \ {v}
      BY <1>2, <1>3, <2>1 DEF InHand, Hands, JobOK, Job
    <2> QED
      BY <2>2, <2>3, HandsStep DEF ProjectionInv
  <1>6. v \in Hands(w)
    BY <1>3 DEF Hands
  <1>7. Phase(v) = "held" /\ outbox[v].holder = w
    BY DEF Mine, Phase
  <1>8. Queue!Settle(w, v, p)
    BY <1>4, <1>5, <1>7 DEF Queue!Settle
  <1> QED
    BY <1>6, <1>8

-----------------------------------------------------------------------------
(* Commands enter events. *)
LEMMA CommandIsEnter ==
    ASSUME ProjectionInv, Command
    PROVE  UNCHANGED Queue!queue \/ \E v \in Events : Queue!Enter(v)
  <1>1. SameHands
    BY DEF Command, SameHands, Hands
  <1>2. NewVersion => node.version + 1 \in Events
    BY ProjectionAssumption DEF NewVersion, Events, ProjectionInv, TypeOK, NodeRow
  <1>3. \/ UNCHANGED outbox
        \/ NewVersion /\ \E from : Request(node.version + 1, node.attempt, from)
    BY DEF Command, Prepare, AddAgain, Restart, End, Transfer, Activate
  <1>4. CASE UNCHANGED outbox
    BY <1>1, <1>4, OutboxUnchanged, Unseen
  <1>5. CASE NewVersion /\ \E from : Request(node.version + 1, node.attempt, from)
    BY <1>1, <1>2, <1>5, EnterStep
  <1> QED
    BY <1>3, <1>4, <1>5

(* Most steps of a worker are unseen. *)
LEMMA WorkIsUnseen ==
    ASSUME ProjectionInv, NEW w \in Workers,
           \/ Take(w) \/ Lookup(w) \/ Create(w) \/ Record(w) \/ Verify(w)
           \/ Recreate(w) \/ Replace(w) \/ Assign(w) \/ Close(w) \/ Save(w)
    PROVE  UNCHANGED Queue!queue
  <1>1. UNCHANGED outbox
    BY DEF Take, Lookup, Create, Record, Verify, Recreate, Replace, Assign, Close, Save
  <1>2. job[w] \in Job /\ JobOK(job[w]) /\ Slot(job[w]) \in AttemptNo
    BY DEF ProjectionInv, TypeOK, JobInv, Slot, Job
  <1>3. SUFFICES SameHands
    BY <1>1, OutboxUnchanged, Unseen
  <1>4. ASSUME NEW pc \in PC, Goto(w, pc)
        PROVE  SameHands
    BY <1>2, <1>4, GotoKeepsHands DEF Goto
  <1>5. ASSUME NEW pc \in PC, NEW new \in Row,
               job' = [job EXCEPT ![w] = At([job[w] EXCEPT !.row = new], pc)]
        PROVE  SameHands
    <2> DEFINE k == [job[w] EXCEPT !.row = new]
    <2>1. k \in Job /\ k.batch = job[w].batch /\ k.event = job[w].event
      BY <1>2 DEF Job
    <2>2. job' = [job EXCEPT ![w] = At(k, pc)]
      BY <1>5
    <2> HIDE DEF k
    <2> QED
      BY <2>1, <2>2, GotoKeepsHands
  <1>6. CASE Take(w)
    <2> DEFINE B(v) == [job[w] EXCEPT !.batch = @ \ {v}, !.event = v,
                            !.attempt = outbox[v].attempt,
                            !.seen = Seen(outbox[v].attempt)]
               P(v) == CASE node.status = "absent" -> "publish"
                   [] node.status # "absent" /\ outbox[v].attempt > node.attempt
                        -> "fail"
                   [] /\ node.status # "absent"
                      /\ outbox[v].attempt <= node.attempt
                      /\ Effective(outbox[v].attempt) \in {"pending", "ready"}
                        -> "publish"
                   [] OTHER -> "lookup"
    <2>1. PICK v \in job[w].batch : job' = [job EXCEPT ![w] = At(B(v), P(v))]
      BY <1>6 DEF Take
    <2>2. v \in Events /\ outbox[v].attempt \in AttemptNo
      BY <1>2 DEF Job, ProjectionInv, TypeOK, Event
    <2>3. Seen(outbox[v].attempt) \in [status: {"none"} \cup NodeStatus,
                                      owner: People \cup {NoOne}, version: Events]
      BY <2>2, SeenType
    <2>4. B(v) \in Job /\ B(v).batch = job[w].batch \ {v} /\ B(v).event = v
      BY <1>2, <2>2, <2>3 DEF Job
    <2>5. P(v) \in PC
      BY DEF PC
    <2>6. job[w].event = NoEvent
      BY <1>2, <1>6 DEF Take, JobOK
    <2> DEFINE b == B(v)
               p == P(v)
    <2>7. b \in Job /\ b.batch = job[w].batch \ {v} /\ b.event = v
          /\ p \in PC /\ job' = [job EXCEPT ![w] = At(b, p)]
      BY <2>1, <2>4, <2>5
    <2> HIDE DEF b, p, B, P
    <2>8. InHand(At(b, p)) = Hands(w)
      BY <2>2, <2>6, <2>7, AtType DEF InHand, Hands, NoEvent, Events
    <2> QED
      BY <2>7, <2>8, HandsStep DEF ProjectionInv, SameHands
  <1>7. CASE Lookup(w)
    <2>1. projection[Slot(job[w])] \in Row
      BY <1>2 DEF ProjectionInv, TypeOK
    <2>2. AfterLookup([job[w] EXCEPT !.row = projection[Slot(job[w])]]) \in PC
      BY AfterLookupType DEF PC
    <2> QED
      BY <1>5, <1>7, <2>1, <2>2 DEF Lookup
  <1>8. CASE Create(w) \/ Verify(w) \/ Recreate(w) \/ Assign(w) \/ Close(w)
    <2>1. \E pc \in PC : Goto(w, pc)
      BY <1>8, AfterLookupType DEF Create, Verify, Recreate, Assign, Close, PC
    <2> QED
      BY <2>1, <1>4
  <1>9. CASE Record(w) \/ Replace(w) \/ Save(w)
    <2>1. /\ job[w].row \in Row /\ job[w].seen.status \in {"none"} \cup NodeStatus
          /\ job[w].seen.version \in Events
          /\ Newer(job[w].row.sync, job[w].seen.version) \in Events
      BY <1>2, NewerType DEF Job, Row
    <2>2. ASSUME NEW new \in Row, NEW pc \in PC, Write(w, new, pc)
          PROVE  SameHands
      BY <1>4, <1>5, <2>2 DEF Write, PC
    <2>3. CASE Record(w)
      <3>1. [gen |-> 0, sync |-> job[w].seen.version, status |-> job[w].seen.status,
             completed |-> FALSE] \in Row
        BY <2>1, Constants DEF Row
      <3> QED
        BY <2>2, <2>3, <3>1 DEF Record, PC
    <2>4. CASE Replace(w)
      <3>1. job[w].row.gen + 1 \in Generation
        BY <1>2, <2>1, <2>4, ProjectionAssumption
        DEF Replace, JobOK, Row, Generation
      <3>2. [gen |-> job[w].row.gen + 1,
             sync |-> Newer(job[w].row.sync, job[w].seen.version),
             status |-> job[w].seen.status, completed |-> FALSE] \in Row
        BY <2>1, <3>1 DEF Row
      <3> QED
        BY <1>4, <1>5, <2>4, <3>2 DEF Replace, PC
    <2>5. CASE Save(w)
      <3>1. FinalRow(job[w]) \in Row
        BY <2>1 DEF FinalRow, Row, Ended
      <3> QED
        BY <2>2, <2>5, <3>1 DEF Save, PC
    <2> QED
      BY <1>9, <2>3, <2>4, <2>5
  <1> QED
    BY <1>6, <1>7, <1>8, <1>9

(* An event is settled by its holder; a lost claim is let fall. *)
LEMMA SettleIsSettle ==
    ASSUME ProjectionInv, NEW w \in Workers, Publish(w) \/ Fail(w)
    PROVE  \/ UNCHANGED Queue!queue \/ Queue!LetFall(w)
           \/ \E i \in Hands(w), p \in {"done", "open", "dropped"} :
                 Queue!Settle(w, i, p)
  <1> DEFINE v == job[w].event
  <1>1. job[w] \in Job /\ JobOK(job[w]) /\ v \in Events \cup {NoEvent}
    BY DEF ProjectionInv, TypeOK, JobInv, Job
  <1>2. CASE v = NoEvent /\ Rest(w) /\ UNCHANGED outbox
    <2> DEFINE j == [NoJob EXCEPT !.pc = IF job[w].batch = {} THEN "idle" ELSE "next",
                                  !.batch = job[w].batch]
    <2>1. j.batch = job[w].batch /\ j.event = NoEvent
      BY DEF NoJob
    <2>2. job' = [job EXCEPT ![w] = j]
      BY <1>2 DEF Rest
    <2> HIDE DEF j
    <2>3. InHand(j) = Hands(w)
      BY <1>2, <2>1 DEF InHand, Hands
    <2>4. SameHands
      BY <2>2, <2>3, HandsStep DEF ProjectionInv, SameHands
    <2> QED
      BY <1>2, <2>4, OutboxUnchanged, Unseen
  <1>3. CASE Abort(w) /\ UNCHANGED outbox
    <2> DEFINE j == [NoJob EXCEPT !.pc = "idle"]
    <2>1. InHand(j) = {}
      BY DEF NoJob, InHand
    <2>2. job' = [job EXCEPT ![w] = j]
      BY <1>3 DEF Abort
    <2> HIDE DEF j
    <2> QED
      BY <1>3, <2>1, <2>2, LetFallStep
  <1>4. ASSUME NEW state \in {"published", "exhausted", "failed"}, NEW at,
               v # NoEvent, Mine(w, v), Settled(v, state, at), Rest(w),
               state = "failed" => outbox[v].tries < MaxTries,
               state = "exhausted" => outbox[v].tries >= MaxTries
        PROVE  \E i \in Hands(w), p \in {"done", "open", "dropped"} :
                 Queue!Settle(w, i, p)
    BY <1>1, <1>4, QueueSettle
  <1>5. v # NoEvent => outbox[v].tries \in Nat
    BY <1>1 DEF ProjectionInv, TypeOK, Event
  <1>6. CASE v # NoEvent /\ Mine(w, v) /\ Rest(w)
             /\ Settled(v, "published", outbox[v].at)
    BY <1>4, <1>6
  <1>7. CASE /\ v # NoEvent /\ Mine(w, v) /\ Rest(w)
             /\ IF outbox[v].tries >= MaxTries
                THEN Settled(v, "exhausted", outbox[v].at)
                ELSE Settled(v, "failed", LastAt + 1)
    <2>1. CASE outbox[v].tries >= MaxTries
      BY <1>4, <1>7, <2>1
    <2>2. CASE ~(outbox[v].tries >= MaxTries)
      <3>1. outbox[v].tries < MaxTries
        BY <1>5, <1>7, <2>2, ProjectionAssumption
      <3> QED
        BY <1>4, <1>7, <2>2, <3>1
    <2> QED
      BY <2>1, <2>2
  <1>8. \/ v = NoEvent /\ Rest(w) /\ UNCHANGED outbox
        \/ Abort(w) /\ UNCHANGED outbox
        \/ v # NoEvent /\ Mine(w, v) /\ Rest(w) /\ Settled(v, "published", outbox[v].at)
        \/ /\ v # NoEvent /\ Mine(w, v) /\ Rest(w)
           /\ IF outbox[v].tries >= MaxTries
              THEN Settled(v, "exhausted", outbox[v].at)
              ELSE Settled(v, "failed", LastAt + 1)
    BY DEF Publish, Fail
  <1> QED
    BY <1>2, <1>3, <1>6, <1>7, <1>8

(* Processes come and go with empty hands or let fall what they have. *)
LEMMA ProcessIsLetFall ==
    ASSUME ProjectionInv, NEW w \in Workers,
           Reconcile(w) \/ RunOnce(w) \/ Exit(w) \/ Raise(w) \/ Crash(w)
    PROVE  UNCHANGED Queue!queue \/ Queue!LetFall(w)
  <1>1. UNCHANGED outbox
    BY DEF Reconcile, RunOnce, Exit, Raise, Crash
  <1>2. job[w] \in Job /\ JobOK(job[w])
    BY DEF ProjectionInv, TypeOK, JobInv
  <1>3. ASSUME NEW pc \in PC, Goto(w, pc)
        PROVE  UNCHANGED Queue!queue
    <2>1. SameHands
      BY <1>2, <1>3, GotoKeepsHands DEF Goto
    <2> QED
      BY <1>1, <2>1, OutboxUnchanged, Unseen
  <1>4. CASE job[w].pc = "down" /\ job' = [job EXCEPT ![w] =
                [NoJob EXCEPT !.pc = "lookup", !.attempt = node.attempt,
                              !.seen = Seen(node.attempt)]]
    <2> DEFINE j == [NoJob EXCEPT !.pc = "lookup", !.attempt = node.attempt,
                                  !.seen = Seen(node.attempt)]
    <2>1. InHand(j) = {}
      BY DEF NoJob, InHand
    <2>2. job' = [job EXCEPT ![w] = j]
      BY <1>4
    <2> HIDE DEF j
    <2> QED
      BY <1>1, <2>1, <2>2, LetFallStep
  <1>5. CASE Abort(w)
    <2> DEFINE j == [NoJob EXCEPT !.pc = "idle"]
    <2>1. InHand(j) = {}
      BY DEF NoJob, InHand
    <2>2. job' = [job EXCEPT ![w] = j]
      BY <1>5 DEF Abort
    <2> HIDE DEF j
    <2> QED
      BY <1>1, <2>1, <2>2, LetFallStep
  <1>6. CASE Crash(w)
    <2>1. InHand(NoJob) = {}
      BY DEF NoJob, InHand
    <2> QED
      BY <1>1, <1>6, <2>1, LetFallStep DEF Crash
  <1>7. CASE Reconcile(w)
    BY <1>3, <1>4, <1>7 DEF Reconcile, PC
  <1>8. CASE RunOnce(w) \/ Exit(w)
    BY <1>3, <1>8 DEF RunOnce, Exit, PC
  <1>9. CASE Raise(w)
    BY <1>3, <1>5, <1>9 DEF Raise, PC
  <1> QED
    BY <1>6, <1>7, <1>8, <1>9

-----------------------------------------------------------------------------
(* The events of a confirmed instance are a queue's first items. *)
LEMMA InitQueue == Init => Queue!Init
  <1> SUFFICES ASSUME Init PROVE Queue!Init
    OBVIOUS
  <1>1. \A v \in Events :
          /\ Phase(v) \in {"absent", "open"}
          /\ outbox[v].holder = Nobody /\ outbox[v].live = FALSE
          /\ outbox[v].tries = 0
    BY DEF Init, NoEventYet, RowAt, Phase
  <1>2. \A w \in Workers : Hands(w) = {}
    BY DEF Init, NoJob, Hands
  <1> QED
    BY <1>1, <1>2 DEF Queue!Init

(* Every step is one of the queue, or unseen by it. *)
LEMMA NextQueue ==
    ProjectionInv /\ [Next]_vars => [Queue!Next]_(Queue!queue)
  <1> SUFFICES ASSUME ProjectionInv, [Next]_vars
               PROVE  UNCHANGED Queue!queue \/ Queue!Next
    OBVIOUS
  <1>1. CASE Command
    BY <1>1, CommandIsEnter DEF Queue!Next
  <1>2. ASSUME UNCHANGED <<outbox, job>>
        PROVE  UNCHANGED Queue!queue
    <2>1. SameHands
      BY <1>2 DEF SameHands, Hands
    <2> QED
      BY <1>2, <2>1, OutboxUnchanged, Unseen
  <1>3. CASE Remove \/ \E a \in AttemptNo, g \in Generation : DeleteTask(a, g)
    BY <1>2, <1>3 DEF Remove, DeleteTask
  <1>4. ASSUME NEW w \in Workers, Step(w)
        PROVE  UNCHANGED Queue!queue \/ Queue!Next
    <2>1. CASE Claim(w)
      BY <2>1, QueueClaim DEF Queue!Next
    <2>2. CASE Publish(w) \/ Fail(w)
      BY <2>2, SettleIsSettle DEF Queue!Next
    <2> QED
      BY <1>4, <2>1, <2>2, WorkIsUnseen DEF Step
  <1>5. ASSUME NEW w \in Workers,
               Reconcile(w) \/ RunOnce(w) \/ Exit(w) \/ Raise(w) \/ Crash(w)
        PROVE  UNCHANGED Queue!queue \/ Queue!Next
    BY <1>5, ProcessIsLetFall DEF Queue!Next
  <1>6. ASSUME NEW v \in Events, Expire(v)
        PROVE  Queue!Next
    BY <1>6, QueueExpire DEF Queue!Next
  <1>7. CASE UNCHANGED vars
    BY <1>2, <1>7 DEF vars
  <1> QED
    BY <1>1, <1>3, <1>4, <1>5, <1>6, <1>7 DEF Next

(* The outbox is a queue with leases: only the holder settles an event,    *)
(* only after its lease ran out does it change hands, and it is given up   *)
(* exactly when its tries are spent.                                       *)
THEOREM OutboxIsLeasedQueue == Spec => IsLeasedQueue
  BY InitProjection, NextProjection, InitQueue, NextQueue, PTL
  DEF Spec, IsLeasedQueue, Queue!Spec

-----------------------------------------------------------------------------
(* What a worker acts on has started: the attempts left behind have ended, *)
(* and a worker goes past Take with a status it has read. *)
StartedInv ==
    /\ \A a \in AttemptNo : a < node.attempt => past[a] # "none"
    /\ \A w \in Workers : job[w].pc \in Working => job[w].seen.status # "none"

(* At the start nobody has read a status. *)
LEMMA InitStarted == Init => StartedInv
  BY DEF Init, StartedInv, NoJob, Working, AttemptNo

(* No command forgets how an earlier attempt ended. *)
LEMMA CommandStarted ==
    ASSUME ProjectionInv, StartedInv, Command \/ Remove
    PROVE  StartedInv'
  <1>1. node \in NodeRow /\ node.attempt \in AttemptNo
        /\ past \in [AttemptNo -> {"none"} \cup Terminal]
    BY DEF ProjectionInv, TypeOK, NodeRow
  <1>2. UNCHANGED job
    BY DEF Command, Remove
  <1> SUFFICES \A a \in AttemptNo : a < node'.attempt => past'[a] # "none"
    BY <1>2 DEF StartedInv
  <1>3. CASE \E s \in {"pending", "ready"} : Restart(s)
    <2>1. /\ node'.attempt = node.attempt + 1
          /\ past' = [past EXCEPT ![node.attempt] = LeftAs]
      BY <1>1, <1>3 DEF Restart, NodeRow
    <2>2. LeftAs # "none"
      BY DEF LeftAs
    <2> QED
      BY <1>1, <2>1, <2>2 DEF StartedInv, AttemptNo
  <1>4. CASE Remove \/ \E s \in {"pending", "ready"}, p \in People : AddAgain(s, p)
    <2>1. CASE Remove
      BY <1>1, <2>1 DEF Remove, NodeRow, AttemptNo
    <2>2. CASE \E s \in {"pending", "ready"}, p \in People : AddAgain(s, p)
      BY <2>2 DEF AddAgain, AttemptNo
    <2> QED
      BY <1>4, <2>1, <2>2
  <1>5. CASE \/ \E s \in {"pending", "ready"}, p \in People : Prepare(s, p)
             \/ \E s \in Terminal : End(s)
             \/ \E p \in People : Transfer(p)
             \/ Activate
    <2>1. node'.attempt = node.attempt /\ UNCHANGED past
      BY <1>1, <1>5 DEF Prepare, End, Transfer, Activate, NodeRow
    <2> QED
      BY <2>1 DEF StartedInv
  <1> QED
    BY <1>3, <1>4, <1>5 DEF Command

(* Steps of a worker replace its memory and leave the node alone. *)
LEMMA MemoryStarted ==
    ASSUME ProjectionInv, StartedInv, NEW w \in Workers, NEW j,
           job' = [job EXCEPT ![w] = j],
           j.pc \in Working => j.seen.status # "none",
           UNCHANGED authority
    PROVE  StartedInv'
  BY DEF ProjectionInv, TypeOK, StartedInv, authority

(* A worker that goes on has the status it had read. *)
LEMMA GotoStarted ==
    ASSUME ProjectionInv, StartedInv, NEW w \in Workers, NEW j \in Job,
           NEW pc \in PC, j.seen = job[w].seen,
           job' = [job EXCEPT ![w] = At(j, pc)],
           pc \in Working => job[w].pc \in Working,
           UNCHANGED authority
    PROVE  StartedInv'
  <1>1. At(j, pc).pc = pc
    BY AtType
  <1>2. pc \in Working => At(j, pc).seen = job[w].seen
    BY AtType DEF Working, Job
  <1> QED
    BY <1>1, <1>2, MemoryStarted DEF StartedInv

Advances(old, new) ==
    old # NoRow => new # NoRow /\ new.sync >= old.sync /\ new.gen >= old.gen

(* A row is only ever replaced by one that is ahead of it. *)
LEMMA NewRow ==
    ASSUME ProjectionInv, StartedInv, NEW w \in Workers,
           Record(w) \/ Replace(w) \/ Save(w)
    PROVE  \/ Goto(w, "fail") /\ UNCHANGED projection
           \/ \E new \in Row, pc \in {"save", "publish"} :
                /\ Advances(projection[Slot(job[w])], new)
                /\ projection' = [projection EXCEPT ![Slot(job[w])] = new]
                /\ job' = [job EXCEPT ![w] = At([job[w] EXCEPT !.row = new], pc)]
  <1> DEFINE j == job[w]
             old == projection[Slot(job[w])]
  <1>1. j \in Job /\ JobOK(j) /\ old \in Row
    BY DEF ProjectionInv, TypeOK, JobInv, Slot, Job
  <1>2. /\ j.row \in Row /\ j.seen.status \in {"none"} \cup NodeStatus
        /\ j.seen.version \in Events
        /\ Newer(j.row.sync, j.seen.version) \in Events
    BY <1>1, NewerType DEF Job, Row
  <1>3. j.seen.status # "none"
    BY DEF StartedInv, Record, Replace, Save, Working
  <1>4. old.gen \in Int /\ old.sync \in Int /\ j.row.gen \in Int
    BY <1>1, <1>2 DEF Row, Generation, Events
  <1>5. ASSUME NEW new \in Row, new.status = j.seen.status, Savable(old, new)
        PROVE  Advances(old, new)
    <2>1. new # NoRow
      BY <1>3, <1>5 DEF NoRow
    <2>2. old # NoRow => new.gen = old.gen /\ new.sync >= old.sync
      BY <1>5 DEF Savable
    <2> QED
      BY <1>4, <2>1, <2>2 DEF Advances
  <1>6. CASE Record(w)
    <2> DEFINE new == [gen |-> 0, sync |-> j.seen.version,
                       status |-> j.seen.status, completed |-> FALSE]
    <2>1. new \in Row /\ new.status = j.seen.status
      BY <1>2, Constants DEF Row
    <2>2. \/ Goto(w, "fail") /\ UNCHANGED projection
          \/ /\ Savable(old, new)
             /\ projection' = [projection EXCEPT ![Slot(job[w])] = new]
             /\ job' = [job EXCEPT ![w] = At([job[w] EXCEPT !.row = new], "save")]
      BY <1>6 DEF Record, Write
    <2> HIDE DEF new, j, old
    <2> QED
      BY <1>5, <2>1, <2>2 DEF old
  <1>7. CASE Save(w)
    <2> DEFINE new == FinalRow(j)
    <2>1. new \in Row /\ new.status = j.seen.status
      BY <1>2 DEF FinalRow, Row, Ended
    <2>2. \/ Goto(w, "fail") /\ UNCHANGED projection
          \/ /\ Savable(old, new)
             /\ projection' = [projection EXCEPT ![Slot(job[w])] = new]
             /\ job' = [job EXCEPT ![w] = At([job[w] EXCEPT !.row = new], "publish")]
      BY <1>7 DEF Save, Write
    <2> HIDE DEF new, j, old
    <2> QED
      BY <1>5, <2>1, <2>2 DEF old
  <1>8. CASE Replace(w)
    <2> DEFINE new == [gen |-> j.row.gen + 1,
                       sync |-> Newer(j.row.sync, j.seen.version),
                       status |-> j.seen.status, completed |-> FALSE]
    <2>1. j.row.gen + 1 \in Generation
      BY <1>1, <1>2, <1>8, ProjectionAssumption
      DEF Replace, JobOK, Row, Generation
    <2>2. new \in Row /\ new # NoRow
      BY <1>2, <1>3, <2>1 DEF Row, NoRow
    <2>3. \/ Goto(w, "fail") /\ UNCHANGED projection
          \/ /\ old.gen = j.row.gen /\ old.sync <= new.sync
             /\ projection' = [projection EXCEPT ![Slot(job[w])] = new]
             /\ job' = [job EXCEPT ![w] = At([job[w] EXCEPT !.row = new], "save")]
      BY <1>8 DEF Replace
    <2>4. new.gen = j.row.gen + 1 /\ new.sync \in Int
      BY <1>2 DEF Events
    <2> HIDE DEF new, j, old
    <2>5. old.gen = j.row.gen /\ old.sync <= new.sync => Advances(old, new)
      BY <1>4, <2>2, <2>4 DEF Advances
    <2> QED
      BY <2>2, <2>3, <2>5 DEF old
  <1> QED
    BY <1>6, <1>7, <1>8

(* A worker at rest, or one that aborts, is at no row. *)
LEMMA RestedJob ==
    ASSUME NEW w \in Workers, Rest(w) \/ Abort(w)
    PROVE  \E j : job' = [job EXCEPT ![w] = j] /\ j.pc \in {"idle", "next"}
  <1>1. CASE Rest(w)
    <2> DEFINE pc == IF job[w].batch = {} THEN "idle" ELSE "next"
               j == [NoJob EXCEPT !.pc = pc, !.batch = job[w].batch]
    <2>1. job' = [job EXCEPT ![w] = j] /\ j.pc = pc
      BY <1>1 DEF Rest, NoJob
    <2> HIDE DEF j
    <2> QED
      BY <2>1
  <1>2. CASE Abort(w)
    <2> DEFINE j == [NoJob EXCEPT !.pc = "idle"]
    <2>1. job' = [job EXCEPT ![w] = j] /\ j.pc = "idle"
      BY <1>2 DEF Abort, NoJob
    <2> HIDE DEF j
    <2> QED
      BY <2>1
  <1> QED
    BY <1>1, <1>2

(* A step of a worker keeps what it has read. *)
LEMMA WorkStarted ==
    ASSUME ProjectionInv, StartedInv, NEW w \in Workers, Step(w)
    PROVE  StartedInv'
  <1>1. UNCHANGED authority
    BY DEF Step, Claim, Take, Lookup, Create, Record, Verify, Recreate,
           Replace, Assign, Close, Save, Write, Publish, Fail
  <1>2. job[w] \in Job /\ Slot(job[w]) \in AttemptNo
    BY DEF ProjectionInv, TypeOK, Slot, Job
  <1>3. ASSUME NEW pc \in PC, Goto(w, pc), pc \in Working => job[w].pc \in Working
        PROVE  StartedInv'
    BY <1>1, <1>2, <1>3, GotoStarted DEF Goto
  <1>4. ASSUME NEW pc \in PC, NEW new \in Row, job[w].pc \in Working,
               job' = [job EXCEPT ![w] = At([job[w] EXCEPT !.row = new], pc)]
        PROVE  StartedInv'
    <2> DEFINE k == [job[w] EXCEPT !.row = new]
    <2>1. k \in Job /\ k.seen = job[w].seen
      BY <1>2 DEF Job
    <2>2. job' = [job EXCEPT ![w] = At(k, pc)]
      BY <1>4
    <2> HIDE DEF k
    <2> QED
      BY <1>1, <1>4, <2>1, <2>2, GotoStarted
  <1>5. CASE Claim(w)
    <2>1. PICK S : job' = [job EXCEPT ![w].pc = "next", ![w].batch = S]
      BY <1>5 DEF Claim
    <2> DEFINE j == [job[w] EXCEPT !.pc = "next", !.batch = S]
    <2>2. job' = [job EXCEPT ![w] = j] /\ j.pc = "next"
      BY <1>2, <2>1 DEF ProjectionInv, TypeOK, Job
    <2> HIDE DEF j
    <2> QED
      BY <1>1, <2>2, MemoryStarted DEF Working
  <1>6. CASE Take(w)
    <2> DEFINE B(v) == [job[w] EXCEPT !.batch = @ \ {v}, !.event = v,
                            !.attempt = outbox[v].attempt,
                            !.seen = Seen(outbox[v].attempt)]
               P(v) == CASE node.status = "absent" -> "publish"
                   [] node.status # "absent" /\ outbox[v].attempt > node.attempt
                        -> "fail"
                   [] /\ node.status # "absent"
                      /\ outbox[v].attempt <= node.attempt
                      /\ Effective(outbox[v].attempt) \in {"pending", "ready"}
                        -> "publish"
                   [] OTHER -> "lookup"
    <2>1. PICK v \in job[w].batch : job' = [job EXCEPT ![w] = At(B(v), P(v))]
      BY <1>6 DEF Take
    <2>2. v \in Events /\ outbox[v].attempt \in AttemptNo
      BY <1>2 DEF Job, ProjectionInv, TypeOK, Event
    <2>3. Seen(outbox[v].attempt) \in [status: {"none"} \cup NodeStatus,
                                      owner: People \cup {NoOne}, version: Events]
      BY <2>2, SeenType
    <2>4. B(v) \in Job /\ B(v).seen = Seen(outbox[v].attempt)
      BY <1>2, <2>2, <2>3 DEF Job
    <2>5. P(v) \in {"publish", "fail", "lookup"}
      OBVIOUS
    <2>6. P(v) = "lookup" => outbox[v].attempt <= node.attempt
      <3>1. node.attempt \in Nat /\ outbox[v].attempt \in Nat
        BY <2>2 DEF ProjectionInv, TypeOK, NodeRow, AttemptNo
      <3>2. outbox[v].attempt > node.attempt =>
                P(v) \in {"publish", "fail"}
        BY <3>1
      <3> HIDE DEF P
      <3> QED
        BY <3>1, <3>2
    <2>7. P(v) = "lookup" => Seen(outbox[v].attempt).status # "none"
      BY <2>2, <2>6
      DEF Seen, Effective, StartedInv, ProjectionInv, TypeOK, NodeRow,
          NodeStatus, Terminal, AttemptNo
    <2> DEFINE b == B(v)
               p == P(v)
    <2>8. /\ b \in Job /\ p \in {"publish", "fail", "lookup"}
          /\ p = "lookup" => b.seen.status # "none"
          /\ job' = [job EXCEPT ![w] = At(b, p)]
      BY <2>1, <2>4, <2>5, <2>7
    <2> HIDE DEF b, p, B, P
    <2>9. At(b, p).pc = p /\ (p = "lookup" => At(b, p).seen = b.seen)
      BY <2>8, AtType DEF PC, Job
    <2> QED
      BY <1>1, <2>8, <2>9, MemoryStarted DEF Working
  <1>7. CASE Lookup(w)
    <2>1. projection[Slot(job[w])] \in Row
      BY <1>2 DEF ProjectionInv, TypeOK
    <2>2. AfterLookup([job[w] EXCEPT !.row = projection[Slot(job[w])]]) \in PC
      BY AfterLookupType DEF PC
    <2> QED
      BY <1>4, <1>7, <2>1, <2>2 DEF Lookup, Working
  <1>8. CASE Create(w) \/ Verify(w) \/ Recreate(w) \/ Assign(w) \/ Close(w)
    <2>1. job[w].pc \in Working /\ \E pc \in PC : Goto(w, pc)
      BY <1>8, AfterLookupType
      DEF Create, Verify, Recreate, Assign, Close, PC, Working
    <2> QED
      BY <2>1, <1>3
  <1>9. CASE Record(w) \/ Replace(w) \/ Save(w)
    <2>1. job[w].pc \in Working
      BY <1>9 DEF Record, Replace, Save, Working
    <2>2. \/ Goto(w, "fail")
          \/ \E new \in Row, pc \in {"save", "publish"} :
                job' = [job EXCEPT ![w] = At([job[w] EXCEPT !.row = new], pc)]
      BY <1>9, NewRow DEF Record, Replace, Save, Write
    <2> QED
      BY <1>3, <1>4, <2>1, <2>2 DEF PC
  <1>10. CASE Publish(w) \/ Fail(w)
    <2>1. \E j : job' = [job EXCEPT ![w] = j] /\ j.pc \in {"idle", "next"}
      BY <1>10, RestedJob DEF Publish, Fail
    <2> QED
      BY <1>1, <2>1, MemoryStarted DEF Working
  <1> QED
    BY <1>5, <1>6, <1>7, <1>8, <1>9, <1>10 DEF Step

(* Processes start, end and crash without reading a status. *)
LEMMA ProcessStarted ==
    ASSUME ProjectionInv, StartedInv, NEW w \in Workers,
           Reconcile(w) \/ RunOnce(w) \/ Exit(w) \/ Raise(w) \/ Crash(w)
    PROVE  StartedInv'
  <1>1. UNCHANGED authority
    BY DEF Reconcile, RunOnce, Exit, Raise, Crash
  <1>2. job[w] \in Job
    BY DEF ProjectionInv, TypeOK
  <1>3. ASSUME NEW pc \in {"idle", "down", "fail"}, Goto(w, pc)
        PROVE  StartedInv'
    BY <1>1, <1>2, <1>3, GotoStarted DEF Goto, PC, Working
  <1>4. CASE \/ RunOnce(w) \/ Exit(w) \/ (Reconcile(w) /\ Goto(w, "idle"))
             \/ (Raise(w) /\ Goto(w, "fail"))
    BY <1>3, <1>4 DEF RunOnce, Exit
  <1>5. CASE Raise(w) /\ Abort(w)
    <2>1. \E j : job' = [job EXCEPT ![w] = j] /\ j.pc \in {"idle", "next"}
      BY <1>5, RestedJob
    <2> QED
      BY <1>1, <2>1, MemoryStarted DEF Working
  <1>6. CASE Crash(w)
    BY <1>1, <1>6, MemoryStarted DEF Crash, NoJob, Working
  <1>7. CASE /\ node.status \in {"waiting"} \cup Terminal
             /\ job' = [job EXCEPT ![w] =
                   [NoJob EXCEPT !.pc = "lookup", !.attempt = node.attempt,
                                 !.seen = Seen(node.attempt)]]
    <2> DEFINE j == [NoJob EXCEPT !.pc = "lookup", !.attempt = node.attempt,
                                  !.seen = Seen(node.attempt)]
    <2>1. j.seen.status # "none"
      BY <1>7 DEF NoJob, Seen, Effective, Terminal
    <2>2. job' = [job EXCEPT ![w] = j]
      BY <1>7
    <2> HIDE DEF j
    <2> QED
      BY <1>1, <2>1, <2>2, MemoryStarted
  <1> QED
    BY <1>4, <1>5, <1>6, <1>7 DEF Reconcile, Raise

(* Every step keeps StartedInv. *)
LEMMA NextStarted ==
    ProjectionInv /\ StartedInv /\ [Next]_vars => StartedInv'
  <1> SUFFICES ASSUME ProjectionInv, StartedInv, [Next]_vars PROVE StartedInv'
    OBVIOUS
  <1>1. ASSUME UNCHANGED <<node, past, job>>
        PROVE  StartedInv'
    BY <1>1 DEF StartedInv
  <1>2. CASE \/ UNCHANGED vars \/ \E v \in Events : Expire(v)
             \/ \E a \in AttemptNo, g \in Generation : DeleteTask(a, g)
    BY <1>1, <1>2 DEF vars, Expire, DeleteTask, authority
  <1> QED
    BY <1>2, CommandStarted, WorkStarted, ProcessStarted DEF Next

(* Only three steps write rows, each one ahead of the row it replaces. *)
LEMMA RowsStep ==
    ASSUME ProjectionInv, StartedInv, [Next]_vars, NEW a \in AttemptNo
    PROVE  Advances(projection[a], projection'[a])
  <1>1. projection \in [AttemptNo -> Row]
    BY DEF ProjectionInv, TypeOK
  <1>2. projection[a].gen \in Int /\ projection[a].sync \in Int
    BY <1>1 DEF Row, Generation, Events
  <1>3. UNCHANGED projection => Advances(projection[a], projection'[a])
    BY <1>2 DEF Advances
  <1>4. ASSUME NEW w \in Workers, Record(w) \/ Replace(w) \/ Save(w)
        PROVE  Advances(projection[a], projection'[a])
    <2>1. CASE UNCHANGED projection
      BY <1>3, <2>1
    <2>2. CASE \E new \in Row :
                  /\ Advances(projection[Slot(job[w])], new)
                  /\ projection' = [projection EXCEPT ![Slot(job[w])] = new]
      <3>1. PICK new \in Row :
                  /\ Advances(projection[Slot(job[w])], new)
                  /\ projection' = [projection EXCEPT ![Slot(job[w])] = new]
        BY <2>2
      <3>2. CASE a = Slot(job[w])
        BY <1>1, <3>1, <3>2
      <3>3. CASE a # Slot(job[w])
        <4>1. projection'[a] = projection[a]
          BY <1>1, <3>1, <3>3
        <4> QED
          BY <1>2, <4>1 DEF Advances
      <3> QED
        BY <3>2, <3>3
    <2> QED
      BY <1>4, <2>1, <2>2, NewRow
  <1>5. CASE \/ Command \/ Remove \/ UNCHANGED vars
             \/ \E v \in Events : Expire(v)
             \/ \E b \in AttemptNo, g \in Generation : DeleteTask(b, g)
    BY <1>3, <1>5 DEF Command, Remove, vars, Expire, DeleteTask
  <1>6. ASSUME NEW w \in Workers,
               \/ Claim(w) \/ Take(w) \/ Lookup(w) \/ Create(w) \/ Verify(w)
               \/ Recreate(w) \/ Assign(w) \/ Close(w) \/ Publish(w) \/ Fail(w)
        PROVE  UNCHANGED projection
    BY <1>6 DEF Claim, Take, Lookup, Create, Verify, Recreate, Assign, Close,
                Publish, Fail
  <1>7. ASSUME NEW w \in Workers,
               Reconcile(w) \/ RunOnce(w) \/ Exit(w) \/ Raise(w) \/ Crash(w)
        PROVE  UNCHANGED projection
    BY <1>7 DEF Reconcile, RunOnce, Exit, Raise, Crash
  <1>8. ASSUME NEW w \in Workers, Step(w)
        PROVE  Advances(projection[a], projection'[a])
    BY <1>3, <1>4, <1>6, <1>8 DEF Step
  <1>9. CASE \E w \in Workers :
               Step(w) \/ Reconcile(w) \/ RunOnce(w) \/ Exit(w) \/ Raise(w) \/ Crash(w)
    BY <1>3, <1>7, <1>8, <1>9
  <1> QED
    BY <1>5, <1>9 DEF Next

(* A projection row is never deleted, never goes back to an older version  *)
(* of the node and never returns to a task that was replaced. *)
THEOREM RowsAdvance == Spec => RowsOnlyAdvance
  <1>1. ProjectionInv /\ StartedInv /\ [Next]_vars =>
           [\A a \in AttemptNo : projection[a] # NoRow =>
               /\ projection'[a] # NoRow
               /\ projection'[a].sync >= projection[a].sync
               /\ projection'[a].gen >= projection[a].gen]_vars
    BY RowsStep DEF Advances
  <1> QED
    BY <1>1, InitProjection, NextProjection, InitStarted, NextStarted, PTL
    DEF Spec, RowsOnlyAdvance


-----------------------------------------------------------------------------
(* What a worker has in mind after a step. *)

(* The memory of one worker is replaced. *)
LEMMA JobIs ==
    ASSUME ProjectionInv, NEW w \in Workers, NEW k, job' = [job EXCEPT ![w] = k]
    PROVE  /\ job'[w] = k
           /\ \A u \in Workers \ {w} : job'[u] = job[u]
  BY DEF ProjectionInv, TypeOK

(* What a worker that goes on still knows. *)
Knows(k, j) ==
    /\ k.event = j.event /\ k.batch = j.batch
    /\ k.pc \notin {"publish", "fail"} => k.attempt = j.attempt /\ k.seen = j.seen

(* At forgets the attempt only when the event can be settled. *)
LEMMA AtKnows ==
    ASSUME NEW j \in Job, NEW pc \in PC
    PROVE  /\ At(j, pc) \in Job /\ At(j, pc).pc = pc /\ Knows(At(j, pc), j)
           /\ pc \notin {"publish", "fail"} => At(j, pc).row = j.row
  <1>1. pc \notin {"publish", "fail"} =>
           /\ At(j, pc).attempt = j.attempt /\ At(j, pc).seen = j.seen
           /\ At(j, pc).row = j.row
    BY AtType DEF Job
  <1> QED
    BY <1>1, AtType DEF Knows

(* A worker goes on. *)
LEMMA GoesOn ==
    ASSUME ProjectionInv, NEW w \in Workers, NEW pc \in PC, Goto(w, pc)
    PROVE  /\ job'[w].pc = pc /\ Knows(job'[w], job[w])
           /\ pc \notin {"publish", "fail"} => job'[w].row = job[w].row
           /\ \A u \in Workers \ {w} : job'[u] = job[u]
  <1>1. job[w] \in Job
    BY DEF ProjectionInv, TypeOK
  <1>2. job' = [job EXCEPT ![w] = At(job[w], pc)]
    BY DEF Goto
  <1>3. /\ At(job[w], pc).pc = pc /\ Knows(At(job[w], pc), job[w])
        /\ pc \notin {"publish", "fail"} => At(job[w], pc).row = job[w].row
    BY <1>1, AtKnows
  <1>4. job'[w] = At(job[w], pc) /\ \A u \in Workers \ {w} : job'[u] = job[u]
    BY <1>2, JobIs
  <1> QED
    BY <1>3, <1>4

(* A worker goes on with the row it has read or written. *)
LEMMA GoesOnWith ==
    ASSUME ProjectionInv, NEW w \in Workers, NEW pc \in PC, NEW r \in Row,
           job' = [job EXCEPT ![w] = At([@ EXCEPT !.row = r], pc)]
    PROVE  /\ job'[w].pc = pc /\ Knows(job'[w], job[w])
           /\ pc \notin {"publish", "fail"} => job'[w].row = r
           /\ \A u \in Workers \ {w} : job'[u] = job[u]
  <1> DEFINE j == [job[w] EXCEPT !.row = r]
  <1>1. job[w] \in Job
    BY DEF ProjectionInv, TypeOK
  <1>2. /\ j \in Job /\ j.event = job[w].event /\ j.batch = job[w].batch
        /\ j.attempt = job[w].attempt /\ j.seen = job[w].seen /\ j.row = r
    BY <1>1 DEF Job
  <1>3. job' = [job EXCEPT ![w] = At(j, pc)]
    BY <1>1 DEF ProjectionInv, TypeOK
  <1> HIDE DEF j
  <1>4. At(j, pc).pc = pc /\ Knows(At(j, pc), j)
        /\ (pc \notin {"publish", "fail"} => At(j, pc).row = r)
    BY <1>2, AtKnows
  <1>5. Knows(At(j, pc), job[w])
    BY <1>2, <1>4 DEF Knows
  <1> QED
    BY <1>3, <1>4, <1>5, JobIs

(* The attempt a worker is at, and its row. *)
LEMMA JobFacts ==
    ASSUME ProjectionInv, NEW w \in Workers
    PROVE  /\ job[w] \in Job /\ job[w].pc \in PC /\ job[w].attempt \in AttemptNo
           /\ job[w].row \in Row /\ job[w].row.gen \in Generation
           /\ projection[job[w].attempt] \in Row
           /\ projection[job[w].attempt].gen \in Generation
           /\ job[w].event \in Events \cup {NoEvent} /\ NoEvent \notin Events
           /\ job[w].batch \in SUBSET Events /\ Slot(job[w]) = job[w].attempt
           /\ job[w].seen.version \in Events /\ JobOK(job[w])
           /\ job[w].seen.status \in {"none"} \cup NodeStatus
  <1>1. job[w] \in Job /\ JobOK(job[w])
    BY DEF ProjectionInv, TypeOK, JobInv
  <1>2. projection[job[w].attempt] \in Row
    BY <1>1 DEF ProjectionInv, TypeOK, Job
  <1> QED
    BY <1>1, <1>2 DEF Job, Row, Slot, NoEvent, Events

(* The status of an attempt that is not a later one. *)
LEMMA EffectiveIs ==
    ASSUME ProjectionInv, StartedInv, node.status # "absent",
           NEW a \in AttemptNo, a <= node.attempt
    PROVE  Effective(a) \in {"pending", "ready", "waiting"} \cup Terminal
  <1>1. /\ a \in Nat /\ node.attempt \in Nat /\ node.status \in NodeStatus
        /\ past[a] \in {"none"} \cup Terminal
    BY DEF ProjectionInv, TypeOK, NodeRow, AttemptNo
  <1>2. CASE a = node.attempt
    BY <1>1, <1>2 DEF Effective, NodeStatus
  <1>3. CASE a # node.attempt
    BY <1>1, <1>3 DEF Effective, StartedInv
  <1> QED
    BY <1>2, <1>3

(* The next event of the batch. *)
LEMMA TakeFacts ==
    ASSUME ProjectionInv, StartedInv, NEW w \in Workers, Take(w)
    PROVE  /\ job[w].pc = "next" /\ \A u \in Workers \ {w} : job'[u] = job[u]
           /\ UNCHANGED <<authority, outbox, projection, task, overlap, trouble>>
           /\ \E v \in job[w].batch :
                /\ job'[w].event = v /\ job'[w].batch = job[w].batch \ {v}
                /\ job'[w].pc \in {"publish", "fail", "lookup"}
                /\ job'[w].pc = "publish" =>
                     \/ node.status = "absent"
                     \/ /\ outbox[v].attempt <= node.attempt
                        /\ Effective(outbox[v].attempt) \in {"pending", "ready"}
                /\ job'[w].pc = "lookup" =>
                     /\ node.status # "absent" /\ outbox[v].attempt <= node.attempt
                     /\ Effective(outbox[v].attempt) \in {"waiting"} \cup Terminal
                     /\ job'[w].attempt = outbox[v].attempt
                     /\ job'[w].seen = Seen(outbox[v].attempt)
  <1> DEFINE B(v) == [job[w] EXCEPT !.batch = @ \ {v}, !.event = v,
                            !.attempt = outbox[v].attempt,
                            !.seen = Seen(outbox[v].attempt)]
             P(v) == CASE node.status = "absent" -> "publish"
                   [] node.status # "absent" /\ outbox[v].attempt > node.attempt
                        -> "fail"
                   [] /\ node.status # "absent"
                      /\ outbox[v].attempt <= node.attempt
                      /\ Effective(outbox[v].attempt) \in {"pending", "ready"}
                        -> "publish"
                   [] OTHER -> "lookup"
  <1>1. PICK v \in job[w].batch : job' = [job EXCEPT ![w] = At(B(v), P(v))]
    BY DEF Take
  <1>2. job[w] \in Job /\ v \in Events
    BY DEF ProjectionInv, TypeOK, Job
  <1>3. outbox[v].attempt \in AttemptNo /\ node.attempt \in Nat /\ outbox[v].attempt \in Nat
    BY <1>2 DEF ProjectionInv, TypeOK, Event, NodeRow, AttemptNo
  <1>4. Seen(outbox[v].attempt) \in [status: {"none"} \cup NodeStatus,
                                     owner: People \cup {NoOne}, version: Events]
    BY <1>3, SeenType
  <1>5. B(v) \in Job
    BY <1>2, <1>3, <1>4 DEF Job
  <1>6. /\ B(v).batch = job[w].batch \ {v} /\ B(v).event = v
        /\ B(v).attempt = outbox[v].attempt /\ B(v).seen = Seen(outbox[v].attempt)
    BY <1>2 DEF Job
  <1>7. P(v) \in {"publish", "fail", "lookup"}
    OBVIOUS
  <1>8. P(v) = "publish" => \/ node.status = "absent"
                            \/ /\ outbox[v].attempt <= node.attempt
                               /\ Effective(outbox[v].attempt) \in {"pending", "ready"}
    BY <1>3
  <1>9. P(v) = "lookup" =>
           /\ node.status # "absent" /\ outbox[v].attempt <= node.attempt
           /\ Effective(outbox[v].attempt) \in {"waiting"} \cup Terminal
    <2>1. P(v) = "lookup" =>
           /\ node.status # "absent" /\ outbox[v].attempt <= node.attempt
           /\ Effective(outbox[v].attempt) \notin {"pending", "ready"}
      BY <1>3
    <2> HIDE DEF P
    <2> QED
      BY <2>1, <1>3, EffectiveIs
  <1> DEFINE b == B(v)
             p == P(v)
  <1>10. /\ b \in Job /\ p \in {"publish", "fail", "lookup"} /\ p \in PC
         /\ job' = [job EXCEPT ![w] = At(b, p)]
    BY <1>1, <1>5, <1>7 DEF PC
  <1> HIDE DEF b, p
  <1>11. job'[w].pc = p /\ Knows(job'[w], b) /\ \A u \in Workers \ {w} : job'[u] = job[u]
    <2>1. At(b, p).pc = p /\ Knows(At(b, p), b)
      BY <1>10, AtKnows
    <2>2. job'[w] = At(b, p) /\ \A u \in Workers \ {w} : job'[u] = job[u]
      BY <1>10, JobIs
    <2> QED
      BY <2>1, <2>2
  <1>12. /\ job'[w].event = v /\ job'[w].batch = job[w].batch \ {v}
         /\ p = "lookup" => /\ job'[w].attempt = outbox[v].attempt
                            /\ job'[w].seen = Seen(outbox[v].attempt)
    BY <1>6, <1>11 DEF Knows, b
  <1>13. /\ p = "publish" =>
                \/ node.status = "absent"
                \/ /\ outbox[v].attempt <= node.attempt
                   /\ Effective(outbox[v].attempt) \in {"pending", "ready"}
         /\ p = "lookup" =>
                /\ node.status # "absent" /\ outbox[v].attempt <= node.attempt
                /\ Effective(outbox[v].attempt) \in {"waiting"} \cup Terminal
    BY <1>8, <1>9 DEF p
  <1> HIDE DEF P, B
  <1>14. /\ job[w].pc = "next"
         /\ UNCHANGED <<authority, outbox, projection, task, overlap, trouble>>
    BY DEF Take
  <1> QED
    BY <1>10, <1>11, <1>12, <1>13, <1>14
(* What is to be done for a row. *)
FromOf(v) == IF v = NoEvent THEN NoOne ELSE outbox[v].from

(* After the worker has read the row, or looked for its task. *)
LEMMA ToDo ==
    ASSUME NEW j, j.row.completed \in BOOLEAN
    PROVE  /\ AfterVerify(j) \in {"assign", "close", "publish", "save"}
           /\ AfterVerify(j) = "assign" =>
                FromOf(j.event) \notin {NoOne, j.seen.owner} /\ ~Ended(j) /\ j.event # NoEvent
           /\ AfterVerify(j) = "close" => Ended(j) /\ ~j.row.completed
           /\ AfterVerify(j) = "save" => (Ended(j) => j.row.completed)
           /\ AfterVerify(j) = "publish" => (Ended(j) => j.row.completed)
           /\ AfterVerify(j) # "assign" =>
                FromOf(j.event) = NoOne \/ Ended(j) \/ FromOf(j.event) = j.seen.owner
  BY DEF AfterVerify, FromOf, Ended

(* The row of the attempt is read. *)
LEMMA LookupFacts ==
    ASSUME ProjectionInv, NEW w \in Workers, Lookup(w)
    PROVE  /\ job[w].pc = "lookup" /\ \A u \in Workers \ {w} : job'[u] = job[u]
           /\ UNCHANGED <<authority, outbox, projection, task, overlap, trouble>>
           /\ Knows(job'[w], job[w])
           /\ job'[w].pc \in {"publish", "create", "verify", "assign", "close", "save"}
           /\ job'[w].pc # "publish" => job'[w].row = projection[job[w].attempt]
           /\ IF projection[job[w].attempt] = NoRow
              THEN job'[w].pc = IF Ended(job[w]) THEN "publish" ELSE "create"
              ELSE /\ job'[w].pc # "create"
                   /\ job'[w].pc = "verify" => job[w].event = NoEvent /\ ~Ended(job[w])
                   /\ job'[w].pc = "assign" =>
                        /\ FromOf(job[w].event) \notin {NoOne, job[w].seen.owner}
                        /\ ~Ended(job[w]) /\ job[w].event # NoEvent
                   /\ job'[w].pc = "close" =>
                        Ended(job[w]) /\ ~projection[job[w].attempt].completed
                   /\ job'[w].pc = "save" =>
                        (Ended(job[w]) => projection[job[w].attempt].completed)
                   /\ job'[w].pc = "publish" =>
                        (Ended(job[w]) => projection[job[w].attempt].completed)
                   /\ job'[w].pc \notin {"assign", "verify"} =>
                        \/ FromOf(job[w].event) = NoOne \/ Ended(job[w])
                        \/ FromOf(job[w].event) = job[w].seen.owner
  <1> DEFINE r == projection[job[w].attempt]
             j == [job[w] EXCEPT !.row = r]
             pc == AfterLookup(j)
  <1>1. job[w] \in Job /\ r \in Row /\ r.completed \in BOOLEAN
        /\ Slot(job[w]) = job[w].attempt
    BY JobFacts DEF Row
  <1>2. /\ j \in Job /\ j.row = r /\ j.event = job[w].event /\ j.seen = job[w].seen
        /\ j.pc = job[w].pc
    BY <1>1 DEF Job
  <1>3. /\ job' = [job EXCEPT ![w] = At([@ EXCEPT !.row = r], pc)] /\ job[w].pc = "lookup"
        /\ UNCHANGED <<authority, outbox, projection, task, overlap, trouble>>
    BY <1>1 DEF Lookup
  <1>4. Ended(j) = Ended(job[w])
    BY <1>2 DEF Ended
  <1> HIDE DEF j, r
  <1>5. AfterVerify(j) \in {"assign", "close", "publish", "save"}
    BY <1>1, <1>2, ToDo
  <1>6. /\ pc \in {"publish", "create", "verify", "assign", "close", "save"}
        /\ r = NoRow => pc = IF Ended(j) THEN "publish" ELSE "create"
        /\ r # NoRow => /\ pc # "create"
                        /\ pc = "verify" => j.event = NoEvent /\ ~Ended(j)
                        /\ pc # "verify" => pc = AfterVerify(j)
    BY <1>2, <1>5 DEF AfterLookup
  <1> HIDE DEF pc
  <1>7. /\ job'[w].pc = pc /\ Knows(job'[w], job[w])
        /\ pc # "publish" => job'[w].row = r
        /\ \A u \in Workers \ {w} : job'[u] = job[u]
    <2>1. pc \in PC /\ pc # "fail"
      BY <1>6 DEF PC
    <2> QED
      BY <1>1, <1>3, <2>1, GoesOnWith
  <1>8. r # NoRow /\ pc # "verify" =>
          /\ pc = "assign" => /\ FromOf(j.event) \notin {NoOne, j.seen.owner}
                              /\ ~Ended(j) /\ j.event # NoEvent
          /\ pc = "close" => Ended(j) /\ ~j.row.completed
          /\ pc = "save" => (Ended(j) => j.row.completed)
          /\ pc = "publish" => (Ended(j) => j.row.completed)
          /\ pc # "assign" => \/ FromOf(j.event) = NoOne \/ Ended(j)
                              \/ FromOf(j.event) = j.seen.owner
    <2>1. CASE r # NoRow /\ pc # "verify"
      <3>1. pc = AfterVerify(j)
        BY <1>6, <2>1
      <3> QED
        BY <1>1, <1>2, <3>1, ToDo
    <2> QED
      BY <2>1
  <1> QED
    BY <1>2, <1>3, <1>4, <1>6, <1>7, <1>8 DEF r
(* What a writing worker would make of a row. *)
Rewritten(w, old, new) ==
    /\ new.status = job[w].seen.status /\ new # NoRow
    /\ job[w].pc = "record" => new.gen = 0 /\ ~new.completed
    /\ job[w].pc = "save" => new.gen = job[w].row.gen /\ new.completed = Ended(job[w])
    /\ job[w].pc = "replace" => /\ new.gen = job[w].row.gen + 1 /\ ~new.completed
                                /\ old.gen = job[w].row.gen

(* A row is written, or the worker fails. *)
LEMMA WriteFacts ==
    ASSUME ProjectionInv, StartedInv, NEW w \in Workers, Record(w) \/ Replace(w) \/ Save(w)
    PROVE  /\ job[w].pc \in {"record", "replace", "save"}
           /\ \A u \in Workers \ {w} : job'[u] = job[u]
           /\ UNCHANGED <<authority, outbox, task, overlap, trouble>>
           /\ Knows(job'[w], job[w])
           /\ \/ job'[w].pc = "fail" /\ UNCHANGED projection
              \/ \E new \in Row :
                    /\ Rewritten(w, projection[job[w].attempt], new)
                    /\ projection' = [projection EXCEPT ![job[w].attempt] = new]
                    /\ job'[w].pc = IF job[w].pc = "save" THEN "publish" ELSE "save"
                    /\ job'[w].pc # "publish" => job'[w].row = new
                    /\ node.status # "absent" \/ job[w].pc = "replace"
  <1> DEFINE a == job[w].attempt
             s == job[w].seen
  <1>1. /\ job[w] \in Job /\ JobOK(job[w]) /\ job[w].row \in Row /\ Slot(job[w]) = a
        /\ s.version \in Events /\ s.status \in {"none"} \cup NodeStatus
        /\ job[w].row.gen \in Generation
    BY JobFacts
  <1>2. /\ job[w].pc \in {"record", "replace", "save"}
        /\ UNCHANGED <<authority, outbox, task, overlap, trouble>>
    BY DEF Record, Replace, Save
  <1>3. s.status # "none"
    BY <1>2 DEF StartedInv, Working
  <1>4. ASSUME Goto(w, "fail"), UNCHANGED projection
        PROVE  /\ job'[w].pc = "fail" /\ Knows(job'[w], job[w])
               /\ \A u \in Workers \ {w} : job'[u] = job[u]
    BY <1>4, GoesOn DEF PC
  <1>5. ASSUME NEW new \in Row, NEW pc \in {"save", "publish"},
               job' = [job EXCEPT ![w] = At([@ EXCEPT !.row = new], pc)]
        PROVE  /\ job'[w].pc = pc /\ Knows(job'[w], job[w])
               /\ pc # "publish" => job'[w].row = new
               /\ \A u \in Workers \ {w} : job'[u] = job[u]
    BY <1>5, GoesOnWith DEF PC
  <1>6. CASE Record(w)
    <2>1. PICK new : new = [gen |-> 0, sync |-> s.version, status |-> s.status,
                            completed |-> FALSE]
      OBVIOUS
    <2>2. new \in Row /\ new.gen = 0 /\ ~new.completed /\ new.status = s.status
      BY <1>1, <2>1, Constants DEF Row
    <2>3. new # NoRow
      BY <1>3, <2>2 DEF NoRow
    <2>4. \/ Goto(w, "fail") /\ UNCHANGED projection
          \/ /\ projection' = [projection EXCEPT ![a] = new]
             /\ job' = [job EXCEPT ![w] = At([@ EXCEPT !.row = new], "save")]
             /\ node.status # "absent"
      BY <1>1, <1>6, <2>1 DEF Record, Write
    <2>5. job[w].pc = "record" /\ Rewritten(w, projection[a], new)
      BY <1>6, <2>2, <2>3 DEF Record, Rewritten
    <2>6. CASE Goto(w, "fail") /\ UNCHANGED projection
      BY <1>2, <1>4, <2>6
    <2>7. CASE /\ projection' = [projection EXCEPT ![a] = new]
               /\ job' = [job EXCEPT ![w] = At([@ EXCEPT !.row = new], "save")]
               /\ node.status # "absent"
      BY <1>2, <1>5, <2>2, <2>5, <2>7
    <2> QED
      BY <2>4, <2>6, <2>7
  <1>7. CASE Replace(w)
    <2>1. PICK new : new = [gen |-> job[w].row.gen + 1,
                            sync |-> Newer(job[w].row.sync, s.version),
                            status |-> s.status, completed |-> FALSE]
      OBVIOUS
    <2>2. /\ new \in Row /\ new.gen = job[w].row.gen + 1 /\ ~new.completed
          /\ new.status = s.status
      <3>1. job[w].row.gen + 1 \in Generation
        BY <1>1, <1>7, ProjectionAssumption DEF Replace, JobOK, Generation
      <3>2. Newer(job[w].row.sync, s.version) \in Events
        BY <1>1, NewerType DEF Row
      <3> QED
        BY <1>1, <2>1, <3>1, <3>2 DEF Row
    <2>3. new # NoRow
      BY <1>3, <2>2 DEF NoRow
    <2>4. \/ Goto(w, "fail") /\ UNCHANGED projection
          \/ /\ projection' = [projection EXCEPT ![a] = new]
             /\ job' = [job EXCEPT ![w] = At([@ EXCEPT !.row = new], "save")]
             /\ projection[a].gen = job[w].row.gen
      BY <1>1, <1>7, <2>1 DEF Replace
    <2>5. job[w].pc = "replace"
      BY <1>7 DEF Replace
    <2>6. CASE Goto(w, "fail") /\ UNCHANGED projection
      BY <1>2, <1>4, <2>6
    <2>7. CASE /\ projection' = [projection EXCEPT ![a] = new]
               /\ job' = [job EXCEPT ![w] = At([@ EXCEPT !.row = new], "save")]
               /\ projection[a].gen = job[w].row.gen
      <3>1. Rewritten(w, projection[a], new)
        BY <2>2, <2>3, <2>5, <2>7 DEF Rewritten
      <3> QED
        BY <1>2, <1>5, <2>2, <2>5, <2>7, <3>1
    <2> QED
      BY <2>4, <2>6, <2>7
  <1>8. CASE Save(w)
    <2>1. PICK new : new = FinalRow(job[w])
      OBVIOUS
    <2>2. /\ new \in Row /\ new.gen = job[w].row.gen /\ new.completed = Ended(job[w])
          /\ new.status = s.status
      <3>1. Newer(job[w].row.sync, s.version) \in Events
        BY <1>1, NewerType DEF Row
      <3> QED
        BY <1>1, <2>1, <3>1 DEF Row, FinalRow, Ended
    <2>3. new # NoRow
      BY <1>3, <2>2 DEF NoRow
    <2>4. \/ Goto(w, "fail") /\ UNCHANGED projection
          \/ /\ projection' = [projection EXCEPT ![a] = new]
             /\ job' = [job EXCEPT ![w] = At([@ EXCEPT !.row = new], "publish")]
             /\ node.status # "absent"
      BY <1>1, <1>8, <2>1 DEF Save, Write
    <2>5. job[w].pc = "save" /\ Rewritten(w, projection[a], new)
      BY <1>8, <2>2, <2>3 DEF Save, Rewritten
    <2>6. CASE Goto(w, "fail") /\ UNCHANGED projection
      BY <1>2, <1>4, <2>6
    <2>7. CASE /\ projection' = [projection EXCEPT ![a] = new]
               /\ job' = [job EXCEPT ![w] = At([@ EXCEPT !.row = new], "publish")]
               /\ node.status # "absent"
      BY <1>2, <1>5, <2>2, <2>5, <2>7
    <2> QED
      BY <2>4, <2>6, <2>7
  <1> QED
    BY <1>6, <1>7, <1>8

(* The worker calls Feishu, or looks whether the task is still there. *)
LEMMA CallFacts ==
    ASSUME ProjectionInv, NEW w \in Workers,
           Create(w) \/ Verify(w) \/ Recreate(w) \/ Assign(w) \/ Close(w)
    PROVE  /\ UNCHANGED <<authority, outbox, projection, overlap, trouble>>
           /\ \A u \in Workers \ {w} : job'[u] = job[u]
           /\ Knows(job'[w], job[w])
           /\ job'[w].pc \notin {"publish", "fail"} => job'[w].row = job[w].row
           /\ Create(w) => job[w].pc = "create" /\ job'[w].pc = "record"
           /\ Recreate(w) => job[w].pc = "recreate" /\ job'[w].pc = "replace"
           /\ Assign(w) => job[w].pc = "assign" /\ job'[w].pc \in {"save", "fail"}
           /\ Close(w) => job[w].pc = "close" /\ job'[w].pc \in {"save", "fail"}
           /\ Verify(w) =>
                /\ job[w].pc = "verify" /\ UNCHANGED task
                /\ job'[w].pc \in {"recreate", "assign", "close", "save", "publish"}
                /\ job'[w].pc = "assign" =>
                     /\ FromOf(job[w].event) \notin {NoOne, job[w].seen.owner}
                     /\ job[w].event # NoEvent
                /\ job'[w].pc = "close" => Ended(job[w]) /\ ~job[w].row.completed
                /\ job'[w].pc \in {"save", "publish"} => (Ended(job[w]) => job[w].row.completed)
  <1>1. job[w].row.completed \in BOOLEAN
    BY JobFacts DEF Row
  <1>2. ASSUME NEW pc \in PC, Goto(w, pc)
        PROVE  /\ job'[w].pc = pc /\ Knows(job'[w], job[w])
               /\ pc \notin {"publish", "fail"} => job'[w].row = job[w].row
               /\ \A u \in Workers \ {w} : job'[u] = job[u]
    BY <1>2, GoesOn
  <1>3. UNCHANGED <<authority, outbox, projection, overlap, trouble>>
    BY DEF Create, Verify, Recreate, Assign, Close
  <1>4. CASE Create(w)
    <2>1. job[w].pc = "create" /\ Goto(w, "record") /\ "record" \in PC
      BY <1>4 DEF Create, PC
    <2> QED
      BY <1>2, <1>3, <2>1 DEF Verify, Recreate, Assign, Close
  <1>5. CASE Recreate(w)
    <2>1. job[w].pc = "recreate" /\ Goto(w, "replace") /\ "replace" \in PC
      BY <1>5 DEF Recreate, PC
    <2> QED
      BY <1>2, <1>3, <2>1 DEF Verify, Create, Assign, Close
  <1>6. CASE Assign(w)
    <2>1. /\ job[w].pc = "assign" /\ {"save", "fail"} \subseteq PC
          /\ Goto(w, "save") \/ Goto(w, "fail")
      BY <1>6 DEF Assign, PC
    <2> QED
      BY <1>2, <1>3, <2>1 DEF Verify, Create, Recreate, Close
  <1>7. CASE Close(w)
    <2>1. /\ job[w].pc = "close" /\ {"save", "fail"} \subseteq PC
          /\ Goto(w, "save") \/ Goto(w, "fail")
      BY <1>7 DEF Close, PC
    <2> QED
      BY <1>2, <1>3, <2>1 DEF Verify, Create, Recreate, Assign
  <1>8. CASE Verify(w)
    <2> DEFINE j == job[w]
               pc == IF task[Slot(j)][j.row.gen].state = "deleted" THEN "recreate"
                     ELSE AfterVerify(j)
    <2>1. job[w].pc = "verify" /\ Goto(w, pc) /\ UNCHANGED task
      BY <1>8 DEF Verify
    <2>2. /\ AfterVerify(j) \in {"assign", "close", "publish", "save"}
          /\ AfterVerify(j) = "assign" =>
                FromOf(j.event) \notin {NoOne, j.seen.owner} /\ j.event # NoEvent
          /\ AfterVerify(j) = "close" => Ended(j) /\ ~j.row.completed
          /\ AfterVerify(j) \in {"save", "publish"} => (Ended(j) => j.row.completed)
      BY <1>1, ToDo
    <2>3. pc \in {"recreate", "assign", "close", "save", "publish"} /\ pc \in PC
          /\ (pc # "recreate" => pc = AfterVerify(j))
      BY <2>2 DEF PC
    <2> HIDE DEF pc
    <2>4. /\ job'[w].pc = pc /\ Knows(job'[w], job[w])
          /\ pc \notin {"publish", "fail"} => job'[w].row = job[w].row
          /\ \A u \in Workers \ {w} : job'[u] = job[u]
      BY <1>2, <2>1, <2>3
    <2> QED
      BY <1>3, <2>1, <2>2, <2>3, <2>4 DEF Create, Recreate, Assign, Close
  <1> QED
    BY <1>4, <1>5, <1>6, <1>7, <1>8

(* A worker at rest. *)
Rested(k, batch) ==
    /\ k.pc = (IF batch = {} THEN "idle" ELSE "next") /\ k.batch = batch /\ k.event = NoEvent

(* An event is settled, or the claim was lost. *)
LEMMA SettleFacts ==
    ASSUME ProjectionInv, NEW w \in Workers, Publish(w) \/ Fail(w)
    PROVE  /\ job[w].pc \in {"publish", "fail"}
           /\ Rested(job'[w], job[w].batch) \/ Rested(job'[w], {})
           /\ \A u \in Workers \ {w} : job'[u] = job[u]
           /\ UNCHANGED <<authority, projection, task, overlap, trouble>>
           /\ \/ UNCHANGED outbox
              \/ \E st, at :
                    /\ job[w].event \in Events /\ Mine(w, job[w].event)
                    /\ Settled(job[w].event, st, at)
                    /\ st \in {"published", "exhausted", "failed"}
                    /\ st = "published" => job[w].pc = "publish"
  <1>1. /\ job[w] \in Job /\ job[w].event \in Events \cup {NoEvent}
    BY JobFacts
  <1>2. ASSUME Rest(w) \/ Abort(w)
        PROVE  /\ Rested(job'[w], job[w].batch) \/ Rested(job'[w], {})
               /\ \A u \in Workers \ {w} : job'[u] = job[u]
    <2>1. CASE Rest(w)
      <3>1. PICK k : k = [NoJob EXCEPT !.pc = IF job[w].batch = {} THEN "idle" ELSE "next",
                                       !.batch = job[w].batch]
        OBVIOUS
      <3>2. Rested(k, job[w].batch)
        BY <3>1 DEF Rested, NoJob
      <3>3. job' = [job EXCEPT ![w] = k]
        BY <2>1, <3>1 DEF Rest
      <3> QED
        BY <3>2, <3>3, JobIs
    <2>2. CASE Abort(w)
      <3>1. PICK k : k = [NoJob EXCEPT !.pc = "idle"]
        OBVIOUS
      <3>2. Rested(k, {})
        BY <3>1 DEF Rested, NoJob
      <3>3. job' = [job EXCEPT ![w] = k]
        BY <2>2, <3>1 DEF Abort
      <3> QED
        BY <3>2, <3>3, JobIs
    <2> QED
      BY <1>2, <2>1, <2>2
  <1>3. CASE Publish(w)
    <2>1. /\ job[w].pc = "publish" /\ (Rest(w) \/ Abort(w))
          /\ UNCHANGED <<authority, projection, task, overlap, trouble>>
          /\ \/ UNCHANGED outbox
             \/ /\ job[w].event # NoEvent /\ Mine(w, job[w].event)
                /\ Settled(job[w].event, "published", outbox[job[w].event].at)
      BY <1>3 DEF Publish
    <2> QED
      BY <1>1, <1>2, <2>1
  <1>4. CASE Fail(w)
    <2>1. /\ job[w].pc = "fail" /\ (Rest(w) \/ Abort(w))
          /\ UNCHANGED <<authority, projection, task, overlap, trouble>>
          /\ \/ UNCHANGED outbox
             \/ /\ job[w].event # NoEvent /\ Mine(w, job[w].event)
                /\ \/ Settled(job[w].event, "exhausted", outbox[job[w].event].at)
                   \/ Settled(job[w].event, "failed", LastAt + 1)
      BY <1>4 DEF Fail
    <2> QED
      BY <1>1, <1>2, <2>1
  <1> QED
    BY <1>3, <1>4
(* What no step of a worker changes about the events. *)
SameRequests ==
    \A v \in Events :
        /\ outbox'[v].attempt = outbox[v].attempt /\ outbox'[v].from = outbox[v].from
        /\ outbox'[v].state = "none" <=> outbox[v].state = "none"

(* Several events are claimed at once. *)
LEMMA ClaimFacts ==
    ASSUME ProjectionInv, NEW w \in Workers, Claim(w)
    PROVE  /\ job[w].pc = "idle" /\ \A u \in Workers \ {w} : job'[u] = job[u]
           /\ UNCHANGED <<authority, projection, task, overlap, trouble>>
           /\ job'[w].pc = "next" /\ job'[w].event = NoEvent
           /\ \E S \in SUBSET Events :
                /\ job'[w].batch = S
                /\ \A v \in S : /\ outbox[v].state \notin {"none", "published"}
                                 /\ outbox'[v].state = "processing" /\ outbox'[v].holder = w
                /\ \A v \in Events \ S : outbox'[v] = outbox[v]
           /\ SameRequests
  <1>1. job[w] \in Job /\ JobOK(job[w])
    BY JobFacts
  <1>2. PICK S \in SUBSET {v \in Events : Claimable(v)} :
          /\ outbox' = [v \in Events |->
                IF v \in S THEN [outbox[v] EXCEPT !.state = "processing",
                                      !.holder = w, !.live = TRUE, !.tries = @ + 1]
                ELSE outbox[v]]
          /\ job' = [job EXCEPT ![w].pc = "next", ![w].batch = S]
    BY DEF Claim
  <1>3. PICK k : k = [job[w] EXCEPT !.pc = "next", !.batch = S]
    OBVIOUS
  <1>4. job' = [job EXCEPT ![w] = k]
    BY <1>2, <1>3
  <1>5. k.pc = "next" /\ k.batch = S /\ k.event = NoEvent /\ job[w].pc = "idle"
    BY <1>1, <1>3 DEF Job, JobOK, Claim
  <1>6. job'[w] = k /\ \A u \in Workers \ {w} : job'[u] = job[u]
    BY <1>4, JobIs
  <1>7. ASSUME NEW v \in S
        PROVE  /\ v \in Events /\ outbox[v].state \notin {"none", "published"}
               /\ outbox'[v].state = "processing" /\ outbox'[v].holder = w
               /\ outbox'[v].attempt = outbox[v].attempt /\ outbox'[v].from = outbox[v].from
    <2>1. v \in Events /\ Claimable(v) /\ outbox[v] \in Event
      BY DEF ProjectionInv, TypeOK
    <2>2. outbox'[v] = [outbox[v] EXCEPT !.state = "processing",
                                      !.holder = w, !.live = TRUE, !.tries = @ + 1]
      BY <1>2, <2>1
    <2> QED
      BY <2>1, <2>2 DEF Claimable, Event
  <1>8. \A v \in Events \ S : outbox'[v] = outbox[v]
    BY <1>2
  <1>9. SameRequests
    BY <1>7, <1>8 DEF SameRequests
  <1> QED
    BY <1>5, <1>6, <1>7, <1>8, <1>9 DEF Claim

(* The daemon or an operator starts, reconciling. *)
LEMMA ReconcileFacts ==
    ASSUME ProjectionInv, NEW w \in Workers, Reconcile(w)
    PROVE  /\ UNCHANGED <<authority, outbox, projection, task>>
           /\ \A u \in Workers \ {w} : job'[u] = job[u]
           /\ job[w].pc = "down" /\ job'[w].event = NoEvent /\ job'[w].batch = {}
           /\ IF w = Daemon THEN UNCHANGED <<overlap, trouble>> ELSE overlap' = TRUE
           /\ \/ job'[w].pc = "idle"
              \/ /\ node.status \in {"waiting"} \cup Terminal
                 /\ job'[w].pc = "lookup" /\ job'[w].attempt = node.attempt
                 /\ job'[w].seen = Seen(node.attempt)
  <1>1. /\ job[w] \in Job /\ JobOK(job[w]) /\ job[w].pc = "down"
        /\ UNCHANGED <<authority, outbox, projection, task>>
        /\ IF w = Daemon THEN UNCHANGED <<overlap, trouble>> ELSE overlap' = TRUE
    BY JobFacts DEF Reconcile
  <1>2. job[w].event = NoEvent /\ job[w].batch = {}
    BY <1>1 DEF JobOK
  <1>3. CASE Goto(w, "idle")
    <2>1. "idle" \in PC
      BY DEF PC
    <2>2. job'[w].pc = "idle" /\ Knows(job'[w], job[w])
          /\ \A u \in Workers \ {w} : job'[u] = job[u]
      BY <1>3, <2>1, GoesOn
    <2>3. job'[w].event = NoEvent /\ job'[w].batch = {}
      BY <1>2, <2>2 DEF Knows
    <2> QED
      BY <1>1, <2>2, <2>3
  <1>4. CASE /\ node.status \in {"waiting"} \cup Terminal
             /\ job' = [job EXCEPT ![w] =
                [NoJob EXCEPT !.pc = "lookup", !.attempt = node.attempt,
                              !.seen = Seen(node.attempt)]]
    <2>1. PICK k : k = [NoJob EXCEPT !.pc = "lookup", !.attempt = node.attempt,
                                     !.seen = Seen(node.attempt)]
      OBVIOUS
    <2>2. /\ k.pc = "lookup" /\ k.attempt = node.attempt /\ k.seen = Seen(node.attempt)
          /\ k.event = NoEvent /\ k.batch = {}
      BY <2>1 DEF NoJob
    <2>3. job' = [job EXCEPT ![w] = k]
      BY <1>4, <2>1
    <2>4. job'[w] = k /\ \A u \in Workers \ {w} : job'[u] = job[u]
      BY <2>3, JobIs
    <2> QED
      BY <1>1, <1>4, <2>2, <2>4
  <1> QED
    BY <1>3, <1>4 DEF Reconcile

(* An operator's command starts or ends. *)
LEMMA OperatorFacts ==
    ASSUME ProjectionInv, NEW w \in Workers, RunOnce(w) \/ Exit(w)
    PROVE  /\ UNCHANGED <<authority, outbox, projection, task>> /\ w \in Operators
           /\ \A u \in Workers \ {w} : job'[u] = job[u]
           /\ job'[w].pc \in {"down", "idle"}
           /\ overlap' = TRUE \/ (job'[w].pc = "down" /\ UNCHANGED <<overlap, trouble>>)
  <1>1. {"down", "idle"} \subseteq PC
    BY DEF PC
  <1>2. PICK pc \in {"down", "idle"} :
          /\ Goto(w, pc) /\ w \in Operators
          /\ UNCHANGED <<authority, outbox, projection, task>>
          /\ overlap' = TRUE \/ (pc = "down" /\ UNCHANGED <<overlap, trouble>>)
    BY DEF RunOnce, Exit
  <1>3. job'[w].pc = pc /\ \A u \in Workers \ {w} : job'[u] = job[u]
    BY <1>1, <1>2, GoesOn
  <1> QED
    BY <1>2, <1>3

(* A call or a statement fails. *)
LEMMA RaiseFacts ==
    ASSUME ProjectionInv, NEW w \in Workers, Raise(w)
    PROVE  /\ UNCHANGED <<authority, outbox, projection, task, overlap>> /\ Spend
           /\ \A u \in Workers \ {w} : job'[u] = job[u]
           /\ job[w].pc \notin {"down", "idle", "next"}
           /\ \/ /\ job'[w].pc = "fail" /\ Knows(job'[w], job[w])
                 /\ job[w].pc \notin {"publish", "fail"}
              \/ Rested(job'[w], {})
  <1>1. /\ job[w].pc \notin {"down", "idle", "next"} /\ Spend
        /\ UNCHANGED <<authority, outbox, projection, task, overlap>>
    BY DEF Raise
  <1>2. CASE job[w].pc \in {"publish", "fail"}
    <2>1. PICK k : k = [NoJob EXCEPT !.pc = "idle"]
      OBVIOUS
    <2>2. Rested(k, {})
      BY <2>1 DEF Rested, NoJob
    <2>3. job' = [job EXCEPT ![w] = k]
      BY <1>2, <2>1 DEF Raise, Abort
    <2>4. job'[w] = k /\ \A u \in Workers \ {w} : job'[u] = job[u]
      BY <2>3, JobIs
    <2> QED
      BY <1>1, <2>2, <2>4
  <1>3. CASE job[w].pc \notin {"publish", "fail"}
    <2>1. Goto(w, "fail") /\ "fail" \in PC
      BY <1>3 DEF Raise, PC
    <2>2. job'[w].pc = "fail" /\ Knows(job'[w], job[w])
          /\ \A u \in Workers \ {w} : job'[u] = job[u]
      BY <2>1, GoesOn
    <2> QED
      BY <1>1, <1>3, <2>2
  <1> QED
    BY <1>2, <1>3

(* A worker dies and forgets everything. *)
LEMMA CrashFacts ==
    ASSUME ProjectionInv, NEW w \in Workers, Crash(w)
    PROVE  /\ UNCHANGED <<authority, outbox, projection, task, overlap>> /\ Spend
           /\ \A u \in Workers \ {w} : job'[u] = job[u]
           /\ job'[w].pc = "down" /\ job'[w].event = NoEvent /\ job'[w].batch = {}
  <1>1. job'[w] = NoJob /\ \A u \in Workers \ {w} : job'[u] = job[u]
    BY JobIs DEF Crash
  <1> QED
    BY <1>1 DEF Crash, NoJob

(* Settling and the passing of leases change no request. *)
LEMMA SettledRequests ==
    ASSUME ProjectionInv, NEW v \in Events, NEW st, NEW at, Settled(v, st, at),
           outbox[v].state # "none", st # "none"
    PROVE  /\ SameRequests /\ outbox'[v].state = st
           /\ \A u \in Events \ {v} : outbox'[u] = outbox[u]
  <1>1. outbox[v] \in Event /\ outbox \in [Events -> Event]
    BY DEF ProjectionInv, TypeOK
  <1>2. PICK e : e = [outbox[v] EXCEPT !.state = st, !.at = at, !.holder = Nobody, !.live = FALSE]
    OBVIOUS
  <1>3. outbox' = [outbox EXCEPT ![v] = e]
    BY <1>2 DEF Settled
  <1>4. e.state = st /\ e.attempt = outbox[v].attempt /\ e.from = outbox[v].from
    BY <1>1, <1>2 DEF Event
  <1>5. outbox'[v] = e /\ \A u \in Events \ {v} : outbox'[u] = outbox[u]
    BY <1>1, <1>3
  <1> QED
    BY <1>4, <1>5 DEF SameRequests

(* The lease of an event runs out. *)
LEMMA ExpireRequests ==
    ASSUME ProjectionInv, NEW v \in Events, Expire(v)
    PROVE  /\ SameRequests
           /\ \A u \in Events : /\ outbox'[u].state = outbox[u].state
                                /\ outbox'[u].holder = outbox[u].holder
  <1>1. outbox[v] \in Event /\ outbox \in [Events -> Event]
    BY DEF ProjectionInv, TypeOK
  <1>2. PICK e : e = [outbox[v] EXCEPT !.live = FALSE]
    OBVIOUS
  <1>3. outbox' = [outbox EXCEPT ![v] = e]
    BY <1>2 DEF Expire
  <1>4. /\ e.state = outbox[v].state /\ e.attempt = outbox[v].attempt
        /\ e.from = outbox[v].from /\ e.holder = outbox[v].holder
    BY <1>1, <1>2 DEF Event
  <1>5. outbox'[v] = e /\ \A u \in Events \ {v} : outbox'[u] = outbox[u]
    BY <1>1, <1>3
  <1> QED
    BY <1>4, <1>5 DEF SameRequests

-----------------------------------------------------------------------------
(* Completion is a person's signal: no worker closes the task of an        *)
(* attempt that is still to be answered.                                   *)
OnRow == {"verify", "recreate", "replace", "assign", "close", "save"}
Opening == {"create", "record", "verify", "recreate", "replace", "assign"}

(* An attempt that stays ended as long as the node stays. *)
Over(a) == node.status = "absent" \/ (a <= node.attempt /\ Effective(a) \in Terminal)

(* What a worker has read still binds the node: exceptions are nodes that  *)
(* were removed and added again. *)
Informed(w) ==
    LET j == job[w] IN
    /\ j.pc \in OnRow => projection[j.attempt] # NoRow
    /\ j.pc \in Opening => ~Ended(j)
    /\ j.pc = "close" => Ended(j)
    /\ /\ j.pc \in Working /\ Ended(j)
       /\ life = 1 \/ (~overlap /\ projection[j.attempt] # NoRow)
       => Over(j.attempt)

AbsentInv == node.status = "absent" => \A a \in AttemptNo : projection[a] = NoRow
InformedInv == \A w \in Workers : Informed(w)
ClosedInv == \A a \in AttemptNo, g \in Generation :
                task[a][g].state = "closed" => projection[a] # NoRow
SingleInv == ~overlap => \A w \in Operators : job[w].pc = "down"

CloseInv == AbsentInv /\ InformedInv /\ ClosedInv /\ SingleInv /\ ClosedOnlyWhenEnded

(* At the start there is nothing to close. *)
LEMMA InitClose == Init => CloseInv
  <1> SUFFICES ASSUME Init PROVE CloseInv
    OBVIOUS
  <1>1. \A w \in Workers : job[w].pc = "down"
    BY DEF Init, NoJob
  <1>2. \A a \in AttemptNo, g \in Generation : task[a][g].state = "none"
    BY DEF Init, NoTask
  <1>3. AbsentInv
    BY DEF Init, AbsentInv
  <1>4. InformedInv
    BY <1>1 DEF InformedInv, Informed, OnRow, Opening, Working
  <1>5. SingleInv
    BY <1>1 DEF SingleInv, Workers
  <1> QED
    BY <1>2, <1>3, <1>4, <1>5 DEF CloseInv, ClosedInv, ClosedOnlyWhenEnded

(* What a worker has in mind after a step, and how it came by it. *)
Follows(w) ==
    job'[w].pc \in Working =>
        \/ Over(job'[w].attempt)
        \/ ~Ended(job'[w])
        \/ /\ job[w].pc \in Working
           /\ job'[w].attempt = job[w].attempt /\ job'[w].seen = job[w].seen
           /\ projection[job[w].attempt] = NoRow => projection'[job[w].attempt] = NoRow

(* A step of one worker. *)
LEMMA WorkerClose ==
    ASSUME ProjectionInv, CloseInv, NEW w \in Workers, UNCHANGED authority,
           \A u \in Workers \ {w} : job'[u] = job[u],
           \A a \in AttemptNo : projection[a] # NoRow => projection'[a] # NoRow,
           node.status = "absent" => UNCHANGED projection,
           \A a \in AttemptNo, g \in Generation : task'[a][g].state = "closed" =>
                \/ task[a][g].state = "closed"
                \/ job[w].pc = "close" /\ a = job[w].attempt,
           UNCHANGED overlap \/ (w \in Operators /\ overlap'),
           w \in Operators => overlap' \/ job[w].pc # "down",
           job'[w].attempt \in AttemptNo \/ job'[w].pc \notin Working,
           job'[w].pc \in OnRow => projection'[job'[w].attempt] # NoRow,
           job'[w].pc \in Opening => ~Ended(job'[w]),
           job'[w].pc = "close" => Ended(job'[w]),
           Follows(w)
    PROVE  CloseInv'
  <1>1. /\ UNCHANGED <<node, past, life>> /\ \A a : Over(a)' <=> Over(a)
        /\ \A a : Effective(a)' = Effective(a)
    BY DEF authority, Over, Effective
  <1>2. AbsentInv'
    BY <1>1 DEF CloseInv, AbsentInv
  <1>3. ~overlap' => ~overlap /\ w = Daemon
    BY DEF ProjectionInv, TypeOK, CloseInv, SingleInv, Workers
  <1>10. SingleInv'
    BY <1>3, ProjectionAssumption DEF CloseInv, SingleInv, Workers
  <1>4. Informed(w) /\ job[w].attempt \in AttemptNo
    BY JobFacts DEF CloseInv, InformedInv
  <1>5. Informed(w)'
    <2>1. ASSUME job'[w].pc \in Working, Ended(job'[w]),
                 life' = 1 \/ (~overlap' /\ projection'[job'[w].attempt] # NoRow)
          PROVE  Over(job'[w].attempt)
      <3>1. CASE /\ job[w].pc \in Working
                 /\ job'[w].attempt = job[w].attempt /\ job'[w].seen = job[w].seen
                 /\ projection[job[w].attempt] = NoRow => projection'[job[w].attempt] = NoRow
        <4>1. Ended(job[w])
          BY <2>1, <3>1 DEF Ended
        <4>2. life = 1 \/ (~overlap /\ projection[job[w].attempt] # NoRow)
          BY <1>1, <2>1, <3>1
        <4> QED
          BY <1>4, <3>1, <4>1, <4>2 DEF Informed
      <3> QED
        BY <2>1, <3>1 DEF Follows
    <2>2. Ended(job[w])' <=> Ended(job'[w])
      BY DEF Ended
    <2>3. Over(job[w].attempt)' <=> Over(job'[w].attempt)
      BY <1>1 DEF Over, Effective
    <2> QED
      BY <2>1, <2>2, <2>3 DEF Informed
  <1>6. ASSUME NEW u \in Workers, u # w PROVE Informed(u)'
    <2>1. /\ job'[u] = job[u] /\ Informed(u) /\ job[u].attempt \in AttemptNo
      BY <1>6, JobFacts DEF CloseInv, InformedInv
    <2>2. ~overlap' => job[u].pc = "down"
      <3>1. u \in Operators \/ u = Daemon
        BY DEF Workers
      <3> QED
        BY <1>6, <1>3, <3>1 DEF CloseInv, SingleInv
    <2>3. job[u].pc \in Working => job[u].pc # "down"
      BY DEF Working
    <2> QED
      BY <1>1, <2>1, <2>2, <2>3 DEF Informed, Ended
  <1>7. ClosedInv'
    <2>1. ASSUME NEW a \in AttemptNo, NEW g \in Generation, task'[a][g].state = "closed"
          PROVE  projection'[a] # NoRow
      <3>1. job[w].pc = "close" => projection[job[w].attempt] # NoRow
        BY <1>4 DEF Informed, OnRow
      <3> QED
        BY <2>1, <3>1 DEF CloseInv, ClosedInv
    <2> QED
      BY <2>1 DEF ClosedInv
  <1>8. ClosedOnlyWhenEnded'
    <2>1. ASSUME ~overlap' \/ life' = 1, NEW a \in AttemptNo, NEW g \in Generation,
                 task'[a][g].state = "closed"
          PROVE  a \in Attempts /\ Effective(a) \in Terminal
      <3>1. ~overlap \/ life = 1
        BY <1>1, <2>1 DEF ProjectionInv, TypeOK
      <3>2. CASE task[a][g].state = "closed"
        BY <3>1, <3>2 DEF CloseInv, ClosedOnlyWhenEnded
      <3>3. CASE job[w].pc = "close" /\ a = job[w].attempt
        <4>1. projection[a] # NoRow /\ Over(a)
          BY <1>4, <3>1, <3>3 DEF Informed, OnRow, Working
        <4> QED
          BY <4>1 DEF CloseInv, AbsentInv, Over, Attempts
      <3> QED
        BY <2>1, <3>2, <3>3
    <2>2. Attempts' = Attempts
      BY <1>1 DEF Attempts
    <2> QED
      BY <1>1, <2>1, <2>2 DEF ClosedOnlyWhenEnded
  <1> QED
    BY <1>2, <1>10, <1>5, <1>6, <1>7, <1>8 DEF CloseInv, InformedInv

(* What the calls of a worker make of the tasks. *)
TaskGoes(old, new) ==
    /\ old.state # "none" => new.state # "none"
    /\ old.state = "closed" => new.state = "closed"

(* A task is created unless it is there. *)
LEMMA CreateTaskFacts ==
    ASSUME ProjectionInv, NEW a \in AttemptNo, NEW g \in Generation, NEW p, CreateTask(a, g, p)
    PROVE  /\ task'[a][g].state # "none"
           /\ \A b \in AttemptNo, h \in Generation :
                \/ task'[b][h] = task[b][h]
                \/ /\ b = a /\ h = g /\ task[b][h].state = "none"
                   /\ task'[b][h] = [state |-> "open", members |-> {p}, keys |-> {}]
  <1>1. task \in [AttemptNo -> [Generation -> Task]]
    BY DEF ProjectionInv, TypeOK
  <1>2. CASE task[a][g].state # "none"
    BY <1>2 DEF CreateTask
  <1>3. CASE task[a][g].state = "none"
    <2>1. PICK t : t = [state |-> "open", members |-> {p}, keys |-> {}]
      OBVIOUS
    <2>2. task' = [task EXCEPT ![a][g] = t]
      BY <1>3, <2>1 DEF CreateTask
    <2>3. \A b \in AttemptNo, h \in Generation :
            task'[b][h] = IF b = a /\ h = g THEN t ELSE task[b][h]
      BY <1>1, <2>2
    <2>4. t.state = "open" /\ task'[a][g] = t
      BY <2>1, <2>3
    <2>5. \A b \in AttemptNo, h \in Generation :
            \/ task'[b][h] = task[b][h]
            \/ b = a /\ h = g /\ task[b][h].state = "none" /\ task'[b][h] = t
      BY <1>3, <2>3
    <2> QED
      BY <2>1, <2>4, <2>5
  <1> QED
    BY <1>2, <1>3

(* Which tasks a call changes, and how. *)
LEMMA TaskFacts ==
    ASSUME ProjectionInv, NEW w \in Workers,
           Create(w) \/ Verify(w) \/ Recreate(w) \/ Assign(w) \/ Close(w)
    PROVE  /\ \A a \in AttemptNo, g \in Generation :
                /\ TaskGoes(task[a][g], task'[a][g])
                /\ task'[a][g].state = "closed" => task[a][g].state = "closed"
                                                    \/ (Close(w) /\ a = job[w].attempt)
                /\ a # job[w].attempt => task'[a][g] = task[a][g]
           /\ Create(w) => task'[job[w].attempt][0].state # "none"
           /\ Recreate(w) => task'[job[w].attempt][job[w].row.gen + 1].state # "none"
           /\ Close(w) /\ job'[w].pc = "save" =>
                task'[job[w].attempt][job[w].row.gen].state = "closed"
  <1> DEFINE a == job[w].attempt
             g == job[w].row.gen
  <1>1. /\ a \in AttemptNo /\ g \in Generation /\ Slot(job[w]) = a /\ 0 \in Generation
        /\ JobOK(job[w]) /\ task \in [AttemptNo -> [Generation -> Task]]
    BY JobFacts, Constants DEF ProjectionInv, TypeOK
  <1>2. CASE Create(w)
    <2>1. CreateTask(a, 0, job[w].seen.owner)
      BY <1>1, <1>2 DEF Create
    <2>2. ~Recreate(w) /\ ~Close(w)
      BY <1>2 DEF Create, Recreate, Close
    <2>3. /\ task'[a][0].state # "none"
          /\ \A b \in AttemptNo, h \in Generation :
                \/ task'[b][h] = task[b][h]
                \/ /\ b = a /\ h = 0 /\ task[b][h].state = "none"
                   /\ task'[b][h] = [state |-> "open", members |-> {job[w].seen.owner},
                                     keys |-> {}]
      BY <1>1, <2>1, CreateTaskFacts
    <2>4. \A b \in AttemptNo, h \in Generation :
            \/ task'[b][h] = task[b][h]
            \/ b = a /\ task[b][h].state = "none" /\ task'[b][h].state = "open"
      BY <2>3
    <2> QED
      BY <1>2, <2>2, <2>3, <2>4 DEF TaskGoes
  <1>3. CASE Recreate(w)
    <2>1. CreateTask(a, g + 1, job[w].seen.owner) /\ g + 1 \in Generation
      BY <1>1, <1>3, ProjectionAssumption DEF Recreate, JobOK, Generation
    <2>2. ~Create(w) /\ ~Close(w)
      BY <1>3 DEF Create, Recreate, Close
    <2>3. /\ task'[a][g + 1].state # "none"
          /\ \A b \in AttemptNo, h \in Generation :
                \/ task'[b][h] = task[b][h]
                \/ /\ b = a /\ h = g + 1 /\ task[b][h].state = "none"
                   /\ task'[b][h] = [state |-> "open", members |-> {job[w].seen.owner},
                                     keys |-> {}]
      BY <1>1, <2>1, CreateTaskFacts
    <2>4. \A b \in AttemptNo, h \in Generation :
            \/ task'[b][h] = task[b][h]
            \/ b = a /\ task[b][h].state = "none" /\ task'[b][h].state = "open"
      BY <2>3
    <2> QED
      BY <1>3, <2>2, <2>3, <2>4 DEF TaskGoes
  <1>4. CASE Verify(w)
    BY <1>4 DEF Verify, Create, Recreate, Close, TaskGoes
  <1>5. CASE Assign(w)
    <2>1. ~Create(w) /\ ~Recreate(w) /\ ~Close(w)
      BY <1>5 DEF Assign, Create, Recreate, Close
    <2>2. PICK t : \/ UNCHANGED task
                   \/ /\ t.state = task[a][g].state
                      /\ task' = [task EXCEPT ![a][g] = t]
      <3>1. task[a][g] \in Task
        BY <1>1
      <3>2. PICK t : t = [task[a][g] EXCEPT
                !.members = (@ \ {outbox[job[w].event].from}) \cup {job[w].seen.owner},
                !.keys = @ \cup {job[w].seen.version}]
        OBVIOUS
      <3>3. t.state = task[a][g].state
        BY <3>1, <3>2 DEF Task
      <3>4. UNCHANGED task \/ task' = [task EXCEPT ![a][g] = t]
        BY <1>1, <1>5, <3>2 DEF Assign
      <3> QED
        BY <3>3, <3>4
    <2>3. \A b \in AttemptNo, h \in Generation :
            \/ task'[b][h] = task[b][h]
            \/ b = a /\ h = g /\ task'[b][h] = t /\ t.state = task[a][g].state
      BY <1>1, <2>2
    <2> QED
      BY <2>1, <2>3 DEF TaskGoes
  <1>6. CASE Close(w)
    <2>1. ~Create(w) /\ ~Recreate(w)
      BY <1>6 DEF Create, Recreate, Close
    <2>2. CASE UNCHANGED task /\ Goto(w, "fail")
      <3>1. job'[w].pc = "fail"
        BY <2>2, GoesOn DEF PC
      <3> QED
        BY <2>1, <2>2, <3>1 DEF TaskGoes
    <2>3. CASE task' = [task EXCEPT ![a][g].state = "closed"]
      <3>1. PICK t : t = [task[a][g] EXCEPT !.state = "closed"]
        OBVIOUS
      <3>2. t.state = "closed" /\ task' = [task EXCEPT ![a][g] = t]
        BY <1>1, <2>3, <3>1 DEF Task
      <3>3. \A b \in AttemptNo, h \in Generation :
              task'[b][h] = IF b = a /\ h = g THEN t ELSE task[b][h]
        BY <1>1, <3>2
      <3> QED
        BY <1>1, <1>6, <2>1, <3>2, <3>3 DEF TaskGoes
    <2> QED
      BY <1>1, <1>6, <2>2, <2>3 DEF Close
  <1> QED
    BY <1>2, <1>3, <1>4, <1>5, <1>6

(* Steps of a worker that touch neither rows nor tasks. *)
LEMMA QuietClose ==
    ASSUME ProjectionInv, CloseInv, NEW w \in Workers,
           UNCHANGED <<authority, projection, task>>,
           \A u \in Workers \ {w} : job'[u] = job[u],
           UNCHANGED overlap \/ (w \in Operators /\ overlap'),
           w \in Operators => overlap' \/ job[w].pc # "down",
           job'[w].attempt \in AttemptNo \/ job'[w].pc \notin Working,
           job'[w].pc \in OnRow => projection[job'[w].attempt] # NoRow,
           job'[w].pc \in Opening => ~Ended(job'[w]),
           job'[w].pc = "close" => Ended(job'[w]),
           Follows(w)
    PROVE  CloseInv'
  BY WorkerClose

(* What is no work on a row. *)
LEMMA Idly ==
    ASSUME NEW pc \in {"down", "idle", "next", "publish", "fail"}
    PROVE  pc \notin Working /\ pc \notin OnRow /\ pc \notin Opening /\ pc # "close"
  BY DEF Working, OnRow, Opening

(* A worker that rests, fails or starts without work on a row. *)
LEMMA RestClose ==
    ASSUME ProjectionInv, CloseInv, NEW w \in Workers,
           UNCHANGED <<authority, projection, task>>,
           \A u \in Workers \ {w} : job'[u] = job[u],
           UNCHANGED overlap \/ (w \in Operators /\ overlap'),
           w \in Operators => overlap' \/ job[w].pc # "down",
           job'[w].pc \in {"down", "idle", "next", "publish", "fail"}
    PROVE  CloseInv'
  <1>1. job'[w].pc \notin Working /\ job'[w].pc \notin OnRow
        /\ job'[w].pc \notin Opening /\ job'[w].pc # "close"
    BY Idly
  <1> QED
    BY <1>1, QuietClose DEF Follows

(* The worker claims, settles and takes events. *)
LEMMA EventsClose ==
    ASSUME ProjectionInv, StartedInv, CloseInv, NEW w \in Workers,
           Claim(w) \/ Publish(w) \/ Fail(w) \/ Take(w)
    PROVE  CloseInv'
  <1>1. CASE Claim(w)
    <2>1. /\ job[w].pc = "idle" /\ job'[w].pc = "next"
          /\ \A u \in Workers \ {w} : job'[u] = job[u]
          /\ UNCHANGED <<authority, projection, task, overlap>>
      BY <1>1, ClaimFacts
    <2> QED
      BY <2>1, RestClose
  <1>2. CASE Publish(w) \/ Fail(w)
    <2>1. /\ job[w].pc # "down" /\ job'[w].pc \in {"idle", "next"}
          /\ \A u \in Workers \ {w} : job'[u] = job[u]
          /\ UNCHANGED <<authority, projection, task, overlap>>
      BY <1>2, SettleFacts DEF Rested
    <2> QED
      BY <2>1, RestClose
  <1>3. CASE Take(w)
    <2>1. /\ job[w].pc = "next" /\ \A u \in Workers \ {w} : job'[u] = job[u]
          /\ UNCHANGED <<authority, outbox, projection, task, overlap>>
      BY <1>3, TakeFacts
    <2>2. PICK v \in job[w].batch :
            /\ job'[w].pc \in {"publish", "fail", "lookup"}
            /\ job'[w].pc = "lookup" =>
                 /\ outbox[v].attempt <= node.attempt
                 /\ Effective(outbox[v].attempt) \in {"waiting"} \cup Terminal
                 /\ job'[w].attempt = outbox[v].attempt
                 /\ job'[w].seen = Seen(outbox[v].attempt)
      BY <1>3, TakeFacts
    <2>3. outbox[v].attempt \in AttemptNo
      BY JobFacts DEF ProjectionInv, TypeOK, Event
    <2>4. CASE job'[w].pc \in {"publish", "fail"}
      BY <2>1, <2>4, RestClose
    <2>5. CASE job'[w].pc = "lookup"
      <3>1. job'[w].pc \notin OnRow \cup Opening /\ job'[w].pc # "close"
        BY <2>5 DEF OnRow, Opening
      <3>2. Ended(job'[w]) => Over(job'[w].attempt)
        BY <2>2, <2>5 DEF Ended, Seen, Over
      <3> QED
        BY <2>1, <2>2, <2>3, <2>5, <3>1, <3>2, QuietClose DEF Follows
    <2> QED
      BY <2>2, <2>4, <2>5
  <1> QED
    BY <1>1, <1>2, <1>3

(* The worker reads its row. *)
LEMMA LookupClose ==
    ASSUME ProjectionInv, StartedInv, CloseInv, NEW w \in Workers, Lookup(w)
    PROVE  CloseInv'
  <1>1. /\ job[w].pc = "lookup" /\ \A u \in Workers \ {w} : job'[u] = job[u]
        /\ UNCHANGED <<authority, projection, task, overlap>>
        /\ Knows(job'[w], job[w]) /\ job[w].attempt \in AttemptNo
    BY LookupFacts, JobFacts
  <1>2. job'[w].pc \in {"publish", "create", "verify", "assign", "close", "save"}
    BY LookupFacts
  <1>3. CASE job'[w].pc = "publish"
    BY <1>1, <1>3, RestClose
  <1>4. CASE job'[w].pc # "publish"
    <2>1. job'[w].attempt = job[w].attempt /\ job'[w].seen = job[w].seen
          /\ (Ended(job'[w]) <=> Ended(job[w]))
      BY <1>1, <1>2, <1>4 DEF Knows, Ended
    <2>2. job'[w].pc \in OnRow => projection[job[w].attempt] # NoRow
      BY <1>4, LookupFacts DEF OnRow
    <2>3. job'[w].pc \in Opening => ~Ended(job[w])
      BY <1>2, <1>4, LookupFacts DEF Opening
    <2>4. job'[w].pc = "close" => Ended(job[w])
      BY <1>4, LookupFacts
    <2>5. Follows(w)
      BY <1>1, <2>1 DEF Follows, Working
    <2> QED
      BY <1>1, <2>1, <2>2, <2>3, <2>4, <2>5, QuietClose
  <1> QED
    BY <1>3, <1>4

(* The worker calls Feishu. *)
LEMMA CallClose ==
    ASSUME ProjectionInv, StartedInv, CloseInv, NEW w \in Workers,
           Create(w) \/ Verify(w) \/ Recreate(w) \/ Assign(w) \/ Close(w)
    PROVE  CloseInv'
  <1>1. /\ \A u \in Workers \ {w} : job'[u] = job[u]
        /\ UNCHANGED <<authority, projection, overlap>>
        /\ Knows(job'[w], job[w]) /\ job[w].attempt \in AttemptNo /\ Informed(w)
    BY CallFacts, JobFacts DEF CloseInv, InformedInv
  <1>2. /\ job[w].pc \in {"create", "verify", "recreate", "assign", "close"}
        /\ job'[w].pc \in {"record", "replace", "save", "fail", "recreate", "assign", "close",
                           "publish"}
        /\ job'[w].pc \in OnRow => job[w].pc \in OnRow
        /\ job'[w].pc \in Opening => job[w].pc \in Opening
        /\ job'[w].pc = "close" => Ended(job[w])
        /\ Close(w) => job[w].pc = "close"
    BY CallFacts DEF OnRow, Opening
  <1>3. \A a \in AttemptNo, g \in Generation : task'[a][g].state = "closed" =>
                \/ task[a][g].state = "closed"
                \/ job[w].pc = "close" /\ a = job[w].attempt
    BY <1>2, TaskFacts
  <1>4. job'[w].pc \notin {"publish", "fail"} =>
          /\ job'[w].attempt = job[w].attempt /\ job'[w].seen = job[w].seen
          /\ (Ended(job'[w]) <=> Ended(job[w]))
    BY <1>1 DEF Knows, Ended
  <1>5. job[w].pc \in Working /\ job[w].pc # "down"
        /\ (job'[w].pc \in {"publish", "fail"} =>
                job'[w].pc \notin Working /\ job'[w].pc \notin OnRow
                /\ job'[w].pc \notin Opening /\ job'[w].pc # "close")
    BY <1>2, Idly DEF Working
  <1>6. job'[w].pc \in OnRow => projection'[job'[w].attempt] # NoRow
    BY <1>1, <1>2, <1>4, <1>5 DEF Informed
  <1>7. job'[w].pc \in Opening => ~Ended(job'[w])
    BY <1>1, <1>2, <1>4, <1>5 DEF Informed
  <1>8. Follows(w)
    BY <1>1, <1>4, <1>5 DEF Follows
  <1>9. job'[w].attempt \in AttemptNo \/ job'[w].pc \notin Working
    BY <1>1, <1>4, <1>5
  <1>10. job'[w].pc = "close" => Ended(job'[w])
    BY <1>2, <1>4
  <1> QED
    BY <1>1, <1>3, <1>5, <1>6, <1>7, <1>8, <1>9, <1>10, WorkerClose

(* The worker writes its row. *)
LEMMA WriteClose ==
    ASSUME ProjectionInv, StartedInv, CloseInv, NEW w \in Workers,
           Record(w) \/ Replace(w) \/ Save(w)
    PROVE  CloseInv'
  <1>1. /\ job[w].pc \in {"record", "replace", "save"}
        /\ \A u \in Workers \ {w} : job'[u] = job[u]
        /\ UNCHANGED <<authority, outbox, task, overlap, trouble>>
        /\ Knows(job'[w], job[w]) /\ job[w].attempt \in AttemptNo /\ Informed(w)
    BY WriteFacts, JobFacts DEF CloseInv, InformedInv
  <1>2. CASE job'[w].pc = "fail" /\ UNCHANGED projection
    BY <1>1, <1>2, RestClose
  <1>3. ASSUME NEW new \in Row, Rewritten(w, projection[job[w].attempt], new),
               projection' = [projection EXCEPT ![job[w].attempt] = new],
               job'[w].pc = IF job[w].pc = "save" THEN "publish" ELSE "save",
               node.status # "absent" \/ job[w].pc = "replace"
        PROVE  CloseInv'
    <2>1. /\ new # NoRow /\ projection'[job[w].attempt] = new
          /\ \A a \in AttemptNo : a # job[w].attempt => projection'[a] = projection[a]
      BY <1>1, <1>3 DEF Rewritten, ProjectionInv, TypeOK
    <2>2. node.status # "absent"
      BY <1>1, <1>3 DEF Informed, OnRow, CloseInv, AbsentInv
    <2>3. job'[w].pc \notin Opening /\ job'[w].pc # "close" /\ job[w].pc \in Working
      BY <1>1, <1>3 DEF Opening, Working
    <2>4. job'[w].pc # "publish" => /\ job'[w].attempt = job[w].attempt
                                    /\ job'[w].seen = job[w].seen
                                    /\ job[w].pc \in Opening
                                    /\ (Ended(job'[w]) <=> Ended(job[w]))
      BY <1>1, <1>3 DEF Knows, Ended, Opening
    <2>5. job'[w].pc = "publish" => job'[w].pc \notin Working /\ job'[w].pc \notin OnRow
      BY Idly
    <2>6. Follows(w)
      BY <1>1, <2>4, <2>5 DEF Follows, Informed
    <2>7. job'[w].pc \in OnRow => projection'[job'[w].attempt] # NoRow
      BY <2>1, <2>4, <2>5
    <2>8. \A a \in AttemptNo : projection[a] # NoRow => projection'[a] # NoRow
      BY <2>1
    <2>9. job'[w].attempt \in AttemptNo \/ job'[w].pc \notin Working
      BY <1>1, <2>4, <2>5
    <2>10. \A a \in AttemptNo, g \in Generation : task'[a][g].state = "closed" =>
                task[a][g].state = "closed"
      BY <1>1
    <2>11. w \in Operators => overlap' \/ job[w].pc # "down"
      BY <1>1
    <2> QED
      BY <1>1, <2>2, <2>3, <2>6, <2>7, <2>8, <2>9, <2>10, <2>11, WorkerClose
  <1> QED
    BY <1>2, <1>3, WriteFacts

(* Processes start, end, fail and die. *)
LEMMA ProcessClose ==
    ASSUME ProjectionInv, StartedInv, CloseInv, NEW w \in Workers,
           Reconcile(w) \/ RunOnce(w) \/ Exit(w) \/ Raise(w) \/ Crash(w)
    PROVE  CloseInv'
  <1>1. CASE Reconcile(w)
    <2>1. /\ UNCHANGED <<authority, outbox, projection, task>>
          /\ \A u \in Workers \ {w} : job'[u] = job[u]
          /\ UNCHANGED overlap \/ (w \in Operators /\ overlap')
          /\ w \in Operators => overlap'
          /\ \/ job'[w].pc = "idle"
             \/ /\ node.status \in {"waiting"} \cup Terminal
                /\ job'[w].pc = "lookup" /\ job'[w].attempt = node.attempt
                /\ job'[w].seen = Seen(node.attempt)
      BY <1>1, ReconcileFacts, ProjectionAssumption DEF Workers
    <2>2. CASE job'[w].pc = "idle"
      BY <2>1, <2>2, RestClose
    <2>3. CASE /\ node.status \in {"waiting"} \cup Terminal
               /\ job'[w].pc = "lookup" /\ job'[w].attempt = node.attempt
               /\ job'[w].seen = Seen(node.attempt)
      <3>1. node.attempt \in AttemptNo /\ node.attempt <= node.attempt
        BY DEF ProjectionInv, TypeOK, NodeRow, AttemptNo
      <3>2. job'[w].pc \notin OnRow \cup Opening /\ job'[w].pc # "close"
        BY <2>3 DEF OnRow, Opening
      <3>3. Ended(job'[w]) => Over(job'[w].attempt)
        BY <2>3, <3>1 DEF Ended, Seen, Over
      <3> QED
        BY <2>1, <2>3, <3>1, <3>2, <3>3, QuietClose DEF Follows
    <2> QED
      BY <2>1, <2>2, <2>3
  <1>2. CASE RunOnce(w) \/ Exit(w)
    <2>1. /\ UNCHANGED <<authority, projection, task>> /\ w \in Operators
          /\ \A u \in Workers \ {w} : job'[u] = job[u]
          /\ job'[w].pc \in {"down", "idle"}
          /\ UNCHANGED overlap \/ overlap'
      BY <1>2, OperatorFacts
    <2>2. overlap' \/ job[w].pc # "down"
      BY <1>2 DEF RunOnce, Exit
    <2> QED
      BY <2>1, <2>2, RestClose
  <1>3. CASE Raise(w)
    <2>1. /\ UNCHANGED <<authority, projection, task, overlap>>
          /\ \A u \in Workers \ {w} : job'[u] = job[u]
          /\ job[w].pc # "down" /\ job'[w].pc \in {"fail", "idle"}
      BY <1>3, RaiseFacts DEF Rested
    <2> QED
      BY <2>1, RestClose
  <1>4. CASE Crash(w)
    <2>1. /\ UNCHANGED <<authority, projection, task, overlap>>
          /\ \A u \in Workers \ {w} : job'[u] = job[u]
          /\ job[w].pc # "down" /\ job'[w].pc = "down"
      BY <1>4, CrashFacts DEF Crash
    <2> QED
      BY <2>1, RestClose
  <1> QED
    BY <1>1, <1>2, <1>3, <1>4

(* What a command makes of an attempt: it stays as it is, or an event      *)
(* tells of it.                                                            *)
Announced(a) == \E from \in People \cup {NoOne} : Request(node.version + 1, a, from)

Turns(a) ==
    \/ a <= node.attempt /\ Effective(a) \in Terminal /\ Effective(a)' \in Terminal
    \/ a <= node.attempt /\ Effective(a) = "waiting" /\ Effective(a)' = "waiting"
    \/ /\ Effective(a)' \in {"pending", "ready"}
       /\ a <= node.attempt => Effective(a) \in {"pending", "ready"}
    \/ /\ a <= node.attempt /\ Effective(a) \notin Terminal
       /\ Effective(a)' \in {"waiting"} \cup Terminal /\ Announced(a)

(* A node is added again, or the node goes on to its next version. *)
LEMMA CommandFacts ==
    ASSUME ProjectionInv, StartedInv, Command
    PROVE  /\ UNCHANGED <<projection, task, job, overlap, trouble>>
           /\ node'.status # "absent"
           /\ \/ node.status = "absent" /\ life' = life + 1
              \/ /\ node.status # "absent" /\ UNCHANGED life
                 /\ node.version < MaxVersion /\ node'.version = node.version + 1
                 /\ node.attempt <= node'.attempt
                 /\ UNCHANGED outbox \/ Announced(node.attempt)
                 /\ \A a \in AttemptNo : a <= node'.attempt => Turns(a)
  <1>1. /\ node \in NodeRow /\ node.version \in Nat /\ node.attempt \in Nat
        /\ node.attempt \in AttemptNo /\ node.owner \in People
        /\ past \in [AttemptNo -> {"none"} \cup Terminal]
        /\ node.status \in NodeStatus
        /\ \A a \in AttemptNo : a \in Nat /\ (a < node.attempt => past[a] \in Terminal)
    BY DEF ProjectionInv, TypeOK, NodeRow, AttemptNo, Events, StartedInv
  <1>2. UNCHANGED <<projection, task, job, overlap, trouble>>
    BY DEF Command
  <1>3. \A a \in AttemptNo : a < node.attempt => Effective(a) = past[a]
    BY <1>1 DEF Effective
  <1>5. ASSUME NEW s \in {"pending", "ready"}, NEW p \in People, AddAgain(s, p)
        PROVE  node'.status # "absent" /\ node.status = "absent" /\ life' = life + 1
    BY <1>5 DEF AddAgain
  <1>6. ASSUME NEW s \in NodeStatus, s # "absent", NEW p, NewVersion,
               node' = [node EXCEPT !.status = s, !.owner = p, !.version = @ + 1],
               UNCHANGED <<past, life>>, node.status # "absent",
               UNCHANGED outbox \/ Announced(node.attempt),
               \/ {s, node.status} \subseteq {"pending", "ready"}
               \/ s = "waiting" /\ node.status = "waiting"
               \/ /\ node.status \notin Terminal /\ s \in {"waiting"} \cup Terminal
                  /\ Announced(node.attempt)
        PROVE  /\ node'.status # "absent" /\ UNCHANGED life
               /\ node.version < MaxVersion /\ node'.version = node.version + 1
               /\ node.attempt <= node'.attempt
               /\ \A a \in AttemptNo : a <= node'.attempt => Turns(a)
    <2>1. node'.status = s /\ node'.version = node.version + 1 /\ node'.attempt = node.attempt
      BY <1>1, <1>6 DEF NodeRow
    <2>2. \A a \in AttemptNo : a < node.attempt => Effective(a)' = past[a]
      BY <1>1, <1>6, <2>1 DEF Effective
    <2>4. ASSUME NEW a \in AttemptNo, a <= node'.attempt PROVE Turns(a)
      <3>1. CASE a < node.attempt
        BY <1>1, <1>3, <2>2, <3>1 DEF Turns
      <3>2. CASE a = node.attempt
        <4>1. Effective(a) = node.status /\ Effective(a)' = s /\ a <= node.attempt
          BY <1>1, <2>1, <3>2 DEF Effective
        <4> QED
          BY <1>6, <3>2, <4>1 DEF Turns
      <3> QED
        BY <1>1, <2>1, <2>4, <3>1, <3>2
    <2> QED
      BY <1>1, <1>6, <2>1, <2>4 DEF NewVersion
  <1>7. ASSUME NEW s \in {"pending", "ready"}, Restart(s)
        PROVE  /\ node'.status # "absent" /\ UNCHANGED life /\ node.status # "absent"
               /\ node.version < MaxVersion /\ node'.version = node.version + 1
               /\ node.attempt <= node'.attempt /\ Announced(node.attempt)
               /\ \A a \in AttemptNo : a <= node'.attempt => Turns(a)
    <2>1. /\ node'.status = s /\ node'.version = node.version + 1
          /\ node'.attempt = node.attempt + 1
      BY <1>1, <1>7 DEF Restart, NodeRow
    <2>2. /\ Announced(node.attempt) /\ node.status \in {"pending", "ready", "waiting", "done"}
          /\ node.version < MaxVersion /\ UNCHANGED life
      BY <1>7 DEF Restart, Announced, NewVersion
    <2>3. past' = [past EXCEPT ![node.attempt] = LeftAs] /\ LeftAs \in Terminal
      BY <1>7 DEF Restart, LeftAs, Terminal
    <2>4. ASSUME NEW a \in AttemptNo, a <= node'.attempt PROVE Turns(a)
      <3>1. CASE a < node.attempt
        <4>1. Effective(a)' = past[a]
          BY <1>1, <2>1, <2>3, <3>1 DEF Effective
        <4> QED
          BY <1>1, <1>3, <3>1, <4>1 DEF Turns
      <3>2. CASE a = node.attempt
        <4>1. Effective(a)' = LeftAs /\ Effective(a) = node.status /\ a <= node.attempt
          BY <1>1, <2>1, <2>3, <3>2 DEF Effective
        <4>2. Announced(a)
          BY <2>2, <3>2
        <4> QED
          BY <2>2, <2>3, <4>1, <4>2 DEF Turns, Terminal
      <3>3. CASE a = node.attempt + 1
        <4>1. Effective(a)' = s /\ ~(a <= node.attempt)
          BY <1>1, <2>1, <3>3 DEF Effective
        <4> QED
          BY <1>7, <4>1 DEF Turns
      <3> QED
        BY <1>1, <2>1, <2>4, <3>1, <3>2, <3>3
    <2> QED
      BY <1>1, <2>1, <2>2, <2>4
  <1>8. ASSUME NEW s \in {"pending", "ready"}, NEW p \in People, Prepare(s, p)
        PROVE  /\ node'.status # "absent" /\ UNCHANGED life /\ node.status # "absent"
               /\ node.version < MaxVersion /\ node'.version = node.version + 1
               /\ node.attempt <= node'.attempt /\ UNCHANGED outbox
               /\ \A a \in AttemptNo : a <= node'.attempt => Turns(a)
    BY <1>6, <1>8 DEF Prepare, NodeStatus
  <1>9. ASSUME NEW s \in Terminal, End(s)
        PROVE  /\ node'.status # "absent" /\ UNCHANGED life /\ node.status # "absent"
               /\ node.version < MaxVersion /\ node'.version = node.version + 1
               /\ node.attempt <= node'.attempt /\ Announced(node.attempt)
               /\ \A a \in AttemptNo : a <= node'.attempt => Turns(a)
    <2>1. Announced(node.attempt)
      BY <1>9 DEF End, Announced
    <2>2. node' = [node EXCEPT !.status = s, !.owner = node.owner, !.version = @ + 1]
      BY <1>1, <1>9 DEF End, NodeRow
    <2>3. s \in NodeStatus /\ s # "absent" /\ node.status \notin Terminal /\ NewVersion
          /\ UNCHANGED <<past, life>> /\ node.status # "absent"
      BY <1>9 DEF End, Terminal, NodeStatus
    <2> QED
      BY <1>6, <2>1, <2>2, <2>3
  <1>10. ASSUME NEW p \in People, Transfer(p)
         PROVE  /\ node'.status # "absent" /\ UNCHANGED life /\ node.status # "absent"
                /\ node.version < MaxVersion /\ node'.version = node.version + 1
                /\ node.attempt <= node'.attempt /\ Announced(node.attempt)
                /\ \A a \in AttemptNo : a <= node'.attempt => Turns(a)
    <2>1. Announced(node.attempt)
      BY <1>1, <1>10 DEF Transfer, Announced
    <2>2. node' = [node EXCEPT !.status = "waiting", !.owner = p, !.version = @ + 1]
      BY <1>1, <1>10 DEF Transfer, NodeRow
    <2> QED
      BY <1>6, <1>10, <2>1, <2>2 DEF Transfer, NodeStatus
  <1>11. CASE Activate
    <2>1. Announced(node.attempt)
      BY <1>11 DEF Activate, Announced
    <2>2. node' = [node EXCEPT !.status = "waiting", !.owner = node.owner, !.version = @ + 1]
      BY <1>1, <1>11 DEF Activate, NodeRow
    <2>3. /\ node'.status # "absent" /\ UNCHANGED life
          /\ node.version < MaxVersion /\ node'.version = node.version + 1
          /\ node.attempt <= node'.attempt
          /\ \A a \in AttemptNo : a <= node'.attempt => Turns(a)
      BY <1>6, <1>11, <2>1, <2>2 DEF Activate, NodeStatus, Terminal
    <2> QED
      BY <1>2, <1>11, <2>1, <2>3 DEF Activate
  <1> QED
    BY <1>2, <1>5, <1>7, <1>8, <1>9, <1>10, <1>11 DEF Command

(* A command closes nothing and lets nothing that has ended go on. *)
LEMMA CommandClose ==
    ASSUME ProjectionInv, StartedInv, CloseInv, Command
    PROVE  CloseInv'
  <1>1. /\ UNCHANGED <<projection, task, job, overlap, trouble>> /\ node'.status # "absent"
        /\ life \in Nat /\ life # 0
    BY CommandFacts DEF ProjectionInv, TypeOK
  <1>2. AbsentInv' /\ ClosedInv' /\ SingleInv'
    BY <1>1 DEF CloseInv, AbsentInv, ClosedInv, SingleInv
  <1>3. CASE node.status = "absent" /\ life' = life + 1
    <2>1. \A a \in AttemptNo : projection[a] = NoRow
      BY <1>3 DEF CloseInv, AbsentInv
    <2>2. ASSUME NEW w \in Workers PROVE Informed(w)'
      <3>1. /\ Informed(w) /\ job[w].attempt \in AttemptNo
        BY JobFacts DEF CloseInv, InformedInv
      <3> QED
        BY <1>1, <1>3, <2>1, <3>1 DEF Informed, Ended
    <2>3. ClosedOnlyWhenEnded'
      BY <1>1, <2>1 DEF CloseInv, ClosedInv, ClosedOnlyWhenEnded
    <2> QED
      BY <1>2, <2>2, <2>3 DEF CloseInv, InformedInv
  <1>4. CASE node.status # "absent" /\ ~(node.status = "absent" /\ life' = life + 1)
    <2>1. /\ UNCHANGED life /\ node.attempt <= node'.attempt
          /\ \A a \in AttemptNo : a <= node'.attempt => Turns(a)
          /\ node.attempt \in Nat /\ node'.attempt \in Nat
      BY <1>4, CommandFacts, CommandStep DEF ProjectionInv, TypeOK, NodeRow, AttemptNo
    <2>2. ASSUME NEW a \in AttemptNo, a <= node.attempt, Effective(a) \in Terminal
          PROVE  a <= node'.attempt /\ Effective(a)' \in Terminal
      <3>1. a \in Nat
        BY DEF AttemptNo
      <3> QED
        BY <2>1, <2>2, <3>1 DEF Turns, Terminal
    <2>3. ASSUME NEW a \in AttemptNo, Over(a) PROVE Over(a)'
      BY <1>1, <1>4, <2>2, <2>3 DEF Over
    <2>4. ASSUME NEW w \in Workers PROVE Informed(w)'
      <3>1. /\ Informed(w) /\ job[w].attempt \in AttemptNo /\ job'[w] = job[w]
        BY <1>1, JobFacts DEF CloseInv, InformedInv
      <3>2. Over(job[w].attempt) => Over(job[w].attempt)'
        BY <1>1, <2>3, <3>1 DEF Over, Effective
      <3> QED
        BY <1>1, <2>1, <3>1, <3>2 DEF Informed, Ended
    <2>5. ClosedOnlyWhenEnded'
      <3>1. ASSUME ~overlap \/ life = 1, NEW a \in AttemptNo, NEW g \in Generation,
                   task[a][g].state = "closed"
            PROVE  a \in Attempts' /\ Effective(a)' \in Terminal
        <4>1. a \in Attempts /\ Effective(a) \in Terminal
          BY <3>1 DEF CloseInv, ClosedOnlyWhenEnded
        <4> QED
          BY <1>1, <2>2, <4>1 DEF Attempts
      <3> QED
        BY <1>1, <2>1, <3>1 DEF ClosedOnlyWhenEnded
    <2> QED
      BY <1>2, <2>4, <2>5 DEF CloseInv, InformedInv
  <1> QED
    BY <1>3, <1>4, CommandFacts

(* Removals, leases and deletions by hand close nothing. *)
LEMMA OthersClose ==
    ASSUME ProjectionInv, CloseInv,
           \/ Remove \/ (\E v \in Events : Expire(v)) \/ UNCHANGED vars
           \/ \E a \in AttemptNo, g \in Generation : DeleteTask(a, g)
    PROVE  CloseInv'
  <1>1. CASE Remove
    <2>1. /\ UNCHANGED <<projection, task, job, life, overlap>> /\ node'.status = "absent"
          /\ \A a \in AttemptNo : projection[a] = NoRow
      BY <1>1 DEF Remove, ProjectionInv, TypeOK, NodeRow
    <2>2. AbsentInv' /\ ClosedInv' /\ SingleInv' /\ ClosedOnlyWhenEnded'
      BY <2>1 DEF CloseInv, AbsentInv, ClosedInv, SingleInv, ClosedOnlyWhenEnded
    <2>3. ASSUME NEW w \in Workers PROVE Informed(w)'
      <3>1. Informed(w) /\ job'[w] = job[w]
        BY <2>1 DEF CloseInv, InformedInv
      <3> QED
        BY <2>1, <3>1 DEF Informed, Over, Ended
    <2> QED
      BY <2>2, <2>3 DEF CloseInv, InformedInv
  <1>2. ASSUME UNCHANGED <<authority, projection, job, overlap>>,
               \A a \in AttemptNo, g \in Generation :
                    task'[a][g].state = "closed" => task[a][g].state = "closed"
        PROVE  CloseInv'
    <2>1. AbsentInv' /\ ClosedInv' /\ SingleInv'
      BY <1>2 DEF CloseInv, AbsentInv, ClosedInv, SingleInv, authority
    <2>2. Attempts' = Attempts /\ \A a : Effective(a)' = Effective(a)
      BY <1>2 DEF Attempts, Effective, authority
    <2>3. ClosedOnlyWhenEnded'
      BY <1>2, <2>2 DEF CloseInv, ClosedOnlyWhenEnded, authority
    <2>4. ASSUME NEW w \in Workers PROVE Informed(w)'
      <3>1. Informed(w) /\ UNCHANGED <<node, past, life, job>>
        BY <1>2 DEF CloseInv, InformedInv, authority
      <3> QED
        BY <1>2, <3>1 DEF Informed, Over, Ended, Effective
    <2> QED
      BY <2>1, <2>3, <2>4 DEF CloseInv, InformedInv
  <1>3. ASSUME NEW v \in Events, Expire(v) PROVE CloseInv'
    BY <1>2, <1>3 DEF Expire
  <1>4. ASSUME NEW a \in AttemptNo, NEW g \in Generation, DeleteTask(a, g)
        PROVE  CloseInv'
    <2>1. PICK t : t = [task[a][g] EXCEPT !.state = "deleted"]
      OBVIOUS
    <2>2. t.state = "deleted" /\ task' = [task EXCEPT ![a][g] = t]
          /\ task \in [AttemptNo -> [Generation -> Task]]
      BY <1>4, <2>1 DEF DeleteTask, ProjectionInv, TypeOK, Task
    <2>3. \A b \in AttemptNo, h \in Generation :
            task'[b][h] = IF b = a /\ h = g THEN t ELSE task[b][h]
      BY <2>2
    <2> QED
      BY <1>2, <1>4, <2>2, <2>3 DEF DeleteTask
  <1>5. CASE UNCHANGED vars
    BY <1>2, <1>5 DEF vars, authority
  <1> QED
    BY <1>1, <1>3, <1>4, <1>5

(* No step of anybody closes the task of an attempt that is to be answered.*)
LEMMA NextClose == ProjectionInv /\ StartedInv /\ CloseInv /\ [Next]_vars => CloseInv'
  <1> SUFFICES ASSUME ProjectionInv, StartedInv, CloseInv, [Next]_vars PROVE CloseInv'
    OBVIOUS
  <1>1. ASSUME NEW w \in Workers, Step(w) PROVE CloseInv'
    BY <1>1, EventsClose, LookupClose, CallClose, WriteClose DEF Step
  <1>2. ASSUME NEW w \in Workers,
               Reconcile(w) \/ RunOnce(w) \/ Exit(w) \/ Raise(w) \/ Crash(w)
        PROVE  CloseInv'
    BY <1>2, ProcessClose
  <1> QED
    BY <1>1, <1>2, CommandClose, OthersClose DEF Next

(* Whoever else works at the same time and however old its view of the     *)
(* node is, no worker closes the task of an attempt that is still to be    *)
(* answered (projection.py:684-834, the commands of service.py).           *)
THEOREM OnlyPeopleComplete == Spec => []ClosedOnlyWhenEnded
  <1>1. CloseInv => ClosedOnlyWhenEnded
    BY DEF CloseInv
  <1> QED
    BY <1>1, InitProjection, NextProjection, InitStarted, NextStarted, InitClose, NextClose, PTL
    DEF Spec

-----------------------------------------------------------------------------
(* The daemon alone with a node that was not removed and added again: what *)
(* it still owes Feishu is an event that is not settled yet.               *)
Alone == ~overlap /\ life = 1 /\ node.status # "absent"
mine == job[Daemon]

Unsettled(v) == outbox[v].state \notin {"none", "published"}
Started(a) == a <= node.attempt /\ Effective(a) \in {"waiting"} \cup Terminal

(* Events are about versions and attempts the node has reached. *)
RequestsInv ==
    \A v \in Events : IF outbox[v].state = "none" THEN outbox[v].from = NoOne
                      ELSE v <= node.version /\ outbox[v].attempt <= node.attempt

(* Nobody takes the events the daemon has in hand. *)
HeldInv == \A v \in Hands(Daemon) : outbox[v].state = "processing" /\ outbox[v].holder = Daemon

(* What the daemon has read of the node. *)
Reads(j) ==
    j.pc \in Working =>
        /\ j.event # NoEvent => outbox[j.event].attempt = j.attempt
        /\ Started(j.attempt)
        /\ j.seen.version <= node.version
        /\ j.seen.version = node.version => j.seen.owner = node.owner

EventsInv == RequestsInv /\ HeldInv /\ Reads(mine)

Works == Step(Daemon) \/ Reconcile(Daemon) \/ Raise(Daemon) \/ Crash(Daemon)

Others ==
    \/ \E v \in Events : Expire(v)
    \/ \E a \in AttemptNo, g \in Generation : DeleteTask(a, g)
    \/ UNCHANGED vars

(* The node goes on to its next version. *)
GoesOnward ==
    /\ Command /\ UNCHANGED <<projection, task, job, overlap, trouble, life>>
    /\ node.status # "absent" /\ node'.status # "absent"
    /\ node.version < MaxVersion /\ node'.version = node.version + 1
    /\ node.attempt <= node'.attempt
    /\ UNCHANGED outbox \/ Announced(node.attempt)
    /\ \A a \in AttemptNo : a <= node'.attempt => Turns(a)

(* The daemon is a worker, and having no event is no event. *)
LEMMA DaemonWorks == Daemon \in Workers /\ NoEvent \notin Events
  BY DEF Workers, NoEvent, Events

(* A worker that does something is up. *)
LEMMA UpToStep ==
    ASSUME NEW w \in Workers, Step(w) \/ Exit(w) \/ Raise(w) \/ Crash(w)
    PROVE  job[w].pc # "down"
  BY DEF Step, Claim, Take, Lookup, Create, Record, Verify, Recreate, Replace, Assign,
         Close, Save, Publish, Fail, Exit, Raise, Crash

(* Nobody ends the daemon's being alone twice. *)
LEMMA OverlapStays ==
    ASSUME ProjectionInv, NEW w \in Workers,
           Step(w) \/ Reconcile(w) \/ RunOnce(w) \/ Exit(w) \/ Raise(w) \/ Crash(w)
    PROVE  UNCHANGED authority /\ (overlap => overlap')
  BY DEF ProjectionInv, TypeOK, Step, Claim, Take, Lookup, Create, Record, Verify, Recreate,
         Replace, Assign, Close, Save, Publish, Fail, Exit, Raise, Crash, Reconcile, RunOnce

(* As long as the daemon is alone, only it and the commands do anything.   *)
LEMMA AloneStep ==
    ASSUME ProjectionInv, StartedInv, CloseInv, [Next]_vars, Alone'
    PROVE  Alone /\ (Works \/ GoesOnward \/ Others)
  <1>1. life \in Nat \ {0} /\ life' \in Nat /\ overlap \in BOOLEAN /\ life' = 1 /\ ~overlap'
        /\ node'.status # "absent"
    BY NextProjection DEF ProjectionInv, TypeOK, Alone
  <1>2. CASE Command
    <2>1. /\ UNCHANGED <<projection, task, job, overlap, trouble>>
          /\ ~(node.status = "absent" /\ life' = life + 1)
      BY <1>1, <1>2, CommandFacts
    <2>2. /\ node.status # "absent" /\ node'.status # "absent" /\ UNCHANGED life
          /\ node.version < MaxVersion /\ node'.version = node.version + 1
          /\ node.attempt <= node'.attempt
          /\ UNCHANGED outbox \/ Announced(node.attempt)
          /\ \A a \in AttemptNo : a <= node'.attempt => Turns(a)
      BY <1>2, <2>1, CommandFacts
    <2>3. GoesOnward
      BY <1>2, <2>1, <2>2 DEF GoesOnward
    <2>4. Alone
      BY <1>1, <2>1, <2>2 DEF Alone
    <2> QED
      BY <2>3, <2>4
  <1>3. CASE Remove
    <2>1. node'.status = "absent"
      BY <1>3 DEF Remove, ProjectionInv, TypeOK, NodeRow
    <2> QED
      BY <1>1, <2>1
  <1>4. ASSUME NEW w \in Workers,
               Step(w) \/ Reconcile(w) \/ RunOnce(w) \/ Exit(w) \/ Raise(w) \/ Crash(w)
        PROVE  Alone /\ Works
    <2>1. ~overlap /\ UNCHANGED <<node, past, life>>
      BY <1>1, <1>4, OverlapStays DEF authority
    <2>2. Alone
      BY <1>1, <2>1 DEF Alone
    <2>3. w \notin Operators
      <3>1. ASSUME w \in Operators PROVE FALSE
        <4>1. job[w].pc = "down"
          BY <2>1, <3>1 DEF CloseInv, SingleInv
        <4>2. Reconcile(w) \/ RunOnce(w)
          BY <1>4, <4>1, UpToStep
        <4>3. overlap'
          BY <3>1, <4>2, ProjectionAssumption DEF Reconcile, RunOnce
        <4> QED
          BY <1>1, <4>3
      <3> QED
        BY <3>1
    <2>4. w = Daemon
      BY <2>3 DEF Workers
    <2> QED
      BY <1>4, <2>2, <2>3, <2>4 DEF Works, RunOnce, Exit
  <1>5. CASE Others
    <2>1. UNCHANGED <<node, past, life, overlap>>
      BY <1>5 DEF Others, Expire, DeleteTask, vars, authority
    <2> QED
      BY <1>1, <1>5, <2>1 DEF Alone
  <1> QED
    BY <1>2, <1>3, <1>4, <1>5 DEF Next, Others

(* The daemon settles what it has in hand, and publishes nothing else. *)
LEMMA DaemonRequests ==
    ASSUME ProjectionInv, StartedInv, Works
    PROVE  /\ UNCHANGED <<authority, overlap>> /\ SameRequests
           /\ \A v \in Events : Unsettled(v) => \/ Unsettled(v)'
                                                \/ mine.pc = "publish" /\ v = mine.event
  <1>1. Daemon \in Workers
    BY DaemonWorks
  <1>2. UNCHANGED <<authority, overlap>>
    BY DEF Works, Step, Claim, Take, Lookup, Create, Record, Verify, Recreate,
         Replace, Assign, Close, Save, Publish, Fail, Raise, Crash, Reconcile
  <1>3. CASE UNCHANGED outbox
    BY <1>2, <1>3 DEF SameRequests, Unsettled
  <1>4. CASE Claim(Daemon)
    <2>1. SameRequests /\ \E S \in SUBSET Events :
                /\ \A v \in S : outbox'[v].state = "processing"
                /\ \A v \in Events \ S : outbox'[v] = outbox[v]
      BY <1>1, <1>4, ClaimFacts
    <2> QED
      BY <1>2, <2>1 DEF Unsettled
  <1>5. CASE Publish(Daemon) \/ Fail(Daemon)
    <2>1. CASE ~UNCHANGED outbox
      <3>1. PICK st, at : /\ mine.event \in Events /\ Mine(Daemon, mine.event)
                          /\ Settled(mine.event, st, at)
                          /\ st \in {"published", "exhausted", "failed"}
                          /\ st = "published" => mine.pc = "publish"
        BY <1>1, <1>5, <2>1, SettleFacts DEF mine
      <3>2. outbox[mine.event].state # "none" /\ st # "none"
        BY <3>1 DEF Mine
      <3>3. PICK v \in Events : v = mine.event
        BY <3>1
      <3>4. /\ SameRequests /\ outbox'[v].state = st
            /\ \A u \in Events \ {v} : outbox'[u] = outbox[u]
        BY <3>1, <3>2, <3>3, SettledRequests
      <3> QED
        BY <1>2, <3>1, <3>3, <3>4 DEF Unsettled
    <2> QED
      BY <1>3, <2>1
  <1>6. CASE ~(Claim(Daemon) \/ Publish(Daemon) \/ Fail(Daemon))
    <2>1. UNCHANGED outbox
      BY <1>6 DEF Works, Step, Take, Lookup, Create, Record, Verify, Recreate,
         Replace, Assign, Close, Save, Raise, Crash, Reconcile
    <2> QED
      BY <1>3, <2>1
  <1> QED
    BY <1>4, <1>5, <1>6

(* How the daemon goes on. *)
Picks(k) ==
    /\ k.pc = "lookup" /\ Started(k.attempt) /\ k.seen = Seen(k.attempt)
    /\ k.attempt \in AttemptNo
    /\ \/ mine.pc = "down" /\ k.event = NoEvent /\ k.attempt = node.attempt
       \/ mine.pc = "next" /\ k.event \in mine.batch /\ k.attempt = outbox[k.event].attempt

(* The daemon picks an event to work on, goes on with what it has read, or *)
(* does neither. *)
LEMMA DaemonMemory ==
    ASSUME ProjectionInv, StartedInv, Works
    PROVE  \/ job'[Daemon].pc \notin Working
           \/ Picks(job'[Daemon])
           \/ Knows(job'[Daemon], mine) /\ mine.pc \in Working
  <1>1. Daemon \in Workers
    BY DaemonWorks
  <1>2. CASE Take(Daemon)
    <2>1. PICK v \in mine.batch :
                /\ job'[Daemon].event = v
                /\ job'[Daemon].pc \in {"publish", "fail", "lookup"}
                /\ job'[Daemon].pc = "lookup" =>
                     /\ node.status # "absent" /\ outbox[v].attempt <= node.attempt
                     /\ Effective(outbox[v].attempt) \in {"waiting"} \cup Terminal
                     /\ job'[Daemon].attempt = outbox[v].attempt
                     /\ job'[Daemon].seen = Seen(outbox[v].attempt)
      BY <1>1, <1>2, TakeFacts DEF mine
    <2>2. mine.pc = "next" /\ outbox[v].attempt \in AttemptNo
      BY <1>1, <1>2, JobFacts DEF Take, mine, ProjectionInv, TypeOK, Event
    <2>3. CASE job'[Daemon].pc = "lookup"
      BY <2>1, <2>2, <2>3 DEF Picks, Started
    <2> QED
      BY <2>1, <2>3, Idly
  <1>3. CASE Reconcile(Daemon)
    <2>1. /\ mine.pc = "down" /\ job'[Daemon].event = NoEvent
          /\ \/ job'[Daemon].pc = "idle"
             \/ /\ node.status \in {"waiting"} \cup Terminal
                /\ job'[Daemon].pc = "lookup" /\ job'[Daemon].attempt = node.attempt
                /\ job'[Daemon].seen = Seen(node.attempt)
      BY <1>1, <1>3, ReconcileFacts DEF mine
    <2>2. node.attempt \in AttemptNo /\ node.attempt <= node.attempt
      BY DEF ProjectionInv, TypeOK, NodeRow, AttemptNo
    <2>3. CASE job'[Daemon].pc = "lookup"
      BY <2>1, <2>2, <2>3 DEF Picks, Started, Effective
    <2> QED
      BY <2>1, <2>3, Idly
  <1>4. CASE Lookup(Daemon)
    BY <1>1, <1>4, LookupFacts DEF mine, Working
  <1>5. CASE Create(Daemon) \/ Verify(Daemon) \/ Recreate(Daemon) \/ Assign(Daemon) \/ Close(Daemon)
    <2>1. mine.pc \in {"create", "verify", "recreate", "assign", "close"}
      BY <1>5 DEF mine, Create, Verify, Recreate, Assign, Close
    <2> QED
      BY <1>1, <1>5, <2>1, CallFacts DEF mine, Working
  <1>6. CASE Record(Daemon) \/ Replace(Daemon) \/ Save(Daemon)
    BY <1>1, <1>6, WriteFacts DEF mine, Working
  <1>7. CASE Claim(Daemon) \/ Publish(Daemon) \/ Fail(Daemon) \/ Raise(Daemon) \/ Crash(Daemon)
    <2>1. job'[Daemon].pc \in {"next", "idle", "fail", "down"}
      BY <1>1, <1>7, ClaimFacts, SettleFacts, RaiseFacts, CrashFacts DEF Rested
    <2> QED
      BY <2>1, Idly
  <1> QED
    BY <1>2, <1>3, <1>4, <1>5, <1>6, <1>7 DEF Works, Step

(* The daemon keeps its hands on what it has claimed. *)
LEMMA DaemonHands ==
    ASSUME ProjectionInv, StartedInv, HeldInv, Works
    PROVE  HeldInv'
  <1>1. Daemon \in Workers /\ mine \in Job /\ mine.event \notin mine.batch
        /\ mine.batch \in SUBSET Events /\ mine.event \in Events \cup {NoEvent}
    BY DaemonWorks, JobFacts DEF mine, JobOK
  <1> DEFINE k == job'[Daemon]
  <1>2. /\ Hands(Daemon) = (mine.batch \cup {mine.event}) \ {NoEvent}
        /\ Hands(Daemon)' = (k.batch \cup {k.event}) \ {NoEvent}
    BY DEF Hands, mine
  <1> HIDE DEF k
  <1>3. ASSUME Hands(Daemon)' \subseteq Hands(Daemon),
               \A v \in Hands(Daemon)' : outbox'[v] = outbox[v]
        PROVE  HeldInv'
    BY <1>3 DEF HeldInv
  <1>4. ASSUME Knows(k, mine), UNCHANGED outbox PROVE HeldInv'
    BY <1>2, <1>3, <1>4 DEF Knows
  <1>5. ASSUME k.batch = {}, k.event = NoEvent PROVE HeldInv'
    BY <1>2, <1>5 DEF HeldInv
  <1>6. CASE Claim(Daemon)
    <2>1. PICK S \in SUBSET Events :
                /\ k.batch = S
                /\ \A v \in S : outbox'[v].state = "processing" /\ outbox'[v].holder = Daemon
      BY <1>1, <1>6, ClaimFacts DEF k
    <2>2. k.event = NoEvent
      BY <1>1, <1>6, ClaimFacts DEF k
    <2>3. \A v \in Hands(Daemon)' : outbox'[v].state = "processing" /\ outbox'[v].holder = Daemon
      BY <1>2, <2>1, <2>2
    <2> QED
      BY <2>3 DEF HeldInv
  <1>7. CASE Take(Daemon)
    <2>1. UNCHANGED outbox /\ \E v \in mine.batch : k.event = v /\ k.batch = mine.batch \ {v}
      BY <1>1, <1>7, TakeFacts DEF k, mine
    <2> QED
      BY <1>2, <1>3, <2>1
  <1>8. CASE Publish(Daemon) \/ Fail(Daemon)
    <2>1. Rested(k, mine.batch) \/ Rested(k, {})
      BY <1>1, <1>8, SettleFacts DEF k, mine
    <2>2. k.event = NoEvent /\ (k.batch = mine.batch \/ k.batch = {})
      BY <2>1 DEF Rested
    <2>3. \A v \in mine.batch : outbox'[v] = outbox[v]
      <3>1. CASE ~UNCHANGED outbox
        <4>1. PICK st, at : mine.event \in Events /\ Settled(mine.event, st, at)
          BY <1>1, <1>8, <3>1, SettleFacts DEF mine
        <4>2. PICK e : outbox' = [outbox EXCEPT ![mine.event] = e]
          BY <4>1 DEF Settled
        <4> QED
          BY <1>1, <4>2 DEF ProjectionInv, TypeOK
      <3> QED
        BY <3>1
    <2> QED
      BY <1>2, <1>3, <2>2, <2>3
  <1>9. CASE Lookup(Daemon)
    BY <1>1, <1>4, <1>9, LookupFacts DEF k, mine
  <1>10. CASE \/ Create(Daemon) \/ Verify(Daemon) \/ Recreate(Daemon)
              \/ Assign(Daemon) \/ Close(Daemon)
    BY <1>1, <1>4, <1>10, CallFacts DEF k, mine
  <1>11. CASE Record(Daemon) \/ Replace(Daemon) \/ Save(Daemon)
    BY <1>1, <1>4, <1>11, WriteFacts DEF k, mine
  <1>12. CASE Reconcile(Daemon)
    BY <1>1, <1>5, <1>12, ReconcileFacts DEF k
  <1>13. CASE Crash(Daemon)
    BY <1>1, <1>5, <1>13, CrashFacts DEF k
  <1>14. CASE Raise(Daemon)
    <2>1. UNCHANGED outbox /\ (Knows(k, mine) \/ Rested(k, {}))
      BY <1>1, <1>14, RaiseFacts DEF k, mine
    <2> QED
      BY <1>4, <1>5, <2>1 DEF Rested
  <1> QED
    BY <1>6, <1>7, <1>8, <1>9, <1>10, <1>11, <1>12, <1>13, <1>14 DEF Works, Step

(* The daemon reads what is there. *)
LEMMA DaemonEvents ==
    ASSUME ProjectionInv, StartedInv, EventsInv, Works
    PROVE  EventsInv'
  <1>1. /\ UNCHANGED <<node, past, life>> /\ SameRequests
        /\ mine.event \in Events \cup {NoEvent} /\ mine.batch \in SUBSET Events
        /\ node.version \in Nat
    BY DaemonRequests, DaemonWorks, JobFacts
    DEF mine, authority, ProjectionInv, TypeOK, NodeRow, Events
  <1>2. RequestsInv'
    BY <1>1 DEF EventsInv, RequestsInv, SameRequests
  <1>3. HeldInv'
    BY DaemonHands DEF EventsInv
  <1>4. Reads(mine)'
    <2>1. PICK k : k = job'[Daemon]
      OBVIOUS
    <2>2. CASE k.pc \notin Working
      BY <2>1, <2>2 DEF Reads, mine
    <2>3. CASE Picks(k)
      <3>1. k.event # NoEvent => k.event \in Events /\ k.attempt = outbox[k.event].attempt
        BY <1>1, <2>3 DEF Picks
      <3>2. Started(k.attempt) /\ k.seen.version = node.version /\ k.seen.owner = node.owner
        BY <2>3 DEF Picks, Seen
      <3> QED
        BY <1>1, <2>1, <3>1, <3>2 DEF Reads, mine, SameRequests, Started, Effective
    <2>4. CASE Knows(k, mine) /\ mine.pc \in Working /\ k.pc \in Working
      <3>1. k.event = mine.event /\ k.attempt = mine.attempt /\ k.seen = mine.seen
        BY <2>4, Idly DEF Knows
      <3>2. /\ mine.event # NoEvent => outbox[mine.event].attempt = mine.attempt
            /\ Started(mine.attempt)
            /\ mine.seen.version <= node.version
            /\ mine.seen.version = node.version => mine.seen.owner = node.owner
        BY <2>4 DEF EventsInv, Reads
      <3>3. Started(k.attempt)'
        BY <1>1, <2>1, <3>1, <3>2 DEF Started, Effective
      <3> QED
        BY <1>1, <2>1, <3>1, <3>2, <3>3 DEF Reads, mine, SameRequests, Started, Effective
    <2> QED
      BY <2>1, <2>2, <2>3, <2>4, DaemonMemory
  <1> QED
    BY <1>2, <1>3, <1>4 DEF EventsInv

(* A command announces itself by an event that was not there. *)
LEMMA RequestFacts ==
    ASSUME ProjectionInv, RequestsInv, node.version < MaxVersion,
           NEW a, NEW from, Request(node.version + 1, a, from)
    PROVE  /\ node.version + 1 \in Events /\ outbox[node.version + 1].state = "none"
           /\ outbox'[node.version + 1].state = "pending"
           /\ outbox'[node.version + 1].attempt = a /\ outbox'[node.version + 1].from = from
           /\ \A v \in Events : v # node.version + 1 => outbox'[v] = outbox[v]
  <1>1. /\ node.version \in Nat /\ node.version + 1 \in Events
        /\ ~(node.version + 1 <= node.version)
    BY ProjectionAssumption DEF ProjectionInv, TypeOK, NodeRow, Events
  <1>2. PICK v \in Events : v = node.version + 1
    BY <1>1
  <1>3. outbox[v].state = "none"
    BY <1>1, <1>2 DEF RequestsInv
  <1>4. PICK e : e = RowAt("pending", LastAt + 1, a, from)
    OBVIOUS
  <1>5. outbox' = [outbox EXCEPT ![v] = e]
    BY <1>2, <1>3, <1>4 DEF Request
  <1>6. outbox'[v] = e /\ \A u \in Events : u # v => outbox'[u] = outbox[u]
    BY <1>5 DEF ProjectionInv, TypeOK
  <1>7. e.state = "pending" /\ e.attempt = a /\ e.from = from
    BY <1>4 DEF RowAt
  <1> QED
    BY <1>1, <1>2, <1>3, <1>6, <1>7

(* A command leaves the events of the versions before it alone. *)
LEMMA OnwardEvents ==
    ASSUME ProjectionInv, StartedInv, EventsInv, GoesOnward
    PROVE  /\ EventsInv'
           /\ node.version + 1 \in Events /\ node.version + 1 # mine.event
           /\ \A v \in Events : v <= node.version => outbox'[v] = outbox[v]
           /\ \A v \in Events : Unsettled(v) => v <= node.version /\ Unsettled(v)'
           /\ Announced(node.attempt) =>
                /\ outbox'[node.version + 1].state = "pending"
                /\ outbox'[node.version + 1].attempt = node.attempt
  <1>1. /\ node.version \in Nat /\ node.attempt \in AttemptNo /\ node.attempt \in Nat
        /\ node'.attempt \in Nat /\ node.attempt <= node'.attempt
        /\ node'.version = node.version + 1 /\ node.version < MaxVersion /\ UNCHANGED job
        /\ node.version + 1 \in Events
        /\ mine.event \in Events \cup {NoEvent} /\ mine.attempt \in AttemptNo
        /\ \A v \in Events : v \in Nat
        /\ \A v \in Events : outbox[v].attempt \in Nat
    <2>1. /\ node' \in NodeRow /\ node \in NodeRow /\ outbox \in [Events -> Event]
      BY CommandStep DEF GoesOnward, ProjectionInv, TypeOK
    <2>2. mine.event \in Events \cup {NoEvent} /\ mine.attempt \in AttemptNo
      BY DaemonWorks, JobFacts DEF mine
    <2>3. /\ node.attempt <= node'.attempt /\ node'.version = node.version + 1
          /\ node.version < MaxVersion /\ UNCHANGED job
      BY DEF GoesOnward
    <2>4. /\ node.version \in Nat /\ node.attempt \in AttemptNo /\ node.attempt \in Nat
          /\ node'.attempt \in Nat
      BY <2>1 DEF NodeRow, AttemptNo, Events
    <2>5. node.version + 1 \in Events /\ \A v \in Events : v \in Nat
      BY <2>3, <2>4, ProjectionAssumption DEF Events
    <2>6. \A v \in Events : outbox[v].attempt \in Nat
      BY <2>1 DEF Event, AttemptNo
    <2> QED
      BY <2>2, <2>3, <2>4, <2>5, <2>6
  <1>2. \/ UNCHANGED outbox
        \/ /\ outbox[node.version + 1].state = "none"
           /\ outbox'[node.version + 1].state = "pending"
           /\ outbox'[node.version + 1].attempt = node.attempt
           /\ \A v \in Events : v # node.version + 1 => outbox'[v] = outbox[v]
    BY <1>1, RequestFacts DEF GoesOnward, Announced, EventsInv
  <1>3. Announced(node.attempt) => /\ outbox'[node.version + 1].state = "pending"
                                   /\ outbox'[node.version + 1].attempt = node.attempt
    BY <1>1, RequestFacts DEF Announced, EventsInv
  <1>4. \A v \in Events : v <= node.version => v # node.version + 1 /\ outbox'[v] = outbox[v]
    BY <1>1, <1>2
  <1>5. \A v \in Events : outbox[v].state # "none" =>
            v <= node.version /\ outbox[v].attempt <= node.attempt
    BY DEF EventsInv, RequestsInv
  <1>6. mine.event # NoEvent => mine.event \in Events /\ mine.event <= node.version
    <2>1. mine.event # NoEvent => mine.event \in Events /\ mine.event \in Hands(Daemon)
      BY <1>1 DEF Hands, mine
    <2> QED
      BY <1>5, <2>1 DEF EventsInv, HeldInv
  <1>7. RequestsInv'
    <2>1. ASSUME NEW v \in Events
          PROVE  IF outbox'[v].state = "none" THEN outbox'[v].from = NoOne
                      ELSE v <= node'.version /\ outbox'[v].attempt <= node'.attempt
      <3>1. CASE outbox'[v] = outbox[v]
        <4>1. IF outbox[v].state = "none" THEN outbox[v].from = NoOne
              ELSE v <= node.version /\ outbox[v].attempt <= node.attempt
          BY DEF EventsInv, RequestsInv
        <4>2. v \in Nat /\ outbox[v].attempt \in Nat
          BY <1>1
        <4> QED
          BY <1>1, <3>1, <4>1, <4>2
      <3>2. CASE v = node.version + 1 /\ outbox'[v].state = "pending"
                 /\ outbox'[v].attempt = node.attempt
        BY <1>1, <3>2
      <3> QED
        BY <1>2, <3>1, <3>2
    <2> QED
      BY <2>1 DEF RequestsInv
  <1>8. HeldInv'
    <2>1. Hands(Daemon)' = Hands(Daemon) /\ Hands(Daemon) \subseteq Events
      BY <1>1, DaemonWorks, JobFacts DEF Hands
    <2>2. \A v \in Hands(Daemon) : outbox'[v] = outbox[v]
      BY <1>4, <1>5, <2>1 DEF EventsInv, HeldInv
    <2> QED
      BY <2>1, <2>2 DEF EventsInv, HeldInv
  <1>9. Reads(mine)'
    <2>1. CASE mine.pc \in Working
      <3>1. /\ mine.event # NoEvent => outbox[mine.event].attempt = mine.attempt
            /\ Started(mine.attempt) /\ mine.seen.version <= node.version
        BY <2>1 DEF EventsInv, Reads
      <3>2. PICK a \in AttemptNo : a = mine.attempt
        BY <1>1
      <3>3. Started(a)'
        <4>1. a \in Nat /\ a <= node.attempt /\ Effective(a) \in {"waiting"} \cup Terminal
          BY <3>1, <3>2 DEF Started, AttemptNo
        <4>2. Turns(a) /\ a <= node'.attempt
          BY <1>1, <4>1 DEF GoesOnward
        <4>3. Effective(a)' \in {"waiting"} \cup Terminal
          BY <4>1, <4>2 DEF Turns, Terminal
        <4> QED
          BY <4>2, <4>3 DEF Started
      <3>4. mine.seen.version < node'.version
        <4>1. mine.seen.version \in Nat
          BY DaemonWorks, JobFacts DEF mine, Events
        <4> QED
          BY <1>1, <3>1, <4>1
      <3>5. mine.event # NoEvent => outbox'[mine.event].attempt = mine.attempt
        BY <1>4, <1>6, <3>1
      <3>6. mine' = mine /\ mine.seen.version <= node'.version
            /\ mine.seen.version # node'.version
        BY <1>1, <3>4, DaemonWorks, JobFacts DEF mine, Events
      <3> QED
        BY <3>2, <3>3, <3>5, <3>6 DEF Reads, Started, Effective, mine
    <2>2. CASE mine.pc \notin Working
      BY <1>1, <2>2 DEF Reads, mine
    <2> QED
      BY <2>1, <2>2
  <1>10. \A v \in Events : Unsettled(v) => v <= node.version /\ Unsettled(v)'
    BY <1>4, <1>5 DEF Unsettled
  <1>11. node.version + 1 # mine.event
    BY <1>1, <1>6 DEF NoEvent
  <1> QED
    BY <1>1, <1>3, <1>4, <1>7, <1>8, <1>9, <1>10, <1>11 DEF EventsInv

(* What leases that run out and deletions by hand do not change. *)
LEMMA OthersFacts ==
    ASSUME ProjectionInv, Others
    PROVE  /\ UNCHANGED <<authority, projection, job, overlap>> /\ SameRequests
           /\ \A v \in Events : outbox'[v].state = outbox[v].state
                                /\ outbox'[v].holder = outbox[v].holder
           /\ \A a \in AttemptNo, g \in Generation :
                /\ TaskGoes(task[a][g], task'[a][g])
                /\ task'[a][g].state = "open" => task[a][g].state = "open"
                /\ task'[a][g].state # "none" => task[a][g].state # "none"
                /\ task'[a][g].members = task[a][g].members
                /\ task'[a][g].keys = task[a][g].keys
  <1>1. CASE UNCHANGED vars
    BY <1>1 DEF vars, authority, SameRequests, TaskGoes
  <1>2. ASSUME NEW v \in Events, Expire(v)
        PROVE  /\ UNCHANGED <<authority, projection, job, overlap, task>> /\ SameRequests
               /\ \A u \in Events : outbox'[u].state = outbox[u].state
                                    /\ outbox'[u].holder = outbox[u].holder
    BY <1>2, ExpireRequests DEF Expire
  <1>3. ASSUME NEW a \in AttemptNo, NEW g \in Generation, DeleteTask(a, g)
        PROVE  /\ UNCHANGED <<authority, projection, job, overlap, outbox>>
               /\ \A b \in AttemptNo, h \in Generation :
                    \/ task'[b][h] = task[b][h]
                    \/ /\ task[b][h].state = "open" /\ task'[b][h].state = "deleted"
                       /\ task'[b][h].members = task[b][h].members
                       /\ task'[b][h].keys = task[b][h].keys
    <2>1. PICK t : t = [task[a][g] EXCEPT !.state = "deleted"]
      OBVIOUS
    <2>2. /\ t.state = "deleted" /\ task' = [task EXCEPT ![a][g] = t]
          /\ t.members = task[a][g].members /\ t.keys = task[a][g].keys
          /\ task[a][g].state = "open"
          /\ task \in [AttemptNo -> [Generation -> Task]]
      BY <1>3, <2>1 DEF DeleteTask, ProjectionInv, TypeOK, Task
    <2>3. \A b \in AttemptNo, h \in Generation :
            task'[b][h] = IF b = a /\ h = g THEN t ELSE task[b][h]
      BY <2>2
    <2> QED
      BY <1>3, <2>2, <2>3 DEF DeleteTask
  <1>4. ASSUME NEW v \in Events, Expire(v) PROVE UNCHANGED task
    BY <1>4 DEF Expire
  <1> QED
    BY <1>1, <1>2, <1>3, <1>4 DEF Others, SameRequests, TaskGoes

(* Neither leases nor deletions by hand disturb what the daemon has read.  *)
LEMMA OthersEvents ==
    ASSUME ProjectionInv, EventsInv, Others
    PROVE  EventsInv'
  <1>1. /\ UNCHANGED <<node, past, life, job>> /\ SameRequests
        /\ \A v \in Events : outbox'[v].state = outbox[v].state
                             /\ outbox'[v].holder = outbox[v].holder
        /\ Hands(Daemon) \subseteq Events /\ mine.event \in Events \cup {NoEvent}
    BY OthersFacts, DaemonWorks, JobFacts DEF authority, Hands, mine
  <1>2. RequestsInv'
    BY <1>1 DEF EventsInv, RequestsInv, SameRequests
  <1>3. HeldInv'
    <2>1. Hands(Daemon)' = Hands(Daemon)
      BY <1>1 DEF Hands
    <2> QED
      BY <1>1, <2>1 DEF EventsInv, HeldInv
  <1>4. Reads(mine)'
    BY <1>1 DEF EventsInv, Reads, mine, Started, Effective, SameRequests
  <1> QED
    BY <1>2, <1>3, <1>4 DEF EventsInv

-----------------------------------------------------------------------------
(* Rows have their tasks, and the daemon knows the row it is at. *)
Recorded(j) ==
    /\ j.pc \in {"create", "record"} => projection[j.attempt] = NoRow
    /\ j.pc \in OnRow => j.row = projection[j.attempt]
    /\ j.pc = "assign" => /\ j.event # NoEvent
                          /\ outbox[j.event].from \notin {NoOne, j.seen.owner}
    /\ j.pc = "record" => task[j.attempt][0].state # "none"
    /\ j.pc = "replace" => task[j.attempt][j.row.gen + 1].state # "none"
    /\ j.pc = "save" /\ Ended(j) => task[j.attempt][j.row.gen].state = "closed"

RowHasTask(a) ==
    projection[a] # NoRow =>
        /\ Started(a) /\ task[a][projection[a].gen].state # "none"
        /\ projection[a].completed => task[a][projection[a].gen].state = "closed"

RecordsInv == Recorded(mine) /\ \A a \in AttemptNo : RowHasTask(a)

(* No task that is there vanishes, and none that is closed is opened. *)
LEMMA DaemonTasks ==
    ASSUME ProjectionInv, Works
    PROVE  \A a \in AttemptNo, g \in Generation : TaskGoes(task[a][g], task'[a][g])
  <1>1. CASE \/ Create(Daemon) \/ Verify(Daemon) \/ Recreate(Daemon)
             \/ Assign(Daemon) \/ Close(Daemon)
    BY <1>1, DaemonWorks, TaskFacts
  <1>2. CASE ~(\/ Create(Daemon) \/ Verify(Daemon) \/ Recreate(Daemon)
               \/ Assign(Daemon) \/ Close(Daemon))
    <2>1. UNCHANGED task
      BY <1>2 DEF Works, Step, Claim, Take, Lookup, Record, Replace, Save, Publish, Fail,
             Raise, Crash, Reconcile
    <2> QED
      BY <2>1 DEF TaskGoes
  <1> QED
    BY <1>1, <1>2

(* A row the daemon writes is the row of a task it knows. *)
LEMMA DaemonRows ==
    ASSUME ProjectionInv, StartedInv, CloseInv, EventsInv, RecordsInv, Works,
           NEW a \in AttemptNo
    PROVE  RowHasTask(a)'
  <1>1. /\ UNCHANGED <<node, past, life>> /\ Daemon \in Workers /\ Informed(Daemon)
        /\ projection[a] \in Row /\ projection[a].gen \in Generation
    BY DaemonRequests, DaemonWorks
    DEF authority, CloseInv, InformedInv, ProjectionInv, TypeOK, Row
  <1>2. /\ Started(a)' <=> Started(a)
    BY <1>1 DEF Started, Effective
  <1>3. CASE projection'[a] = projection[a]
    <2>1. TaskGoes(task[a][projection[a].gen], task'[a][projection[a].gen])
      BY <1>1, DaemonTasks
    <2>2. RowHasTask(a)
      BY DEF RecordsInv
    <2> QED
      BY <1>2, <1>3, <2>1, <2>2 DEF RowHasTask, TaskGoes
  <1>4. CASE (Record(Daemon) \/ Replace(Daemon) \/ Save(Daemon)) /\ projection'[a] # projection[a]
    <2>1. PICK new \in Row :
            /\ Rewritten(Daemon, projection[mine.attempt], new)
            /\ projection' = [projection EXCEPT ![mine.attempt] = new]
      BY <1>1, <1>4, WriteFacts DEF mine
    <2>2. /\ mine.attempt = a /\ projection'[a] = new /\ UNCHANGED task
          /\ mine.pc \in {"record", "replace", "save"}
      BY <1>1, <1>4, <2>1, WriteFacts DEF ProjectionInv, TypeOK, mine
    <2>3. Started(a) /\ Recorded(mine)
      BY <2>2 DEF EventsInv, Reads, Working, RecordsInv
    <2>4. /\ task[a][new.gen].state # "none"
          /\ new.completed => task[a][new.gen].state = "closed"
      <3>1. CASE mine.pc = "record"
        BY <2>1, <2>2, <2>3, <3>1 DEF Rewritten, Recorded, mine
      <3>2. CASE mine.pc = "replace"
        BY <2>1, <2>2, <2>3, <3>2 DEF Rewritten, Recorded, mine
      <3>3. CASE mine.pc = "save"
        <4>1. mine.row = projection[a] /\ new.gen = mine.row.gen /\ new.completed = Ended(mine)
          BY <2>1, <2>2, <2>3, <3>3 DEF Rewritten, Recorded, mine, OnRow
        <4>2. RowHasTask(a) /\ projection[a] # NoRow
          BY <1>1, <2>2, <3>3 DEF RecordsInv, Informed, OnRow, mine
        <4>3. Ended(mine) => task[a][mine.row.gen].state = "closed"
          BY <2>2, <2>3, <3>3 DEF Recorded
        <4> QED
          BY <4>1, <4>2, <4>3 DEF RowHasTask
      <3> QED
        BY <2>2, <3>1, <3>2, <3>3
    <2> QED
      BY <1>2, <2>2, <2>3, <2>4 DEF RowHasTask
  <1>5. CASE ~(Record(Daemon) \/ Replace(Daemon) \/ Save(Daemon))
    <2>1. UNCHANGED projection
      BY <1>5 DEF Works, Step, Claim, Take, Lookup, Create, Verify, Recreate, Assign, Close,
             Publish, Fail, Raise, Crash, Reconcile
    <2> QED
      BY <1>3, <2>1
  <1> QED
    BY <1>3, <1>4, <1>5

(* The daemon goes on with what it knows. *)
LEMMA DaemonKnows ==
    ASSUME ProjectionInv, StartedInv, CloseInv, EventsInv, RecordsInv, Works
    PROVE  Recorded(mine)'
  <1> DEFINE k == job'[Daemon]
  <1>1. /\ Daemon \in Workers /\ Informed(Daemon) /\ Recorded(mine)
        /\ mine.attempt \in AttemptNo /\ mine.event \in Events \cup {NoEvent}
        /\ mine' = k /\ mine = job[Daemon]
    BY DaemonWorks, JobFacts DEF CloseInv, InformedInv, RecordsInv, mine
  <1> HIDE DEF k
  <1>2. CASE k.pc \notin Working \/ k.pc = "lookup"
    <2>1. k.pc \notin OnRow /\ k.pc \notin {"create", "record"}
      BY <1>2 DEF OnRow, Working
    <2> QED
      BY <1>1, <2>1 DEF Recorded, OnRow
  <1>3. CASE Lookup(Daemon)
    <2>1. /\ UNCHANGED <<outbox, projection, task>> /\ Knows(k, mine)
          /\ k.pc \in {"publish", "create", "verify", "assign", "close", "save"}
      BY <1>1, <1>3, LookupFacts DEF k
    <2>2. CASE k.pc # "publish"
      <3>1. /\ k.attempt = mine.attempt /\ k.seen = mine.seen /\ k.event = mine.event
            /\ (Ended(k) <=> Ended(mine))
        BY <2>1, <2>2 DEF Knows, Ended
      <3>2. k.row = projection[k.attempt]
        BY <1>1, <1>3, <2>2, <3>1, LookupFacts DEF k
      <3>3. k.pc = "create" => projection[k.attempt] = NoRow
        BY <1>1, <1>3, <3>1, LookupFacts DEF k
      <3>4. k.pc = "assign" => k.event # NoEvent /\ outbox[k.event].from \notin {NoOne, k.seen.owner}
        BY <1>1, <1>3, <3>1, LookupFacts DEF k, FromOf
      <3>5. k.pc = "save" /\ Ended(k) => task[k.attempt][k.row.gen].state = "closed"
        <4>1. k.pc = "save" /\ Ended(k) => projection[mine.attempt] # NoRow
                                           /\ projection[mine.attempt].completed
          BY <1>1, <1>3, <3>1, LookupFacts DEF k
        <4> QED
          BY <1>1, <3>1, <3>2, <4>1 DEF RecordsInv, RowHasTask
      <3> QED
        BY <1>1, <2>1, <3>2, <3>3, <3>4, <3>5 DEF Recorded, Ended
    <2> QED
      BY <1>2, <2>2, Idly
  <1>4. CASE \/ Create(Daemon) \/ Verify(Daemon) \/ Recreate(Daemon)
             \/ Assign(Daemon) \/ Close(Daemon)
    <2>1. /\ UNCHANGED <<outbox, projection>> /\ Knows(k, mine)
      BY <1>1, <1>4, CallFacts DEF k
    <2>2. CASE k.pc \notin {"publish", "fail"}
      <3>1. /\ k.attempt = mine.attempt /\ k.seen = mine.seen /\ k.event = mine.event
            /\ (Ended(k) <=> Ended(mine)) /\ k.row = mine.row
        BY <1>1, <1>4, <2>1, <2>2, CallFacts DEF Knows, Ended, k
      <3>2. CASE Create(Daemon)
        <4>1. /\ mine.pc = "create" /\ k.pc = "record" /\ task'[mine.attempt][0].state # "none"
          BY <1>1, <3>2, CallFacts, TaskFacts DEF k
        <4> QED
          BY <1>1, <2>1, <3>1, <4>1 DEF Recorded, OnRow
      <3>3. CASE Recreate(Daemon)
        <4>1. /\ mine.pc = "recreate" /\ k.pc = "replace"
              /\ task'[mine.attempt][mine.row.gen + 1].state # "none"
          BY <1>1, <3>3, CallFacts, TaskFacts DEF k
        <4> QED
          BY <1>1, <2>1, <3>1, <4>1 DEF Recorded, OnRow
      <3>4. CASE Verify(Daemon)
        <4>1. /\ mine.pc = "verify" /\ k.pc \in {"recreate", "assign", "close", "save"}
              /\ k.pc = "assign" => /\ FromOf(mine.event) \notin {NoOne, mine.seen.owner}
                                    /\ mine.event # NoEvent
          BY <1>1, <2>2, <3>4, CallFacts DEF k
        <4>2. ~Ended(mine)
          BY <1>1, <4>1 DEF Informed, Opening
        <4> QED
          BY <1>1, <2>1, <3>1, <4>1, <4>2 DEF Recorded, OnRow, FromOf, Ended
      <3>5. CASE Assign(Daemon)
        <4>1. mine.pc = "assign" /\ k.pc = "save"
          BY <1>1, <2>2, <3>5, CallFacts DEF k
        <4>2. ~Ended(mine)
          BY <1>1, <4>1 DEF Informed, Opening
        <4> QED
          BY <1>1, <2>1, <3>1, <4>1, <4>2 DEF Recorded, OnRow, Ended
      <3>6. CASE Close(Daemon)
        <4>1. mine.pc = "close" /\ k.pc = "save"
          BY <1>1, <2>2, <3>6, CallFacts DEF k
        <4>2. task'[mine.attempt][mine.row.gen].state = "closed"
          BY <1>1, <3>6, <4>1, TaskFacts DEF k
        <4> QED
          BY <1>1, <2>1, <3>1, <4>1, <4>2 DEF Recorded, OnRow
      <3> QED
        BY <1>4, <3>2, <3>3, <3>4, <3>5, <3>6
    <2> QED
      BY <1>2, <2>2, Idly
  <1>5. CASE Record(Daemon) \/ Replace(Daemon) \/ Save(Daemon)
    <2>1. Knows(k, mine) /\ mine.pc \in {"record", "replace", "save"}
      BY <1>1, <1>5, WriteFacts DEF k
    <2>2. CASE k.pc \notin {"publish", "fail"}
      <3>1. PICK new \in Row :
              /\ Rewritten(Daemon, projection[mine.attempt], new)
              /\ projection' = [projection EXCEPT ![mine.attempt] = new]
              /\ k.pc = (IF mine.pc = "save" THEN "publish" ELSE "save")
              /\ k.row = new
        BY <1>1, <1>5, <2>2, WriteFacts DEF k
      <3>2. k.pc = "save" /\ mine.pc \in {"record", "replace"}
        BY <2>1, <2>2, <3>1
      <3>3. /\ k.attempt = mine.attempt /\ (Ended(k) <=> Ended(mine))
        BY <2>1, <2>2 DEF Knows, Ended
      <3>4. ~Ended(mine)
        BY <1>1, <3>2 DEF Informed, Opening
      <3>5. projection'[k.attempt] = k.row
        BY <1>1, <3>1, <3>3 DEF ProjectionInv, TypeOK
      <3> QED
        BY <1>1, <3>2, <3>3, <3>4, <3>5 DEF Recorded, Ended
    <2> QED
      BY <1>2, <2>2, Idly
  <1>6. CASE ~(\/ Lookup(Daemon) \/ Create(Daemon) \/ Verify(Daemon) \/ Recreate(Daemon)
               \/ Assign(Daemon) \/ Close(Daemon)
               \/ Record(Daemon) \/ Replace(Daemon) \/ Save(Daemon))
    <2>1. CASE Picks(k)
      BY <1>2, <2>1 DEF Picks
    <2>2. CASE ~Picks(k) /\ k.pc \in Working
      <3>1. /\ mine.pc \in Working /\ Knows(k, mine)
        BY <2>2, DaemonMemory DEF k
      <3>2. Raise(Daemon) \/ Crash(Daemon)
        BY <1>1, <1>6, <3>1 DEF Works, Step, Claim, Take, Publish, Fail, Reconcile, Working
      <3>3. k.pc \in {"fail", "idle", "down"}
        BY <1>1, <3>2, RaiseFacts, CrashFacts DEF k, Rested
      <3> QED
        BY <2>2, <3>3, Idly
    <2> QED
      BY <1>2, <2>1, <2>2
  <1> QED
    BY <1>3, <1>4, <1>5, <1>6

(* Started attempts stay started. *)
LEMMA OnwardStarted ==
    ASSUME ProjectionInv, GoesOnward, NEW a \in AttemptNo, Started(a)
    PROVE  Started(a)'
  <1>1. /\ a \in Nat /\ node.attempt \in Nat /\ node'.attempt \in Nat
        /\ node.attempt <= node'.attempt
    BY CommandStep DEF GoesOnward, ProjectionInv, TypeOK, NodeRow, AttemptNo
  <1>2. Turns(a)
    BY <1>1 DEF GoesOnward, Started
  <1> QED
    BY <1>1, <1>2 DEF Started, Turns, Terminal

(* What others do leaves the records as they are. *)
LEMMA OtherRecords ==
    ASSUME ProjectionInv, StartedInv, EventsInv, RecordsInv, GoesOnward \/ Others
    PROVE  RecordsInv'
  <1>1. /\ UNCHANGED <<projection, job>> /\ mine.attempt \in AttemptNo
        /\ mine.row.gen \in Generation /\ mine.event \in Events \cup {NoEvent}
        /\ 0 \in Generation /\ projection \in [AttemptNo -> Row]
        /\ mine.pc = "replace" => mine.row.gen + 1 \in Generation
    <2>1. mine.pc = "replace" => mine.row.gen + 1 \in Generation
      BY DaemonWorks, JobFacts, ProjectionAssumption DEF mine, JobOK, Generation
    <2>2. UNCHANGED <<projection, job>>
      BY OthersFacts DEF GoesOnward
    <2> QED
      BY <2>1, <2>2, DaemonWorks, JobFacts, Constants DEF mine, ProjectionInv, TypeOK
  <1>2. \A a \in AttemptNo, g \in Generation : TaskGoes(task[a][g], task'[a][g])
    BY OthersFacts DEF GoesOnward, TaskGoes
  <1>3. mine.event # NoEvent /\ mine.pc = "assign" => outbox'[mine.event].from = outbox[mine.event].from
    <2>1. CASE Others
      BY <1>1, <2>1, OthersFacts DEF SameRequests
    <2>2. CASE GoesOnward
      <3>1. mine.event # NoEvent => mine.event \in Events /\ mine.event \in Hands(Daemon)
        BY <1>1 DEF Hands, mine
      <3>2. mine.event # NoEvent => mine.event <= node.version
        BY <3>1 DEF EventsInv, HeldInv, RequestsInv
      <3> QED
        BY <2>2, <3>1, <3>2, OnwardEvents
    <2> QED
      BY <2>1, <2>2
  <1>4. \A a \in AttemptNo : Started(a) => Started(a)'
    <2>1. CASE Others
      BY <2>1, OthersFacts DEF Started, Effective, authority
    <2> QED
      BY <2>1, OnwardStarted
  <1>5. \A a \in AttemptNo : RowHasTask(a)'
    <2>1. \A a \in AttemptNo : projection[a].gen \in Generation /\ RowHasTask(a)
      BY <1>1 DEF RecordsInv, Row
    <2> QED
      BY <1>1, <1>2, <1>4, <2>1 DEF RowHasTask, TaskGoes
  <1>6. Recorded(mine)'
    <2>1. Recorded(mine) /\ mine' = mine
      BY <1>1 DEF RecordsInv, mine
    <2>2. /\ TaskGoes(task[mine.attempt][0], task'[mine.attempt][0])
          /\ TaskGoes(task[mine.attempt][mine.row.gen], task'[mine.attempt][mine.row.gen])
          /\ mine.pc = "replace" => TaskGoes(task[mine.attempt][mine.row.gen + 1],
                                             task'[mine.attempt][mine.row.gen + 1])
      BY <1>1, <1>2
    <2> QED
      BY <1>1, <1>3, <2>1, <2>2 DEF Recorded, TaskGoes, Ended
  <1> QED
    BY <1>5, <1>6 DEF RecordsInv

-----------------------------------------------------------------------------
(* What the daemon has not done yet, an unsettled event will make it do.   *)
Shows(v) ==
    v = mine.event => /\ mine.pc \in {"lookup", "create", "record", "fail"}
                      /\ mine.pc # "fail" => ~Ended(mine)

Closes(v) ==
    v = mine.event => /\ mine.pc \in {"lookup", "close", "save", "fail"}
                      /\ mine.pc # "fail" => Ended(mine)

OwesOpening(a) ==
    a <= node.attempt /\ Effective(a) = "waiting" /\ projection[a] = NoRow =>
        \E v \in Events : Unsettled(v) /\ outbox[v].attempt = a /\ Shows(v)

OwesClosing(a) ==
    /\ a <= node.attempt /\ Effective(a) \in Terminal
    /\ projection[a] # NoRow /\ ~projection[a].completed
    => \E v \in Events : Unsettled(v) /\ outbox[v].attempt = a /\ Closes(v)

(* What is read of an attempt that ended since is not the last word on it. *)
OwesAnother ==
    mine.pc \in Working /\ ~Ended(mine) /\ Effective(mine.attempt) \in Terminal =>
        \E v \in Events : Unsettled(v) /\ outbox[v].attempt = mine.attempt /\ v # mine.event

OwedInv == OwesAnother /\ \A a \in AttemptNo : OwesOpening(a) /\ OwesClosing(a)

(* The event the daemon is at after a step. *)
LEMMA SameEvent ==
    ASSUME ProjectionInv, StartedInv, Works, ~Take(Daemon), NEW v \in Events,
           v = job'[Daemon].event
    PROVE  /\ v = mine.event /\ Knows(job'[Daemon], mine)
           /\ \/ Lookup(Daemon) \/ Create(Daemon) \/ Verify(Daemon) \/ Recreate(Daemon)
              \/ Assign(Daemon) \/ Close(Daemon)
              \/ Record(Daemon) \/ Replace(Daemon) \/ Save(Daemon)
              \/ job'[Daemon].pc = "fail"
  <1>1. Daemon \in Workers /\ v # NoEvent
    BY DaemonWorks
  <1>2. CASE Lookup(Daemon)
    BY <1>1, <1>2, LookupFacts DEF mine, Knows
  <1>3. CASE Create(Daemon) \/ Verify(Daemon) \/ Recreate(Daemon) \/ Assign(Daemon) \/ Close(Daemon)
    BY <1>1, <1>3, CallFacts DEF mine, Knows
  <1>4. CASE Record(Daemon) \/ Replace(Daemon) \/ Save(Daemon)
    BY <1>1, <1>4, WriteFacts DEF mine, Knows
  <1>5. CASE Raise(Daemon)
    BY <1>1, <1>5, RaiseFacts DEF mine, Knows, Rested
  <1>6. CASE Claim(Daemon) \/ Publish(Daemon) \/ Fail(Daemon) \/ Reconcile(Daemon) \/ Crash(Daemon)
    <2>1. job'[Daemon].event = NoEvent
      BY <1>1, <1>6, ClaimFacts, SettleFacts, ReconcileFacts, CrashFacts DEF Rested
    <2> QED
      BY <1>1, <2>1
  <1> QED
    BY <1>2, <1>3, <1>4, <1>5, <1>6 DEF Works, Step

(* An event that is taken is read with the attempt it asks for. *)
LEMMA TakenEvent ==
    ASSUME ProjectionInv, StartedInv, Take(Daemon), node.status # "absent",
           NEW v \in Events, v = job'[Daemon].event, NEW a \in AttemptNo,
           outbox[v].attempt = a, Effective(a) \in {"waiting"} \cup Terminal
    PROVE  /\ job'[Daemon].pc \in {"fail", "lookup"}
           /\ job'[Daemon].pc = "lookup" =>
                job'[Daemon].attempt = a /\ job'[Daemon].seen = Seen(a)
  <1>1. PICK u \in mine.batch :
                /\ job'[Daemon].event = u
                /\ job'[Daemon].pc \in {"publish", "fail", "lookup"}
                /\ job'[Daemon].pc = "publish" =>
                     \/ node.status = "absent"
                     \/ Effective(outbox[u].attempt) \in {"pending", "ready"}
                /\ job'[Daemon].pc = "lookup" =>
                     /\ job'[Daemon].attempt = outbox[u].attempt
                     /\ job'[Daemon].seen = Seen(outbox[u].attempt)
    BY DaemonWorks, TakeFacts DEF mine
  <1> QED
    BY <1>1 DEF Terminal

(* The event that is to show a node goes on doing so. *)
LEMMA ShowsOn ==
    ASSUME ProjectionInv, StartedInv, EventsInv, Works, node.status # "absent",
           NEW a \in AttemptNo, NEW v \in Events,
           Effective(a) = "waiting", projection[a] = NoRow, projection'[a] = NoRow,
           outbox[v].attempt = a, Shows(v)
    PROVE  Shows(v)'
  <1> DEFINE k == job'[Daemon]
  <1>1. Daemon \in Workers /\ mine = job[Daemon] /\ v # NoEvent /\ mine' = k
    BY DaemonWorks DEF mine
  <1> HIDE DEF k
  <1>2. ASSUME v = k.event => /\ k.pc \in {"lookup", "create", "record", "fail"}
                              /\ k.pc # "fail" => ~Ended(k)
        PROVE  Shows(v)'
    BY <1>1, <1>2 DEF Shows, Ended
  <1>3. CASE v = k.event /\ Take(Daemon)
    <2>1. /\ k.pc \in {"fail", "lookup"}
          /\ k.pc = "lookup" => k.seen = Seen(a)
      BY <1>3, TakenEvent DEF k
    <2> QED
      BY <1>2, <2>1 DEF Ended, Seen, Terminal
  <1>4. CASE v = k.event /\ ~Take(Daemon)
    <2>1. /\ v = mine.event /\ Knows(k, mine)
          /\ mine.pc \in {"lookup", "create", "record", "fail"}
          /\ mine.pc # "fail" => ~Ended(mine)
      BY <1>4, SameEvent DEF k, Shows
    <2>2. k.pc \notin {"publish", "fail"} => (Ended(k) <=> Ended(mine))
      BY <2>1 DEF Knows, Ended
    <2>3. mine.pc \in Working => mine.attempt = a
      BY <1>1, <2>1 DEF EventsInv, Reads
    <2>4. CASE k.pc = "fail"
      BY <1>2, <2>4
    <2>5. CASE Lookup(Daemon)
      <3>1. mine.pc = "lookup" /\ mine.attempt = a
        BY <1>1, <2>3, <2>5, LookupFacts DEF Working
      <3>2. k.pc = "create"
        BY <1>1, <2>1, <2>5, <3>1, LookupFacts DEF k
      <3> QED
        BY <1>2, <2>1, <2>2, <3>1, <3>2
    <2>6. CASE Create(Daemon)
      <3>1. mine.pc = "create" /\ k.pc = "record"
        BY <1>1, <2>6, CallFacts DEF k
      <3> QED
        BY <1>2, <2>1, <2>2, <3>1
    <2>7. CASE (Record(Daemon) \/ Replace(Daemon) \/ Save(Daemon)) /\ k.pc # "fail"
      <3>1. PICK new \in Row : new # NoRow /\ projection' = [projection EXCEPT ![mine.attempt] = new]
        BY <1>1, <2>7, WriteFacts DEF Rewritten, k
      <3>2. mine.attempt = a
        BY <1>1, <2>3, <2>7, WriteFacts DEF Working
      <3> QED
        BY <3>1, <3>2 DEF ProjectionInv, TypeOK
    <2>8. CASE Verify(Daemon) \/ Recreate(Daemon) \/ Assign(Daemon) \/ Close(Daemon)
      BY <1>1, <2>1, <2>8, CallFacts
    <2> QED
      BY <1>4, <2>4, <2>5, <2>6, <2>7, <2>8, SameEvent DEF k
  <1> QED
    BY <1>2, <1>3, <1>4

(* The event that is to close a task goes on doing so. *)
LEMMA ClosesOn ==
    ASSUME ProjectionInv, StartedInv, EventsInv, Works, node.status # "absent",
           NEW a \in AttemptNo, NEW v \in Events,
           Effective(a) \in Terminal, projection[a] # NoRow, ~projection[a].completed,
           ~projection'[a].completed,
           outbox[v].attempt = a, Closes(v)
    PROVE  Closes(v)'
  <1> DEFINE k == job'[Daemon]
  <1>1. Daemon \in Workers /\ mine = job[Daemon] /\ v # NoEvent /\ mine' = k
    BY DaemonWorks DEF mine
  <1> HIDE DEF k
  <1>2. ASSUME v = k.event => /\ k.pc \in {"lookup", "close", "save", "fail"}
                              /\ k.pc # "fail" => Ended(k)
        PROVE  Closes(v)'
    BY <1>1, <1>2 DEF Closes, Ended
  <1>3. CASE v = k.event /\ Take(Daemon)
    <2>1. /\ k.pc \in {"fail", "lookup"}
          /\ k.pc = "lookup" => k.seen = Seen(a)
      BY <1>3, TakenEvent DEF k
    <2> QED
      BY <1>2, <2>1 DEF Ended, Seen, Terminal
  <1>4. CASE v = k.event /\ ~Take(Daemon)
    <2>1. /\ v = mine.event /\ Knows(k, mine)
          /\ mine.pc \in {"lookup", "close", "save", "fail"}
          /\ mine.pc # "fail" => Ended(mine)
      BY <1>4, SameEvent DEF k, Closes
    <2>2. k.pc \notin {"publish", "fail"} => (Ended(k) <=> Ended(mine))
      BY <2>1 DEF Knows, Ended
    <2>3. mine.pc \in Working => mine.attempt = a
      BY <1>1, <2>1 DEF EventsInv, Reads
    <2>4. CASE k.pc = "fail"
      BY <1>2, <2>4
    <2>5. CASE Lookup(Daemon)
      <3>1. mine.pc = "lookup" /\ mine.attempt = a
        BY <1>1, <2>3, <2>5, LookupFacts DEF Working
      <3>2. k.pc = "close"
        BY <1>1, <2>1, <2>5, <3>1, LookupFacts DEF k
      <3> QED
        BY <1>2, <2>1, <2>2, <3>1, <3>2
    <2>6. CASE Close(Daemon)
      <3>1. mine.pc = "close" /\ k.pc \in {"save", "fail"}
        BY <1>1, <2>6, CallFacts DEF k
      <3> QED
        BY <1>2, <2>1, <2>2, <3>1
    <2>7. CASE (Record(Daemon) \/ Replace(Daemon) \/ Save(Daemon)) /\ k.pc # "fail"
      <3>1. PICK new \in Row : /\ Rewritten(Daemon, projection[mine.attempt], new)
                               /\ projection' = [projection EXCEPT ![mine.attempt] = new]
        BY <1>1, <2>7, WriteFacts DEF k
      <3>2. mine.attempt = a /\ mine.pc = "save"
        BY <1>1, <2>1, <2>3, <2>7, WriteFacts DEF Working
      <3>3. new.completed
        BY <1>1, <2>1, <3>1, <3>2 DEF Rewritten
      <3> QED
        BY <3>1, <3>2, <3>3 DEF ProjectionInv, TypeOK
    <2>8. CASE Create(Daemon) \/ Verify(Daemon) \/ Recreate(Daemon) \/ Assign(Daemon)
      BY <1>1, <2>1, <2>8, CallFacts
    <2> QED
      BY <1>4, <2>4, <2>5, <2>6, <2>7, <2>8, SameEvent DEF k
  <1> QED
    BY <1>2, <1>3, <1>4

(* What the daemon does, it does to what it owes. *)
LEMMA DaemonOwes ==
    ASSUME ProjectionInv, StartedInv, CloseInv, EventsInv, RecordsInv, OwedInv,
           [Next]_vars, Works, node.status # "absent"
    PROVE  OwedInv'
  <1> DEFINE k == job'[Daemon]
  <1>1. /\ UNCHANGED <<node, past, life>> /\ SameRequests
        /\ Daemon \in Workers /\ mine = job[Daemon] /\ mine' = k
        /\ mine.attempt \in AttemptNo /\ Informed(Daemon)
    BY DaemonRequests, DaemonWorks, JobFacts DEF mine, authority, CloseInv, InformedInv
  <1> HIDE DEF k
  <1>2. \A v \in Events : Unsettled(v) => \/ Unsettled(v)'
                                          \/ mine.pc = "publish" /\ v = mine.event
    BY DaemonRequests
  <1>3. ASSUME NEW a \in AttemptNo PROVE OwesOpening(a)'
    <2>1. ASSUME a <= node.attempt, Effective(a) = "waiting", projection'[a] = NoRow
          PROVE  \E v \in Events : Unsettled(v)' /\ outbox'[v].attempt = a /\ Shows(v)'
      <3>1. projection[a] = NoRow
        BY <2>1, RowsStep DEF Advances
      <3>2. PICK v \in Events : Unsettled(v) /\ outbox[v].attempt = a /\ Shows(v)
        BY <2>1, <3>1 DEF OwedInv, OwesOpening
      <3>3. Unsettled(v)'
        BY <1>2, <3>2 DEF Shows
      <3>4. Shows(v)'
        BY <2>1, <3>1, <3>2, ShowsOn
      <3> QED
        BY <1>1, <3>2, <3>3, <3>4 DEF SameRequests
    <2> QED
      BY <1>1, <2>1 DEF OwesOpening, Effective
  <1>4. ASSUME NEW a \in AttemptNo PROVE OwesClosing(a)'
    <2>1. ASSUME a <= node.attempt, Effective(a) \in Terminal,
                 projection'[a] # NoRow, ~projection'[a].completed
          PROVE  \E v \in Events : Unsettled(v)' /\ outbox'[v].attempt = a /\ Closes(v)'
      <3>1. CASE projection[a] # NoRow /\ ~projection[a].completed
        <4>1. PICK v \in Events : Unsettled(v) /\ outbox[v].attempt = a /\ Closes(v)
          BY <2>1, <3>1 DEF OwedInv, OwesClosing
        <4>2. Unsettled(v)'
          BY <1>2, <4>1 DEF Closes
        <4>3. Closes(v)'
          BY <2>1, <3>1, <4>1, ClosesOn
        <4> QED
          BY <1>1, <4>1, <4>2, <4>3 DEF SameRequests
      <3>2. CASE projection[a] = NoRow \/ projection[a].completed
        <4>1. Record(Daemon) \/ Replace(Daemon) \/ Save(Daemon)
          <5>1. projection' # projection
            BY <2>1, <3>2
          <5> QED
            BY <5>1 DEF Works, Step, Claim, Take, Lookup, Create, Verify, Recreate, Assign,
                   Close, Publish, Fail, Raise, Crash, Reconcile
        <4>2. /\ Knows(k, mine) /\ mine.pc \in {"record", "replace", "save"}
          BY <1>1, <4>1, WriteFacts DEF k
        <4>3. PICK new \in Row :
                /\ Rewritten(Daemon, projection[mine.attempt], new)
                /\ projection' = [projection EXCEPT ![mine.attempt] = new]
          BY <1>1, <2>1, <3>2, <4>1, WriteFacts
        <4>4. mine.attempt = a /\ projection'[a] = new
          BY <1>1, <2>1, <3>2, <4>3 DEF ProjectionInv, TypeOK
        <4>5. ~Ended(mine)
          BY <1>1, <2>1, <4>2, <4>3, <4>4 DEF Rewritten, Informed, Opening
        <4>6. PICK v \in Events : Unsettled(v) /\ outbox[v].attempt = a /\ v # mine.event
          BY <2>1, <4>2, <4>4, <4>5 DEF OwedInv, OwesAnother, Working
        <4>7. Unsettled(v)' /\ Closes(v)'
          BY <1>1, <1>2, <4>2, <4>6 DEF Closes, Knows
        <4> QED
          BY <1>1, <4>6, <4>7 DEF SameRequests
      <3> QED
        BY <3>1, <3>2
    <2> QED
      BY <1>1, <2>1 DEF OwesClosing, Effective
  <1>5. OwesAnother'
    <2>1. ASSUME k.pc \in Working, ~Ended(k), Effective(k.attempt) \in Terminal
          PROVE  \E v \in Events : Unsettled(v)' /\ outbox'[v].attempt = k.attempt /\ v # k.event
      <3>1. CASE Picks(k)
        BY <2>1, <3>1 DEF Picks, Ended, Seen
      <3>2. CASE Knows(k, mine) /\ mine.pc \in Working
        <4>1. k.attempt = mine.attempt /\ k.event = mine.event /\ ~Ended(mine)
          BY <2>1, <3>2, Idly DEF Knows, Ended
        <4>2. PICK v \in Events : Unsettled(v) /\ outbox[v].attempt = mine.attempt /\ v # mine.event
          BY <2>1, <3>2, <4>1 DEF OwedInv, OwesAnother
        <4> QED
          BY <1>1, <1>2, <4>1, <4>2 DEF SameRequests
      <3> QED
        BY <2>1, <3>1, <3>2, DaemonMemory DEF k
    <2>2. Effective(mine.attempt)' = Effective(k.attempt) /\ (Ended(mine)' <=> Ended(k))
      BY <1>1 DEF Effective, Ended
    <2> QED
      BY <1>1, <2>1, <2>2 DEF OwesAnother
  <1> QED
    BY <1>3, <1>4, <1>5 DEF OwedInv

(* What a command changes, the daemon owes by the event of the command.    *)
LEMMA OnwardOwes ==
    ASSUME ProjectionInv, StartedInv, EventsInv, OwedInv, GoesOnward
    PROVE  OwedInv'
  <1>1. /\ UNCHANGED <<projection, job>> /\ mine' = mine
        /\ node.version + 1 \in Events /\ node.version + 1 # mine.event
        /\ mine.attempt \in AttemptNo
        /\ \A a \in AttemptNo : a \in Nat /\ (a <= node'.attempt => Turns(a))
        /\ node.attempt \in Nat /\ node'.attempt \in Nat /\ node.attempt <= node'.attempt
    BY OnwardEvents, CommandStep, DaemonWorks, JobFacts
    DEF GoesOnward, mine, ProjectionInv, TypeOK, NodeRow, AttemptNo
  <1>2. \A v \in Events : Unsettled(v) => Unsettled(v)' /\ outbox'[v] = outbox[v]
    BY OnwardEvents
  <1>3. ASSUME NEW a \in AttemptNo, Announced(a)
        PROVE  \E v \in Events : Unsettled(v)' /\ outbox'[v].attempt = a /\ v # mine.event
    <2>1. PICK v \in Events : v = node.version + 1
      BY <1>1
    <2>2. node.version < MaxVersion /\ RequestsInv
      BY DEF GoesOnward, EventsInv
    <2>3. PICK from : Request(node.version + 1, a, from)
      BY <1>3 DEF Announced
    <2>4. outbox'[v].state = "pending" /\ outbox'[v].attempt = a
      BY <2>1, <2>2, <2>3, RequestFacts
    <2> QED
      BY <1>1, <2>1, <2>4 DEF Unsettled
  <1>4. ASSUME NEW a \in AttemptNo PROVE OwesOpening(a)'
    <2>1. ASSUME a <= node'.attempt, Effective(a)' = "waiting", projection[a] = NoRow
          PROVE  \E v \in Events : Unsettled(v)' /\ outbox'[v].attempt = a /\ Shows(v)'
      <3>1. CASE Announced(a)
        <4>1. PICK v \in Events : Unsettled(v)' /\ outbox'[v].attempt = a /\ v # mine.event
          BY <1>3, <3>1
        <4> QED
          BY <1>1, <4>1 DEF Shows
      <3>2. CASE a <= node.attempt /\ Effective(a) = "waiting"
        <4>1. PICK v \in Events : Unsettled(v) /\ outbox[v].attempt = a /\ Shows(v)
          BY <2>1, <3>2 DEF OwedInv, OwesOpening
        <4> QED
          BY <1>1, <1>2, <4>1 DEF Shows, Ended
      <3> QED
        BY <1>1, <2>1, <3>1, <3>2 DEF Turns, Terminal
    <2> QED
      BY <1>1, <2>1 DEF OwesOpening
  <1>5. ASSUME NEW a \in AttemptNo PROVE OwesClosing(a)'
    <2>1. ASSUME a <= node'.attempt, Effective(a)' \in Terminal,
                 projection[a] # NoRow, ~projection[a].completed
          PROVE  \E v \in Events : Unsettled(v)' /\ outbox'[v].attempt = a /\ Closes(v)'
      <3>1. CASE Announced(a)
        <4>1. PICK v \in Events : Unsettled(v)' /\ outbox'[v].attempt = a /\ v # mine.event
          BY <1>3, <3>1
        <4> QED
          BY <1>1, <4>1 DEF Closes
      <3>2. CASE a <= node.attempt /\ Effective(a) \in Terminal
        <4>1. PICK v \in Events : Unsettled(v) /\ outbox[v].attempt = a /\ Closes(v)
          BY <2>1, <3>2 DEF OwedInv, OwesClosing
        <4> QED
          BY <1>1, <1>2, <4>1 DEF Closes, Ended
      <3> QED
        BY <1>1, <2>1, <3>1, <3>2 DEF Turns, Terminal
    <2> QED
      BY <1>1, <2>1 DEF OwesClosing
  <1>6. OwesAnother'
    <2>1. PICK a \in AttemptNo : a = mine.attempt
      BY <1>1
    <2>2. ASSUME mine.pc \in Working, ~Ended(mine), Effective(a)' \in Terminal
          PROVE  \E v \in Events : Unsettled(v)' /\ outbox'[v].attempt = a /\ v # mine.event
      <3>1. a <= node.attempt /\ a <= node'.attempt
        BY <1>1, <2>1, <2>2 DEF EventsInv, Reads, Started
      <3>2. CASE Announced(a)
        BY <1>3, <3>2
      <3>3. CASE Effective(a) \in Terminal
        <4>1. PICK v \in Events : Unsettled(v) /\ outbox[v].attempt = a /\ v # mine.event
          BY <2>1, <2>2, <3>3 DEF OwedInv, OwesAnother
        <4> QED
          BY <1>2, <4>1
      <3> QED
        BY <1>1, <2>2, <3>1, <3>2, <3>3 DEF Turns, Terminal
    <2>3. Effective(mine.attempt)' = Effective(a)' /\ (Ended(mine)' <=> Ended(mine))
      BY <1>1, <2>1 DEF Effective, Ended
    <2> QED
      BY <1>1, <2>1, <2>2, <2>3 DEF OwesAnother
  <1> QED
    BY <1>4, <1>5, <1>6 DEF OwedInv

(* Nothing else changes what the daemon owes. *)
LEMMA OthersOwe ==
    ASSUME ProjectionInv, OwedInv, Others
    PROVE  OwedInv'
  <1>1. /\ UNCHANGED <<node, past, life, projection, job>> /\ SameRequests /\ mine' = mine
        /\ \A v \in Events : (Unsettled(v)' <=> Unsettled(v)) /\ outbox'[v].attempt = outbox[v].attempt
    BY OthersFacts DEF authority, mine, Unsettled, SameRequests
  <1>2. \A v : (Shows(v)' <=> Shows(v)) /\ (Closes(v)' <=> Closes(v))
    BY <1>1 DEF Shows, Closes, Ended
  <1>3. \A a : Effective(a)' = Effective(a)
    BY <1>1 DEF Effective
  <1>4. OwesAnother'
    BY <1>1 DEF OwedInv, OwesAnother, Effective, Ended
  <1>5. ASSUME NEW a \in AttemptNo PROVE OwesOpening(a)' /\ OwesClosing(a)'
    <2>1. OwesOpening(a) /\ OwesClosing(a)
      BY DEF OwedInv
    <2> QED
      BY <1>1, <1>2, <1>3, <2>1 DEF OwesOpening, OwesClosing
  <1> QED
    BY <1>4, <1>5 DEF OwedInv

-----------------------------------------------------------------------------
(* As long as nothing went wrong, there is one task for each attempt, it is *)
(* recorded next to its creation, and nobody looks for one that is lost.   *)
NothingLost == mine.pc \notin {"verify", "recreate", "replace"}
StartsEmpty ==
    mine.pc = "down" \/ (mine.pc = "lookup" /\ mine.event = NoEvent) =>
        \A a \in AttemptNo : projection[a] = NoRow
OnlyTask(a) ==
    /\ projection[a].gen = 0
    /\ task[a][0].state = "none" => task[a][0].keys = {}
    /\ \A g \in Generation : task[a][g].state # "none" =>
          g = 0 /\ (projection[a] # NoRow \/ (mine.pc = "record" /\ mine.attempt = a))

CalmInv == NothingLost /\ StartsEmpty /\ \A a \in AttemptNo : OnlyTask(a)

(* Trouble that was had is not forgotten. *)
LEMMA StaysCalm ==
    ASSUME ProjectionInv, Works \/ GoesOnward \/ Others, Undisturbed'
    PROVE  Undisturbed /\ (Works => Step(Daemon) \/ Reconcile(Daemon))
  <1>1. trouble \in Int /\ trouble <= Trouble /\ Trouble \in Int
    BY ProjectionAssumption DEF ProjectionInv, TypeOK
  <1>2. ~Spend
    BY <1>1 DEF Spend, Undisturbed
  <1>3. CASE Step(Daemon) \/ Reconcile(Daemon)
    <2>1. UNCHANGED trouble
      BY <1>3 DEF Step, Claim, Take, Lookup, Create, Record, Verify, Recreate,
         Replace, Assign, Close, Save, Publish, Fail, Reconcile
    <2> QED
      BY <1>3, <2>1 DEF Undisturbed
  <1>4. ~(Raise(Daemon) \/ Crash(Daemon))
    BY <1>2 DEF Raise, Crash
  <1>5. Others => UNCHANGED trouble
    BY <1>2 DEF Others, Expire, DeleteTask, vars
  <1> QED
    BY <1>3, <1>4, <1>5 DEF Works, GoesOnward, Undisturbed

(* A task is assigned: the owner is added, the former one removed, unless  *)
(* the request was made before. *)
LEMMA AssignFacts ==
    ASSUME ProjectionInv, NEW w \in Workers, Assign(w)
    PROVE  /\ \A b \in AttemptNo, h \in Generation :
                b # job[w].attempt \/ h # job[w].row.gen => task'[b][h] = task[b][h]
           /\ \E t, n \in Task :
                /\ t = task[job[w].attempt][job[w].row.gen]
                /\ n = task'[job[w].attempt][job[w].row.gen]
                /\ n.state = t.state
                /\ \/ job'[w].pc = "fail" /\ n = t
                   \/ job[w].seen.version \in t.keys /\ n = t
                   \/ /\ n.members = (t.members \ {outbox[job[w].event].from})
                                        \cup {job[w].seen.owner}
                      /\ n.keys = t.keys \cup {job[w].seen.version}
  <1> DEFINE a == job[w].attempt
             g == job[w].row.gen
  <1>1. /\ a \in AttemptNo /\ g \in Generation /\ Slot(job[w]) = a
        /\ task \in [AttemptNo -> [Generation -> Task]]
        /\ task' \in [AttemptNo -> [Generation -> Task]]
    BY JobFacts, CallStep DEF ProjectionInv, TypeOK
  <1>2. PICK t \in Task : t = task[a][g]
    BY <1>1
  <1>3. PICK n : n = [t EXCEPT !.members = (@ \ {outbox[job[w].event].from}) \cup {job[w].seen.owner},
                               !.keys = @ \cup {job[w].seen.version}]
    OBVIOUS
  <1>4. /\ n.state = t.state /\ n.keys = t.keys \cup {job[w].seen.version}
        /\ n.members = (t.members \ {outbox[job[w].event].from}) \cup {job[w].seen.owner}
    BY <1>3 DEF Task
  <1>5. CASE UNCHANGED task
    <2>1. job'[w].pc = "fail" \/ job[w].seen.version \in t.keys \/ n = t
      <3>1. CASE Goto(w, "fail")
        BY <3>1, GoesOn DEF PC
      <3>2. CASE job[w].seen.version \notin t.keys /\ ~Goto(w, "fail")
        <4>1. task' = [task EXCEPT ![a][g] = n]
          BY <1>1, <1>2, <1>3, <3>2 DEF Assign
        <4>2. task'[a][g] = n
          BY <1>1, <4>1
        <4> QED
          BY <1>2, <1>5, <4>2
      <3> QED
        BY <3>1, <3>2
    <2> QED
      BY <1>2, <1>4, <1>5, <2>1
  <1>6. CASE task' = [task EXCEPT ![a][g] = n]
    <2>1. \A b \in AttemptNo, h \in Generation :
            task'[b][h] = IF b = a /\ h = g THEN n ELSE task[b][h]
      BY <1>1, <1>6
    <2>2. n = task'[a][g] /\ n \in Task
      BY <1>1, <2>1
    <2> QED
      BY <1>2, <1>4, <2>1, <2>2
  <1>7. UNCHANGED task \/ task' = [task EXCEPT ![a][g] = n]
    BY <1>1, <1>2, <1>3 DEF Assign
  <1> QED
    BY <1>5, <1>6, <1>7

(* A task is closed, or was deleted by hand. *)
LEMMA CloseFacts ==
    ASSUME ProjectionInv, NEW w \in Workers, Close(w)
    PROVE  \A b \in AttemptNo, h \in Generation :
                /\ task'[b][h].members = task[b][h].members
                /\ task'[b][h].keys = task[b][h].keys
                /\ task'[b][h].state # "none" =>
                      \/ task[b][h].state # "none"
                      \/ b = job[w].attempt /\ h = job[w].row.gen
  <1> DEFINE a == job[w].attempt
             g == job[w].row.gen
  <1>1. /\ a \in AttemptNo /\ g \in Generation /\ Slot(job[w]) = a
        /\ task \in [AttemptNo -> [Generation -> Task]] /\ task[a][g] \in Task
    BY JobFacts DEF ProjectionInv, TypeOK
  <1>2. PICK t : t = [task[a][g] EXCEPT !.state = "closed"]
    OBVIOUS
  <1>3. t.members = task[a][g].members /\ t.keys = task[a][g].keys
    BY <1>1, <1>2 DEF Task
  <1>4. UNCHANGED task \/ task' = [task EXCEPT ![a][g] = t]
    BY <1>1, <1>2 DEF Close
  <1>5. CASE task' = [task EXCEPT ![a][g] = t]
    <2>1. \A b \in AttemptNo, h \in Generation :
            task'[b][h] = IF b = a /\ h = g THEN t ELSE task[b][h]
      BY <1>1, <1>5
    <2> QED
      BY <1>3, <2>1
  <1> QED
    BY <1>4, <1>5

(* A new row is recorded at once. *)
LEMMA RecordFacts ==
    ASSUME ProjectionInv, StartedInv, NEW w \in Workers, Record(w),
           projection[job[w].attempt] = NoRow, node.status # "absent"
    PROVE  projection'[job[w].attempt] # NoRow
  <1> DEFINE a == job[w].attempt
             s == job[w].seen
             new == [gen |-> 0, sync |-> s.version, status |-> s.status, completed |-> FALSE]
  <1>1. a \in AttemptNo /\ Slot(job[w]) = a /\ job[w].pc = "record"
    BY JobFacts DEF Record
  <1>2. s.status # "none"
    BY <1>1 DEF StartedInv, Working
  <1>3. Write(w, new, "save")
    BY DEF Record
  <1>4. projection' = [projection EXCEPT ![a] = new]
    BY <1>1, <1>3 DEF Write, Savable
  <1>5. new # NoRow
    BY <1>2 DEF NoRow
  <1> QED
    BY <1>1, <1>4, <1>5 DEF ProjectionInv, TypeOK

(* Which tasks the daemon changes while nothing goes wrong. *)
LEMMA CalmTasks ==
    ASSUME ProjectionInv, CloseInv, RecordsInv, CalmInv, Step(Daemon) \/ Reconcile(Daemon),
           NEW a \in AttemptNo, NEW g \in Generation
    PROVE  \/ /\ task'[a][g].members = task[a][g].members
              /\ task'[a][g].keys = task[a][g].keys
              /\ task'[a][g].state # "none" => task[a][g].state # "none"
           \/ /\ g = 0 /\ a = mine.attempt /\ Create(Daemon) /\ task[a][g].state = "none"
              /\ task'[a][g].state = "open" /\ task'[a][g].members = {mine.seen.owner}
              /\ task'[a][g].keys = {}
           \/ /\ g = 0 /\ a = mine.attempt /\ Assign(Daemon)
              /\ task[a][g].state # "none" /\ task'[a][g].state # "none"
  <1>1. /\ Daemon \in Workers /\ mine = job[Daemon] /\ mine.attempt \in AttemptNo
        /\ 0 \in Generation /\ Slot(mine) = mine.attempt /\ Informed(Daemon)
    BY DaemonWorks, JobFacts, Constants DEF mine, CloseInv, InformedInv
  <1>2. CASE Create(Daemon)
    <2>1. CreateTask(mine.attempt, 0, mine.seen.owner)
      BY <1>1, <1>2 DEF Create
    <2>2. \/ task'[a][g] = task[a][g]
          \/ /\ a = mine.attempt /\ g = 0 /\ task[a][g].state = "none"
             /\ task'[a][g] = [state |-> "open", members |-> {mine.seen.owner}, keys |-> {}]
      BY <1>1, <2>1, CreateTaskFacts
    <2>3. CASE task'[a][g] = task[a][g]
      BY <2>3
    <2> QED
      BY <1>2, <2>2, <2>3
  <1>3. ASSUME mine.pc \in {"assign", "close"}
        PROVE  mine.row.gen = 0 /\ task[mine.attempt][0].state # "none"
    <2>1. projection[mine.attempt] # NoRow /\ mine.row = projection[mine.attempt]
      BY <1>1, <1>3 DEF Informed, RecordsInv, Recorded, OnRow
    <2>2. projection[mine.attempt].gen = 0 /\ RowHasTask(mine.attempt)
      BY <1>1 DEF CalmInv, OnlyTask, RecordsInv
    <2> QED
      BY <2>1, <2>2 DEF RowHasTask
  <1>4. CASE Assign(Daemon)
    <2>1. mine.row.gen = 0 /\ task[mine.attempt][0].state # "none"
      BY <1>1, <1>3, <1>4 DEF Assign
    <2>2. a # mine.attempt \/ g # 0 => task'[a][g] = task[a][g]
      BY <1>1, <1>4, <2>1, AssignFacts
    <2>3. task'[mine.attempt][0].state = task[mine.attempt][0].state
      BY <1>1, <1>4, <2>1, AssignFacts
    <2> QED
      BY <1>4, <2>1, <2>2, <2>3
  <1>5. CASE Close(Daemon)
    <2>1. mine.row.gen = 0 /\ task[mine.attempt][0].state # "none"
      BY <1>1, <1>3, <1>5 DEF Close
    <2> QED
      BY <1>1, <1>5, <2>1, CloseFacts
  <1>6. ~Recreate(Daemon)
    BY <1>1 DEF Recreate, CalmInv, NothingLost
  <1>7. CASE ~(Create(Daemon) \/ Assign(Daemon) \/ Close(Daemon))
    <2>1. UNCHANGED task
      BY <1>6, <1>7 DEF Step, Claim, Take, Lookup, Record, Verify, Replace, Save, Publish,
             Fail, Reconcile
    <2> QED
      BY <2>1
  <1> QED
    BY <1>2, <1>4, <1>5, <1>7

(* The daemon keeps calm. *)
LEMMA DaemonCalm ==
    ASSUME ProjectionInv, StartedInv, CloseInv, RecordsInv, CalmInv, [Next]_vars,
           Step(Daemon) \/ Reconcile(Daemon), node.status # "absent"
    PROVE  CalmInv'
  <1> DEFINE k == job'[Daemon]
  <1>1. /\ Daemon \in Workers /\ mine = job[Daemon] /\ mine' = k
        /\ mine.attempt \in AttemptNo /\ mine.event \in Events \cup {NoEvent}
        /\ 0 \in Generation /\ Informed(Daemon) /\ Recorded(mine)
        /\ NoEvent \notin Events /\ mine.batch \in SUBSET Events
    BY DaemonWorks, JobFacts, Constants DEF mine, CloseInv, InformedInv, RecordsInv
  <1> HIDE DEF k
  <1>2. CASE Lookup(Daemon)
    <2>1. /\ k.pc \in {"publish", "create", "assign", "close", "save"} /\ mine.pc = "lookup"
          /\ UNCHANGED <<projection, task>>
      <3>1. k.pc # "verify"
        BY <1>1, <1>2, LookupFacts DEF k, CalmInv, StartsEmpty
      <3> QED
        BY <1>1, <1>2, <3>1, LookupFacts DEF k
    <2>2. NothingLost' /\ StartsEmpty'
      BY <1>1, <2>1 DEF NothingLost, StartsEmpty
    <2> QED
      BY <1>1, <2>1, <2>2 DEF CalmInv, OnlyTask
  <1>3. CASE Reconcile(Daemon) \/ Claim(Daemon) \/ Take(Daemon) \/ Publish(Daemon) \/ Fail(Daemon)
    <2>1. /\ UNCHANGED <<projection, task>> /\ mine.pc # "record"
          /\ k.pc \in {"idle", "next", "publish", "fail", "lookup"}
          /\ k.pc = "lookup" => mine.pc = "down" \/ k.event \in Events
      <3>1. CASE Take(Daemon)
        <4>1. PICK v \in mine.batch : k.event = v /\ k.pc \in {"publish", "fail", "lookup"}
          BY <1>1, <3>1, TakeFacts DEF k
        <4> QED
          BY <1>1, <3>1, <4>1, TakeFacts
      <3>2. CASE Reconcile(Daemon)
        BY <1>1, <3>2, ReconcileFacts DEF k
      <3>3. CASE Claim(Daemon)
        BY <1>1, <3>3, ClaimFacts DEF k
      <3>4. CASE Publish(Daemon) \/ Fail(Daemon)
        BY <1>1, <3>4, SettleFacts DEF k, Rested
      <3> QED
        BY <1>3, <3>1, <3>2, <3>3, <3>4
    <2>2. NothingLost' /\ StartsEmpty'
      BY <1>1, <2>1 DEF NothingLost, StartsEmpty, CalmInv
    <2> QED
      BY <1>1, <2>1, <2>2 DEF CalmInv, OnlyTask
  <1>4. CASE Create(Daemon) \/ Assign(Daemon) \/ Close(Daemon)
    <2>1. /\ UNCHANGED projection /\ k.pc \in {"record", "save", "fail"} /\ mine.pc # "record"
          /\ Create(Daemon) => k.pc = "record" /\ k.attempt = mine.attempt
      BY <1>1, <1>4, CallFacts DEF k, Knows
    <2>2. NothingLost' /\ StartsEmpty'
      BY <1>1, <2>1 DEF NothingLost, StartsEmpty
    <2>3. ASSUME NEW a \in AttemptNo PROVE OnlyTask(a)'
      <3>1. OnlyTask(a)
        BY DEF CalmInv
      <3>2. task'[a][0].state = "none" => task'[a][0].keys = {}
        <4>1. TaskGoes(task[a][0], task'[a][0])
          BY <1>1, <1>4, TaskFacts
        <4> QED
          BY <1>1, <3>1, <4>1, CalmTasks DEF OnlyTask, TaskGoes
      <3>3. ASSUME NEW g \in Generation, task'[a][g].state # "none"
            PROVE  g = 0 /\ (projection[a] # NoRow \/ (k.pc = "record" /\ k.attempt = a))
        <4>1. CASE task[a][g].state # "none"
          BY <2>1, <3>1, <4>1 DEF OnlyTask
        <4>2. CASE task[a][g].state = "none"
          BY <2>1, <3>3, <4>2, CalmTasks
        <4> QED
          BY <4>1, <4>2
      <3> QED
        BY <1>1, <2>1, <3>1, <3>2, <3>3 DEF OnlyTask
    <2> QED
      BY <2>2, <2>3 DEF CalmInv
  <1>5. CASE Record(Daemon) \/ Save(Daemon)
    <2>1. /\ UNCHANGED task /\ k.pc \in {"fail", "publish", "save"}
          /\ mine.pc \in {"record", "save"}
      BY <1>1, <1>5, WriteFacts DEF k, Record, Save
    <2>2. NothingLost' /\ StartsEmpty'
      BY <1>1, <2>1 DEF NothingLost, StartsEmpty
    <2>3. ASSUME NEW a \in AttemptNo PROVE OnlyTask(a)'
      <3>1. OnlyTask(a)
        BY DEF CalmInv
      <3>2. projection'[a].gen = 0
        <4>1. CASE projection'[a] = projection[a]
          BY <3>1, <4>1 DEF OnlyTask
        <4>2. CASE projection'[a] # projection[a]
          <5>1. PICK new \in Row :
                  /\ Rewritten(Daemon, projection[mine.attempt], new)
                  /\ projection' = [projection EXCEPT ![mine.attempt] = new]
            BY <1>1, <1>5, <4>2, WriteFacts
          <5>2. mine.attempt = a /\ projection'[a] = new
            BY <4>2, <5>1 DEF ProjectionInv, TypeOK
          <5>3. mine.pc = "save" => mine.row.gen = 0
            BY <1>1, <3>1, <5>2 DEF Recorded, OnRow, OnlyTask
          <5> QED
            BY <1>1, <2>1, <5>1, <5>2, <5>3 DEF Rewritten
        <4> QED
          BY <4>1, <4>2
      <3>3. projection[a] # NoRow => projection'[a] # NoRow
        BY RowsStep DEF Advances
      <3>4. mine.pc = "record" /\ mine.attempt = a => projection'[a] # NoRow
        <4>1. mine.pc = "record" => Record(Daemon)
          BY <1>1, <1>5 DEF Save
        <4> QED
          BY <1>1, <4>1, RecordFacts DEF Recorded
      <3> QED
        BY <2>1, <3>1, <3>2, <3>3, <3>4 DEF OnlyTask
    <2> QED
      BY <2>2, <2>3 DEF CalmInv
  <1>6. ~(Verify(Daemon) \/ Recreate(Daemon) \/ Replace(Daemon))
    BY <1>1 DEF Verify, Recreate, Replace, CalmInv, NothingLost
  <1> QED
    BY <1>2, <1>3, <1>4, <1>5, <1>6 DEF Step

(* Nobody else disturbs it. *)
LEMMA OthersCalm ==
    ASSUME ProjectionInv, CalmInv, GoesOnward \/ Others
    PROVE  CalmInv'
  <1>1. /\ UNCHANGED <<projection, job>> /\ mine' = mine
        /\ \A a \in AttemptNo, g \in Generation :
              /\ task'[a][g].state # "none" => task[a][g].state # "none"
              /\ task[a][g].state # "none" => task'[a][g].state # "none"
              /\ task'[a][g].keys = task[a][g].keys
    BY OthersFacts DEF GoesOnward, mine, TaskGoes
  <1>2. NothingLost' /\ StartsEmpty'
    BY <1>1 DEF NothingLost, StartsEmpty, CalmInv
  <1>3. 0 \in Generation
    BY Constants
  <1> QED
    BY <1>1, <1>2, <1>3 DEF CalmInv, OnlyTask

-----------------------------------------------------------------------------
(* As long as nothing went wrong, the task of a waiting node is its        *)
(* owner's, or the event of its last transfer is still to make it so.      *)
Hers(members) ==
    /\ node.owner \in members
    /\ (\A p, q \in Former(node.attempt) : p = q) => members = {node.owner}

(* The event of the last transfer is still to be handled; the daemon has   *)
(* it in hand only if it will. *)
Handed(to) ==
    \E v \in Events :
        /\ v = node.version /\ Unsettled(v) /\ outbox[v].attempt = node.attempt
        /\ outbox[v].from \notin {NoOne, node.owner}
        /\ v = mine.event => to

Current == mine.seen.version = node.version
WillAssign == mine.pc = "fail" \/ (mine.pc \in {"lookup", "assign"} /\ Current)

Members(t) ==
    /\ t.state # "none" => t.members \subseteq {node.owner} \cup Former(node.attempt)
    /\ \A k \in t.keys : k <= node.version
    /\ node.version \in t.keys => Hers(t.members)
    /\ t.state # "none" => Hers(t.members) \/ Handed(WillAssign)

Knowing(t) ==
    mine.pc \in Working /\ mine.attempt = node.attempt =>
        /\ mine.seen.owner \in {node.owner} \cup Former(node.attempt)
        /\ \A k \in t.keys : k <= mine.seen.version
        /\ Current \/ Handed(FALSE)

OwnersInv ==
    node.status = "waiting" => Members(task[node.attempt][0]) /\ Knowing(task[node.attempt][0])

(* What the node was taken from does not change with the steps of workers. *)
LEMMA FormerKept ==
    ASSUME ProjectionInv, UNCHANGED node, SameRequests
    PROVE  /\ Former(node.attempt)' = Former(node.attempt)
           /\ \A m : Hers(m)' <=> Hers(m)
  <1>1. Former(node.attempt)' = Former(node.attempt)
    BY DEF Former, SameRequests
  <1> QED
    BY <1>1 DEF Hers

(* A handover the daemon does not settle is still to come. *)
LEMMA HandedOn ==
    ASSUME ProjectionInv, UNCHANGED node, SameRequests,
           NEW to \in BOOLEAN, NEW next \in BOOLEAN, Handed(to),
           \A v \in Events : Unsettled(v) => \/ Unsettled(v)'
                                             \/ mine.pc = "publish" /\ v = mine.event,
           mine.pc = "publish" => ~to,
           \A v \in Events : /\ v = node.version /\ outbox[v].attempt = node.attempt
                             /\ outbox[v].from \notin {NoOne, node.owner}
                             /\ v = mine.event => to
                             /\ v = job'[Daemon].event
                             => next
    PROVE  \E v \in Events :
              /\ v = node.version /\ Unsettled(v)' /\ outbox'[v].attempt = node.attempt
              /\ outbox'[v].from \notin {NoOne, node.owner}
              /\ v = job'[Daemon].event => next
  <1>1. PICK v \in Events :
            /\ v = node.version /\ Unsettled(v) /\ outbox[v].attempt = node.attempt
            /\ outbox[v].from \notin {NoOne, node.owner}
            /\ v = mine.event => to
    BY DEF Handed
  <1>2. Unsettled(v)'
    BY <1>1
  <1> QED
    BY <1>1, <1>2 DEF SameRequests

(* The daemon goes on with what it knows of the owner. *)
LEMMA KnowsOwner ==
    ASSUME ProjectionInv, StartedInv, EventsInv, OwnersInv, node.status = "waiting",
           Step(Daemon) \/ Reconcile(Daemon),
           job'[Daemon].pc \in Working, job'[Daemon].attempt = node.attempt
    PROVE  LET k == job'[Daemon] t == task[node.attempt][0] IN
           /\ k.seen.owner \in {node.owner} \cup Former(node.attempt)
           /\ \A key \in t.keys : key <= k.seen.version
           /\ \/ k.seen.version = node.version /\ k.seen.owner = node.owner
              \/ /\ Handed(FALSE) /\ k.event = mine.event
                 /\ mine.seen.version # node.version
                 /\ mine.pc \in Working /\ mine.attempt = node.attempt
  <1> DEFINE k == job'[Daemon]
             t == task[node.attempt][0]
  <1>1. /\ Members(t) /\ Knowing(t)
    BY DEF OwnersInv
  <1>2. CASE Picks(k)
    <2>1. k.seen.version = node.version /\ k.seen.owner = node.owner
      BY <1>2 DEF Picks, Seen
    <2> QED
      BY <1>1, <2>1 DEF Members
  <1>3. CASE Knows(k, mine) /\ mine.pc \in Working
    <2>1. k.attempt = mine.attempt /\ k.seen = mine.seen /\ k.event = mine.event
      BY <1>3, Idly DEF Knows
    <2>2. Current => mine.seen.owner = node.owner
      BY <1>3 DEF EventsInv, Reads, Current
    <2> QED
      BY <1>1, <1>3, <2>1, <2>2 DEF Knowing, Current
  <1>4. Works
    BY DEF Works
  <1> QED
    BY <1>2, <1>3, <1>4, DaemonMemory

(* A handover the daemon has begun, it goes on with. *)
LEMMA HandoverGoesOn ==
    ASSUME ProjectionInv, StartedInv, CloseInv, EventsInv, CalmInv, Alone,
           Step(Daemon) \/ Reconcile(Daemon), node.status = "waiting",
           task[node.attempt][0].state # "none",
           ~(Assign(Daemon) /\ mine.attempt = node.attempt),
           Handed(WillAssign)
    PROVE  Handed(WillAssign)'
  <1> DEFINE k == job'[Daemon]
             next == k.pc = "fail" \/ (k.pc \in {"lookup", "assign"}
                                        /\ k.seen.version = node.version)
  <1>1. /\ Works /\ Daemon \in Workers /\ mine = job[Daemon] /\ mine' = k
        /\ node.attempt \in AttemptNo /\ Informed(Daemon) /\ 0 \in Generation
        /\ mine.attempt \in AttemptNo
    BY DaemonWorks, JobFacts, Constants
    DEF Works, mine, CloseInv, InformedInv, ProjectionInv, TypeOK, NodeRow
  <1>2. /\ UNCHANGED node /\ SameRequests
        /\ \A v \in Events : Unsettled(v) => \/ Unsettled(v)'
                                             \/ mine.pc = "publish" /\ v = mine.event
    BY <1>1, DaemonRequests DEF authority
  <1>3. Effective(node.attempt) = "waiting" /\ node.status # "absent"
    BY DEF Effective
  <1> HIDE DEF k
  <1>4. ASSUME NEW v \in Events, v = node.version, outbox[v].attempt = node.attempt,
               outbox[v].from \notin {NoOne, node.owner},
               v = mine.event => WillAssign, v = k.event
        PROVE  next
    <2>1. CASE Take(Daemon)
      <3>1. /\ k.pc \in {"fail", "lookup"}
            /\ k.pc = "lookup" => k.seen = Seen(node.attempt)
        BY <1>1, <1>3, <1>4, <2>1, TakenEvent DEF k
      <3> QED
        BY <3>1 DEF Seen
    <2>2. CASE ~Take(Daemon)
      <3>1. /\ v = mine.event /\ Knows(k, mine) /\ WillAssign /\ v # NoEvent
            /\ \/ Lookup(Daemon) \/ Create(Daemon) \/ Verify(Daemon) \/ Recreate(Daemon)
               \/ Assign(Daemon) \/ Close(Daemon)
               \/ Record(Daemon) \/ Replace(Daemon) \/ Save(Daemon)
               \/ k.pc = "fail"
        BY <1>1, <1>4, <2>2, SameEvent, DaemonWorks DEF k
      <3>2. CASE Lookup(Daemon)
        <4>1. /\ mine.pc = "lookup" /\ Current
          BY <1>1, <3>1, <3>2, LookupFacts DEF WillAssign
        <4>2. /\ mine.attempt = node.attempt /\ mine.seen.owner = node.owner
          BY <1>4, <3>1, <4>1 DEF EventsInv, Reads, Working, Current
        <4>3. ~Ended(mine)
          <5>1. ASSUME Ended(mine) PROVE FALSE
            <6>1. Over(node.attempt)
              BY <1>1, <4>1, <4>2, <5>1 DEF Informed, Working, Alone
            <6> QED
              BY <1>3, <6>1 DEF Over, Terminal
          <5> QED
            BY <5>1
        <4>4. projection[mine.attempt] # NoRow
          BY <1>1, <4>1, <4>2 DEF CalmInv, OnlyTask
        <4>5. FromOf(mine.event) \notin {NoOne, mine.seen.owner}
          BY <1>4, <3>1, <4>2 DEF FromOf
        <4>6. k.pc = "assign"
          BY <1>1, <3>1, <3>2, <4>3, <4>4, <4>5, LookupFacts DEF k
        <4> QED
          BY <3>1, <4>1, <4>6 DEF Knows, Current
      <3>3. CASE Assign(Daemon)
        <4>1. mine.pc = "assign"
          BY <1>1, <3>3, CallFacts
        <4> QED
          BY <1>4, <3>1, <3>3, <4>1 DEF EventsInv, Reads, Working
      <3>4. CASE Create(Daemon) \/ Verify(Daemon) \/ Recreate(Daemon) \/ Close(Daemon)
        BY <1>1, <3>1, <3>4, CallFacts DEF WillAssign
      <3>5. CASE Record(Daemon) \/ Replace(Daemon) \/ Save(Daemon)
        BY <1>1, <3>1, <3>5, WriteFacts DEF WillAssign
      <3> QED
        BY <3>1, <3>2, <3>3, <3>4, <3>5
    <2> QED
      BY <2>1, <2>2
  <1>5. WillAssign \in BOOLEAN /\ next \in BOOLEAN
    BY DEF WillAssign
  <1>6. mine.pc = "publish" => ~WillAssign
    BY DEF WillAssign
  <1> HIDE DEF next
  <1>7. \E v \in Events :
              /\ v = node.version /\ Unsettled(v)' /\ outbox'[v].attempt = node.attempt
              /\ outbox'[v].from \notin {NoOne, node.owner}
              /\ v = k.event => next
    BY <1>2, <1>4, <1>5, <1>6, HandedOn DEF k
  <1>8. next <=> WillAssign'
    BY <1>1, <1>2 DEF next, WillAssign, Current
  <1> QED
    BY <1>1, <1>2, <1>7, <1>8 DEF Handed

(* A handover that is still in the outbox stays there. *)
LEMMA HandoverWaits ==
    ASSUME ProjectionInv, StartedInv, Step(Daemon) \/ Reconcile(Daemon),
           Handed(FALSE), job'[Daemon].event = mine.event
    PROVE  Handed(FALSE)'
  <1>1. /\ UNCHANGED node /\ SameRequests
        /\ \A v \in Events : Unsettled(v) => \/ Unsettled(v)'
                                             \/ mine.pc = "publish" /\ v = mine.event
    BY DaemonRequests DEF authority, Works
  <1>2. \E v \in Events :
              /\ v = node.version /\ Unsettled(v)' /\ outbox'[v].attempt = node.attempt
              /\ outbox'[v].from \notin {NoOne, node.owner}
              /\ v = job'[Daemon].event => FALSE
    BY <1>1, HandedOn
  <1> QED
    BY <1>1, <1>2 DEF Handed, mine

(* Who can settle a handover by reading FALSE can settle it anyway. *)
LEMMA HandedAnyway ==
    ASSUME NEW to, Handed(FALSE) PROVE Handed(to)
  BY DEF Handed

(* What assigning the task of a waiting node makes of it. *)
LEMMA Assigned ==
    ASSUME ProjectionInv, StartedInv, CloseInv, EventsInv, RecordsInv, CalmInv, OwnersInv,
           node.status = "waiting", Assign(Daemon), mine.attempt = node.attempt
    PROVE  LET t == task[node.attempt][0] n == task'[node.attempt][0] IN
           /\ n.members \subseteq {node.owner} \cup Former(node.attempt)
           /\ \A key \in n.keys : key <= node.version /\ key <= mine.seen.version
           /\ t.state # "none"
           /\ \/ n = t /\ job'[Daemon].pc = "fail"
              \/ n = t /\ mine.seen.version \in t.keys
              \/ /\ node.version \in n.keys => Current
                 /\ Current => Hers(n.members)
  <1>1. /\ Daemon \in Workers /\ mine = job[Daemon] /\ Informed(Daemon) /\ mine.pc = "assign"
        /\ node.attempt \in AttemptNo /\ node.version \in Int /\ mine.seen.version \in Int
        /\ mine.event \in Events \cup {NoEvent}
    BY DaemonWorks, JobFacts
    DEF mine, CloseInv, InformedInv, ProjectionInv, TypeOK, NodeRow, Events, Assign
  <1>2. mine.row.gen = 0 /\ task[node.attempt][0].state # "none"
    <2>1. projection[mine.attempt] # NoRow /\ mine.row = projection[mine.attempt]
      BY <1>1 DEF Informed, RecordsInv, Recorded, OnRow
    <2>2. projection[mine.attempt].gen = 0 /\ RowHasTask(mine.attempt)
      BY <1>1 DEF CalmInv, OnlyTask, RecordsInv
    <2> QED
      BY <2>1, <2>2 DEF RowHasTask
  <1>3. PICK from : from = outbox[mine.event].from
    OBVIOUS
  <1>4. PICK t, n \in Task :
          /\ t = task[node.attempt][0] /\ n = task'[node.attempt][0]
          /\ \/ job'[Daemon].pc = "fail" /\ n = t
             \/ mine.seen.version \in t.keys /\ n = t
             \/ /\ n.members = (t.members \ {from}) \cup {mine.seen.owner}
                /\ n.keys = t.keys \cup {mine.seen.version}
    BY <1>1, <1>2, <1>3, AssignFacts
  <1>5. /\ t.members \subseteq {node.owner} \cup Former(node.attempt)
        /\ \A key \in t.keys : key <= node.version /\ key <= mine.seen.version
        /\ mine.seen.owner \in {node.owner} \cup Former(node.attempt)
        /\ mine.seen.version <= node.version
        /\ Current => mine.seen.owner = node.owner
    BY <1>1, <1>2, <1>4 DEF OwnersInv, Members, Knowing, Working, EventsInv, Reads, Current
  <1>6. Current => from \in Former(node.attempt) /\ from # node.owner
    <2>1. mine.event # NoEvent /\ from \notin {NoOne, mine.seen.owner}
      BY <1>1, <1>3 DEF RecordsInv, Recorded
    <2>2. mine.event \in Events /\ outbox[mine.event].attempt = node.attempt
      BY <1>1, <2>1 DEF EventsInv, Reads, Working
    <2> QED
      BY <1>3, <1>5, <2>1, <2>2 DEF Former
  <1>7. CASE n = t
    BY <1>2, <1>4, <1>5, <1>7
  <1>8. CASE /\ n.members = (t.members \ {from}) \cup {mine.seen.owner}
             /\ n.keys = t.keys \cup {mine.seen.version}
    <2>1. Current => Hers(n.members)
      <3>1. ASSUME Current, \A p, q \in Former(node.attempt) : p = q
            PROVE  n.members = {node.owner}
        <4>1. Former(node.attempt) = {from}
          BY <1>6, <3>1
        <4> QED
          BY <1>5, <1>6, <1>8, <3>1, <4>1
      <3> QED
        BY <1>5, <1>8, <3>1 DEF Hers
    <2>2. node.version \in n.keys => Current
      BY <1>1, <1>5, <1>8 DEF Current
    <2> QED
      BY <1>1, <1>2, <1>4, <1>5, <1>8, <2>1, <2>2
  <1> QED
    BY <1>4, <1>7, <1>8

(* The daemon keeps the owner, or goes on to hand the task over. *)
LEMMA DaemonOwners ==
    ASSUME ProjectionInv, StartedInv, CloseInv, EventsInv, RecordsInv, CalmInv, OwnersInv,
           Alone, Step(Daemon) \/ Reconcile(Daemon)
    PROVE  OwnersInv'
  <1> DEFINE k == job'[Daemon]
             a == node.attempt
             t == task[a][0]
  <1>0. PICK n : n = task'[a][0]
    OBVIOUS
  <1>1. /\ Works /\ Daemon \in Workers /\ mine = job[Daemon] /\ mine' = k
        /\ a \in AttemptNo /\ 0 \in Generation /\ UNCHANGED node /\ SameRequests
        /\ node.version \in Int
    BY DaemonWorks, Constants, DaemonRequests
    DEF Works, mine, ProjectionInv, TypeOK, NodeRow, authority, Events
  <1>2. /\ Former(a)' = Former(a) /\ \A m : Hers(m)' <=> Hers(m)
    BY <1>1, FormerKept
  <1> SUFFICES ASSUME node.status = "waiting"
               PROVE  Members(n)' /\ Knowing(n)'
    <2>1. UNCHANGED node
      BY <1>1
    <2>2. n = task'[node'.attempt][0]
      BY <1>0, <2>1
    <2>3. ASSUME Members(n)', Knowing(n)'
          PROVE  Members(task[node.attempt][0])' /\ Knowing(task[node.attempt][0])'
      BY <2>2, <2>3 DEF Members, Knowing, Hers
    <2> QED
      BY <2>1, <2>3 DEF OwnersInv
  <1>3. Members(t) /\ Knowing(t)
    BY DEF OwnersInv
  <1>4. \/ n.members = t.members /\ n.keys = t.keys /\ (n.state # "none" => t.state # "none")
        \/ /\ Create(Daemon) /\ a = mine.attempt /\ t.state = "none"
           /\ n.members = {mine.seen.owner} /\ n.keys = {}
        \/ Assign(Daemon) /\ a = mine.attempt
    BY <1>0, <1>1, CalmTasks
  <1> HIDE DEF t, k
  <1>5. CASE Assign(Daemon) /\ a = mine.attempt
    <2>1. /\ n.members \subseteq {node.owner} \cup Former(a)
          /\ \A key \in n.keys : key <= node.version /\ key <= mine.seen.version
          /\ t.state # "none"
          /\ \/ n = t /\ k.pc = "fail"
             \/ n = t /\ mine.seen.version \in t.keys
             \/ /\ node.version \in n.keys => Current
                /\ Current => Hers(n.members)
      BY <1>0, <1>5, Assigned DEF t, k
    <2>2. k.event = mine.event /\ (k.pc # "fail" => k.seen = mine.seen) /\ mine.pc = "assign"
          /\ k.pc \in {"save", "fail"}
      BY <1>1, <1>5, CallFacts DEF Knows, k
    <2>3. Current \/ Handed(FALSE)
      BY <1>3, <1>5, <2>2 DEF Knowing, Working
    <2>4. node.version \in n.keys => Hers(n.members)
      BY <1>1, <1>3, <2>1 DEF Members, Current
    <2>5. Hers(n.members) \/ Handed(WillAssign)'
      <3>1. CASE Handed(FALSE)
        <4>1. Handed(FALSE)'
          BY <2>2, <3>1, HandoverWaits DEF k
        <4> QED
          BY <4>1 DEF Handed
      <3>2. CASE Current /\ ~(n = t /\ k.pc = "fail")
        BY <1>3, <2>1, <3>2 DEF Members, Current
      <3>3. CASE n = t /\ k.pc = "fail" /\ Current
        <4>1. CASE Handed(WillAssign)
          <5>1. PICK v \in Events :
                  /\ v = node.version /\ Unsettled(v) /\ outbox[v].attempt = a
                  /\ outbox[v].from \notin {NoOne, node.owner}
            BY <4>1 DEF Handed
          <5>2. Unsettled(v)'
            BY <1>1, <2>2, <5>1, DaemonRequests
          <5>3. WillAssign'
            BY <1>1, <3>3 DEF WillAssign
          <5> QED
            BY <1>1, <5>1, <5>2, <5>3 DEF Handed, SameRequests
        <4> QED
          BY <1>3, <2>1, <3>3, <4>1 DEF Members
      <3> QED
        BY <2>3, <3>1, <3>2, <3>3
    <2>6. Members(n)'
      BY <1>1, <1>2, <2>1, <2>4, <2>5 DEF Members
    <2>7. Knowing(n)'
      <3>1. ASSUME k.pc \in Working
            PROVE  /\ k.seen.owner \in {node.owner} \cup Former(a)
                   /\ \A key \in n.keys : key <= k.seen.version
                   /\ k.seen.version = node.version \/ Handed(FALSE)'
        <4>1. k.seen = mine.seen
          BY <2>2, <3>1, Idly
        <4>2. Handed(FALSE) => Handed(FALSE)'
          BY <2>2, HandoverWaits DEF k
        <4> QED
          BY <1>3, <1>5, <2>1, <2>2, <2>3, <4>1, <4>2 DEF Knowing, Working, Current
      <3> QED
        BY <1>1, <1>2, <3>1 DEF Knowing, Current
    <2> QED
      BY <2>6, <2>7
  <1>6. CASE ~(Assign(Daemon) /\ a = mine.attempt)
    <2>1. Knowing(n)'
      <3>1. ASSUME k.pc \in Working, k.attempt = a
            PROVE  /\ k.seen.owner \in {node.owner} \cup Former(a)
                   /\ \A key \in n.keys : key <= k.seen.version
                   /\ k.seen.version = node.version \/ Handed(FALSE)'
        <4>1. /\ k.seen.owner \in {node.owner} \cup Former(a)
              /\ \A key \in t.keys : key <= k.seen.version
              /\ \/ k.seen.version = node.version
                 \/ Handed(FALSE) /\ k.event = mine.event
          BY <3>1, KnowsOwner DEF k, t
        <4>2. n.keys \subseteq t.keys
          BY <1>4, <1>6
        <4> QED
          BY <4>1, <4>2, HandoverWaits DEF k
      <3> QED
        BY <1>1, <1>2, <3>1 DEF Knowing, Current
    <2>2. CASE Create(Daemon) /\ a = mine.attempt /\ t.state = "none"
               /\ n.members = {mine.seen.owner} /\ n.keys = {}
      <3>1. mine.pc = "create" /\ k.event = mine.event
        BY <1>1, <2>2, CallFacts DEF Knows, k
      <3>2. /\ mine.seen.owner \in {node.owner} \cup Former(a)
            /\ Current \/ Handed(FALSE)
            /\ Current => mine.seen.owner = node.owner
        BY <1>3, <2>2, <3>1 DEF Knowing, Working, EventsInv, Reads, Current
      <3>3. Hers(n.members) \/ Handed(WillAssign)'
        <4>1. CASE Current
          BY <2>2, <3>2, <4>1 DEF Hers
        <4>2. CASE Handed(FALSE)
          <5>1. Handed(FALSE)'
            BY <3>1, <4>2, HandoverWaits DEF k
          <5> QED
            BY <5>1 DEF Handed
        <4> QED
          BY <3>2, <4>1, <4>2
      <3> QED
        BY <1>1, <1>2, <2>1, <2>2, <3>2, <3>3 DEF Members
    <2>3. CASE n.members = t.members /\ n.keys = t.keys /\ (n.state # "none" => t.state # "none")
      <3>1. t.state # "none" /\ Handed(WillAssign) => Handed(WillAssign)'
        BY <1>6, HandoverGoesOn DEF t
      <3> QED
        BY <1>1, <1>2, <1>3, <2>1, <2>3, <3>1 DEF Members
    <2> QED
      BY <1>4, <1>6, <2>2, <2>3
  <1> QED
    BY <1>5, <1>6

(* A command that leaves the node waiting has activated or transferred it. *)
LEMMA WaitingFacts ==
    ASSUME ProjectionInv, GoesOnward, node'.status = "waiting"
    PROVE  /\ node'.attempt = node.attempt /\ node'.version = node.version + 1
           /\ \/ node.status = "ready"
              \/ /\ node.status = "waiting" /\ node'.owner # node.owner
                 /\ Request(node.version + 1, node.attempt, node.owner)
  <1>1. node \in NodeRow
    BY DEF ProjectionInv, TypeOK
  <1>2. ASSUME NEW s \in {"pending", "ready"}, NEW p \in People,
               Prepare(s, p) \/ AddAgain(s, p) \/ Restart(s)
        PROVE  FALSE
    <2>1. node'.status = s
      <3>1. CASE AddAgain(s, p)
        BY <3>1 DEF AddAgain
      <3>2. CASE Prepare(s, p)
        BY <1>1, <3>2 DEF Prepare, NodeRow
      <3>3. CASE Restart(s)
        BY <1>1, <3>3 DEF Restart, NodeRow
      <3> QED
        BY <1>2, <3>1, <3>2, <3>3
    <2> QED
      BY <2>1
  <1>3. ASSUME NEW s \in Terminal, End(s) PROVE FALSE
    <2>1. node'.status = s
      BY <1>1, <1>3 DEF End, NodeRow
    <2> QED
      BY <2>1 DEF Terminal
  <1>4. CASE Activate
    BY <1>1, <1>4 DEF Activate, NodeRow
  <1>5. ASSUME NEW p \in People, Transfer(p)
        PROVE  /\ node'.attempt = node.attempt /\ node.status = "waiting"
               /\ node'.owner # node.owner
               /\ Request(node.version + 1, node.attempt, node.owner)
    BY <1>1, <1>5 DEF Transfer, NodeRow
  <1>6. node.owner \in People /\ node'.version = node.version + 1 /\ Command
    BY <1>1 DEF NodeRow, GoesOnward
  <1> QED
    BY <1>2, <1>3, <1>4, <1>5, <1>6 DEF Command

(* Nobody has a task for an attempt that is not activated. *)
LEMMA NotYet ==
    ASSUME ProjectionInv, EventsInv, RecordsInv, CalmInv, node.status = "ready"
    PROVE  /\ task[node.attempt][0].state = "none" /\ task[node.attempt][0].keys = {}
           /\ ~(mine.pc \in Working /\ mine.attempt = node.attempt)
  <1>1. node.attempt \in AttemptNo /\ 0 \in Generation
    BY Constants DEF ProjectionInv, TypeOK, NodeRow
  <1>2. ~Started(node.attempt)
    BY DEF Started, Effective, Terminal
  <1>3. ~(mine.pc \in Working /\ mine.attempt = node.attempt)
    BY <1>2 DEF EventsInv, Reads
  <1>4. projection[node.attempt] = NoRow
    BY <1>1, <1>2 DEF RecordsInv, RowHasTask
  <1>5. ~(mine.pc = "record" /\ mine.attempt = node.attempt)
    BY <1>3 DEF Working
  <1> QED
    BY <1>1, <1>3, <1>4, <1>5 DEF CalmInv, OnlyTask

(* A transfer adds to those the node was taken from. *)
LEMMA FormerGrows ==
    ASSUME ProjectionInv, EventsInv, UNCHANGED node.attempt, node'.owner # node.owner,
           node.version < MaxVersion, node'.attempt = node.attempt,
           Request(node.version + 1, node.attempt, node.owner)
    PROVE  {node.owner} \cup Former(node.attempt)
                \subseteq {node'.owner} \cup Former(node.attempt)'
  <1>1. /\ node.owner \in People /\ node.owner # NoOne /\ node.version + 1 \in Events
    BY ProjectionAssumption DEF ProjectionInv, TypeOK, NodeRow, Events
  <1>2. /\ outbox[node.version + 1].state = "none"
        /\ outbox'[node.version + 1].attempt = node.attempt
        /\ outbox'[node.version + 1].from = node.owner
        /\ \A v \in Events : v # node.version + 1 => outbox'[v] = outbox[v]
    BY RequestFacts DEF EventsInv
  <1>3. outbox[node.version + 1].from = NoOne
    BY <1>1, <1>2 DEF EventsInv, RequestsInv
  <1>4. ASSUME NEW p \in {node.owner} \cup Former(node.attempt), p # node'.owner
        PROVE  p \in Former(node.attempt)'
    <2>1. CASE p = node.owner
      BY <1>1, <1>2, <1>4, <2>1 DEF Former
    <2>2. CASE p # node.owner
      <3>1. PICK v \in Events : outbox[v].attempt = node.attempt /\ outbox[v].from = p
                                /\ p # NoOne
        BY <1>4, <2>2 DEF Former
      <3>2. outbox'[v] = outbox[v]
        BY <1>2, <1>3, <3>1
      <3> QED
        BY <1>4, <3>1, <3>2 DEF Former
    <2> QED
      BY <2>1, <2>2
  <1> QED
    BY <1>4

(* A transfer hands the task over by its event. *)
LEMMA OnwardOwners ==
    ASSUME ProjectionInv, StartedInv, EventsInv, RecordsInv, CalmInv, OwnersInv, GoesOnward
    PROVE  OwnersInv'
  <1>1. /\ UNCHANGED <<task, job>> /\ mine' = mine /\ node.version \in Int
        /\ node'.version = node.version + 1 /\ node.version < MaxVersion
    BY DEF GoesOnward, mine, ProjectionInv, TypeOK, NodeRow, Events
  <1> SUFFICES ASSUME node'.status = "waiting"
               PROVE  (Members(task[node.attempt][0]) /\ Knowing(task[node.attempt][0]))'
    BY DEF OwnersInv
  <1>2. PICK t : t = task[node.attempt][0]
    OBVIOUS
  <1>3. node'.attempt = node.attempt /\ task'[node'.attempt][0] = t
    BY <1>1, <1>2, WaitingFacts
  <1>4. CASE node.status = "ready"
    <2>1. t.state = "none" /\ t.keys = {} /\ ~(mine.pc \in Working /\ mine.attempt = node.attempt)
      BY <1>2, <1>4, NotYet
    <2> QED
      BY <1>1, <1>3, <2>1 DEF Members, Knowing
  <1>5. CASE /\ node.status = "waiting" /\ node'.owner # node.owner
             /\ Request(node.version + 1, node.attempt, node.owner)
    <2>1. Members(t) /\ Knowing(t)
      BY <1>2, <1>5 DEF OwnersInv
    <2>2. {node.owner} \cup Former(node.attempt)
                \subseteq {node'.owner} \cup Former(node.attempt)'
      BY <1>1, <1>3, <1>5, FormerGrows
    <2>3. /\ node.version + 1 \in Events /\ node.version + 1 # mine.event
          /\ outbox'[node.version + 1].state = "pending"
          /\ outbox'[node.version + 1].attempt = node.attempt
          /\ outbox'[node.version + 1].from = node.owner
          /\ node.owner # NoOne
      BY <1>1, <1>5, OnwardEvents, RequestFacts, ProjectionAssumption
      DEF EventsInv, ProjectionInv, TypeOK, NodeRow
    <2>4. Handed(WillAssign)' /\ Handed(FALSE)'
      <3>1. PICK v \in Events : v = node.version + 1
        BY <2>3
      <3>2. Unsettled(v)' /\ v # mine'.event
        BY <1>1, <2>3, <3>1 DEF Unsettled
      <3> QED
        BY <1>1, <1>3, <1>5, <2>3, <3>1, <3>2 DEF Handed
    <2>5. \A key \in t.keys : key <= node.version
      BY <2>1 DEF Members
    <2>6. t.keys \subseteq Int
      <3>1. task[node.attempt][0] \in Task
        BY Constants DEF ProjectionInv, TypeOK, NodeRow
      <3> QED
        BY <1>2, <3>1 DEF Task, Events
    <2>7. /\ \A key \in t.keys : key <= node'.version
          /\ node'.version \notin t.keys
      BY <1>1, <2>5, <2>6
    <2>8. t.state # "none" => t.members \subseteq {node'.owner} \cup Former(node.attempt)'
      BY <2>1, <2>2 DEF Members
    <2>9. mine.pc \in Working /\ mine.attempt = node.attempt =>
            /\ mine.seen.owner \in {node'.owner} \cup Former(node.attempt)'
            /\ \A key \in t.keys : key <= mine.seen.version
      BY <2>1, <2>2 DEF Knowing
    <2>10. Members(task[node.attempt][0])'
      BY <1>3, <2>4, <2>7, <2>8 DEF Members
    <2>11. Knowing(task[node.attempt][0])'
      BY <1>1, <1>3, <2>4, <2>9 DEF Knowing
    <2> QED
      BY <2>10, <2>11
  <1> QED
    BY <1>4, <1>5, WaitingFacts

(* Nobody else changes whose a task is. *)
LEMMA OthersOwners ==
    ASSUME ProjectionInv, OwnersInv, Others
    PROVE  OwnersInv'
  <1>1. /\ UNCHANGED <<node, job>> /\ SameRequests /\ mine' = mine
        /\ \A v \in Events : Unsettled(v) => Unsettled(v)'
        /\ node.attempt \in AttemptNo /\ 0 \in Generation
    BY OthersFacts, Constants
    DEF authority, mine, Unsettled, ProjectionInv, TypeOK, NodeRow
  <1>2. Former(node.attempt)' = Former(node.attempt) /\ \A m : Hers(m)' <=> Hers(m)
    BY <1>1, FormerKept
  <1>3. PICK t, n :
          /\ t = task[node.attempt][0] /\ n = task'[node.attempt][0]
          /\ n.members = t.members /\ n.keys = t.keys
          /\ n.state # "none" => t.state # "none"
    BY <1>1, OthersFacts
  <1>4. \A to \in BOOLEAN : Handed(to) =>
            \E v \in Events :
                /\ v = node.version /\ Unsettled(v)' /\ outbox'[v].attempt = node.attempt
                /\ outbox'[v].from \notin {NoOne, node.owner}
                /\ v = mine.event => to
    BY <1>1 DEF Handed, SameRequests
  <1>5. (Handed(FALSE) => Handed(FALSE)') /\ (Handed(WillAssign) => Handed(WillAssign)')
    <2>1. Handed(FALSE) => Handed(FALSE)'
      BY <1>1, <1>4 DEF Handed
    <2>2. WillAssign \in BOOLEAN /\ (WillAssign' <=> WillAssign)
      BY <1>1 DEF WillAssign, Current
    <2>3. Handed(WillAssign) => Handed(WillAssign)'
      BY <1>1, <1>4, <2>2 DEF Handed
    <2> QED
      BY <2>1, <2>3
  <1> SUFFICES ASSUME node.status = "waiting"
               PROVE  Members(n)' /\ Knowing(n)'
    <2>1. n = task'[node'.attempt][0] /\ UNCHANGED node
      BY <1>1, <1>3
    <2>2. ASSUME Members(n)', Knowing(n)'
          PROVE  Members(task[node.attempt][0])' /\ Knowing(task[node.attempt][0])'
      BY <2>1, <2>2 DEF Members, Knowing, Hers
    <2> QED
      BY <2>1, <2>2 DEF OwnersInv
  <1>6. Members(t) /\ Knowing(t)
    BY <1>3 DEF OwnersInv
  <1>7. Members(n)'
    BY <1>1, <1>2, <1>3, <1>5, <1>6 DEF Members
  <1>8. Knowing(n)'
    BY <1>1, <1>2, <1>3, <1>5, <1>6 DEF Knowing, Current
  <1> QED
    BY <1>7, <1>8

-----------------------------------------------------------------------------
(* Feishu follows the node.                                                *)
MirrorInv ==
    CloseInv /\ (Alone => /\ EventsInv /\ RecordsInv /\ OwedInv
                          /\ Undisturbed => CalmInv /\ OwnersInv)

(* At the start nothing is in Feishu, and nothing has to be. *)
LEMMA InitMirror == Init => MirrorInv
  <1> SUFFICES ASSUME Init PROVE MirrorInv
    OBVIOUS
  <1>1. /\ mine.pc = "down" /\ mine.batch = {} /\ mine.event = NoEvent
        /\ node.status \in {"pending", "ready"} /\ node.version = 0 /\ node.attempt = 1
        /\ \A a \in AttemptNo : past[a] = "none" /\ projection[a] = NoRow
    BY DaemonWorks DEF Init, NoJob, mine
  <1>2. \A a \in AttemptNo, g \in Generation :
            task[a][g].state = "none" /\ task[a][g].keys = {}
    BY DEF Init, NoTask
  <1>3. \A v \in Events : /\ outbox[v].from = NoOne
                          /\ v # 0 => outbox[v].state = "none"
                          /\ v = 0 => outbox[v].attempt = 1
    BY DEF Init, NoEventYet, RowAt
  <1>4. \A a \in AttemptNo : Effective(a) \in {"none", "pending", "ready"}
    BY <1>1 DEF Effective
  <1>5. EventsInv
    <2>1. RequestsInv
      BY <1>1, <1>3 DEF RequestsInv
    <2>2. HeldInv
      BY <1>1 DEF HeldInv, Hands, mine
    <2>3. Reads(mine)
      BY <1>1 DEF Reads, Working
    <2> QED
      BY <2>1, <2>2, <2>3 DEF EventsInv
  <1>6. RecordsInv
    BY <1>1 DEF RecordsInv, Recorded, RowHasTask, OnRow
  <1>7. OwedInv
    BY <1>1, <1>4 DEF OwedInv, OwesAnother, OwesOpening, OwesClosing, Working, Terminal
  <1>8. CalmInv
    BY <1>1, <1>2, Constants DEF CalmInv, NothingLost, StartsEmpty, OnlyTask, NoRow
  <1>9. OwnersInv
    BY <1>1 DEF OwnersInv
  <1> QED
    BY <1>5, <1>6, <1>7, <1>8, <1>9, InitClose DEF MirrorInv

(* Every step keeps what Feishu shows, or what the daemon owes it. *)
LEMMA NextMirror ==
    ProjectionInv /\ StartedInv /\ MirrorInv /\ [Next]_vars => MirrorInv'
  <1> SUFFICES ASSUME ProjectionInv, StartedInv, MirrorInv, [Next]_vars PROVE MirrorInv'
    OBVIOUS
  <1>1. CloseInv /\ CloseInv'
    BY NextClose DEF MirrorInv
  <1> SUFFICES ASSUME Alone'
               PROVE  (/\ EventsInv /\ RecordsInv /\ OwedInv
                       /\ Undisturbed => CalmInv /\ OwnersInv)'
    BY <1>1 DEF MirrorInv
  <1>2. Alone /\ (Works \/ GoesOnward \/ Others)
    BY <1>1, AloneStep
  <1>3. /\ EventsInv /\ RecordsInv /\ OwedInv /\ node.status # "absent"
        /\ Undisturbed => CalmInv /\ OwnersInv
    BY <1>2 DEF MirrorInv, Alone
  <1>4. (EventsInv /\ RecordsInv /\ OwedInv)'
    <2>1. CASE Works
      <3>1. EventsInv'
        BY <1>3, <2>1, DaemonEvents
      <3>2. RecordsInv'
        BY <1>1, <1>3, <2>1, DaemonRows, DaemonKnows DEF RecordsInv
      <3> QED
        BY <1>1, <1>3, <2>1, <3>1, <3>2, DaemonOwes
    <2>2. CASE GoesOnward
      BY <1>3, <2>2, OnwardEvents, OtherRecords, OnwardOwes
    <2>3. CASE Others
      BY <1>3, <2>3, OthersEvents, OtherRecords, OthersOwe
    <2> QED
      BY <1>2, <2>1, <2>2, <2>3
  <1>5. ASSUME Undisturbed' PROVE CalmInv' /\ OwnersInv'
    <2>1. /\ CalmInv /\ OwnersInv /\ (Works => Step(Daemon) \/ Reconcile(Daemon))
      BY <1>2, <1>3, <1>5, StaysCalm
    <2>2. CASE Works
      BY <1>1, <1>2, <1>3, <2>1, <2>2, DaemonCalm, DaemonOwners
    <2>3. CASE GoesOnward
      BY <1>3, <2>1, <2>3, OthersCalm, OnwardOwners
    <2>4. CASE Others
      BY <1>3, <2>1, <2>4, OthersCalm, OthersOwners
    <2> QED
      BY <1>2, <2>2, <2>3, <2>4
  <1> QED
    BY <1>4, <1>5

(* When everything is handled, nothing is owed. *)
LEMMA NothingOwed ==
    ASSUME ProjectionInv, CloseInv, Alone, EventsInv, RecordsInv, OwedInv, Quiet,
           Undisturbed => CalmInv /\ OwnersInv, NEW a \in Attempts
    PROVE  Shown(a) /\ PutAway(a)
  <1>1. /\ a \in AttemptNo /\ a \in Nat /\ node.attempt \in Nat /\ a <= node.attempt
        /\ projection[a].gen \in Generation /\ 0 \in Generation
        /\ \A g \in Generation : task[a][g].state \in {"none", "open", "closed", "deleted"}
        /\ past[a] \in {"none"} \cup Terminal
    <2>1. a \in AttemptNo /\ a <= node.attempt
      BY DEF Attempts
    <2>2. projection[a] \in Row /\ \A g \in Generation : task[a][g] \in Task
      BY <2>1 DEF ProjectionInv, TypeOK
    <2>3. past[a] \in {"none"} \cup Terminal
      BY <2>1 DEF ProjectionInv, TypeOK
    <2>4. a \in Nat /\ node.attempt \in Nat
      BY <2>1 DEF ProjectionInv, TypeOK, NodeRow, AttemptNo
    <2> QED
      BY <2>1, <2>2, <2>3, <2>4, Constants DEF Row, Task
  <1>2. \A v \in Events : ~Unsettled(v)
    BY DEF Quiet, Unsettled
  <1>3. mine.pc # "record"
    BY DaemonWorks DEF Quiet, mine
  <1>4. RowHasTask(a)
    BY <1>1 DEF RecordsInv
  <1>5. \A g \in Generation : task[a][g].state = "closed" => Effective(a) \in Terminal
    BY <1>1 DEF CloseInv, ClosedOnlyWhenEnded, Alone
  <1>6. ASSUME Effective(a) = "waiting"
        PROVE  /\ projection[a] # NoRow /\ ~projection[a].completed
               /\ task[a][projection[a].gen].state \in {"open", "deleted"}
    <2>1. projection[a] # NoRow
      BY <1>1, <1>2, <1>6 DEF OwedInv, OwesOpening
    <2>2. task[a][projection[a].gen].state # "closed"
      BY <1>1, <1>5, <1>6 DEF Terminal
    <2> QED
      BY <1>1, <1>4, <2>1, <2>2 DEF RowHasTask
  <1>7. ASSUME Effective(a) = "waiting", Undisturbed
        PROVE  AssignedTo(task[a][projection[a].gen].members)
    <2>1. a = node.attempt /\ node.status = "waiting"
      BY <1>1, <1>7 DEF Effective, Terminal
    <2>2. projection[a].gen = 0 /\ task[a][0].state # "none"
      BY <1>1, <1>4, <1>6, <1>7 DEF CalmInv, OnlyTask, RowHasTask
    <2>3. Members(task[a][0])
      BY <1>7, <2>1 DEF OwnersInv
    <2>4. ~Handed(WillAssign)
      BY <1>2 DEF Handed
    <2> QED
      BY <2>1, <2>2, <2>3, <2>4 DEF Members, Hers, AssignedTo
  <1>8. ASSUME Effective(a) \in Terminal, projection[a] # NoRow
        PROVE  projection[a].completed /\ task[a][projection[a].gen].state = "closed"
    BY <1>1, <1>2, <1>4, <1>8 DEF OwedInv, OwesClosing, RowHasTask
  <1>9. ASSUME Effective(a) \in Terminal, Undisturbed, NEW g \in OpenFor(a)
        PROVE  FALSE
    <2>1. g \in Generation /\ task[a][g].state = "open"
      BY DEF OpenFor
    <2>2. g = 0 /\ projection[a] # NoRow /\ projection[a].gen = 0
      BY <1>1, <1>3, <1>9, <2>1 DEF CalmInv, OnlyTask
    <2> QED
      BY <1>8, <1>9, <2>1, <2>2
  <1>10. Shown(a)
    BY <1>6, <1>7 DEF Shown
  <1>11. PutAway(a)
    BY <1>8, <1>9 DEF PutAway
  <1> QED
    BY <1>10, <1>11

(* With the daemon alone and a node that was not removed and added again,  *)
(* Feishu shows the node as it is once every event is published: whatever  *)
(* crashed, failed, was retried or handled out of order on the way         *)
(* (projection.py:684-834); and on the way no task is closed before its    *)
(* attempt has ended.                                                      *)
THEOREM FeishuMirrorsTheNode == Spec => []Mirrored
  <1>1. ProjectionInv /\ StartedInv /\ MirrorInv => Mirrored
    <2> SUFFICES ASSUME ProjectionInv, MirrorInv PROVE Mirrored
      OBVIOUS
    <2>1. ASSUME Quiet, ~overlap, life = 1, NEW a \in Attempts
          PROVE  Shown(a) /\ PutAway(a)
      <3>1. Alone
        BY <2>1 DEF Alone, Attempts
      <3> QED
        BY <2>1, <3>1, NothingOwed DEF MirrorInv
    <2> QED
      BY <2>1 DEF MirrorInv, CloseInv, Mirrored
  <1>2. Init => ProjectionInv /\ StartedInv /\ MirrorInv
    BY InitProjection, InitStarted, InitMirror
  <1>3. ProjectionInv /\ StartedInv /\ MirrorInv /\ [Next]_vars
            => (ProjectionInv /\ StartedInv /\ MirrorInv)'
    BY NextProjection, NextStarted, NextMirror
  <1> QED
    BY <1>1, <1>2, <1>3, PTL DEF Spec

=============================================================================
