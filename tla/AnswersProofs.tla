---------------------------- MODULE AnswersProofs ----------------------------
(***************************************************************************)
(* People's answers: what they are about, whose they are, and what follows *)
(* from them.  First those that come back by a signal (Inbound), then      *)
(* those that drive the older engine (Legacy).                             *)
(*                                                                         *)
(* What the inbox says of a signal is true, and a node is submitted only   *)
(* on behalf of somebody who did the work, for any number of people,       *)
(* workers, attempts and completions.                                      *)
(*                                                                         *)
(* Neither property is inductive.  The outcome a worker carries to the     *)
(* inbox and the task it saw are copies: what they say must stay true      *)
(* while the world moves on.  It does because attempts and versions only   *)
(* grow, because a node that is over stays over within its attempt, and    *)
(* because what somebody has done stays done.  What was looked at is as    *)
(* good as the node's version: as long as that is the same, so is the      *)
(* owner who was compared.                                                 *)
(***************************************************************************)
EXTENDS Inbound, Legacy, FiniteSetTheorems, TLAPS

NodeRow == [status: {"ready", "waiting"} \cup Ended, owner: People,
            version: 0 .. (scope.versions + 1), attempt: Attempts]
Task == [state: {"absent", "open", "done"}, who: People \cup {Nobody},
         by: People \cup {Nobody}, at: 0 .. MaxDone]
Row == [status: {"none", "pending", "verifying", "unverified", "exhausted", "verified",
                 "processing", "unprocessed", "processed"},
        tries: 0 .. MaxTries, seen: Seen, outcome: Outcomes,
        holder: Workers \cup {Nobody}, live: BOOLEAN]
Job == [pc: {"idle", "read", "seen", "unseen", "look", "submit", "decided", "failed"},
        id: Ids \cup {Idle.id}, seen: Seen, version: 0 .. (scope.versions + 1),
        outcome: Outcomes]

(* The node, its tasks and what people did. *)
WorldInv ==
    /\ scope \in Scopes /\ trouble \in 0 .. scope.trouble
    /\ node \in NodeRow
    /\ node.status \in {"ready", "waiting"} => node.version <= scope.versions
    /\ bound \subseteq Attempts /\ fresh \subseteq Attempts /\ submitted \subseteq Attempts
    /\ doneBy \subseteq Attempts \X People
    /\ task \in [Attempts -> Task]
    /\ \A a \in Attempts :
        /\ task[a].state # "absent" => a <= node.attempt
        /\ a \in bound => task[a].state # "absent"
        /\ task[a].state = "done" =>
             task[a].at >= 1 /\ <<a, task[a].by>> \in doneBy

(* What was seen was so at some time. *)
SeenTrue(id, s) == s.by # Nobody => <<id[2], s.by>> \in doneBy

OutcomeTrue(id, outcome) ==
    /\ outcome = "submitted" => id[2] \in submitted
    /\ outcome = "stale" => node.attempt > id[2]
    /\ outcome = "ended" =>
         node.attempt > id[2] \/ (node.attempt = id[2] /\ node.status \in Ended)

(* What a worker looked at before it submits. *)
LookedAt(id, version) ==
    /\ id[2] <= node.attempt /\ version <= node.version
    /\ version = node.version =>
         node.attempt = id[2] /\ <<node.attempt, node.owner>> \in doneBy

RowOK(id, r) == SeenTrue(id, r.seen) /\ OutcomeTrue(id, r.outcome)

JobOK(j) ==
    /\ j.pc # "idle" => j.id \in Ids
    /\ SeenTrue(j.id, j.seen) /\ OutcomeTrue(j.id, j.outcome)
    /\ j.pc = "submit" => LookedAt(j.id, j.version)

InboxInv == inbox \in [Ids -> Row] /\ \A id \in Ids : RowOK(id, inbox[id])
JobInv == job \in [Workers -> Job] /\ \A w \in Workers : JobOK(job[w])

InboundInv == WorldInv /\ InboxInv /\ JobInv

(* How the world moves on. *)
Advances ==
    /\ node'.attempt >= node.attempt /\ node'.version >= node.version
    /\ node'.version = node.version => node' = node
    /\ node'.attempt = node.attempt /\ node.status \in Ended => node'.status \in Ended
    /\ doneBy \subseteq doneBy' /\ submitted \subseteq submitted'

-----------------------------------------------------------------------------
(* The bounds are numbers. *)
LEMMA Bounds ==
    ASSUME scope \in Scopes
    PROVE  /\ scope.versions \in Nat /\ scope.done \in 1 .. MaxDone
           /\ scope.trouble \in Nat /\ MaxDone \in Nat \ {0} /\ MaxTries \in Nat \ {0}
           /\ MaxAttempt \in Nat \ {0} /\ 1 \in Attempts /\ Attempts \subseteq Nat
  BY InboundAssumption DEF Attempts

(* Workers at rest and rows of signals that never came say nothing. *)
LEMMA Blank ==
    ASSUME scope \in Scopes
    PROVE  /\ NoRow \in Row /\ Idle \in Job /\ Idle.pc = "idle"
           /\ \A id : RowOK(id, NoRow)
           /\ JobOK(Idle)
  <1>1. NothingSeen \in Seen /\ NothingSeen.by = Nobody
    BY DEF NothingSeen, Seen
  <1>2. NoRow \in Row /\ \A id : RowOK(id, NoRow)
    BY <1>1, Bounds DEF NoRow, Row, Outcomes, RowOK, SeenTrue, OutcomeTrue
  <1>3. Idle \in Job /\ JobOK(Idle) /\ Idle.pc = "idle"
    BY <1>1, Bounds DEF Idle, Job, Outcomes, JobOK, SeenTrue, OutcomeTrue
  <1> QED
    BY <1>2, <1>3

(* Nothing has happened. *)
LEMMA InitInbound == Init => InboundInv
  <1> SUFFICES ASSUME Init PROVE InboundInv
    OBVIOUS
  <1>1. scope \in Scopes
    BY DEF Init
  <1>2. WorldInv
    <2>1. node \in NodeRow /\ node.version = 0 /\ node.attempt = 1
      BY <1>1, Bounds DEF Init, NodeRow
    <2>2. task \in [Attempts -> Task] /\ \A a \in Attempts : task[a].state = "absent"
      BY <1>1, Bounds DEF Init, Task
    <2> QED
      BY <1>1, <2>1, <2>2, Bounds DEF Init, WorldInv
  <1>3. InboxInv /\ JobInv
    BY <1>1, Blank DEF Init, InboxInv, JobInv
  <1> QED
    BY <1>2, <1>3 DEF InboundInv

-----------------------------------------------------------------------------
(* What is true stays true. *)

(* What somebody has done stays done. *)
LEMMA SeenStays ==
    ASSUME Advances, NEW id, NEW s, SeenTrue(id, s)
    PROVE  SeenTrue(id, s)'
  BY DEF Advances, SeenTrue

(* What became of a signal stays so. *)
LEMMA OutcomeStays ==
    ASSUME Advances, NEW id, NEW outcome, OutcomeTrue(id, outcome),
           node.attempt \in Nat, node'.attempt \in Nat, id[2] \in Nat
    PROVE  OutcomeTrue(id, outcome)'
  BY DEF Advances, OutcomeTrue

(* What was looked at is as good as the version of the node. *)
LEMMA LookStays ==
    ASSUME Advances, NEW id, NEW version, LookedAt(id, version),
           id[2] \in Nat, version \in Nat,
           node.attempt \in Nat, node'.attempt \in Nat,
           node.version \in Nat, node'.version \in Nat
    PROVE  LookedAt(id, version)'
  <1>1. id[2] <= node'.attempt /\ version <= node'.version
    BY DEF Advances, LookedAt
  <1>2. version = node'.version => node' = node
    BY DEF Advances, LookedAt
  <1> QED
    BY <1>1, <1>2 DEF Advances, LookedAt

(* The numbers of the node, now and after a step. *)
LEMMA Numbers ==
    ASSUME WorldInv
    PROVE  /\ node.attempt \in Attempts /\ node.attempt \in Nat /\ node.version \in Nat
           /\ node.owner \in People /\ scope \in Scopes
           /\ \A id \in Ids : id[2] \in Attempts /\ id[2] \in Nat
  <1>1. scope \in Scopes /\ node \in NodeRow
    BY DEF WorldInv
  <1>2. \A id \in Ids : id[2] \in Attempts
    BY DEF Ids
  <1> QED
    BY <1>1, <1>2, Bounds DEF NodeRow

(* They stay numbers. *)
LEMMA NumbersNext ==
    ASSUME WorldInv', scope' = scope
    PROVE  node'.attempt \in Nat /\ node'.version \in Nat
  <1>1. scope \in Scopes /\ node' \in NodeRow'
    BY DEF WorldInv
  <1> QED
    BY <1>1, Bounds DEF NodeRow

(* A copy stays true whatever the world does. *)
LEMMA RowStays ==
    ASSUME WorldInv, WorldInv', Advances, UNCHANGED scope, NEW id \in Ids, NEW row, RowOK(id, row)
    PROVE  RowOK(id, row)'
  <1>1. SeenTrue(id, row.seen)'
    BY SeenStays DEF RowOK
  <1>2. node.attempt \in Nat /\ node'.attempt \in Nat /\ id[2] \in Nat
    BY Numbers, NumbersNext
  <1>3. OutcomeTrue(id, row.outcome)'
    BY <1>2, OutcomeStays DEF RowOK
  <1> QED
    BY <1>1, <1>3 DEF RowOK

(* So does what a worker remembers. *)
LEMMA JobStays ==
    ASSUME WorldInv, WorldInv', Advances, UNCHANGED scope, NEW j \in Job, JobOK(j)
    PROVE  JobOK(j)'
  <1>1. SeenTrue(j.id, j.seen)'
    BY SeenStays DEF JobOK
  <1>2. /\ node.attempt \in Nat /\ node'.attempt \in Nat /\ j.id[2] \in Nat
        /\ node.version \in Nat /\ node'.version \in Nat /\ j.version \in Nat
    <2>1. j.id \in Ids \/ j.id[2] = 0
      BY DEF Job, Idle
    <2>2. j.version \in Nat
      BY Numbers, Bounds DEF Job
    <2> QED
      BY <2>1, <2>2, Numbers, NumbersNext
  <1>3. OutcomeTrue(j.id, j.outcome)'
    BY <1>2, OutcomeStays DEF JobOK
  <1>4. j.pc = "submit" => LookedAt(j.id, j.version)'
    BY <1>2, LookStays DEF JobOK
  <1> QED
    BY <1>1, <1>3, <1>4 DEF JobOK

(* A step after which the copies that were touched are true. *)
LEMMA CopiesStay ==
    ASSUME InboundInv, WorldInv', Advances, UNCHANGED scope,
           inbox' \in [Ids -> Row], job' \in [Workers -> Job],
           \A id \in Ids : inbox'[id] = inbox[id] \/ RowOK(id, inbox[id])',
           \A w \in Workers : job'[w] = job[w] \/ JobOK(job[w])'
    PROVE  InboundInv'
  <1>1. Row' = Row /\ Job' = Job
    BY DEF Row, Job
  <1>2. ASSUME NEW id \in Ids
        PROVE  RowOK(id, inbox[id])'
    <2>1. CASE inbox'[id] = inbox[id]
      <3>1. PICK row : row = inbox[id]
        OBVIOUS
      <3>2. RowOK(id, row)'
        BY <3>1, RowStays DEF InboundInv, InboxInv
      <3> QED
        BY <2>1, <3>1, <3>2
    <2> QED
      BY <2>1
  <1>3. ASSUME NEW w \in Workers
        PROVE  JobOK(job[w])'
    <2>1. CASE job'[w] = job[w]
      <3>1. PICK j \in Job : j = job[w]
        BY DEF InboundInv, JobInv
      <3>2. JobOK(j)'
        BY <3>1, JobStays DEF InboundInv, JobInv
      <3> QED
        BY <2>1, <3>1, <3>2
    <2> QED
      BY <2>1
  <1> QED
    BY <1>1, <1>2, <1>3 DEF InboundInv, InboxInv, JobInv

-----------------------------------------------------------------------------
(* The node and its tasks *)

(* A command of the node, whatever else of it changes. *)
LEMMA NodeStep ==
    ASSUME WorldInv, UNCHANGED <<scope, trouble, submitted, bound, task, doneBy>>,
           NEW n \in NodeRow, Change(n), n.version = node.version,
           n.attempt >= node.attempt,
           node.status \notin Ended \/ n.attempt > node.attempt
    PROVE  WorldInv' /\ Advances
  <1>1. /\ NodeRow' = NodeRow /\ node.attempt \in Nat /\ n.attempt \in Nat
        /\ node.version \in Nat /\ scope.versions \in Nat /\ node.version < scope.versions
        /\ n.status \in {"ready", "waiting"} \cup Ended /\ n.owner \in People
        /\ n.attempt \in Attempts
    BY Numbers, Bounds DEF NodeRow, Change
  <1>2. PICK v \in 0 .. (scope.versions + 1) : v = node.version + 1
    BY <1>1
  <1>3. node' = [n EXCEPT !.version = v] /\ fresh' = {}
    BY <1>2 DEF Change
  <1>4. node' \in NodeRow /\ node'.version = v /\ node'.attempt = n.attempt
    BY <1>1, <1>2, <1>3 DEF NodeRow
  <1>5. v > node.version /\ v <= scope.versions
    BY <1>1, <1>2
  <1>6. Advances
    BY <1>1, <1>4, <1>5 DEF Advances
  <1>7. \A a \in Attempts : a <= node.attempt => a <= node'.attempt
    BY <1>1, <1>4, Numbers, Bounds
  <1> QED
    BY <1>1, <1>3, <1>4, <1>5, <1>6, <1>7 DEF WorldInv

(* A change of a task that is there or is created now. *)
LEMMA TaskStep ==
    ASSUME WorldInv, UNCHANGED <<scope, trouble, submitted, node>>,
           NEW a \in Attempts, NEW t \in Task, task' = [task EXCEPT ![a] = t],
           t.state # "absent", a <= node.attempt,
           doneBy \subseteq doneBy', doneBy' \subseteq Attempts \X People,
           t.state = "done" => t.at >= 1 /\ <<a, t.by>> \in doneBy',
           fresh' \subseteq Attempts, bound' = bound
    PROVE  WorldInv' /\ Advances
  <1>1. Advances
    BY Numbers DEF Advances
  <1>2. task' \in [Attempts -> Task]
        /\ \A b \in Attempts : task'[b] = IF b = a THEN t ELSE task[b]
    BY DEF WorldInv
  <1>3. \A b \in Attempts :
          /\ task'[b].state # "absent" => b <= node.attempt
          /\ b \in bound => task'[b].state # "absent"
          /\ task'[b].state = "done" => task'[b].at >= 1 /\ <<b, task'[b].by>> \in doneBy'
    BY <1>2 DEF WorldInv
  <1> QED
    BY <1>1, <1>2, <1>3 DEF WorldInv, NodeRow

(* Whatever happens around the inbox, the copies in it stay true. *)
LEMMA WorldStep ==
    ASSUME InboundInv, World, UNCHANGED scope
    PROVE  WorldInv' /\ Advances
  <1>1. UNCHANGED <<scope, trouble, submitted>> /\ WorldInv
    BY DEF World, InboundInv
  <1>2. /\ node \in NodeRow /\ node.version \in Nat /\ node.attempt \in Nat
        /\ node.attempt \in Attempts /\ scope.versions \in Nat
    BY <1>1, Numbers, Bounds DEF WorldInv
  <1>3. CASE \E p \in People : Transfer(p)
    <2>1. PICK p \in People : Transfer(p)
      BY <1>3
    <2>2. PICK n : n = [node EXCEPT !.owner = p]
      OBVIOUS
    <2>3. n \in NodeRow /\ n.version = node.version /\ n.attempt = node.attempt
      BY <1>2, <2>2 DEF NodeRow
    <2>4. /\ Change(n) /\ UNCHANGED <<bound, task, doneBy>>
          /\ node.status \notin Ended
      BY <2>1, <2>2 DEF Transfer, Change, Ended
    <2> QED
      BY <1>1, <1>2, <2>3, <2>4, NodeStep
  <1>4. CASE \E s \in Ended : End(s)
    <2>1. PICK s \in Ended : End(s)
      BY <1>4
    <2>2. PICK n : n = [node EXCEPT !.status = s]
      OBVIOUS
    <2>3. n \in NodeRow /\ n.version = node.version /\ n.attempt = node.attempt
      BY <1>2, <2>2 DEF NodeRow
    <2>4. /\ Change(n) /\ UNCHANGED <<bound, task, doneBy>>
          /\ node.status \notin Ended
      BY <2>1, <2>2 DEF End, Change, Ended
    <2> QED
      BY <1>1, <1>2, <2>3, <2>4, NodeStep
  <1>5. CASE Restart
    <2>1. /\ node.attempt < MaxAttempt /\ MaxAttempt \in Nat
          /\ node.status \in {"waiting", "done"}
      BY <1>5, <1>1, Bounds DEF Restart, WorldInv
    <2>2. PICK a \in Attempts : a = node.attempt + 1
      BY <1>2, <2>1 DEF Attempts
    <2>3. PICK n : n = [node EXCEPT !.status = "ready", !.attempt = a]
      OBVIOUS
    <2>4. n \in NodeRow /\ n.version = node.version /\ n.attempt = a
      BY <1>2, <2>2, <2>3 DEF NodeRow
    <2>5. Change(n) /\ UNCHANGED <<bound, task, doneBy>>
      BY <1>5, <2>2, <2>3 DEF Restart, Change
    <2>6. n.attempt > node.attempt /\ n.attempt >= node.attempt
      BY <1>2, <2>2, <2>4
    <2> QED
      BY <1>1, <2>4, <2>5, <2>6, NodeStep
  <1>6. CASE Activate
    <2>1. PICK n : n = [node EXCEPT !.status = "waiting"]
      OBVIOUS
    <2>2. n \in NodeRow /\ n.version = node.version /\ n.attempt = node.attempt
      BY <1>2, <2>1 DEF NodeRow
    <2>3. /\ Change(n) /\ UNCHANGED <<bound, task, doneBy>>
          /\ node.status \notin Ended
      BY <1>6, <2>1 DEF Activate, Change, Ended
    <2> QED
      BY <1>1, <1>2, <2>2, <2>3, NodeStep
  <1>7. CASE CreateTask
    <2>1. PICK a \in Attempts : a = node.attempt
      BY <1>2
    <2> DEFINE t == [task[a] EXCEPT !.state = "open", !.who = node.owner]
    <2>2. task \in [Attempts -> Task] /\ node.owner \in People
      BY <1>1, Numbers DEF WorldInv
    <2>3. /\ task' = [task EXCEPT ![a].state = "open", ![a].who = node.owner]
          /\ UNCHANGED <<node, bound, fresh, doneBy>>
      BY <1>7, <2>1 DEF CreateTask
    <2>4. t \in Task /\ t.state = "open" /\ task' = [task EXCEPT ![a] = t]
      BY <2>2, <2>3 DEF Task
    <2>5. doneBy \subseteq Attempts \X People /\ fresh \subseteq Attempts /\ a <= node.attempt
      BY <1>1, <1>2, <2>1 DEF WorldInv
    <2> HIDE DEF t
    <2>6. PICK r \in Task : r = t
      BY <2>4
    <2> QED
      BY <1>1, <2>3, <2>4, <2>5, <2>6, TaskStep
  <1>8. CASE \E a \in Attempts : SaveProjection(a)
    <2>1. PICK a \in Attempts : /\ task[a].state # "absent" /\ bound' = bound \cup {a}
                                /\ UNCHANGED <<node, task, fresh, doneBy>>
      BY <1>8 DEF SaveProjection
    <2>2. Advances
      BY <1>1, <1>2, <2>1 DEF Advances
    <2> QED
      BY <1>1, <2>1, <2>2 DEF WorldInv, NodeRow
  <1>9. CASE \E a \in Attempts : Reopen(a)
    <2>1. PICK a \in Attempts : Reopen(a)
      BY <1>9
    <2> DEFINE t == [task[a] EXCEPT !.state = "open"]
    <2>2. /\ task[a].state = "done" /\ task' = [task EXCEPT ![a] = t]
          /\ UNCHANGED <<node, bound, fresh, doneBy>>
      BY <2>1 DEF Reopen
    <2>3. t \in Task /\ t.state = "open"
      BY <1>1 DEF WorldInv, Task
    <2>4. a <= node.attempt /\ doneBy \subseteq Attempts \X People /\ fresh \subseteq Attempts
      BY <1>1, <2>2 DEF WorldInv
    <2> HIDE DEF t
    <2> QED
      BY <1>1, <2>2, <2>3, <2>4, TaskStep
  <1>10. CASE \E s \in {"open", "done"} : Reassign(s)
    <2>1. PICK s \in {"open", "done"} : Reassign(s)
      BY <1>10
    <2>2. PICK a \in Attempts : a = node.attempt
      BY <1>2
    <2> DEFINE t == [task[a] EXCEPT !.who = node.owner, !.state = s]
    <2>3. /\ a \in bound /\ s \in {"open", task[a].state}
          /\ task' = [task EXCEPT ![a].who = node.owner, ![a].state = s]
          /\ fresh' = fresh \ {a} /\ UNCHANGED <<node, bound, doneBy>>
      BY <2>1, <2>2 DEF Reassign
    <2>4. task[a] \in Task /\ task \in [Attempts -> Task] /\ node.owner \in People
      BY <1>1, Numbers DEF WorldInv
    <2>5. t \in Task /\ t.state = s /\ t.at = task[a].at /\ t.by = task[a].by
          /\ task' = [task EXCEPT ![a] = t]
      BY <2>3, <2>4 DEF Task
    <2>6. /\ a <= node.attempt /\ doneBy \subseteq Attempts \X People
          /\ fresh \subseteq Attempts
          /\ task[a].state = "done" => task[a].at >= 1 /\ <<a, task[a].by>> \in doneBy
      BY <1>1, <2>3 DEF WorldInv
    <2> HIDE DEF t
    <2> QED
      BY <1>1, <2>3, <2>5, <2>6, TaskStep
  <1>11. CASE \E a \in Attempts, p \in People : CompleteTask(a, p)
    <2>1. PICK a \in Attempts, p \in People : CompleteTask(a, p)
      BY <1>11
    <2> DEFINE t == [task[a] EXCEPT !.state = "done", !.by = p, !.at = @ + 1]
    <2>2. /\ task[a].state = "open" /\ task[a].at < scope.done
          /\ task' = [task EXCEPT ![a].state = "done", ![a].by = p, ![a].at = @ + 1]
          /\ fresh' = fresh \cup {a} /\ doneBy' = doneBy \cup {<<a, p>>}
          /\ UNCHANGED <<node, bound>>
      BY <2>1 DEF CompleteTask
    <2>3. task[a] \in Task /\ task \in [Attempts -> Task] /\ scope \in Scopes
      BY <1>1 DEF WorldInv
    <2>4. task[a].at + 1 \in 0 .. MaxDone /\ task[a].at + 1 >= 1
      BY <2>2, <2>3, Bounds DEF Task
    <2>5. t \in Task /\ t.at = task[a].at + 1 /\ t.by = p /\ t.state = "done"
          /\ task' = [task EXCEPT ![a] = t]
      BY <2>2, <2>3, <2>4 DEF Task
    <2>6. /\ a <= node.attempt /\ doneBy \subseteq Attempts \X People
          /\ fresh \subseteq Attempts
      BY <1>1, <2>2 DEF WorldInv
    <2>7. /\ t.at >= 1 /\ <<a, t.by>> \in doneBy' /\ doneBy \subseteq doneBy'
          /\ doneBy' \subseteq Attempts \X People /\ fresh' \subseteq Attempts
      BY <2>2, <2>4, <2>5, <2>6
    <2> HIDE DEF t
    <2> QED
      BY <1>1, <2>2, <2>5, <2>6, <2>7, TaskStep
  <1> QED
    BY <1>3, <1>4, <1>5, <1>6, <1>7, <1>8, <1>9, <1>10, <1>11 DEF World

-----------------------------------------------------------------------------
(* Steps that leave the world alone *)

(* A step of a poller or a worker that writes only what is true. *)
LEMMA InboxStep ==
    ASSUME InboundInv, UNCHANGED <<scope, world, submitted>>, Spend \/ UNCHANGED trouble,
           inbox' \in [Ids -> Row], job' \in [Workers -> Job],
           \A id \in Ids : inbox'[id] = inbox[id] \/ RowOK(id, inbox'[id]),
           \A w \in Workers : job'[w] = job[w] \/ JobOK(job'[w])
    PROVE  InboundInv'
  <1>1. WorldInv /\ UNCHANGED <<scope, node, bound, task, fresh, doneBy, submitted>>
    BY DEF InboundInv, world
  <1>2. trouble' \in 0 .. scope.trouble
    BY <1>1, Bounds DEF WorldInv, Spend
  <1>3. WorldInv'
    BY <1>1, <1>2 DEF WorldInv, NodeRow
  <1>4. Advances
    BY <1>1, Numbers DEF Advances
  <1>5. \A id \in Ids : inbox'[id] = inbox[id] \/ RowOK(id, inbox[id])'
    BY <1>1 DEF RowOK, SeenTrue, OutcomeTrue
  <1>6. \A w \in Workers : job'[w] = job[w] \/ JobOK(job[w])'
    BY <1>1 DEF JobOK, SeenTrue, OutcomeTrue, LookedAt
  <1> QED
    BY <1>1, <1>3, <1>4, <1>5, <1>6, CopiesStay

(* It writes one row. *)
LEMMA RowStep ==
    ASSUME InboundInv, UNCHANGED <<scope, world, submitted, job>>, Spend \/ UNCHANGED trouble,
           NEW id \in Ids, NEW r \in Row, RowOK(id, r), inbox' = [inbox EXCEPT ![id] = r]
    PROVE  InboundInv'
  <1>1. inbox' \in [Ids -> Row] /\ job' \in [Workers -> Job]
    BY DEF InboundInv, InboxInv, JobInv
  <1>2. \A i \in Ids : inbox'[i] = inbox[i] \/ RowOK(i, inbox'[i])
    BY DEF InboundInv, InboxInv
  <1>3. \A w \in Workers : job'[w] = job[w] \/ JobOK(job'[w])
    OBVIOUS
  <1> QED
    BY <1>1, <1>2, <1>3, InboxStep

(* It changes what one worker remembers. *)
LEMMA JobStep ==
    ASSUME InboundInv, UNCHANGED <<scope, world, submitted, inbox>>, Spend \/ UNCHANGED trouble,
           NEW w \in Workers, NEW j \in Job, JobOK(j), job' = [job EXCEPT ![w] = j]
    PROVE  InboundInv'
  <1>1. inbox' \in [Ids -> Row] /\ job' \in [Workers -> Job]
    BY DEF InboundInv, InboxInv, JobInv
  <1>2. \A v \in Workers : job'[v] = job[v] \/ JobOK(job'[v])
    BY DEF InboundInv, JobInv
  <1>3. \A i \in Ids : inbox'[i] = inbox[i] \/ RowOK(i, inbox'[i])
    OBVIOUS
  <1> QED
    BY <1>1, <1>2, <1>3, InboxStep

(* It does both. *)
LEMMA LeaseStep ==
    ASSUME InboundInv, UNCHANGED <<scope, world, submitted, trouble>>,
           NEW id \in Ids, NEW r \in Row, RowOK(id, r), inbox' = [inbox EXCEPT ![id] = r],
           NEW w \in Workers, NEW j \in Job, JobOK(j), job' = [job EXCEPT ![w] = j]
    PROVE  InboundInv'
  <1>1. inbox' \in [Ids -> Row] /\ job' \in [Workers -> Job]
    BY DEF InboundInv, InboxInv, JobInv
  <1>2. \A i \in Ids : inbox'[i] = inbox[i] \/ RowOK(i, inbox'[i])
    BY DEF InboundInv, InboxInv
  <1>3. \A v \in Workers : job'[v] = job[v] \/ JobOK(job'[v])
    BY DEF InboundInv, JobInv
  <1> QED
    BY <1>1, <1>2, <1>3, InboxStep

(* The row a worker works for, and what the worker knows. *)
LEMMA AtWork ==
    ASSUME InboundInv, NEW w \in Workers, job[w].pc # "idle"
    PROVE  /\ job[w] \in Job /\ JobOK(job[w]) /\ job[w].id \in Ids
           /\ inbox[job[w].id] \in Row /\ RowOK(job[w].id, inbox[job[w].id])
           /\ inbox \in [Ids -> Row] /\ job \in [Workers -> Job]
  <1>1. job[w] \in Job /\ JobOK(job[w])
    BY DEF InboundInv, JobInv
  <1>2. job[w].id \in Ids
    BY <1>1 DEF JobOK
  <1> QED
    BY <1>1, <1>2 DEF InboundInv, InboxInv, JobInv

(* A signal arrives, for the first time or again. *)
LEMMA AppendStep ==
    ASSUME InboundInv, NEW id \in Ids, Append(id), UNCHANGED <<scope, world, submitted, job, trouble>>
    PROVE  InboundInv'
  <1>1. PICK r : r = [inbox[id] EXCEPT !.status = "pending"]
    OBVIOUS
  <1>2. inbox[id] \in Row /\ RowOK(id, inbox[id]) /\ inbox \in [Ids -> Row]
    BY DEF InboundInv, InboxInv
  <1>3. r \in Row /\ r.seen = inbox[id].seen /\ r.outcome = inbox[id].outcome
    BY <1>1, <1>2 DEF Row
  <1>4. RowOK(id, r)
    BY <1>2, <1>3 DEF RowOK
  <1>5. inbox' = inbox \/ inbox' = [inbox EXCEPT ![id] = r]
    BY <1>1 DEF Append
  <1>6. inbox' = inbox => inbox' = [inbox EXCEPT ![id] = inbox[id]]
    BY <1>2
  <1>7. PICK q : q = inbox[id]
    OBVIOUS
  <1> QED
    BY <1>2, <1>3, <1>4, <1>5, <1>6, <1>7, RowStep

(* The poller names a completion there has been. *)
LEMMA PollStep ==
    ASSUME InboundInv, Poll, UNCHANGED scope
    PROVE  InboundInv'
  <1>1. WorldInv /\ scope \in Scopes /\ node.attempt \in Attempts
    BY Numbers DEF InboundInv
  <1>2. PICK a \in Attempts : a = node.attempt
    BY <1>1
  <1>3. task[a] \in Task /\ task[a].state = "done" /\ task[a].at >= 1
    BY <1>1, <1>2 DEF Poll, WorldInv
  <1>4. task[a].at \in 1 .. MaxDone
    BY <1>1, <1>3, Bounds DEF Task
  <1>5. PICK id \in Ids : id = Signal(a)
    BY <1>4 DEF Ids, Signal
  <1>6. Append(id) /\ UNCHANGED <<scope, world, submitted, job, trouble>>
    BY <1>2, <1>5 DEF Poll, Append
  <1> QED
    BY <1>6, AppendStep

(* A worker takes a row, with a fresh memory. *)
LEMMA ClaimStep ==
    ASSUME InboundInv, UNCHANGED scope, NEW w \in Workers, NEW id \in Ids,
           NEW to \in {"verifying", "processing"}, NEW pc \in {"read", "look"},
           Claim(w, id, to, pc)
    PROVE  InboundInv'
  <1>1. /\ inbox[id] \in Row /\ RowOK(id, inbox[id]) /\ inbox \in [Ids -> Row]
        /\ job \in [Workers -> Job] /\ scope \in Scopes
    BY DEF InboundInv, InboxInv, JobInv, WorldInv
  <1>2. PICK n : n = IF to = "verifying" /\ inbox[id].tries < MaxTries
                     THEN inbox[id].tries + 1 ELSE inbox[id].tries
    OBVIOUS
  <1>3. n \in 0 .. MaxTries
    BY <1>1, <1>2, Bounds DEF Row
  <1>4. PICK r : r = [inbox[id] EXCEPT !.status = to, !.holder = w, !.live = TRUE,
                                       !.tries = n]
    OBVIOUS
  <1>5. r \in Row /\ r.seen = inbox[id].seen /\ r.outcome = inbox[id].outcome
    BY <1>1, <1>3, <1>4 DEF Row
  <1>6. inbox' = [inbox EXCEPT ![id] = r]
    BY <1>1, <1>2, <1>4 DEF Claim, Row
  <1>7. PICK j : j = [Idle EXCEPT !.pc = pc, !.id = id]
    OBVIOUS
  <1>8. j \in Job /\ JobOK(j)
    <2>1. Idle \in Job /\ JobOK(Idle)
      BY <1>1, Blank
    <2>2. j \in Job /\ j.pc = pc /\ j.id = id /\ j.seen = NothingSeen /\ j.outcome = "none"
      BY <1>7, <2>1 DEF Job, Idle
    <2> QED
      BY <2>2 DEF JobOK, SeenTrue, OutcomeTrue, NothingSeen
  <1>9. RowOK(id, r)
    BY <1>1, <1>5 DEF RowOK
  <1> QED
    BY <1>5, <1>6, <1>7, <1>8, <1>9, LeaseStep DEF Claim

(* A worker is done with its row. *)
LEMMA SettleStep ==
    ASSUME InboundInv, UNCHANGED <<scope, world, submitted, trouble>>,
           NEW w \in Workers, job[w].pc # "idle", NEW row \in Row, RowOK(job[w].id, row),
           Settle(w, row)
    PROVE  InboundInv'
  <1>1. /\ job[w].id \in Ids /\ inbox \in [Ids -> Row] /\ job \in [Workers -> Job]
        /\ scope \in Scopes
    BY AtWork DEF InboundInv, WorldInv
  <1>2. PICK id \in Ids : id = job[w].id
    BY <1>1
  <1>3. PICK r : r = [row EXCEPT !.holder = Nobody, !.live = FALSE]
    OBVIOUS
  <1>4. r \in Row /\ r.seen = row.seen /\ r.outcome = row.outcome
    BY <1>3 DEF Row
  <1>5. RowOK(id, r)
    BY <1>2, <1>4 DEF RowOK
  <1>6. inbox' = [inbox EXCEPT ![id] = r] /\ job' = [job EXCEPT ![w] = Idle]
    BY <1>2, <1>3 DEF Settle
  <1>7. PICK j \in Job : j = Idle /\ JobOK(j)
    BY <1>1, Blank
  <1> QED
    BY <1>4, <1>5, <1>6, <1>7, LeaseStep

(* A worker gives up its row, or dies. *)
LEMMA ForgetStep ==
    ASSUME InboundInv, UNCHANGED <<scope, world, submitted, inbox>>, Spend \/ UNCHANGED trouble,
           NEW w \in Workers, job' = [job EXCEPT ![w] = Idle]
    PROVE  InboundInv'
  <1>1. PICK j \in Job : j = Idle /\ JobOK(j)
    BY Blank DEF InboundInv, WorldInv
  <1> QED
    BY <1>1, JobStep

(* A lease runs out. *)
LEMMA LeaseEndsStep ==
    ASSUME InboundInv, UNCHANGED scope, NEW id \in Ids, LeaseEnds(id)
    PROVE  InboundInv'
  <1>1. inbox[id] \in Row /\ RowOK(id, inbox[id]) /\ inbox \in [Ids -> Row]
    BY DEF InboundInv, InboxInv
  <1>2. PICK r : r = [inbox[id] EXCEPT !.live = FALSE]
    OBVIOUS
  <1>3. r \in Row /\ r.seen = inbox[id].seen /\ r.outcome = inbox[id].outcome
    BY <1>1, <1>2 DEF Row
  <1>4. RowOK(id, r)
    BY <1>1, <1>3 DEF RowOK
  <1>5. inbox' = [inbox EXCEPT ![id] = r]
    BY <1>2 DEF LeaseEnds
  <1> QED
    BY <1>3, <1>4, <1>5, RowStep DEF LeaseEnds

-----------------------------------------------------------------------------
(* The two workers *)

(* The task was completed by whom it says. *)
LEMMA ReadTaskStep ==
    ASSUME InboundInv, UNCHANGED scope, NEW w \in Workers, ReadTask(w)
    PROVE  InboundInv'
  <1>1. /\ job[w] \in Job /\ JobOK(job[w]) /\ job[w].id \in Ids /\ WorldInv
        /\ job[w].pc = "read" /\ job \in [Workers -> Job]
    BY AtWork DEF ReadTask, InboundInv
  <1>2. PICK a \in Attempts : a = job[w].id[2]
    BY <1>1, Numbers
  <1>3. /\ task[a] \in Task
        /\ task[a].state = "done" => <<a, task[a].by>> \in doneBy
    BY <1>1 DEF WorldInv
  <1>4. CASE /\ task[a].state = "done" /\ UNCHANGED trouble
             /\ job' = [job EXCEPT ![w].pc = "seen", ![w].seen = [who |-> task[a].who,
                                                                 by |-> task[a].by]]
    <2>1. PICK s : s = [who |-> task[a].who, by |-> task[a].by]
      OBVIOUS
    <2>2. s \in Seen /\ s.by = task[a].by
      BY <1>3, <2>1 DEF Seen, Task
    <2>3. PICK j : j = [job[w] EXCEPT !.pc = "seen", !.seen = s]
      OBVIOUS
    <2>4. /\ j \in Job /\ j.pc = "seen" /\ j.seen = s
          /\ j.id = job[w].id /\ j.outcome = job[w].outcome
      BY <1>1, <2>2, <2>3 DEF Job
    <2>5. JobOK(j)
      BY <1>1, <1>2, <1>3, <1>4, <2>2, <2>4 DEF JobOK, SeenTrue
    <2>6. job' = [job EXCEPT ![w] = j]
      BY <1>1, <1>4, <2>1, <2>3 DEF Job
    <2> QED
      BY <1>4, <2>4, <2>5, <2>6, JobStep DEF ReadTask
  <1>5. CASE job' = [job EXCEPT ![w].pc = "unseen"] /\ (Spend \/ UNCHANGED trouble)
    <2>1. PICK j : j = [job[w] EXCEPT !.pc = "unseen"]
      OBVIOUS
    <2>2. /\ j \in Job /\ j.pc = "unseen" /\ j.seen = job[w].seen
          /\ j.id = job[w].id /\ j.outcome = job[w].outcome
      BY <1>1, <2>1 DEF Job
    <2>3. JobOK(j)
      BY <1>1, <2>2 DEF JobOK
    <2>4. job' = [job EXCEPT ![w] = j]
      BY <1>5, <2>1
    <2> QED
      BY <1>5, <2>2, <2>3, <2>4, JobStep DEF ReadTask
  <1> QED
    BY <1>2, <1>4, <1>5 DEF ReadTask

(* mark_inbox_verified keeps what was seen; a failure keeps the row. *)
LEMMA VerifiedStep ==
    ASSUME InboundInv, UNCHANGED scope, NEW w \in Workers, MarkVerified(w) \/ MarkUnverified(w)
    PROVE  InboundInv'
  <1>1. /\ job[w].pc # "idle" /\ job[w] \in Job /\ JobOK(job[w]) /\ job[w].id \in Ids
        /\ inbox[job[w].id] \in Row /\ RowOK(job[w].id, inbox[job[w].id])
        /\ scope \in Scopes
    <2>1. job[w].pc # "idle"
      BY DEF MarkVerified, MarkUnverified
    <2> QED
      BY <2>1, AtWork DEF InboundInv, WorldInv
  <1>2. CASE MarkVerified(w)
    <2>1. PICK r : r = [inbox[job[w].id] EXCEPT !.status = "verified", !.tries = 0,
                                                !.seen = job[w].seen]
      OBVIOUS
    <2>2. r \in Row /\ r.seen = job[w].seen /\ r.outcome = inbox[job[w].id].outcome
      <3>1. PICK q \in Row : q = inbox[job[w].id]
        BY <1>1
      <3>2. PICK s \in Seen : s = job[w].seen
        BY <1>1 DEF Job
      <3>3. 0 \in 0 .. MaxTries
        BY <1>1, Bounds
      <3>4. r = [q EXCEPT !.status = "verified", !.tries = 0, !.seen = s]
        BY <2>1, <3>1, <3>2
      <3> QED
        BY <3>1, <3>2, <3>3, <3>4 DEF Row
    <2>3. RowOK(job[w].id, r)
      BY <1>1, <2>2 DEF RowOK, JobOK
    <2>4. Settle(w, r)
      BY <1>2, <2>1 DEF MarkVerified, Settle
    <2> QED
      BY <1>1, <1>2, <2>2, <2>3, <2>4, SettleStep DEF MarkVerified
  <1>3. CASE MarkUnverified(w)
    <2>1. PICK r : r = [inbox[job[w].id] EXCEPT
                          !.status = AfterFailure(inbox[job[w].id])]
      OBVIOUS
    <2>2. /\ r \in Row /\ r.seen = inbox[job[w].id].seen
          /\ r.outcome = inbox[job[w].id].outcome
      BY <1>1, <2>1 DEF Row, AfterFailure
    <2>3. RowOK(job[w].id, r)
      BY <1>1, <2>2 DEF RowOK
    <2>4. Settle(w, r)
      BY <1>3, <2>1 DEF MarkUnverified, Settle
    <2> QED
      BY <1>1, <1>3, <2>2, <2>3, <2>4, SettleStep DEF MarkUnverified
  <1> QED
    BY <1>2, <1>3

(* What _process finds is so, now: an attempt that has a row is not in the *)
(* future, and who completed the task of the owner's was the owner. *)
LEMMA Judged ==
    ASSUME WorldInv, NEW id \in Ids, NEW s \in Seen, SeenTrue(id, s)
    PROVE  /\ Judgement(id, s) \in Outcomes
           /\ OutcomeTrue(id, Judgement(id, s))
           /\ Judgement(id, s) = "submit" => LookedAt(id, node.version)
  <1>1. /\ id[2] \in Attempts /\ id[2] \in Nat /\ node.attempt \in Nat
        /\ node.version \in Nat /\ node.owner \in People
    BY Numbers
  <1>2. id[2] \in bound => id[2] <= node.attempt
    BY <1>1 DEF WorldInv
  <1>3. CASE id[2] \notin bound
    <2>1. Judgement(id, s) = "unbound"
      BY <1>3 DEF Judgement
    <2> QED
      BY <2>1 DEF Outcomes, OutcomeTrue
  <1>4. CASE id[2] \in bound /\ id[2] # node.attempt
    <2>1. Judgement(id, s) = "stale"
      BY <1>4 DEF Judgement
    <2> QED
      BY <1>1, <1>2, <1>4, <2>1 DEF Outcomes, OutcomeTrue
  <1>5. CASE id[2] \in bound /\ id[2] = node.attempt /\ node.status \in Ended
    <2>1. Judgement(id, s) = "ended"
      BY <1>5 DEF Judgement
    <2> QED
      BY <1>5, <2>1 DEF Outcomes, OutcomeTrue
  <1>6. CASE id[2] \in bound /\ id[2] = node.attempt /\ node.status \notin Ended
    <2>1. Judgement(id, s) = IF node.status = "waiting" /\ Accepts(s)
                                THEN "submit" ELSE "rejected"
      BY <1>6 DEF Judgement
    <2>2. node.owner # Nobody
      BY <1>1, InboundAssumption
    <2>3. Accepts(s) => <<node.attempt, node.owner>> \in doneBy
      BY <1>6, <2>2 DEF Accepts, SeenTrue
    <2> QED
      BY <1>1, <1>2, <1>6, <2>1, <2>3 DEF Outcomes, OutcomeTrue, LookedAt
  <1> QED
    BY <1>3, <1>4, <1>5, <1>6

(* The worker remembers what it found. *)
LEMMA LookStep ==
    ASSUME InboundInv, UNCHANGED scope, NEW w \in Workers, Look(w)
    PROVE  InboundInv'
  <1>1. /\ job[w] \in Job /\ JobOK(job[w]) /\ job[w].id \in Ids /\ WorldInv
        /\ inbox[job[w].id] \in Row /\ RowOK(job[w].id, inbox[job[w].id])
        /\ job \in [Workers -> Job] /\ job[w].pc = "look"
    BY AtWork DEF Look, InboundInv
  <1>2. PICK id \in Ids : id = job[w].id
    BY <1>1
  <1>3. PICK s \in Seen : s = inbox[id].seen
    BY <1>1, <1>2 DEF Row
  <1>4. PICK o : o = Judgement(id, s)
    OBVIOUS
  <1>5. o \in Outcomes /\ OutcomeTrue(id, o) /\ (o = "submit" => LookedAt(id, node.version))
    BY <1>1, <1>2, <1>3, <1>4, Judged DEF RowOK
  <1>6. PICK v : v = node.version
    OBVIOUS
  <1>7. v \in 0 .. (scope.versions + 1)
    BY <1>1, <1>6 DEF WorldInv, NodeRow
  <1>8. PICK j : j = [job[w] EXCEPT !.pc = IF o = "submit" THEN "submit" ELSE "decided",
                                    !.outcome = o, !.version = v]
    OBVIOUS
  <1>9. /\ j \in Job /\ j.pc = (IF o = "submit" THEN "submit" ELSE "decided")
        /\ j.outcome = o /\ j.version = v /\ j.id = id /\ j.seen = job[w].seen
    BY <1>1, <1>2, <1>5, <1>7, <1>8 DEF Job
  <1>10. JobOK(j)
    BY <1>1, <1>2, <1>5, <1>6, <1>9 DEF JobOK
  <1>11. job' = [job EXCEPT ![w] = j]
    BY <1>1, <1>2, <1>3, <1>4, <1>6, <1>8 DEF Look, Job
  <1> QED
    BY <1>9, <1>10, <1>11, JobStep DEF Look

(* The node a worker submits is as it was looked at. *)
LEMMA SubmitIsDone ==
    ASSUME InboundInv, NEW w \in Workers, Submit(w)
    PROVE  job[w].id[2] = node.attempt /\ <<node.attempt, node.owner>> \in doneBy
  BY AtWork DEF Submit, JobOK, LookedAt

(* submit_human: the node is over, and submitted. *)
LEMMA SubmitStep ==
    ASSUME InboundInv, UNCHANGED scope, NEW w \in Workers, Submit(w)
    PROVE  InboundInv'
  <1>1. /\ job[w] \in Job /\ JobOK(job[w]) /\ job[w].id \in Ids /\ WorldInv
        /\ job \in [Workers -> Job] /\ inbox \in [Ids -> Row]
    BY AtWork DEF Submit, InboundInv, InboxInv
  <1>2. /\ node \in NodeRow /\ node.attempt \in Attempts /\ node.attempt \in Nat
        /\ node.version \in Nat /\ scope.versions \in Nat
        /\ node.status = "waiting" /\ node.version <= scope.versions
    BY <1>1, Numbers, Bounds DEF WorldInv, Submit
  <1>3. PICK v \in 0 .. (scope.versions + 1) : v = node.version + 1
    BY <1>2
  <1>4. /\ node' = [node EXCEPT !.status = "done", !.version = v] /\ fresh' = {}
        /\ submitted' = submitted \cup {node.attempt}
        /\ UNCHANGED <<bound, task, doneBy, inbox, trouble, scope>>
    BY <1>3 DEF Submit
  <1>5. /\ node' \in NodeRow /\ node'.version = v /\ node'.attempt = node.attempt
        /\ node'.status = "done"
    BY <1>2, <1>3, <1>4 DEF NodeRow, Ended
  <1>6. Advances
    BY <1>2, <1>3, <1>4, <1>5 DEF Advances, Ended
  <1>7. WorldInv'
    BY <1>1, <1>2, <1>4, <1>5 DEF WorldInv, NodeRow
  <1>8. PICK j : j = [job[w] EXCEPT !.pc = "decided", !.outcome = "submitted"]
    OBVIOUS
  <1>9. /\ j \in Job /\ j.pc = "decided" /\ j.outcome = "submitted"
        /\ j.id = job[w].id /\ j.seen = job[w].seen
    BY <1>1, <1>8 DEF Job, Outcomes
  <1>10. job' = [job EXCEPT ![w] = j]
    BY <1>1, <1>8 DEF Submit, Job
  <1>11. JobOK(j)'
    <2>1. j.id[2] \in submitted'
      BY <1>4, <1>9, SubmitIsDone
    <2>2. SeenTrue(j.id, j.seen)'
      BY <1>1, <1>4, <1>9 DEF JobOK, SeenTrue
    <2> QED
      BY <1>1, <1>9, <2>1, <2>2 DEF JobOK, OutcomeTrue
  <1>12. job' \in [Workers -> Job] /\ \A x \in Workers : job'[x] = job[x] \/ JobOK(job[x])'
    BY <1>1, <1>9, <1>10, <1>11 DEF JobOK, SeenTrue, OutcomeTrue, LookedAt
  <1> QED
    BY <1>1, <1>4, <1>6, <1>7, <1>12, CopiesStay

(* Another was faster, or the save failed. *)
LEMMA RefusedStep ==
    ASSUME InboundInv, UNCHANGED scope, NEW w \in Workers, Refused(w) \/ Conflict(w)
    PROVE  InboundInv'
  <1>1. /\ job[w] \in Job /\ JobOK(job[w]) /\ job[w].id \in Ids /\ WorldInv
        /\ job \in [Workers -> Job] /\ job[w].pc = "submit"
    <2>1. job[w].pc = "submit"
      BY DEF Refused, Conflict
    <2> QED
      BY <2>1, AtWork DEF InboundInv
  <1>2. CASE Refused(w)
    <2>1. PICK j : j = [job[w] EXCEPT !.pc = "failed"]
      OBVIOUS
    <2>2. /\ j \in Job /\ j.pc = "failed" /\ j.seen = job[w].seen
          /\ j.id = job[w].id /\ j.outcome = job[w].outcome
      BY <1>1, <2>1 DEF Job
    <2>3. JobOK(j)
      BY <1>1, <2>2 DEF JobOK
    <2>4. job' = [job EXCEPT ![w] = j] /\ (Spend \/ UNCHANGED trouble)
      BY <1>2, <2>1 DEF Refused
    <2> QED
      BY <1>2, <2>2, <2>3, <2>4, JobStep DEF Refused
  <1>3. CASE Conflict(w)
    <2>1. PICK o \in Outcomes : o = AfterConflict(w)
      BY DEF AfterConflict, Outcomes
    <2>2. PICK j : j = [job[w] EXCEPT !.outcome = o,
                                      !.pc = IF o = "none" THEN "failed" ELSE "decided"]
      OBVIOUS
    <2>3. /\ j \in Job /\ j.pc \in {"failed", "decided"} /\ j.seen = job[w].seen
          /\ j.id = job[w].id /\ j.outcome = o
      BY <1>1, <2>1, <2>2 DEF Job
    <2>4. /\ node.attempt \in Nat /\ j.id[2] \in Nat /\ j.id[2] <= node.attempt
      BY <1>1, <2>3, Numbers DEF JobOK, LookedAt
    <2>5. OutcomeTrue(j.id, o)
      BY <2>1, <2>4 DEF OutcomeTrue, AfterConflict
    <2>6. JobOK(j)
      BY <1>1, <2>3, <2>5 DEF JobOK
    <2>7. job' = [job EXCEPT ![w] = j]
      BY <1>1, <1>3, <2>1, <2>2 DEF Conflict, Job
    <2> QED
      BY <1>3, <2>3, <2>6, <2>7, JobStep DEF Conflict
  <1> QED
    BY <1>2, <1>3

(* The worker's outcome becomes the inbox's, or the row is tried again. *)
LEMMA ProcessedStep ==
    ASSUME InboundInv, UNCHANGED scope, NEW w \in Workers, MarkProcessed(w) \/ MarkFailed(w)
    PROVE  InboundInv'
  <1>1. /\ job[w].pc # "idle" /\ job[w] \in Job /\ JobOK(job[w]) /\ job[w].id \in Ids
        /\ inbox[job[w].id] \in Row /\ RowOK(job[w].id, inbox[job[w].id])
        /\ scope \in Scopes
    <2>1. job[w].pc # "idle"
      BY DEF MarkProcessed, MarkFailed
    <2> QED
      BY <2>1, AtWork DEF InboundInv, WorldInv
  <1>2. CASE MarkProcessed(w)
    <2>1. PICK r : r = [NoRow EXCEPT !.status = "processed", !.outcome = job[w].outcome]
      OBVIOUS
    <2>2. NoRow \in Row /\ NoRow.seen = NothingSeen
      BY <1>1, Blank DEF NoRow
    <2>3. r \in Row /\ r.seen = NothingSeen /\ r.outcome = job[w].outcome
      BY <1>1, <2>1, <2>2 DEF Row, Job
    <2>4. RowOK(job[w].id, r)
      BY <1>1, <2>3 DEF RowOK, JobOK, SeenTrue, NothingSeen
    <2>5. Settle(w, r)
      BY <1>2, <2>1 DEF MarkProcessed, Settle
    <2> QED
      BY <1>1, <1>2, <2>3, <2>4, <2>5, SettleStep DEF MarkProcessed
  <1>3. CASE MarkFailed(w)
    <2>1. PICK r : r = [inbox[job[w].id] EXCEPT !.status = "unprocessed"]
      OBVIOUS
    <2>2. /\ r \in Row /\ r.seen = inbox[job[w].id].seen
          /\ r.outcome = inbox[job[w].id].outcome
      BY <1>1, <2>1 DEF Row
    <2>3. RowOK(job[w].id, r)
      BY <1>1, <2>2 DEF RowOK
    <2>4. Settle(w, r)
      BY <1>3, <2>1 DEF MarkFailed, Settle
    <2> QED
      BY <1>1, <1>3, <2>2, <2>3, <2>4, SettleStep DEF MarkFailed
  <1> QED
    BY <1>2, <1>3

-----------------------------------------------------------------------------
(* Every step keeps the invariant. *)
LEMMA NextInbound ==
    InboundInv /\ [Next]_vars => InboundInv'
  <1> SUFFICES ASSUME InboundInv, [Next]_vars PROVE InboundInv'
    OBVIOUS
  <1>1. CASE UNCHANGED vars
    BY <1>1, InboxStep DEF vars, InboundInv, InboxInv, JobInv
  <1>2. CASE Next
    <2>1. UNCHANGED scope /\ Step
      BY <1>2 DEF Next
    <2>2. CASE World
      <3>1. WorldInv' /\ Advances
        BY <2>1, <2>2, WorldStep
      <3>2. inbox' \in [Ids -> Row] /\ job' \in [Workers -> Job] /\ UNCHANGED <<inbox, job>>
        BY <2>2 DEF World, InboundInv, InboxInv, JobInv
      <3> QED
        BY <2>1, <3>1, <3>2, CopiesStay
    <2>3. CASE Poll
      BY <2>1, <2>3, PollStep
    <2>4. ASSUME NEW a \in Attempts, NEW n \in 1 .. MaxDone, Event(a, n)
          PROVE  InboundInv'
      <3>1. PICK id \in Ids : id = <<"event", a, n>>
        BY DEF Ids
      <3>2. Append(id)
        BY <2>4, <3>1 DEF Event
      <3> QED
        BY <2>1, <2>4, <3>2, AppendStep DEF Event
    <2>5. ASSUME NEW id \in Ids, LeaseEnds(id) \/ TakeUp(id)
          PROVE  InboundInv'
      <3>1. CASE LeaseEnds(id)
        BY <2>1, <3>1, LeaseEndsStep
      <3>2. CASE TakeUp(id)
        BY <2>1, <3>2, ClaimStep DEF TakeUp, ClaimVerification, ClaimProcessing
      <3> QED
        BY <2>5, <3>1, <3>2
    <2>6. ASSUME NEW w \in Workers, Finish(w) \/ Die(w) \/ Conflict(w)
          PROVE  InboundInv'
      <3>1. CASE ReadTask(w) \/ MarkVerified(w) \/ MarkUnverified(w)
        BY <2>1, <3>1, ReadTaskStep, VerifiedStep
      <3>2. CASE Look(w) \/ Submit(w)
        BY <2>1, <3>2, LookStep, SubmitStep
      <3>3. CASE Refused(w) \/ Conflict(w)
        BY <2>1, <3>3, RefusedStep
      <3>4. CASE MarkProcessed(w) \/ MarkFailed(w)
        BY <2>1, <3>4, ProcessedStep
      <3>5. CASE LostClaim(w) \/ Die(w)
        BY <2>1, <3>5, ForgetStep DEF LostClaim, Die
      <3> QED
        BY <2>6, <3>1, <3>2, <3>3, <3>4, <3>5 DEF Finish
    <2> QED
      BY <2>1, <2>2, <2>3, <2>4, <2>5, <2>6 DEF Step
  <1> QED
    BY <1>1, <1>2

(* The invariant says more than the property. *)
LEMMA InvIsTrue == InboundInv => OutcomeIsTrue
  <1> SUFFICES ASSUME InboundInv PROVE OutcomeIsTrue
    OBVIOUS
  <1>1. TypeOK
    BY DEF InboundInv, WorldInv, InboxInv, JobInv, TypeOK, NodeRow, Task, Row, Job
  <1>2. \A id \in Ids : OutcomeTrue(id, inbox[id].outcome)
    BY DEF InboundInv, InboxInv, RowOK
  <1> QED
    BY <1>1, <1>2 DEF OutcomeIsTrue, OutcomeTrue

(* What the inbox says became of a signal is so: the attempt was submitted *)
(* on its account, is over, or was left for another, whatever happened     *)
(* between the look at the node and the note in the inbox (_process,       *)
(* mark_inbox_processed). *)
THEOREM OutcomesAreTrue == Spec => []OutcomeIsTrue
  <1>1. Init => InboundInv
    BY InitInbound
  <1>2. InboundInv /\ [Next]_vars => InboundInv'
    BY NextInbound
  <1>3. InboundInv => OutcomeIsTrue
    BY InvIsTrue
  <1> QED
    BY <1>1, <1>2, <1>3, PTL DEF Spec

(* Only Submit submits, and then the owner of the node has done the task. *)
LEMMA OnlySubmit ==
    InboundInv /\ [Next]_vars =>
        [submitted' # submitted => <<node.attempt, node.owner>> \in doneBy]_vars
  <1> SUFFICES ASSUME InboundInv, [Next]_vars, submitted' # submitted
               PROVE  <<node.attempt, node.owner>> \in doneBy
    OBVIOUS
  <1>1. Step
    BY DEF Next, vars
  <1>2. \E w \in Workers : Submit(w)
    BY <1>1 DEF Step, World, Poll, Event, LeaseEnds, TakeUp, ClaimVerification,
                ClaimProcessing, Claim, Finish, Die, Conflict, ReadTask, MarkVerified,
                MarkUnverified, Look, Refused, MarkProcessed, MarkFailed, LostClaim
  <1> QED
    BY <1>2, SubmitIsDone

(* A node is submitted from the inbox only when who owns it at that very   *)
(* moment has completed the task of that attempt, although the task was    *)
(* read long before and the node may have changed hands in between         *)
(* (_validate_task, submit_human under the version looked at). *)
THEOREM SubmittedForTheOwner == Spec => DoneByTheOwner
  <1>1. Init => InboundInv
    BY InitInbound
  <1>2. InboundInv /\ [Next]_vars => InboundInv'
    BY NextInbound
  <1>3. InboundInv /\ [Next]_vars =>
          [submitted' # submitted => <<node.attempt, node.owner>> \in doneBy]_vars
    BY OnlySubmit
  <1> QED
    BY <1>1, <1>2, <1>3, PTL DEF Spec, DoneByTheOwner

-----------------------------------------------------------------------------
(* Legacy: work is done in its round and in view of its inputs, a person is *)
(* asked once for a round, and what others did is sent back with consent,   *)
(* for any plans, edits, people, budgets and mishaps.                       *)
(*                                                                          *)
(* None of the three is inductive.  A card shows the rounds it was filed    *)
(* in: what it shows stays true of whoever is still to answer it because a  *)
(* round goes on only together with everything that was made of it, which   *)
(* is what sets of resets being closed says.  A job rebinds the leads it    *)
(* wrote off: until it does, what it keeps is owed to whoever is asked.     *)
(* Edits leave the resets that are due alone, unless the job that was to    *)
(* carry them out was cut short.  And copies are counted: each beyond the   *)
(* first was paid for with a mishap.                                        *)
Carried == {"dispatch", "workers", "rebind"}
Places == Carried \cup {"idle", "hand", "beat", "close", "record"}

IsDriver(j) ==
    j = [at |-> j.at, write |-> j.write, advancing |-> j.advancing, keep |-> j.keep,
         kept |-> j.kept, skip |-> j.skip, then |-> j.then, request |-> j.request]
IsCard(c) == c.node \in Node /\ c.attempt \in Nat /\ c.copy \in Nat \ {0}

(* Requests keep their fields; who decides about one is known when it is   *)
(* made, and it is carried out once. *)
RequestOK(r) ==
    /\ r = [gate |-> r.gate, by |-> r.by, targets |-> r.targets, round |-> r.round,
            seq |-> r.seq, approvers |-> r.approvers, verdict |-> r.verdict, ran |-> r.ran]
    /\ r.gate \in Human \cap Gate /\ r.by \in {Owner, Assignee[r.gate]}
    /\ r.round \in Nat /\ r.round <= attempts[r.gate]
    /\ r.approvers \subseteq Approvers(r.targets)
    /\ r.ran \in {0, 1}
    /\ r.verdict # "none" => (r.ran = 1 <=> r.verdict = "approved")

TypesInv ==
    /\ dag \in Graph /\ SoundGraph(dag)
    /\ status \in [Node -> {"pending", "done", "failed", "blocked"}]
    /\ asked \subseteq open \cap Human /\ open \subseteq Node
    /\ \A n \in Node : status[n] = "failed" => n \in Gate
    /\ attempts \in [Node -> Nat] /\ reopens \in [Node -> Nat]
    /\ verdict = [n \in Node |-> verdict[n]] /\ seen = [n \in Node |-> seen[n]]
    /\ grants \in [Node -> [given : Nat, more : Nat, back : Nat, less : Nat]]
    /\ cut \in BOOLEAN /\ mishaps \in Nat

DriverInv ==
    /\ IsDriver(driver) /\ driver.at \in Places /\ driver.write \in BOOLEAN
    /\ driver.keep \subseteq Human
    /\ driver.then \in {"end", "verdict", "retry", "refund"}
    /\ driver.then \in {"retry", "refund"} =>
          driver.request.gate \in Node /\ driver.request.more \in Nat
    /\ driver.at = "record" => driver.then \in {"verdict", "refund"}
    /\ sweep = NoSweep \/ (sweep = [at |-> sweep.at, as |-> sweep.as] /\ sweep.as.copy = 0)

Sheet(s) == {c \in cards : Slot(c) = s}
FilesInv ==
    /\ \A c \in cards : IsCard(c) /\ c.attempt <= attempts[c.node]
    /\ \A s : IsFiniteSet(Sheet(s))
    /\ idem \subseteq Node \X Nat /\ \A s \in idem : s[2] <= attempts[s[1]]

(* What was answered had all its inputs; what is asked has them.           *)
GraphInv ==
    /\ \A n \in Node \ dag.nodes : status[n] = "pending"
    /\ \A n \in dag.nodes : status[n] \in {"done", "failed"} =>
          \A m \in dag.deps[n] : status[m] = "done"
    /\ open \subseteq Ready(dag, status)
    /\ driver.at = "dispatch" => open = {}

BaseInv == TypesInv /\ DriverInv /\ FilesInv /\ GraphInv

-----------------------------------------------------------------------------
(* The graph *)

(* Dependencies are ancestors, and their ancestors are.                    *)
LEMMA AncestorsAre ==
    ASSUME NEW d \in Graph, SoundGraph(d), NEW n \in d.nodes
    PROVE  /\ Ancestors(d, n) \subseteq d.nodes /\ d.deps[n] \subseteq Ancestors(d, n)
           /\ \A m \in Ancestors(d, n) : d.deps[m] \subseteq Ancestors(d, n)
           /\ \A m \in d.deps[n] : Ancestors(d, m) \subseteq Ancestors(d, n)
  <1>1. d.nodes \subseteq Node /\ \A x \in d.nodes : d.deps[x] \subseteq d.nodes
    BY DEF Graph, SoundGraph
  <1>2. Ancestors(d, n) \subseteq d.nodes
    BY DEF Ancestors
  <1>3. d.deps[n] \subseteq Ancestors(d, n)
    BY <1>1 DEF Ancestors
  <1>4. ASSUME NEW m \in Ancestors(d, n), NEW x \in d.deps[m] PROVE x \in Ancestors(d, n)
    <2>1. m \in d.nodes /\ x \in d.nodes
      BY <1>1, <1>2, <1>4
    <2>2. ASSUME NEW C \in SUBSET d.nodes, d.deps[n] \subseteq C,
                 \A y \in C : d.deps[y] \subseteq C
          PROVE  x \in C
      BY <1>4, <2>2 DEF Ancestors
    <2> QED
      BY <2>1, <2>2 DEF Ancestors
  <1>5. ASSUME NEW m \in d.deps[n], NEW x \in Ancestors(d, m) PROVE x \in Ancestors(d, n)
    <2> DEFINE C == Ancestors(d, n)
    <2>1. C \in SUBSET d.nodes /\ d.deps[m] \subseteq C /\ \A y \in C : d.deps[y] \subseteq C
      BY <1>2, <1>3, <1>4, <1>5
    <2> HIDE DEF C
    <2>2. x \in C
      BY <1>5, <2>1 DEF Ancestors
    <2> QED
      BY <2>2 DEF C
  <1> QED
    BY <1>2, <1>3, <1>4, <1>5

(* What has all its inputs has everything before them.                     *)
LEMMA DoneBefore ==
    ASSUME TypesInv, GraphInv, NEW n \in dag.nodes, \A m \in dag.deps[n] : status[m] = "done",
           NEW m \in Ancestors(dag, n)
    PROVE  status[m] = "done"
  <1> DEFINE C == {x \in dag.nodes : status[x] = "done"}
  <1>1. \A x \in dag.nodes : dag.deps[x] \subseteq dag.nodes
    BY DEF TypesInv, SoundGraph
  <1>2. C \in SUBSET dag.nodes /\ dag.deps[n] \subseteq C
    BY <1>1
  <1>3. \A x \in C : dag.deps[x] \subseteq C
    BY <1>1 DEF GraphInv
  <1>4. m \in C
    <2> HIDE DEF C
    <2> QED
      BY <1>2, <1>3 DEF Ancestors
  <1> QED
    BY <1>4

(* An edit of k leaves the ancestors of others alone that are not after k. *)
LEMMA SameAncestors ==
    ASSUME TypesInv, NEW d \in Graph, NEW k \in Node, EditOf(k, d), NEW n \in dag.nodes,
           n # k, k \notin Ancestors(dag, n)
    PROVE  n \in d.nodes /\ d.deps[n] = dag.deps[n] /\ Ancestors(d, n) = Ancestors(dag, n)
  <1>1. /\ \A x \in dag.nodes : dag.deps[x] \subseteq dag.nodes
        /\ \A x \in dag.nodes \ {k} : x \in d.nodes /\ d.deps[x] = dag.deps[x]
    BY DEF TypesInv, SoundGraph, EditOf
  <1>2. Ancestors(dag, n) \subseteq dag.nodes /\ dag.deps[n] \subseteq Ancestors(dag, n)
        /\ \A m \in Ancestors(dag, n) : dag.deps[m] \subseteq Ancestors(dag, n)
    BY AncestorsAre DEF TypesInv
  <1>3. Ancestors(d, n) \subseteq Ancestors(dag, n)
    <2> DEFINE C == Ancestors(dag, n)
    <2>1. C \in SUBSET d.nodes /\ d.deps[n] \subseteq C /\ \A x \in C : d.deps[x] \subseteq C
      BY <1>1, <1>2
    <2> HIDE DEF C
    <2>2. \A x \in Ancestors(d, n) : x \in C
      BY <2>1 DEF Ancestors
    <2> QED
      BY <2>2 DEF C
  <1>4. ASSUME NEW m \in Ancestors(dag, n) PROVE m \in Ancestors(d, n)
    <2>1. m \in d.nodes
      BY <1>1, <1>2, <1>4
    <2>2. ASSUME NEW C \in SUBSET d.nodes, d.deps[n] \subseteq C,
                 \A x \in C : d.deps[x] \subseteq C
          PROVE  m \in C
      <3> DEFINE D == C \cap Ancestors(dag, n)
      <3>1. D \in SUBSET dag.nodes /\ dag.deps[n] \subseteq D
        BY <1>1, <1>2, <2>2
      <3>2. \A x \in D : dag.deps[x] \subseteq D
        BY <1>1, <1>2, <2>2
      <3> HIDE DEF D
      <3>3. m \in D
        BY <1>4, <3>1, <3>2 DEF Ancestors
      <3> QED
        BY <3>3 DEF D
    <2> QED
      BY <2>1, <2>2 DEF Ancestors
  <1> QED
    BY <1>1, <1>3, <1>4

(* What is sent back is sent back with everything that was made of it.     *)
LEMMA RedoneIsClosed ==
    ASSUME TypesInv, NEW g, NEW T, NEW n \in dag.nodes, NEW m \in dag.deps[n],
           m \in Redone(g, T), m # g
    PROVE  n \in Redone(g, T)
  <1>1. m \in Ancestors(dag, n) /\ Ancestors(dag, m) \subseteq Ancestors(dag, n)
    BY AncestorsAre DEF TypesInv
  <1>2. PICK t \in T : m = t \/ m \in Downstream(dag, t)
    BY DEF Redone
  <1>3. n \in Downstream(dag, t)
    BY <1>1, <1>2 DEF Downstream
  <1> QED
    BY <1>3 DEF Redone

(* What was done from an input that goes back goes back too, or has given up. *)
LEMMA ResetIsClosed ==
    ASSUME TypesInv, NEW n \in dag.nodes, NEW m \in dag.deps[n], m \in Reset,
           status[m] = "done"
    PROVE  n \in Reset \/ n \in Halted
  <1>1. PICK g \in Reopening : m \in Redone(g, Targets(g))
    BY DEF Reset
  <1>2. m # g
    BY <1>1 DEF Reopening, Failed
  <1>3. n \in Redone(g, Targets(g))
    BY <1>1, <1>2, RedoneIsClosed
  <1> QED
    BY <1>1, <1>3 DEF Reset

(* Every failed node is sent back or gives up, and others only go back.    *)
LEMMA ResetFacts ==
    /\ Halted \subseteq Failed /\ Failed \subseteq Halted \cup Reset
    /\ Halted \cap Reset = {} /\ Reset \subseteq dag.nodes
    /\ Reopening # {} => Reset # {}
    /\ Reopening = {} => Reset = {}
  <1>1. Halted \subseteq Failed /\ Halted \cap Reset = {} /\ Failed \subseteq dag.nodes
    BY DEF Halted, Reset, Failed
  <1>2. ASSUME NEW g \in Reopening PROVE g \in Failed /\ g \in Reset
    BY <1>2 DEF Reopening, Halted, Reset, Redone
  <1>3. ASSUME NEW g \in Failed, g \notin Halted PROVE g \in Reset
    BY <1>2, <1>3 DEF Halted, Reset
  <1>4. ASSUME NEW n \in Reset PROVE n \in dag.nodes
    <2>1. PICK g \in Reopening : n \in Redone(g, Targets(g))
      BY <1>4 DEF Reset
    <2> QED
      BY <1>1, <1>2, <2>1 DEF Redone, Targets, Ancestors, Downstream
  <1>5. Reopening = {} => Reset = {}
    BY DEF Reset
  <1> QED
    BY <1>1, <1>2, <1>3, <1>4, <1>5

-----------------------------------------------------------------------------
(* Kinds of steps *)

(* What was in view of who answered in this round is what there is.        *)
InView(n, of) == dag.deps[n] \subseteq DOMAIN of /\ \A m \in dag.deps[n] : of[m] = attempts[m]
Fresh(n, round, of) == round = attempts[n] /\ (cut \/ InView(n, of))

(* A gate sends back what the person may send back, or somebody consented. *)
Free(g, v) ==
    \/ v.by = Owner
    \/ /\ v.by = Assignee[g]
       /\ \/ \A t \in v.targets : Collateral(v.by, g, t) = {}
          \/ v.approved \in Approvers(v.targets) \ {v.by}

RequestsInv ==
    /\ \A r \in requests :
         /\ RequestOK(r)
         /\ r.ran = 1 /\ r.verdict = "none" /\ r.round = attempts[r.gate] => Answered(r.gate)
    /\ driver.then = "verdict" => RequestOK(driver.request) /\ driver.request.ran = 1

LeadsInv ==
    \A c \in leads \cup driver.kept :
        /\ c \in cards \/ c.copy = 0
        /\ c.copy > 0 => Fresh(c.node, c.attempt, c.of)

Quietly ==
    \/ Rebind \/ Hand \/ Close \/ Crash \/ Reconcile
    \/ \E n \in Ticket : SweepRounds(n)
    \/ SweepInterrupts \/ SweepEnds \/ \E c \in cards : Complete(c)

Answering ==
    \/ SweepResume
    \/ \E c \in cards :
         \/ TaskEvent(c)
         \/ \E p \in Persons : Pass(c, p) \/ \E T \in SUBSET dag.nodes : SendBack(c, p, T)
    \/ \E r \in requests, p \in Persons : Approve(r, p)

Noting ==
    \/ Beat \/ Record
    \/ \E c \in cards, p \in Persons : \E T \in SUBSET dag.nodes : Escalate(c, p, T)
    \/ \E r \in requests, p \in Persons : Reject(r, p)

Editing == \E d \in Edits : EditGraph(d)
Unblocking == \E g \in Stuck : \E T \in SUBSET dag.nodes : Unblock(g, T, 1)
Running == Dispatch \/ SuperStep \/ Raise

(* Every step is of one of six kinds.                                      *)
LEMMA EveryStep ==
    ASSUME LegacyNext
    PROVE  Quietly \/ Answering \/ Noting \/ Editing \/ Unblocking \/ Running
  BY DEF LegacyNext, Drive, Sweep, Quietly, Answering, Noting, Editing, Unblocking, Running

(* A person's answer, whatever way it came.                                *)
GivenAnswer(n, by, round, of, bad) ==
    /\ LockFree /\ n \in asked
    /\ status' = [status EXCEPT ![n] = IF bad = Nothing THEN "done" ELSE "failed"]
    /\ verdict' = [verdict EXCEPT ![n] = bad]
    /\ seen' = [seen EXCEPT ![n] = [by |-> by, round |-> round, of |-> of]]
    /\ open' = open \ {n} /\ asked' = asked \ {n}
    /\ leads' = {e \in leads : e.node # n}
    /\ IsDriver(driver') /\ driver'.at \in {"dispatch", "hand", "workers"}
    /\ driver'.write = FALSE /\ driver'.keep = {} /\ driver'.kept = {}
    /\ driver'.at = "dispatch" => open = {n}
    /\ UNCHANGED <<dag, attempts, reopens, grants, cards, idem, cut, mishaps>>
    /\ bad = Nothing \/ (n \in Gate /\ Free(n, bad))
    /\ by # "sweep" => Fresh(n, round, of)

(* What an answer to a card that was in view does.                         *)
LEMMA AnswerGives ==
    ASSUME NEW n \in asked, NEW c, NEW by, NEW bad, NEW then, NEW request,
           LockFree, Answer(n, c, by, bad, then, request),
           UNCHANGED <<dag, attempts, reopens, grants, cards, idem, cut, mishaps>>,
           bad = Nothing \/ (n \in Gate /\ Free(n, bad)),
           by # "sweep" => Fresh(n, c.attempt, c.of)
    PROVE  /\ GivenAnswer(n, by, c.attempt, c.of, bad)
           /\ driver'.then = then /\ driver'.request = request
  <1>1. /\ status' = [status EXCEPT ![n] = IF bad = Nothing THEN "done" ELSE "failed"]
        /\ verdict' = [verdict EXCEPT ![n] = bad]
        /\ seen' = [seen EXCEPT ![n] = [by |-> by, round |-> c.attempt, of |-> c.of]]
        /\ open' = open \ {n} /\ asked' = asked \ {n}
        /\ leads' = {e \in leads : e.node # n}
    BY DEF Answer
  <1>2. /\ IsDriver(driver') /\ driver'.at \in {"dispatch", "hand", "workers"}
        /\ driver'.write = FALSE /\ driver'.keep = {} /\ driver'.kept = {}
        /\ driver'.at = "dispatch" => open = {n}
        /\ driver'.then = then /\ driver'.request = request
    BY DEF Answer, AtRest, IsDriver
  <1> QED
    BY <1>1, <1>2 DEF GivenAnswer

(* Whatever way it came, an answer is given as described; an approval keeps its request. *)
LEMMA AnsweringGives ==
    ASSUME BaseInv, RequestsInv, LeadsInv, Answering
    PROVE  \E n \in asked : \E by, round, of, bad :
              /\ GivenAnswer(n, by, round, of, bad)
              /\ \/ requests' = requests /\ driver'.then = "end"
                 \/ \E r \in requests, p \in Persons :
                      /\ Approve(r, p) /\ n = r.gate /\ bad # Nothing
                      /\ driver'.then = "verdict" /\ driver'.request = [r EXCEPT !.ran = @ + 1]
  <1>1. CASE SweepResume
    <2> DEFINE c == sweep.as
    <2>1. LockFree /\ c.node \in asked
      BY <1>1 DEF SweepResume, Live
    <2>2. /\ Answer(c.node, c, "sweep", Nothing, "end", {}) /\ requests' = requests
          /\ UNCHANGED <<dag, attempts, reopens, grants, cards, idem, cut, mishaps>>
      BY <1>1 DEF SweepResume, notice
    <2>3. GivenAnswer(c.node, "sweep", c.attempt, c.of, Nothing) /\ driver'.then = "end"
      BY <2>1, <2>2, AnswerGives
    <2> QED
      BY <2>1, <2>2, <2>3
  <1>2. ASSUME NEW c \in cards, Live(c)
        PROVE  LockFree /\ c.node \in asked /\ Fresh(c.node, c.attempt, c.of)
    BY <1>2 DEF Live, LeadsInv, BaseInv, FilesInv, IsCard
  <1>3. ASSUME NEW c \in cards, TaskEvent(c) \/ \E p \in Persons : Pass(c, p)
        PROVE  /\ \E by : GivenAnswer(c.node, by, c.attempt, c.of, Nothing)
               /\ c.node \in asked /\ requests' = requests /\ driver'.then = "end"
    <2>1. Live(c)
      BY <1>3 DEF TaskEvent, Pass
    <2>2. PICK by : /\ Answer(c.node, c, by, Nothing, "end", {}) /\ requests' = requests
                    /\ UNCHANGED <<dag, attempts, reopens, grants, cards, idem, cut, mishaps>>
      BY <1>3 DEF TaskEvent, Pass, notice
    <2>3. GivenAnswer(c.node, by, c.attempt, c.of, Nothing) /\ driver'.then = "end"
      BY <1>2, <2>1, <2>2, AnswerGives
    <2> QED
      BY <1>2, <2>1, <2>2, <2>3
  <1>4. ASSUME NEW c \in cards, NEW p \in Persons, NEW T \in SUBSET dag.nodes, SendBack(c, p, T)
        PROVE  /\ \E by, bad : GivenAnswer(c.node, by, c.attempt, c.of, bad)
               /\ c.node \in asked /\ requests' = requests /\ driver'.then = "end"
    <2> DEFINE bad == [Nothing EXCEPT !.targets = T, !.by = p]
    <2>1. Live(c) /\ c.node \in Gate
      BY <1>4 DEF SendBack
    <2>2. /\ Answer(c.node, c, "card", bad, "end", {}) /\ requests' = requests
          /\ UNCHANGED <<dag, attempts, reopens, grants, cards, idem, cut, mishaps>>
      BY <1>4 DEF SendBack, notice
    <2>3. bad.by = p /\ bad.targets = T
      BY DEF Nothing
    <2>4. Free(c.node, bad)
      <3>1. Standing(p, c.node) /\ Crossing(p, c.node, T) = {}
        BY <1>4 DEF SendBack
      <3> HIDE DEF bad
      <3> QED
        BY <2>3, <3>1 DEF Free, Standing, Crossing
    <2> HIDE DEF bad
    <2>5. GivenAnswer(c.node, "card", c.attempt, c.of, bad) /\ driver'.then = "end"
      BY <1>2, <2>1, <2>2, <2>4, AnswerGives
    <2> QED
      BY <1>2, <2>1, <2>2, <2>5
  <1>5. ASSUME NEW r \in requests, NEW p \in Persons, Approve(r, p)
        PROVE  \E by, round, of, bad :
                  /\ GivenAnswer(r.gate, by, round, of, bad) /\ r.gate \in asked
                  /\ bad # Nothing /\ driver'.then = "verdict"
                  /\ driver'.request = [r EXCEPT !.ran = @ + 1]
    <2> DEFINE bad == [targets |-> r.targets, by |-> r.by, approved |-> p]
               view == [attempt |-> r.round, of |-> [m \in dag.deps[r.gate] |-> attempts[m]]]
               ran == [r EXCEPT !.ran = @ + 1]
    <2>1. /\ LockFree /\ Pending(r) /\ MayApprove(p, r) /\ r.gate \in asked
          /\ Answer(r.gate, view, "card", bad, "verdict", ran)
          /\ UNCHANGED <<dag, attempts, reopens, grants, cards, idem, cut, mishaps>>
      BY <1>5 DEF Approve, notice
    <2>2. r.gate \in Gate /\ r.by \in {Owner, Assignee[r.gate]}
          /\ r.approvers \subseteq Approvers(r.targets)
      BY DEF RequestsInv, RequestOK
    <2>3. Free(r.gate, bad)
      BY <2>1, <2>2 DEF Free, MayApprove
    <2>4. bad # Nothing
      BY LegacyAssumption DEF Nothing, Persons
    <2>5. Fresh(r.gate, view.attempt, view.of)
      BY <2>1 DEF Fresh, InView, Pending, Waiting
    <2> HIDE DEF bad, view, ran
    <2>6. /\ GivenAnswer(r.gate, "card", view.attempt, view.of, bad)
          /\ driver'.then = "verdict" /\ driver'.request = ran
      BY <2>1, <2>2, <2>3, <2>5, AnswerGives
    <2> QED
      BY <2>1, <2>4, <2>6 DEF ran
  <1>6. CASE \E c \in cards : TaskEvent(c) \/ \E p \in Persons : Pass(c, p)
    BY <1>3, <1>6
  <1>7. CASE \E c \in cards, p \in Persons : \E T \in SUBSET dag.nodes : SendBack(c, p, T)
    BY <1>4, <1>7
  <1>8. CASE \E r \in requests, p \in Persons : Approve(r, p)
    <2>1. PICK r \in requests, p \in Persons : Approve(r, p)
      BY <1>8
    <2>2. PICK by, round, of, bad :
             /\ GivenAnswer(r.gate, by, round, of, bad) /\ r.gate \in asked
             /\ bad # Nothing /\ driver'.then = "verdict"
             /\ driver'.request = [r EXCEPT !.ran = @ + 1]
      BY <1>5, <2>1
    <2> QED
      BY <2>1, <2>2
  <1> QED
    BY <1>1, <1>6, <1>7, <1>8 DEF Answering

(* A new checkpoint was written. *)
Written(reset) ==
    /\ IsDriver(driver') /\ driver'.at = "dispatch" /\ driver'.write = TRUE
    /\ driver'.keep = Kept(reset)
    /\ driver'.kept = {c \in leads : c.node \in Kept(reset)}
    /\ open' = {} /\ asked' = {} /\ leads' = {}

(* What is written before the engine goes on.                              *)
LEMMA WriteGives ==
    ASSUME NEW reset, NEW then, NEW request, Write(reset, then, request)
    PROVE  Written(reset) /\ driver'.then = then /\ driver'.request = request
  BY DEF Write, Written, AtRest, IsDriver

(* A note changes no work: it says what became of requests and grants.     *)
LEMMA NotingGives ==
    ASSUME Noting
    PROVE  /\ Written({})
           /\ UNCHANGED <<dag, status, attempts, reopens, seen, verdict, cards, idem, cut, mishaps>>
           /\ \/ grants' = grants
              \/ /\ driver.at = "record" /\ driver.then # "verdict"
                 /\ grants' = [grants EXCEPT ![driver.request.gate].back = @ + 1,
                                  ![driver.request.gate].less = @ + driver.request.more]
           /\ LockFree \/ driver.at \in {"beat", "record"}
           /\ driver.at = "beat" => UNCHANGED run
  <1>1. CASE Beat
    BY <1>1, WriteGives DEF Beat, run
  <1>2. CASE Record
    BY <1>2, WriteGives DEF Record
  <1>3. ASSUME NEW c \in cards, NEW p \in Persons, NEW T \in SUBSET dag.nodes, Escalate(c, p, T)
        PROVE  /\ Write({}, "end", {}) /\ LockFree
               /\ UNCHANGED <<dag, status, attempts, reopens, seen, verdict, grants, cards,
                              idem, cut, mishaps>>
    BY <1>3 DEF Escalate, Live
  <1>4. ASSUME NEW r \in requests, NEW p \in Persons, Reject(r, p)
        PROVE  /\ Write({}, "end", {}) /\ LockFree
               /\ UNCHANGED <<dag, status, attempts, reopens, seen, verdict, grants, cards,
                              idem, cut, mishaps>>
    BY <1>4 DEF Reject
  <1>5. CASE /\ Write({}, "end", {}) /\ LockFree
             /\ UNCHANGED <<dag, status, attempts, reopens, seen, verdict, grants, cards,
                            idem, cut, mishaps>>
    BY <1>5, WriteGives DEF LockFree
  <1> QED
    BY <1>1, <1>2, <1>3, <1>4, <1>5 DEF Noting

(* An edit changes the graph and leaves the work alone.                    *)
LEMMA EditingGives ==
    ASSUME Editing
    PROVE  \E d \in Graph, k \in Node :
              /\ LockFree /\ SoundGraph(d) /\ EditOf(k, d) /\ dag' = d /\ Written({})
              /\ UNCHANGED <<status, attempts, reopens, seen, verdict, grants, requests, cards,
                             idem, cut, mishaps>>
              /\ driver'.then = "end"
  <1>1. PICK d \in Edits : EditGraph(d)
    BY DEF Editing
  <1>2. d \in Graph
    BY PlansAssumption
  <1>3. PICK k \in Node : EditOf(k, d)
    BY <1>1 DEF EditGraph
  <1>4. Written({}) /\ driver'.then = "end"
    BY <1>1, WriteGives DEF EditGraph
  <1> QED
    BY <1>1, <1>2, <1>3, <1>4 DEF EditGraph

(* What an unblock of g resets. *)
Unblocked(g, T) == {g} \cup (IF T = {} THEN {} ELSE Redone(g, T))

(* An owner's retry sends a gate back with all that was made from what goes back. *)
LEMMA UnblockingGives ==
    ASSUME BaseInv, Unblocking
    PROVE  \E g \in Stuck, reset \in SUBSET dag.nodes :
              /\ LockFree /\ g \in reset /\ Written(reset)
              /\ status' = [n \in Node |-> IF n \in reset THEN "pending" ELSE status[n]]
              /\ attempts' = [n \in Node |-> attempts[n] + IF n \in reset THEN 1 ELSE 0]
              /\ grants' = [grants EXCEPT ![g].given = @ + 1, ![g].more = @ + 1]
              /\ \A n \in dag.nodes : \A m \in dag.deps[n] :
                    m \in reset /\ status[m] = "done" => n \in reset
              /\ UNCHANGED <<dag, reopens, seen, verdict, requests, cards, idem, cut, mishaps>>
              /\ driver'.then = "retry"
  <1>1. PICK g \in Stuck, T \in SUBSET dag.nodes : Unblock(g, T, 1)
    BY DEF Unblocking
  <1> DEFINE reset == Unblocked(g, T)
  <1>2. /\ LockFree /\ T \subseteq Ancestors(dag, g)
        /\ status' = [n \in Node |-> IF n \in reset THEN "pending" ELSE status[n]]
        /\ attempts' = [n \in Node |-> attempts[n] + IF n \in reset THEN 1 ELSE 0]
        /\ grants' = [grants EXCEPT ![g].given = @ + 1, ![g].more = @ + 1]
        /\ Write(reset, "retry", [gate |-> g, more |-> 1])
        /\ UNCHANGED <<dag, reopens, seen, verdict, requests, cards, idem, cut, mishaps>>
    BY <1>1 DEF Unblock, Unblocked
  <1>3. Written(reset) /\ driver'.then = "retry"
    BY <1>2, WriteGives
  <1>4. g \in dag.nodes /\ status[g] = "blocked" /\ g \in reset
    BY DEF Stuck, Unblocked
  <1>5. reset \subseteq dag.nodes
    BY <1>4 DEF Unblocked, Redone, Downstream
  <1>6. ASSUME NEW n \in dag.nodes, NEW m \in dag.deps[n], m \in reset, status[m] = "done"
        PROVE  n \in reset
    <2>1. m \in Redone(g, T) /\ T # {} /\ m # g
      BY <1>4, <1>6 DEF Unblocked
    <2> QED
      BY <2>1, RedoneIsClosed DEF Unblocked, BaseInv
  <1> HIDE DEF reset
  <1> QED
    BY <1>2, <1>3, <1>4, <1>5, <1>6

(* What the dispatcher makes of the nodes. *)
Resolved(n) == IF n \in Reset THEN "pending" ELSE IF n \in Halted THEN "blocked" ELSE status[n]
Dispatched ==
    /\ driver.at = "dispatch" /\ open = {}
    /\ status' = [n \in Node |-> Resolved(n)]
    /\ attempts' = [n \in Node |-> attempts[n] + IF n \in Reset THEN 1 ELSE 0]
    /\ open' = Ready(dag, status')
    /\ driver' = [driver EXCEPT !.at = IF open' = {} THEN Returned ELSE "workers"]
    /\ leads' = {}
    /\ UNCHANGED <<dag, seen, verdict, grants, requests, asked, cards, idem, cut, mishaps>>

(* Automated nodes came to an end. *)
Executing(ended, fails) ==
    /\ driver.at = "workers"
    /\ ended \subseteq open \ Human /\ fails \subseteq ended \cap Gate /\ EngineFinish(ended, fails)
    /\ open' = open \ ended /\ asked' = open \cap Human
    /\ UNCHANGED <<dag, attempts, reopens, grants, requests, cards, leads, idem>>

(* What the engine does by itself: it dispatches, or it executes what is ready. *)
LEMMA RunningGives ==
    ASSUME Running
    PROVE  \/ Dispatch /\ Dispatched
           \/ \E ended, fails : (SuperStep \/ Raise) /\ Executing(ended, fails)
  <1>1. CASE Dispatch
    BY <1>1 DEF Dispatch, Dispatched, Resolved
  <1>2. CASE SuperStep
    <2>1. PICK fails \in SUBSET ((open \ Human) \cap Gate) : EngineFinish(open \ Human, fails)
      BY <1>2 DEF SuperStep
    <2>2. Executing(open \ Human, fails)
      BY <1>2, <2>1 DEF SuperStep, Executing, feishu
    <2> QED
      BY <1>2, <2>2
  <1>3. CASE Raise
    <2>1. PICK ended, fails :
             /\ ended \subseteq open \ Human /\ fails \subseteq ended \cap Gate
             /\ EngineFinish(ended, fails) /\ open' = open \ ended
      BY <1>3 DEF Raise
    <2>2. Executing(ended, fails)
      BY <1>3, <2>1 DEF Raise, Executing, feishu
    <2> QED
      BY <1>3, <2>2
  <1> QED
    BY <1>1, <1>2, <1>3 DEF Running

-----------------------------------------------------------------------------
(* Types *)

(* What leaves the state of the nodes alone. *)
LEMMA QuietlyFacts ==
    ASSUME BaseInv, Quietly
    PROVE  /\ UNCHANGED <<run, step>> /\ (cut => cut') /\ cut' \in BOOLEAN
           /\ mishaps' = mishaps \/ (mishaps' \in Nat /\ mishaps' = mishaps - 1)
           /\ ~Hand => UNCHANGED <<cards, idem>>
           /\ driver'.at # "dispatch" \/ driver'.at = driver.at
  <1>1. mishaps \in Nat /\ cut \in BOOLEAN
    BY DEF BaseInv, TypesInv
  <1>2. IsDriver(driver)
    BY DEF BaseInv, DriverInv
  <1>3. CASE Rebind
    BY <1>1, <1>2, <1>3 DEF Rebind, IsDriver
  <1>4. CASE Hand
    <2>1. /\ UNCHANGED <<run, step>> /\ cut' = cut
          /\ mishaps' = mishaps \/ (mishaps > 0 /\ mishaps' = mishaps - 1)
      <3>1. PICK bad, deaf : IF bad \cup deaf = {} THEN UNCHANGED mishaps ELSE GoesWrong
        BY <1>4 DEF Hand
      <3> QED
        BY <1>4, <3>1 DEF Hand, GoesWrong
    <2>2. driver'.at # "dispatch"
      BY <1>2, <1>4 DEF Hand, IsDriver
    <2> QED
      BY <1>1, <1>4, <2>1, <2>2
  <1>5. CASE Close
    BY <1>1, <1>2, <1>5 DEF Close, IsDriver, AtRest
  <1>6. CASE Crash
    BY <1>1, <1>2, <1>6 DEF Crash, IsDriver, AtRest, GoesWrong
  <1>7. CASE Reconcile
    BY <1>1, <1>2, <1>7 DEF Reconcile, AtRest, feishu
  <1>8. CASE (\E n \in Ticket : SweepRounds(n)) \/ SweepInterrupts \/ SweepEnds
             \/ \E c \in cards : Complete(c)
    BY <1>1, <1>2, <1>8 DEF SweepRounds, SweepInterrupts, SweepEnds, Complete, feishu
  <1> QED
    BY <1>3, <1>4, <1>5, <1>6, <1>7, <1>8 DEF Quietly

(* The job's own record, and the sweep's. *)
LEMMA DriverKeeps ==
    ASSUME BaseInv, RequestsInv, LeadsInv, LegacyNext
    PROVE  DriverInv'
  <1>1. /\ IsDriver(driver) /\ driver.at \in Places /\ driver.keep \subseteq Human
        /\ driver.then \in {"end", "verdict", "retry", "refund"}
        /\ driver.then \in {"retry", "refund"} =>
              driver.request.gate \in Node /\ driver.request.more \in Nat
        /\ driver.at = "record" => driver.then \in {"verdict", "refund"}
        /\ driver.write \in BOOLEAN
        /\ sweep = NoSweep \/ (sweep = [at |-> sweep.at, as |-> sweep.as] /\ sweep.as.copy = 0)
    BY DEF BaseInv, DriverInv
  <1>2. asked \subseteq Human
    BY DEF BaseInv, TypesInv
  <1> DEFINE Goes == /\ IsDriver(driver') /\ driver'.at \in Places /\ driver'.keep \subseteq Human
                     /\ driver'.write \in BOOLEAN
                     /\ driver'.then = "end"
                        \/ (driver'.then = driver.then /\ driver'.request = driver.request)
                     /\ driver'.at = "record" => driver'.then \in {"verdict", "refund"}
  <1>3. (Goes /\ sweep' \in {sweep, NoSweep}) => DriverInv'
    BY <1>1 DEF DriverInv
  <1>4. CASE Quietly
    <2>1. CASE Rebind
      <3>1. /\ IsDriver(driver') /\ driver'.at = "hand" /\ driver'.keep = {}
            /\ driver'.write = driver.write
            /\ driver'.then = driver.then /\ driver'.request = driver.request
        BY <1>1, <2>1 DEF Rebind, IsDriver
      <3>2. sweep' = sweep
        BY <2>1 DEF Rebind
      <3> QED
        BY <1>1, <1>3, <3>1, <3>2 DEF Places, Carried
    <2>2. CASE Hand
      BY <1>1, <1>3, <2>2 DEF Hand, IsDriver, Places, Carried
    <2>3. CASE Close
      BY <1>1, <1>3, <2>3 DEF Close, IsDriver, Places, Carried, AtRest
    <2>4. CASE Crash \/ Reconcile
      <3>1. /\ IsDriver(driver') /\ driver'.at \in {"idle", "hand"} /\ driver'.keep = {}
            /\ driver'.write = FALSE /\ driver'.then = "end"
        <4>1. CASE Crash
          BY <4>1 DEF Crash, IsDriver, AtRest
        <4>2. CASE Reconcile
          BY <4>2 DEF Reconcile, IsDriver, AtRest
        <4> QED
          BY <2>4, <4>1, <4>2
      <3>2. sweep' \in {sweep, NoSweep}
        BY <2>4 DEF Crash, Reconcile
      <3> QED
        BY <1>3, <3>1, <3>2 DEF Places, Carried
    <2>5. CASE (\E n \in Ticket : SweepRounds(n)) \/ SweepInterrupts \/ SweepEnds
               \/ \E c \in cards : Complete(c)
      <3>1. driver' = driver
        BY <2>5 DEF SweepRounds, SweepInterrupts, SweepEnds, Complete
      <3>2. sweep' = NoSweep \/ (sweep' = [at |-> sweep'.at, as |-> sweep'.as] /\ sweep'.as.copy = 0)
        BY <1>1, <2>5 DEF SweepRounds, SweepInterrupts, SweepEnds, Complete, NoSweep
      <3> QED
        BY <1>1, <3>1, <3>2 DEF DriverInv
    <2> QED
      BY <1>4, <2>1, <2>2, <2>3, <2>4, <2>5 DEF Quietly
  <1>5. CASE Answering
    <2>1. PICK n, by, round, of, bad :
             /\ GivenAnswer(n, by, round, of, bad)
             /\ driver'.then \in {"end", "verdict"}
      BY <1>5, AnsweringGives
    <2>2. sweep' \in {sweep, NoSweep}
      BY <1>5 DEF Answering, SweepResume, TaskEvent, Pass, SendBack, Approve
    <2>3. IsDriver(driver') /\ driver'.at \in {"dispatch", "hand", "workers"}
          /\ driver'.write = FALSE /\ driver'.keep = {}
      BY <2>1 DEF GivenAnswer
    <2> QED
      BY <1>1, <2>1, <2>2, <2>3 DEF DriverInv, Places, Carried, GivenAnswer, IsDriver
  <1>6. CASE Noting
    <2>1. PICK reset, then, request :
             /\ Write(reset, then, request)
             /\ then = "end" \/ (then = driver.then /\ request = driver.request)
      BY <1>6 DEF Noting, Beat, Record, Escalate, Reject
    <2>2. sweep' = sweep
      BY <1>6 DEF Noting, Beat, Record, Escalate, Reject
    <2> QED
      BY <1>1, <1>2, <1>3, <2>1, <2>2 DEF Write, IsDriver, AtRest, Places, Carried, Kept
  <1>7. CASE Editing
    BY <1>1, <1>2, <1>3, <1>7 DEF Editing, EditGraph, Write, IsDriver, AtRest, Places, Carried, Kept
  <1>8. CASE Unblocking
    <2>1. PICK g \in Stuck, T \in SUBSET dag.nodes : Unblock(g, T, 1)
      BY <1>8 DEF Unblocking
    <2>2. PICK reset : Write(reset, "retry", [gate |-> g, more |-> 1]) /\ sweep' = sweep
      BY <2>1 DEF Unblock
    <2>3. g \in Node
      BY DEF Stuck, BaseInv, TypesInv, Graph
    <2>4. /\ IsDriver(driver') /\ driver'.at = "dispatch" /\ driver'.keep \subseteq Human
          /\ driver'.write \in BOOLEAN /\ driver'.then = "retry"
          /\ driver'.request = [gate |-> g, more |-> 1]
      BY <1>2, <2>2 DEF Write, IsDriver, AtRest, Kept
    <2> QED
      BY <1>1, <2>2, <2>3, <2>4 DEF DriverInv, Places, Carried
  <1>9. CASE Dispatch \/ SuperStep
    BY <1>1, <1>3, <1>9 DEF Dispatch, SuperStep, IsDriver, Places, Carried, Returned
  <1>10. CASE Raise
    <2>1. /\ IsDriver(Thrown) /\ Thrown.at \in {"idle", "close"} /\ Thrown.keep = {}
          /\ Thrown.write = FALSE
          /\ \/ Thrown.then = "end"
             \/ driver.then = "retry" /\ Thrown.then = "refund" /\ Thrown.request = driver.request
      BY DEF Thrown, AtRest, IsDriver
    <2>2. driver' = Thrown /\ sweep' = sweep
      BY <1>10 DEF Raise
    <2> QED
      BY <1>1, <2>1, <2>2 DEF DriverInv, Places, Carried
  <1> QED
    BY <1>4, <1>5, <1>6, <1>7, <1>8, <1>9, <1>10, EveryStep DEF Running

(* A node is at most put back, into its next round.                        *)
LEMMA RoundsGoUp ==
    ASSUME BaseInv, RequestsInv, LeadsInv, LegacyNext
    PROVE  /\ attempts' \in [Node -> Nat]
           /\ \A n \in Node :
                /\ attempts'[n] \in {attempts[n], attempts[n] + 1}
                /\ attempts'[n] # attempts[n] => status'[n] = "pending"
                /\ status'[n] = "pending" /\ attempts'[n] = attempts[n] => status[n] = "pending"
  <1>1. /\ attempts \in [Node -> Nat]
        /\ status \in [Node -> {"pending", "done", "failed", "blocked"}]
    BY DEF BaseInv, TypesInv
  <1>2. CASE UNCHANGED <<status, attempts>>
    BY <1>1, <1>2
  <1>3. CASE Quietly
    BY <1>2, <1>3, QuietlyFacts DEF run
  <1>4. CASE Answering
    <2>1. PICK m, by, round, of, bad : GivenAnswer(m, by, round, of, bad)
      BY <1>4, AnsweringGives
    <2>2. /\ attempts' = attempts
          /\ status' = [status EXCEPT ![m] = IF bad = Nothing THEN "done" ELSE "failed"]
      BY <2>1 DEF GivenAnswer
    <2> QED
      BY <1>1, <2>2
  <1>5. CASE Noting \/ Editing
    BY <1>2, <1>5, NotingGives, EditingGives
  <1>6. CASE Unblocking
    <2>1. PICK reset :
             /\ status' = [m \in Node |-> IF m \in reset THEN "pending" ELSE status[m]]
             /\ attempts' = [m \in Node |-> attempts[m] + IF m \in reset THEN 1 ELSE 0]
      BY <1>6, UnblockingGives
    <2>2. attempts' \in [Node -> Nat]
      BY <1>1, <2>1
    <2> QED
      BY <1>1, <2>1, <2>2
  <1>7. CASE Running
    <2>1. CASE Dispatched
      <3>1. attempts' \in [Node -> Nat]
        BY <1>1, <2>1 DEF Dispatched
      <3> QED
        BY <1>1, <2>1, <3>1 DEF Dispatched, Resolved
    <2>2. ASSUME NEW ended, NEW fails, Executing(ended, fails) PROVE attempts' = attempts
          /\ status' = [m \in Node |-> IF m \in fails THEN "failed"
                                       ELSE IF m \in ended THEN "done" ELSE status[m]]
      BY <2>2 DEF Executing, EngineFinish
    <2> QED
      BY <1>1, <1>7, <2>1, <2>2, RunningGives
  <1> QED
    BY <1>3, <1>4, <1>5, <1>6, <1>7, EveryStep

(* No step leaves the types.                                               *)
LEMMA TypesKeep ==
    ASSUME BaseInv, RequestsInv, LeadsInv, LegacyNext
    PROVE  TypesInv'
  <1>1. /\ dag \in Graph /\ SoundGraph(dag)
        /\ status \in [Node -> {"pending", "done", "failed", "blocked"}]
        /\ asked \subseteq open \cap Human /\ open \subseteq Node
        /\ \A n \in Node : status[n] = "failed" => n \in Gate
        /\ reopens \in [Node -> Nat]
        /\ verdict = [n \in Node |-> verdict[n]] /\ seen = [n \in Node |-> seen[n]]
        /\ grants \in [Node -> [given : Nat, more : Nat, back : Nat, less : Nat]]
        /\ cut \in BOOLEAN /\ mishaps \in Nat
    BY DEF BaseInv, TypesInv
  <1>2. attempts' \in [Node -> Nat]
    BY RoundsGoUp
  <1>3. CASE Quietly
    BY <1>1, <1>2, <1>3, QuietlyFacts DEF TypesInv, run, step
  <1>4. CASE Answering
    <2>1. PICK n, by, round, of, bad : GivenAnswer(n, by, round, of, bad)
      BY <1>4, AnsweringGives
    <2>2. /\ status' = [status EXCEPT ![n] = IF bad = Nothing THEN "done" ELSE "failed"]
          /\ verdict' = [verdict EXCEPT ![n] = bad]
          /\ seen' = [seen EXCEPT ![n] = [by |-> by, round |-> round, of |-> of]]
          /\ open' = open \ {n} /\ asked' = asked \ {n}
          /\ UNCHANGED <<dag, reopens, grants, cut, mishaps>>
          /\ bad = Nothing \/ n \in Gate
      BY <2>1 DEF GivenAnswer
    <2>3. verdict' = [m \in Node |-> verdict'[m]] /\ seen' = [m \in Node |-> seen'[m]]
      BY <1>1, <2>2
    <2>4. /\ status' \in [Node -> {"pending", "done", "failed", "blocked"}]
          /\ \A m \in Node : status'[m] = "failed" => m \in Gate
      BY <1>1, <2>2
    <2> QED
      BY <1>1, <1>2, <2>2, <2>3, <2>4 DEF TypesInv
  <1>5. CASE Noting
    <2>1. /\ open' = {} /\ asked' = {}
          /\ UNCHANGED <<dag, status, reopens, seen, verdict, cut, mishaps>>
      BY <1>5, NotingGives DEF Written
    <2>2. grants' \in [Node -> [given : Nat, more : Nat, back : Nat, less : Nat]]
      <3>1. CASE grants' = grants
        BY <1>1, <3>1
      <3>2. CASE driver.at = "record" /\ driver.then # "verdict"
                 /\ grants' = [grants EXCEPT ![driver.request.gate].back = @ + 1,
                                  ![driver.request.gate].less = @ + driver.request.more]
        <4>1. driver.request.gate \in Node /\ driver.request.more \in Nat
          BY <3>2 DEF BaseInv, DriverInv
        <4> DEFINE g == driver.request.gate
                   less == driver.request.more
        <4> HIDE DEF g, less
        <4>2. grants' = [grants EXCEPT ![g] =
                           [grants[g] EXCEPT !.back = @ + 1, !.less = @ + less]]
          BY <1>1, <3>2, <4>1 DEF g, less
        <4>3. g \in Node /\ less \in Nat
          BY <4>1 DEF g, less
        <4>4. [grants[g] EXCEPT !.back = @ + 1, !.less = @ + less]
              \in [given : Nat, more : Nat, back : Nat, less : Nat]
          <5>1. ASSUME NEW r \in [given : Nat, more : Nat, back : Nat, less : Nat]
                PROVE  [r EXCEPT !.back = @ + 1, !.less = @ + less]
                          \in [given : Nat, more : Nat, back : Nat, less : Nat]
            <6> DEFINE s == [r EXCEPT !.back = @ + 1]
            <6>1. s \in [given : Nat, more : Nat, back : Nat, less : Nat] /\ s.less = r.less
              OBVIOUS
            <6>2. [s EXCEPT !.less = r.less + less]
                     \in [given : Nat, more : Nat, back : Nat, less : Nat]
              <7> HIDE DEF s
              <7> QED
                BY <4>3, <6>1
            <6>3. [r EXCEPT !.back = @ + 1, !.less = @ + less] = [s EXCEPT !.less = r.less + less]
              OBVIOUS
            <6> QED
              BY <6>2, <6>3
          <5> QED
            BY <1>1, <4>3, <5>1
        <4> QED
          BY <1>1, <4>2, <4>3, <4>4
      <3> QED
        BY <1>5, <3>1, <3>2, NotingGives
    <2> QED
      BY <1>1, <1>2, <2>1, <2>2 DEF TypesInv
  <1>6. CASE Editing
    <2>1. /\ dag' \in Graph /\ SoundGraph(dag') /\ open' = {} /\ asked' = {}
          /\ UNCHANGED <<status, reopens, seen, verdict, grants, cut, mishaps>>
      BY <1>6, EditingGives DEF Written
    <2>2. SoundGraph(dag)'
      BY <2>1 DEF SoundGraph, Ancestors
    <2> QED
      BY <1>1, <1>2, <2>1, <2>2 DEF TypesInv
  <1>7. CASE Unblocking
    <2>1. PICK g \in Stuck, reset \in SUBSET dag.nodes :
             /\ Written(reset)
             /\ status' = [n \in Node |-> IF n \in reset THEN "pending" ELSE status[n]]
             /\ grants' = [grants EXCEPT ![g].given = @ + 1, ![g].more = @ + 1]
             /\ UNCHANGED <<dag, reopens, seen, verdict, cut, mishaps>>
      BY <1>7, UnblockingGives
    <2>2. g \in Node
      BY <1>1 DEF Stuck, Graph
    <2>3. grants' \in [Node -> [given : Nat, more : Nat, back : Nat, less : Nat]]
      BY <1>1, <2>1, <2>2
    <2>4. /\ status' \in [Node -> {"pending", "done", "failed", "blocked"}]
          /\ \A m \in Node : status'[m] = "failed" => m \in Gate
      BY <1>1, <2>1
    <2>5. open' = {} /\ asked' = {}
      BY <2>1 DEF Written
    <2> QED
      BY <1>1, <1>2, <2>1, <2>3, <2>4, <2>5 DEF TypesInv
  <1>8. CASE Dispatch
    <2>1. Dispatched
      BY <1>8 DEF Dispatch, Dispatched, Resolved
    <2>2. /\ status' \in [Node -> {"pending", "done", "failed", "blocked"}]
          /\ \A m \in Node : status'[m] = "failed" => m \in Gate
      BY <1>1, <2>1 DEF Dispatched, Resolved
    <2>3. asked' = {} /\ open' \subseteq Node
      BY <1>1, <2>1 DEF Dispatched, Ready, Graph
    <2>4. reopens' \in [Node -> Nat]
      BY <1>1, <1>8 DEF Dispatch
    <2> QED
      BY <1>1, <1>2, <2>1, <2>2, <2>3, <2>4 DEF TypesInv, Dispatched
  <1>9. ASSUME NEW ended, NEW fails, SuperStep \/ Raise, Executing(ended, fails)
        PROVE  TypesInv'
    <2>1. /\ ended \subseteq open \ Human /\ fails \subseteq ended \cap Gate
          /\ open' = open \ ended /\ asked' = open \cap Human
          /\ UNCHANGED <<dag, grants>>
          /\ status' = [n \in Node |-> IF n \in fails THEN "failed"
                                       ELSE IF n \in ended THEN "done" ELSE status[n]]
      BY <1>9 DEF Executing, EngineFinish
    <2>2. verdict' = [m \in Node |-> verdict'[m]] /\ seen' = [m \in Node |-> seen'[m]]
      BY <1>9 DEF Executing, EngineFinish
    <2>3. /\ status' \in [Node -> {"pending", "done", "failed", "blocked"}]
          /\ \A m \in Node : status'[m] = "failed" => m \in Gate
      BY <1>1, <2>1
    <2>4. reopens' = reopens
      BY <1>9 DEF Executing
    <2>5. cut' \in BOOLEAN /\ mishaps' \in Nat
      <3>1. mishaps' = mishaps \/ (mishaps > 0 /\ mishaps' = mishaps - 1)
        BY <1>9 DEF SuperStep, Raise, GoesWrong
      <3>2. cut' = cut \/ cut' = (cut \/ driver.kept # {} \/ Reopening' # {})
        BY <1>9 DEF SuperStep, Raise
      <3>3. cut' \in BOOLEAN
        <4> DEFINE worse == driver.kept # {} \/ Reopening' # {}
        <4>1. worse \in BOOLEAN
          OBVIOUS
        <4> HIDE DEF worse
        <4> QED
          BY <1>1, <3>2, <4>1 DEF worse
      <3> QED
        BY <1>1, <3>1, <3>3
    <2> QED
      BY <1>1, <1>2, <2>1, <2>2, <2>3, <2>4, <2>5 DEF TypesInv
  <1>10. CASE Running
    BY <1>8, <1>9, <1>10, RunningGives
  <1> QED
    BY <1>3, <1>4, <1>5, <1>6, <1>7, <1>10, EveryStep

(* What is done, fails or is open has all its inputs.                      *)
LEMMA GraphKeeps ==
    ASSUME BaseInv, RequestsInv, LeadsInv, LegacyNext
    PROVE  GraphInv'
  <1>1. /\ dag \in Graph /\ SoundGraph(dag) /\ dag.nodes \subseteq Node
        /\ status \in [Node -> {"pending", "done", "failed", "blocked"}]
        /\ asked \subseteq open /\ open \subseteq Node
        /\ \A n \in dag.nodes : dag.deps[n] \subseteq dag.nodes
    BY DEF BaseInv, TypesInv, Graph, SoundGraph
  <1>2. /\ \A n \in Node \ dag.nodes : status[n] = "pending"
        /\ \A n \in dag.nodes : status[n] \in {"done", "failed"} =>
              \A m \in dag.deps[n] : status[m] = "done"
        /\ open \subseteq Ready(dag, status)
        /\ driver.at = "dispatch" => open = {}
    BY DEF BaseInv, GraphInv
  <1>3. \A n \in open : /\ n \in dag.nodes /\ status[n] = "pending"
                        /\ \A m \in dag.deps[n] : status[m] = "done"
    BY <1>2 DEF Ready
  <1>4. CASE Quietly
    BY <1>2, <1>4, QuietlyFacts DEF GraphInv, run, step
  <1>5. CASE Answering
    <2>1. PICK n, by, round, of, bad : GivenAnswer(n, by, round, of, bad)
      BY <1>5, AnsweringGives
    <2>2. /\ n \in asked
          /\ status' = [status EXCEPT ![n] = IF bad = Nothing THEN "done" ELSE "failed"]
          /\ open' = open \ {n} /\ dag' = dag
          /\ driver'.at = "dispatch" => open = {n}
      BY <2>1 DEF GivenAnswer
    <2>3. open' \subseteq Ready(dag, status')
      BY <1>1, <1>3, <2>2 DEF Ready
    <2> QED
      BY <1>1, <1>2, <1>3, <2>2, <2>3 DEF GraphInv
  <1>6. CASE Noting
    BY <1>2, <1>6, NotingGives DEF GraphInv, Written
  <1>7. CASE Editing
    <2>1. PICK d \in Graph, k \in Node :
             EditOf(k, d) /\ dag' = d /\ Written({}) /\ status' = status
      BY <1>7, EditingGives
    <2>2. open' = {}
      BY <2>1 DEF Written
    <2>3. status[k] = "pending"
      BY <1>2, <2>1 DEF EditOf, Frozen
    <2>4. ASSUME NEW n \in Node, status[n] # "pending"
          PROVE  n \in dag.nodes /\ n \in d.nodes /\ d.deps[n] = dag.deps[n]
      BY <1>2, <2>1, <2>3, <2>4 DEF EditOf
    <2>5. ASSUME NEW n \in d.nodes, status[n] \in {"done", "failed"}, NEW m \in d.deps[n]
          PROVE  status[m] = "done"
      BY <1>2, <2>4, <2>5 DEF Graph
    <2> QED
      BY <2>1, <2>2, <2>4, <2>5 DEF GraphInv
  <1>8. CASE Unblocking
    <2>1. PICK g \in Stuck, reset \in SUBSET dag.nodes :
             /\ Written(reset) /\ dag' = dag
             /\ status' = [n \in Node |-> IF n \in reset THEN "pending" ELSE status[n]]
             /\ \A n \in dag.nodes : \A m \in dag.deps[n] :
                   m \in reset /\ status[m] = "done" => n \in reset
      BY <1>8, UnblockingGives
    <2>2. open' = {}
      BY <2>1 DEF Written
    <2> QED
      BY <1>1, <1>2, <2>1, <2>2 DEF GraphInv
  <1>9. CASE Dispatched
    <2>1. /\ dag' = dag /\ status' = [n \in Node |-> Resolved(n)] /\ open' = Ready(dag, status')
          /\ driver' = [driver EXCEPT !.at = IF open' = {} THEN Returned ELSE "workers"]
      BY <1>9 DEF Dispatched
    <2>2. Reset \subseteq dag.nodes /\ Failed \subseteq Halted \cup Reset /\ Halted \subseteq Failed
      BY ResetFacts
    <2>3. ASSUME NEW n \in dag.nodes, status'[n] \in {"done", "failed"}
          PROVE  n \notin Reset /\ n \notin Halted /\ status[n] = "done"
      BY <1>1, <2>1, <2>2, <2>3 DEF Resolved, Failed
    <2>4. ASSUME NEW n \in dag.nodes, status'[n] \in {"done", "failed"}, NEW m \in dag.deps[n]
          PROVE  status'[m] = "done"
      <3>1. status[m] = "done" /\ m \in dag.nodes
        BY <1>1, <1>2, <2>3, <2>4
      <3>2. m \notin Reset
        BY <2>3, <2>4, <3>1, ResetIsClosed DEF BaseInv
      <3>3. m \notin Halted
        BY <2>2, <3>1 DEF Failed
      <3> QED
        BY <1>1, <2>1, <3>1, <3>2, <3>3 DEF Resolved
    <2>5. \A n \in Node \ dag.nodes : status'[n] = "pending"
      BY <1>2, <2>1, <2>2 DEF Resolved, Failed
    <2>6. driver'.at = "dispatch" => open' = {}
      BY <2>1 DEF BaseInv, DriverInv, IsDriver, Returned
    <2> QED
      BY <2>1, <2>4, <2>5, <2>6 DEF GraphInv
  <1>10. ASSUME NEW ended, NEW fails, SuperStep \/ Raise, Executing(ended, fails)
        PROVE  GraphInv'
    <2>1. /\ ended \subseteq open \ Human /\ fails \subseteq ended
          /\ open' = open \ ended /\ dag' = dag
          /\ status' = [n \in Node |-> IF n \in fails THEN "failed"
                                       ELSE IF n \in ended THEN "done" ELSE status[n]]
      BY <1>10 DEF Executing, EngineFinish
    <2>2. open' \subseteq Ready(dag, status')
      BY <1>1, <1>3, <2>1 DEF Ready
    <2>3. ASSUME NEW n \in dag.nodes, status'[n] \in {"done", "failed"}, NEW m \in dag.deps[n]
          PROVE  status'[m] = "done"
      <3>1. status[m] = "done" /\ m \in Node
        BY <1>1, <1>2, <1>3, <2>1, <2>3
      <3>2. m \notin ended
        BY <1>3, <2>1, <3>1
      <3> QED
        BY <1>1, <2>1, <3>1, <3>2
    <2>4. driver'.at = "dispatch" => open' = {}
      <3>1. CASE SuperStep
        BY <3>1 DEF SuperStep, BaseInv, DriverInv, IsDriver, Returned
      <3>2. CASE Raise
        BY <3>2 DEF Raise, Thrown, AtRest
      <3> QED
        BY <1>10, <3>1, <3>2
    <2>5. \A n \in Node \ dag.nodes : status'[n] = "pending"
      BY <1>2, <1>3, <2>1
    <2> QED
      BY <2>1, <2>2, <2>3, <2>4, <2>5 DEF GraphInv
  <1>11. CASE Running
    BY <1>9, <1>10, <1>11, RunningGives
  <1> QED
    BY <1>4, <1>5, <1>6, <1>7, <1>8, <1>11, EveryStep

-----------------------------------------------------------------------------
(* Cards and tasks in people's hands *)

(* What the driver hands out. *)
Handing(new, bad, ghost) ==
    /\ new \subseteq asked /\ bad \subseteq new /\ ghost \subseteq bad
    /\ \A n \in new : Unasked(n)
    /\ cards' = cards \cup {Message(n) : n \in (new \ bad) \cup ghost}
    /\ idem' = idem \cup {<<n, attempts[n]>> : n \in new \ bad}
    /\ bad # {} => mishaps' = mishaps - 1
    /\ mishaps' = mishaps \/ (mishaps > 0 /\ mishaps' = mishaps - 1)
    /\ leads \subseteq leads' /\ \A n \in new \ bad : Message(n) \in leads'
    /\ \A c \in leads' : \/ c \in leads \/ \E n \in (new \ bad) \cup ghost : c = Message(n)
                         \/ c \in cards /\ c.node \in asked /\ Recorded(c)
                            /\ c.attempt = attempts[c.node]

(* What handing out does to cards, keys and leads.                         *)
LEMMA HandGives ==
    ASSUME Hand
    PROVE  \E new, bad, ghost : Handing(new, bad, ghost)
  <1> DEFINE need == asked \ driver.skip
             new == {n \in need : Unasked(n)}
             mute == {g \in Stuck : Notice(g) \notin told}
             Sent(bad, ghost) == {Message(n) : n \in (new \ bad) \cup ghost}
             Filed(bad) == {<<n, attempts[n]>> : n \in new \ bad}
  <1>1. PICK bad \in SUBSET new, deaf \in SUBSET mute : \E ghost \in SUBSET bad :
           /\ IF bad \cup deaf = {} THEN UNCHANGED mishaps ELSE GoesWrong
           /\ cards' = cards \cup Sent(bad, ghost)
           /\ idem' = idem \cup Filed(bad)
           /\ leads' =
                leads \cup {c \in Sent(bad, ghost) : c.node \notin Ticket \/ Slot(c) \in Filed(bad)}
                      \cup {c \in cards : /\ c.node \in need \cap Ticket /\ Recorded(c)
                                          /\ c.attempt = attempts[c.node]}
    BY DEF Hand
  <1>2. PICK ghost \in SUBSET bad :
           /\ IF bad \cup deaf = {} THEN UNCHANGED mishaps ELSE GoesWrong
           /\ cards' = cards \cup Sent(bad, ghost)
           /\ idem' = idem \cup Filed(bad)
           /\ leads' =
                leads \cup {c \in Sent(bad, ghost) : c.node \notin Ticket \/ Slot(c) \in Filed(bad)}
                      \cup {c \in cards : /\ c.node \in need \cap Ticket /\ Recorded(c)
                                          /\ c.attempt = attempts[c.node]}
    BY <1>1
  <1>3. bad # {} => mishaps' = mishaps - 1
    BY <1>2 DEF GoesWrong
  <1>4. mishaps' = mishaps \/ (mishaps > 0 /\ mishaps' = mishaps - 1)
    BY <1>2 DEF GoesWrong
  <1>5. ASSUME NEW n \in new \ bad PROVE Message(n) \in leads'
    <2>1. Message(n) \in Sent(bad, ghost)
      BY <1>5
    <2>2. Slot(Message(n)) = <<n, attempts[n]>>
      BY DEF Slot, Message
    <2>3. Slot(Message(n)) \in Filed(bad)
      BY <1>5, <2>2
    <2> HIDE DEF Sent, Filed
    <2> QED
      BY <1>2, <2>1, <2>3
  <1>6. ASSUME NEW c \in leads'
        PROVE  \/ c \in leads \/ \E n \in (new \ bad) \cup ghost : c = Message(n)
               \/ c \in cards /\ c.node \in asked /\ Recorded(c) /\ c.attempt = attempts[c.node]
    <2>1. \/ c \in leads \/ c \in Sent(bad, ghost)
          \/ c \in cards /\ c.node \in asked /\ Recorded(c) /\ c.attempt = attempts[c.node]
      <3> HIDE DEF Sent, Filed, new
      <3> QED
        BY <1>2, <1>6
    <2> QED
      BY <2>1
  <1>7. leads \subseteq leads'
    <2> HIDE DEF Sent, Filed, new
    <2> QED
      BY <1>2
  <1>8. Handing(new, bad, ghost)
    BY <1>2, <1>3, <1>4, <1>5, <1>6, <1>7 DEF Handing
  <1> QED
    BY <1>8

(* Of a round, at most one more is handed out at a time, and it is the last. *)
LEMMA SheetGrows ==
    ASSUME BaseInv, NEW new, NEW bad, NEW ghost, Handing(new, bad, ghost), NEW s
    PROVE  \/ Sheet(s)' = Sheet(s)
           \/ \E n \in (new \ bad) \cup ghost :
                /\ s = <<n, attempts[n]>> /\ Sheet(s)' = Sheet(s) \cup {Message(n)}
                /\ Message(n).copy = Cardinality(Sheet(s)) + 1
                /\ Cardinality(Sheet(s)) \in Nat
  <1> DEFINE told1 == (new \ bad) \cup ghost
  <1>1. cards' = cards \cup {Message(n) : n \in told1}
    BY DEF Handing
  <1>2. \A n : Slot(Message(n)) = <<n, attempts[n]>>
    BY DEF Slot, Message
  <1>3. CASE \A n \in told1 : s # <<n, attempts[n]>>
    <2>1. Sheet(s)' = Sheet(s)
      BY <1>1, <1>2, <1>3 DEF Sheet, Slot
    <2> QED
      BY <2>1
  <1>4. ASSUME NEW n \in told1, s = <<n, attempts[n]>>
        PROVE  /\ Sheet(s)' = Sheet(s) \cup {Message(n)}
               /\ Message(n).copy = Cardinality(Sheet(s)) + 1
               /\ Cardinality(Sheet(s)) \in Nat
    <2>1. \A m \in told1 : s = <<m, attempts[m]>> => m = n
      BY <1>4
    <2>2. Sheet(s)' = Sheet(s) \cup {Message(n)}
      BY <1>1, <1>2, <1>4, <2>1 DEF Sheet, Slot
    <2>3. Cardinality(Sheet(s)) \in Nat
      BY FS_CardinalityType DEF BaseInv, FilesInv
    <2>4. Copies(n) = Cardinality(Sheet(s))
      <3>1. {c \in cards : Slot(c) = <<n, attempts[n]>> /\ c.copy > 0} = Sheet(s)
        BY <1>4 DEF Sheet, BaseInv, FilesInv, IsCard
      <3> QED
        BY <3>1 DEF Copies
    <2> QED
      BY <2>2, <2>3, <2>4 DEF Message
  <1> QED
    BY <1>3, <1>4

(* Cards and keys are never of a later round.                              *)
LEMMA FilesKeep ==
    ASSUME BaseInv, RequestsInv, LeadsInv, LegacyNext
    PROVE  FilesInv'
  <1>1. /\ \A c \in cards : IsCard(c) /\ c.attempt <= attempts[c.node]
        /\ \A s : IsFiniteSet(Sheet(s))
        /\ idem \subseteq Node \X Nat /\ \A s \in idem : s[2] <= attempts[s[1]]
        /\ attempts \in [Node -> Nat] /\ asked \subseteq Node
    BY DEF BaseInv, FilesInv, TypesInv
  <1>2. /\ attempts' \in [Node -> Nat]
        /\ \A n \in Node : attempts'[n] \in {attempts[n], attempts[n] + 1}
    BY RoundsGoUp
  <1>3. CASE UNCHANGED <<cards, idem>>
    <2>1. \A c \in cards : IsCard(c) /\ c.attempt <= attempts'[c.node]
      BY <1>1, <1>2 DEF IsCard
    <2>2. \A s \in idem : s[2] <= attempts'[s[1]]
      <3> SUFFICES ASSUME NEW s \in idem PROVE s[2] <= attempts'[s[1]]
        OBVIOUS
      <3>1. s[1] \in Node /\ s[2] \in Nat /\ s[2] <= attempts[s[1]]
        BY <1>1
      <3> QED
        BY <1>1, <1>2, <3>1
    <2>3. \A s : Sheet(s)' = Sheet(s)
      BY <1>3 DEF Sheet, Slot
    <2> QED
      BY <1>1, <1>3, <2>1, <2>2, <2>3 DEF FilesInv, IsCard
  <1>4. CASE Hand
    <2>1. PICK new, bad, ghost : Handing(new, bad, ghost)
      BY <1>4, HandGives
    <2>2. attempts' = attempts
      BY <1>4 DEF Hand, run
    <2>3. ASSUME NEW s PROVE IsFiniteSet(Sheet(s)')
      <3>1. CASE Sheet(s)' = Sheet(s)
        BY <1>1, <3>1
      <3>2. ASSUME NEW n, Sheet(s)' = Sheet(s) \cup {Message(n)} PROVE IsFiniteSet(Sheet(s)')
        BY <1>1, <3>2, FS_AddElement
      <3> QED
        BY <2>1, <3>1, <3>2, SheetGrows
    <2>4. ASSUME NEW n \in (new \ bad) \cup ghost
          PROVE  IsCard(Message(n)) /\ Message(n).attempt <= attempts[Message(n).node]
      <3>1. n \in Node
        BY <1>1, <2>1 DEF Handing
      <3>2. Copies(n) \in Nat
        <4>1. {c \in cards : Slot(c) = <<n, attempts[n]>> /\ c.copy > 0} = Sheet(<<n, attempts[n]>>)
          BY <1>1 DEF Sheet, IsCard
        <4> QED
          BY <1>1, <4>1, FS_CardinalityType DEF Copies
      <3> QED
        BY <1>1, <3>1, <3>2 DEF IsCard, Message
    <2>5. \A c \in cards' : IsCard(c) /\ c.attempt <= attempts[c.node]
      BY <1>1, <2>1, <2>4 DEF Handing
    <2>6. idem' \subseteq Node \X Nat /\ \A s \in idem' : s[2] <= attempts[s[1]]
      <3> SUFFICES ASSUME NEW s \in idem' PROVE s \in Node \X Nat /\ s[2] <= attempts[s[1]]
        OBVIOUS
      <3>1. CASE s \in idem
        BY <1>1, <3>1
      <3>2. ASSUME NEW n \in new, s = <<n, attempts[n]>> PROVE s \in Node \X Nat /\ s[2] <= attempts[s[1]]
        <4>1. n \in Node
          BY <1>1, <2>1 DEF Handing
        <4> QED
          BY <1>1, <3>2, <4>1
      <3> QED
        BY <2>1, <3>1, <3>2 DEF Handing
    <2> QED
      BY <2>2, <2>3, <2>5, <2>6 DEF FilesInv, IsCard
  <1>5. CASE Quietly
    BY <1>3, <1>4, <1>5, QuietlyFacts
  <1>6. CASE Answering
    <2>1. PICK n, by, round, of, bad : GivenAnswer(n, by, round, of, bad)
      BY <1>6, AnsweringGives
    <2> QED
      BY <1>3, <2>1 DEF GivenAnswer
  <1>7. CASE Noting \/ Editing \/ Unblocking
    BY <1>3, <1>7, NotingGives, EditingGives, UnblockingGives
  <1>8. CASE Running
    BY <1>3, <1>8, RunningGives DEF Dispatched, Executing
  <1> QED
    BY <1>5, <1>6, <1>7, <1>8, EveryStep

(* The parts of the invariant that the others rest on.                     *)
LEMMA BaseKeeps ==
    ASSUME BaseInv, RequestsInv, LeadsInv, LegacyNext
    PROVE  BaseInv'
  BY TypesKeep, DriverKeeps, FilesKeep, GraphKeeps DEF BaseInv

-----------------------------------------------------------------------------
(* Requests *)

RequestFine(r) ==
    /\ RequestOK(r)
    /\ (r.ran = 1 /\ r.verdict = "none" /\ r.round = attempts[r.gate]) => Answered(r.gate)

(* What has been carried out stays answered as long as the round lasts.    *)
LEMMA FineStays ==
    ASSUME BaseInv, RequestsInv, LeadsInv, LegacyNext, NEW r, RequestOK(r)
    PROVE  /\ RequestOK(r)' /\ (RequestFine(r) => RequestFine(r)')
           /\ r.round = attempts'[r.gate] => r.round = attempts[r.gate]
  <1>1. r.gate \in Node /\ r.round \in Nat /\ r.round <= attempts[r.gate]
    BY LegacyAssumption DEF RequestOK
  <1>2. /\ attempts[r.gate] \in Nat
        /\ attempts'[r.gate] \in {attempts[r.gate], attempts[r.gate] + 1}
        /\ status'[r.gate] = "pending" /\ attempts'[r.gate] = attempts[r.gate]
              => status[r.gate] = "pending"
    BY <1>1, RoundsGoUp DEF BaseInv, TypesInv
  <1>3. r.round <= attempts'[r.gate]
        /\ (r.round = attempts'[r.gate] => attempts'[r.gate] = attempts[r.gate])
    BY <1>1, <1>2
  <1>4. RequestOK(r)'
    BY <1>3 DEF RequestOK, Approvers
  <1>5. status'[r.gate] # "pending" => Answered(r.gate)'
    BY <1>1, TypesKeep DEF TypesInv, Answered
  <1>6. Answered(r.gate) => status[r.gate] # "pending"
    BY DEF Answered
  <1> QED
    BY <1>2, <1>3, <1>4, <1>5, <1>6 DEF RequestFine

(* Only an approval sends a job to put one on file.                        *)
LEMMA VerdictStays ==
    ASSUME BaseInv, RequestsInv, LeadsInv, LegacyNext, driver'.then = "verdict"
    PROVE  \/ driver.then = "verdict" /\ driver'.request = driver.request
           \/ \E r \in requests, p \in Persons :
                Approve(r, p) /\ driver'.request = [r EXCEPT !.ran = @ + 1]
  <1>1. IsDriver(driver)
    BY DEF BaseInv, DriverInv
  <1>2. CASE Quietly
    <2>1. CASE Rebind
      BY <1>1, <2>1 DEF Rebind, IsDriver
    <2>2. CASE Hand
      BY <1>1, <2>2 DEF Hand, IsDriver
    <2>3. CASE Close
      BY <2>3 DEF Close, AtRest
    <2>4. CASE Crash
      BY <2>4 DEF Crash, AtRest
    <2>5. CASE Reconcile
      BY <2>5 DEF Reconcile, AtRest
    <2>6. CASE (\E n \in Ticket : SweepRounds(n)) \/ SweepInterrupts \/ SweepEnds
               \/ \E c \in cards : Complete(c)
      BY <2>6 DEF SweepRounds, SweepInterrupts, SweepEnds, Complete
    <2> QED
      BY <1>2, <2>1, <2>2, <2>3, <2>4, <2>5, <2>6 DEF Quietly
  <1>3. CASE Answering
    BY <1>3, AnsweringGives
  <1>4. CASE Noting
    <2>1. CASE Beat
      BY <2>1, WriteGives DEF Beat
    <2>2. PICK request : Write({}, "end", request) \/ Beat
      BY <1>4 DEF Noting, Record, Escalate, Reject
    <2>3. CASE Write({}, "end", request)
      BY <2>3, WriteGives
    <2> QED
      BY <2>1, <2>2, <2>3
  <1>5. CASE Editing \/ Unblocking
    BY <1>5, EditingGives, UnblockingGives
  <1>6. CASE Dispatch \/ SuperStep
    BY <1>1, <1>6 DEF Dispatch, SuperStep, IsDriver
  <1>7. CASE Raise
    BY <1>7 DEF Raise, Thrown, AtRest
  <1> QED
    BY <1>2, <1>3, <1>4, <1>5, <1>6, <1>7, EveryStep DEF Running

(* A request that can be decided has not been carried out.                 *)
LEMMA PendingIsNew ==
    ASSUME RequestsInv, NEW r \in requests, Pending(r)
    PROVE  r.ran = 0 /\ r.verdict = "none" /\ RequestOK(r)
  BY DEF RequestsInv, RequestOK, Pending, Waiting

(* Where the requests come from. *)
LEMMA RequestsStep ==
    ASSUME BaseInv, RequestsInv, LeadsInv, LegacyNext, NEW r \in requests'
    PROVE  \/ r \in requests
           \/ RequestOK(r) /\ r.ran = 0
           \/ driver.then = "verdict" /\ r = [driver.request EXCEPT !.verdict = "approved"]
           \/ \E q \in requests, p \in Persons : Reject(q, p) /\ r = [q EXCEPT !.verdict = "rejected"]
           \/ \E q \in requests, p \in Persons : Approve(q, p) /\ r = [q EXCEPT !.ran = @ + 1]
  <1>1. CASE requests' = requests
    BY <1>1
  <1>2. CASE Quietly
    BY <1>1, <1>2, QuietlyFacts DEF run
  <1>3. CASE Answering
    <2>1. CASE requests' = requests
      BY <2>1
    <2>2. ASSUME NEW q \in requests, NEW p \in Persons, Approve(q, p)
          PROVE  r \in requests \/ r = [q EXCEPT !.ran = @ + 1]
      BY <2>2 DEF Approve
    <2> QED
      BY <1>3, <2>1, <2>2, AnsweringGives
  <1>4. CASE Beat
    BY <1>1, <1>4 DEF Beat, run
  <1>5. CASE Record
    <2>1. CASE driver.then = "verdict"
      BY <1>5, <2>1 DEF Record
    <2>2. CASE driver.then # "verdict"
      BY <1>1, <1>5, <2>2 DEF Record
    <2> QED
      BY <2>1, <2>2
  <1>6. ASSUME NEW c \in cards, NEW p \in Persons, NEW T \in SUBSET dag.nodes, Escalate(c, p, T)
        PROVE  r \in requests \/ (RequestOK(r) /\ r.ran = 0)
    <2>1. CASE r \in requests
      BY <2>1
    <2>2. CASE r \notin requests
      <3>1. r = [gate |-> c.node, by |-> p, targets |-> T, round |-> attempts[c.node],
                 seq |-> Cardinality({q \in requests : q.gate = c.node}) + 1,
                 approvers |-> Approvers(Crossing(p, c.node, T)), verdict |-> "none", ran |-> 0]
        BY <1>6, <2>2 DEF Escalate
      <3>2. c.node \in Human \cap Gate /\ p \in {Owner, Assignee[c.node]}
        BY <1>6 DEF Escalate, Live, Standing, BaseInv, TypesInv
      <3>3. attempts[c.node] \in Nat
        BY <3>2, LegacyAssumption DEF BaseInv, TypesInv
      <3>4. Approvers(Crossing(p, c.node, T)) \subseteq Approvers(T)
        BY DEF Approvers, Crossing
      <3>5. r = [gate |-> r.gate, by |-> r.by, targets |-> r.targets, round |-> r.round,
                 seq |-> r.seq, approvers |-> r.approvers, verdict |-> r.verdict, ran |-> r.ran]
        BY <3>1
      <3> QED
        BY <3>1, <3>2, <3>3, <3>4, <3>5 DEF RequestOK
    <2> QED
      BY <2>1, <2>2
  <1>7. ASSUME NEW q \in requests, NEW p \in Persons, Reject(q, p)
        PROVE  r \in requests \/ r = [q EXCEPT !.verdict = "rejected"]
    BY <1>7 DEF Reject
  <1>8. CASE Noting
    BY <1>4, <1>5, <1>6, <1>7, <1>8 DEF Noting
  <1>9. CASE Editing \/ Unblocking
    BY <1>1, <1>9, EditingGives, UnblockingGives
  <1>10. CASE Running
    BY <1>1, <1>10, RunningGives DEF Dispatched, Executing
  <1> QED
    BY <1>2, <1>3, <1>8, <1>9, <1>10, EveryStep

(* Requests stay well formed; one that runs has answered its gate.         *)
LEMMA RequestsKeep ==
    ASSUME BaseInv, RequestsInv, LeadsInv, LegacyNext
    PROVE  RequestsInv'
  <1>1. \A r \in requests : RequestFine(r)
    BY DEF RequestsInv, RequestFine
  <1>2. ASSUME NEW q \in requests, NEW p \in Persons, Approve(q, p),
               NEW r, r = [q EXCEPT !.ran = @ + 1]
        PROVE  RequestOK(r) /\ r.ran = 1 /\ RequestFine(r)'
    <2>1. q.ran = 0 /\ q.verdict = "none" /\ RequestOK(q)
      BY <1>2, PendingIsNew DEF Approve
    <2>2. r = [gate |-> q.gate, by |-> q.by, targets |-> q.targets, round |-> q.round,
               seq |-> q.seq, approvers |-> q.approvers, verdict |-> q.verdict, ran |-> 1]
      BY <1>2, <2>1 DEF RequestOK
    <2>3. RequestOK(r) /\ r.ran = 1 /\ r.gate = q.gate
      <3>1. r = [gate |-> r.gate, by |-> r.by, targets |-> r.targets, round |-> r.round,
                 seq |-> r.seq, approvers |-> r.approvers, verdict |-> r.verdict, ran |-> r.ran]
        BY <2>2
      <3> QED
        BY <2>1, <2>2, <3>1 DEF RequestOK
    <2>4. Answered(r.gate)'
      <3>1. q.gate \in Node
        BY <2>1, LegacyAssumption DEF RequestOK
      <3>2. status' = [status EXCEPT ![q.gate] = "done"] \/ status' = [status EXCEPT ![q.gate] = "failed"]
        BY <1>2 DEF Approve, Answer
      <3> QED
        BY <2>3, <3>1, <3>2 DEF Answered, BaseInv, TypesInv
    <2>5. RequestOK(r)'
      BY <2>3, FineStays
    <2> QED
      BY <2>3, <2>4, <2>5 DEF RequestFine
  <1>3. ASSUME NEW r \in requests' PROVE RequestFine(r)'
    <2>1. CASE r \in requests
      BY <1>1, <2>1, FineStays DEF RequestFine
    <2>2. CASE RequestOK(r) /\ r.ran = 0
      BY <2>2, FineStays DEF RequestFine
    <2>3. CASE driver.then = "verdict" /\ r = [driver.request EXCEPT !.verdict = "approved"]
      <3> DEFINE q == driver.request
      <3>1. RequestOK(q) /\ q.ran = 1
        BY <2>3 DEF RequestsInv
      <3> HIDE DEF q
      <3>2. r = [gate |-> q.gate, by |-> q.by, targets |-> q.targets, round |-> q.round,
                 seq |-> q.seq, approvers |-> q.approvers, verdict |-> "approved", ran |-> q.ran]
        BY <2>3, <3>1 DEF q, RequestOK
      <3>3. r = [gate |-> r.gate, by |-> r.by, targets |-> r.targets, round |-> r.round,
                 seq |-> r.seq, approvers |-> r.approvers, verdict |-> r.verdict, ran |-> r.ran]
        BY <3>2
      <3>4. RequestOK(r) /\ r.verdict = "approved"
        BY <3>1, <3>2, <3>3 DEF RequestOK
      <3> QED
        BY <3>4, FineStays DEF RequestFine
    <2>4. ASSUME NEW q \in requests, NEW p \in Persons, Reject(q, p),
                 r = [q EXCEPT !.verdict = "rejected"]
          PROVE  RequestFine(r)'
      <3>1. q.ran = 0 /\ q.verdict = "none" /\ RequestOK(q)
        BY <2>4, PendingIsNew DEF Reject
      <3>2. r = [gate |-> q.gate, by |-> q.by, targets |-> q.targets, round |-> q.round,
                 seq |-> q.seq, approvers |-> q.approvers, verdict |-> "rejected", ran |-> q.ran]
        BY <2>4, <3>1 DEF RequestOK
      <3>3. r = [gate |-> r.gate, by |-> r.by, targets |-> r.targets, round |-> r.round,
                 seq |-> r.seq, approvers |-> r.approvers, verdict |-> r.verdict, ran |-> r.ran]
        BY <3>2
      <3>4. RequestOK(r) /\ r.ran = 0
        BY <3>1, <3>2, <3>3 DEF RequestOK
      <3> QED
        BY <3>4, FineStays DEF RequestFine
    <2> QED
      BY <1>2, <2>1, <2>2, <2>3, <2>4, RequestsStep
  <1>4. ASSUME driver'.then = "verdict"
        PROVE  RequestOK(driver.request)' /\ driver'.request.ran = 1
    <2>1. CASE driver.then = "verdict" /\ driver'.request = driver.request
      <3>1. RequestOK(driver.request) /\ driver.request.ran = 1
        BY <2>1 DEF RequestsInv
      <3>2. RequestOK(driver'.request)
        BY <2>1, <3>1
      <3> QED
        BY <2>1, <3>1, <3>2, FineStays DEF RequestOK
    <2>2. ASSUME NEW q \in requests, NEW p \in Persons, Approve(q, p),
                 driver'.request = [q EXCEPT !.ran = @ + 1]
          PROVE  RequestOK(driver.request)' /\ driver'.request.ran = 1
      <3>1. RequestOK(driver'.request) /\ driver'.request.ran = 1
        BY <1>2, <2>2
      <3> QED
        BY <3>1, FineStays DEF RequestOK
    <2> QED
      BY <1>4, <2>1, <2>2, VerdictStays
  <1> QED
    BY <1>3, <1>4 DEF RequestsInv, RequestFine

-----------------------------------------------------------------------------
(* Whose word work is sent back on *)

(* As WithConsent says, and nobody may come to have done something that    *)
(* would need a consent nobody gave. *)
Consented(g) ==
    LET v == verdict[g] IN
    \/ v.by = Owner
    \/ /\ v.by = Assignee[g]
       /\ \/ \A t \in v.targets, n \in Node :
                n \in Collateral(v.by, g, t) => status[n] # "done" /\ n \notin open
          \/ v.approved \in Approvers(v.targets) \ {v.by}

ConsentInv == \A g \in Failed \cap Human : Consented(g)

(* Nothing new can be done, and nobody new has failed. *)
LEMMA ConsentStays ==
    ASSUME ConsentInv, UNCHANGED <<dag, verdict>>,
           NEW g \in Failed \cap Human,
           \A n \in Node : status'[n] = "done" \/ n \in open'
                             => status[n] = "done" \/ n \in open
    PROVE  Consented(g)'
  <1>1. Consented(g)
    BY DEF ConsentInv
  <1>2. \A p, t : Collateral(p, g, t)' = Collateral(p, g, t)
    BY DEF Collateral, Downstream, Ancestors
  <1>3. \A T : Approvers(T)' = Approvers(T)
    BY DEF Approvers
  <1> QED
    BY <1>1, <1>2, <1>3 DEF Consented

(* A verdict that stands was the reviewer's to give, or somebody else's to approve. *)
LEMMA ConsentKeeps ==
    ASSUME BaseInv, RequestsInv, LeadsInv, ConsentInv, LegacyNext
    PROVE  ConsentInv'
  <1>1. /\ dag \in Graph /\ SoundGraph(dag) /\ dag.nodes \subseteq Node
        /\ status \in [Node -> {"pending", "done", "failed", "blocked"}]
        /\ asked \subseteq open \cap Human /\ open \subseteq Node
        /\ verdict = [n \in Node |-> verdict[n]]
    BY DEF BaseInv, TypesInv, Graph
  <1>2. /\ \A n \in Node \ dag.nodes : status[n] = "pending"
        /\ \A n \in dag.nodes : status[n] \in {"done", "failed"} =>
              \A m \in dag.deps[n] : status[m] = "done"
        /\ open \subseteq Ready(dag, status)
    BY DEF BaseInv, GraphInv
  <1>3. CASE UNCHANGED <<dag, status, verdict>> /\ open' \subseteq open
    <2>1. ASSUME NEW g \in (Failed \cap Human)' PROVE Consented(g)'
      <3>1. g \in Failed \cap Human
        BY <1>3 DEF Failed
      <3> QED
        BY <1>3, <3>1, ConsentStays
    <2> QED
      BY <2>1 DEF ConsentInv
  <1>4. CASE Quietly
    BY <1>3, <1>4, QuietlyFacts DEF run, step
  <1>5. CASE Answering
    <2>1. PICK k, by, round, of, bad : GivenAnswer(k, by, round, of, bad)
      BY <1>5, AnsweringGives
    <2>2. /\ k \in asked
          /\ status' = [status EXCEPT ![k] = IF bad = Nothing THEN "done" ELSE "failed"]
          /\ verdict' = [verdict EXCEPT ![k] = bad]
          /\ open' = open \ {k} /\ dag' = dag
          /\ bad = Nothing \/ Free(k, bad)
      BY <2>1 DEF GivenAnswer
    <2>3. k \in Node /\ k \in open
      BY <1>1, <2>2
    <2>4. \A n \in Node : status'[n] = "done" \/ n \in open' => status[n] = "done" \/ n \in open
      BY <1>1, <2>2, <2>3
    <2>5. \A p, g, t : Collateral(p, g, t)' = Collateral(p, g, t)
      BY <2>2 DEF Collateral, Downstream, Ancestors
    <2>6. ASSUME NEW g \in (Failed \cap Human)' PROVE Consented(g)'
      <3>1. CASE g = k
        <4>1. Free(k, bad) /\ verdict'[k] = bad
          BY <1>1, <2>2, <2>3, <2>6, <3>1 DEF Failed
        <4>2. \A T : Approvers(T)' = Approvers(T)
          BY DEF Approvers
        <4> QED
          BY <2>5, <3>1, <4>1, <4>2 DEF Free, Consented
      <3>2. CASE g # k
        <4>1. g \in Failed \cap Human /\ verdict'[g] = verdict[g]
          BY <1>1, <2>2, <2>6, <3>2 DEF Failed
        <4>2. Consented(g)
          BY <4>1 DEF ConsentInv
        <4>3. \A T : Approvers(T)' = Approvers(T)
          BY DEF Approvers
        <4> QED
          BY <2>4, <2>5, <4>1, <4>2, <4>3 DEF Consented
      <3> QED
        BY <3>1, <3>2
    <2> QED
      BY <2>6 DEF ConsentInv
  <1>6. CASE Noting
    BY <1>3, <1>6, NotingGives DEF Written
  <1>7. CASE Editing
    <2>1. PICK d \in Graph, k \in Node :
             /\ EditOf(k, d) /\ dag' = d /\ Written({}) /\ UNCHANGED <<status, verdict>>
      BY <1>7, EditingGives
    <2>2. open' = {} /\ status[k] = "pending"
      BY <1>2, <2>1 DEF EditOf, Frozen, Written
    <2>3. ASSUME NEW n \in Node, status[n] \in {"done", "failed"}
          PROVE  n \in dag.nodes /\ Ancestors(d, n) = Ancestors(dag, n)
      <3>1. n \in dag.nodes /\ n # k
        BY <1>2, <2>2, <2>3
      <3>2. \A m \in dag.deps[n] : status[m] = "done"
        BY <1>2, <2>3, <3>1
      <3>3. k \notin Ancestors(dag, n)
        BY <2>2, <3>1, <3>2, DoneBefore DEF BaseInv
      <3> QED
        BY <2>1, <3>1, <3>3, SameAncestors DEF BaseInv
    <2>4. ASSUME NEW g \in (Failed \cap Human)' PROVE Consented(g)'
      <3>1. g \in Failed \cap Human
        BY <2>1, <2>4, <1>1, <1>2, LegacyAssumption DEF Failed
      <3>2. Consented(g)
        BY <3>1 DEF ConsentInv
      <3>3. ASSUME NEW p, NEW t, NEW n \in Node, status[n] = "done", n \in Collateral(p, g, t)'
            PROVE  n \in Collateral(p, g, t)
        <4>1. n \in dag.nodes /\ Ancestors(d, n) = Ancestors(dag, n)
          BY <2>3, <3>3
        <4>2. n \in d.nodes /\ t \in Ancestors(d, n) /\ n \notin {t, g} /\ g \notin Ancestors(d, n)
              /\ n \in Human /\ Assignee[n] # p
          BY <2>1, <3>3 DEF Collateral, Downstream, Ancestors
        <4> QED
          BY <4>1, <4>2 DEF Collateral, Downstream
      <3>4. \A T : Approvers(T)' = Approvers(T)
        BY DEF Approvers
      <3> QED
        BY <2>1, <2>2, <3>2, <3>3, <3>4 DEF Consented
    <2> QED
      BY <2>4 DEF ConsentInv
  <1>8. CASE Unblocking
    <2>1. PICK g \in Stuck, reset \in SUBSET dag.nodes :
             /\ Written(reset) /\ UNCHANGED <<dag, verdict>>
             /\ status' = [n \in Node |-> IF n \in reset THEN "pending" ELSE status[n]]
      BY <1>8, UnblockingGives
    <2>2. open' = {}
      BY <2>1 DEF Written
    <2>3. ASSUME NEW h \in (Failed \cap Human)' PROVE Consented(h)'
      <3>1. h \in Failed \cap Human
        BY <1>1, <2>1, <2>3 DEF Failed
      <3>2. \A n \in Node : status'[n] = "done" \/ n \in open' => status[n] = "done" \/ n \in open
        BY <1>1, <2>1, <2>2
      <3> QED
        BY <2>1, <3>1, <3>2, ConsentStays
    <2> QED
      BY <2>3 DEF ConsentInv
  <1>9. CASE Dispatched
    <2>1. Failed \subseteq Halted \cup Reset
      BY ResetFacts
    <2>2. \A n \in dag.nodes : status'[n] # "failed"
      BY <1>1, <1>9, <2>1 DEF Dispatched, Resolved, Failed
    <2> QED
      BY <1>9, <2>2 DEF ConsentInv, Failed, Dispatched
  <1>10. ASSUME NEW ended, NEW fails, Executing(ended, fails)
        PROVE  ConsentInv'
    <2>1. /\ ended \subseteq open \ Human /\ fails \subseteq ended
          /\ open' = open \ ended /\ dag' = dag
          /\ status' = [n \in Node |-> IF n \in fails THEN "failed"
                                       ELSE IF n \in ended THEN "done" ELSE status[n]]
          /\ verdict' = [n \in Node |->
                           IF n \in fails THEN [Nothing EXCEPT !.targets = dag.deps[n]]
                           ELSE verdict[n]]
      BY <1>10 DEF Executing, EngineFinish
    <2>2. \A n \in Node : status'[n] = "done" \/ n \in open' => status[n] = "done" \/ n \in open
      BY <1>1, <2>1
    <2>3. ASSUME NEW g \in (Failed \cap Human)' PROVE Consented(g)'
      <3>1. g \in Failed \cap Human /\ g \notin fails /\ g \in Node
        BY <1>1, <2>1, <2>3 DEF Failed
      <3>2. verdict'[g] = verdict[g] /\ Consented(g)
        BY <2>1, <3>1 DEF ConsentInv
      <3>3. \A p, t : Collateral(p, g, t)' = Collateral(p, g, t)
        BY <2>1 DEF Collateral, Downstream, Ancestors
      <3>4. \A T : Approvers(T)' = Approvers(T)
        BY DEF Approvers
      <3> QED
        BY <2>2, <3>2, <3>3, <3>4 DEF Consented
    <2> QED
      BY <2>3 DEF ConsentInv
  <1>11. CASE Running
    BY <1>9, <1>10, <1>11, RunningGives
  <1> QED
    BY <1>4, <1>5, <1>6, <1>7, <1>8, <1>11, EveryStep

-----------------------------------------------------------------------------
(* The rounds of the inputs *)

(* That a job was cut short is remembered.                                 *)
LEMMA CutStays ==
    ASSUME BaseInv, RequestsInv, LeadsInv, LegacyNext, cut
    PROVE  cut'
  <1>1. CASE Quietly
    BY <1>1, QuietlyFacts
  <1>2. CASE Answering
    <2>1. PICK n, by, round, of, bad : GivenAnswer(n, by, round, of, bad)
      BY <1>2, AnsweringGives
    <2> QED
      BY <2>1 DEF GivenAnswer
  <1>3. CASE Noting \/ Editing \/ Unblocking
    BY <1>3, NotingGives, EditingGives, UnblockingGives
  <1>4. CASE Running
    BY <1>4 DEF Running, Dispatch, SuperStep, Raise
  <1> QED
    BY <1>1, <1>2, <1>3, <1>4, EveryStep

(* While a round lasts, what has its inputs keeps them, in their rounds:   *)
(* who sends back an input sends back what was made of it, and the owner   *)
(* edits only what nobody waits for. *)
LEMMA SameInputs ==
    ASSUME BaseInv, RequestsInv, LeadsInv, LegacyNext,
           NEW n \in dag.nodes, status[n] # "failed", attempts'[n] = attempts[n],
           \A m \in dag.deps[n] : status[m] = "done",
           LockFree => Frozen(n)
    PROVE  /\ n \in dag'.nodes /\ dag'.deps[n] = dag.deps[n]
           /\ \A m \in dag.deps[n] : attempts'[m] = attempts[m]
  <1>1. /\ dag.nodes \subseteq Node /\ dag.deps[n] \subseteq dag.nodes
        /\ attempts \in [Node -> Nat]
    BY DEF BaseInv, TypesInv, Graph, SoundGraph
  <1>2. CASE UNCHANGED <<dag, attempts>>
    BY <1>2
  <1>3. CASE Quietly
    BY <1>2, <1>3, QuietlyFacts DEF run
  <1>4. CASE Answering
    <2>1. PICK k, by, round, of, bad : GivenAnswer(k, by, round, of, bad)
      BY <1>4, AnsweringGives
    <2> QED
      BY <1>2, <2>1 DEF GivenAnswer
  <1>5. CASE Noting
    BY <1>2, <1>5, NotingGives
  <1>6. CASE Editing
    <2>1. PICK d \in Graph, k \in Node :
             LockFree /\ EditOf(k, d) /\ dag' = d /\ attempts' = attempts
      BY <1>6, EditingGives
    <2>2. n # k
      BY <2>1 DEF EditOf
    <2> QED
      BY <2>1, <2>2 DEF EditOf
  <1>7. CASE Unblocking
    <2>1. PICK reset \in SUBSET dag.nodes :
             /\ attempts' = [m \in Node |-> attempts[m] + IF m \in reset THEN 1 ELSE 0]
             /\ \A x \in dag.nodes : \A m \in dag.deps[x] :
                   m \in reset /\ status[m] = "done" => x \in reset
             /\ dag' = dag
      BY <1>7, UnblockingGives
    <2>2. n \notin reset
      BY <1>1, <2>1
    <2> QED
      BY <1>1, <2>1, <2>2
  <1>8. CASE Dispatched
    <2>1. attempts' = [m \in Node |-> attempts[m] + IF m \in Reset THEN 1 ELSE 0] /\ dag' = dag
      BY <1>8 DEF Dispatched
    <2>2. n \notin Reset /\ n \notin Halted
      BY <1>1, <2>1, ResetFacts DEF Failed
    <2>3. ASSUME NEW m \in dag.deps[n] PROVE m \notin Reset
      BY <2>2, ResetIsClosed DEF BaseInv
    <2> QED
      BY <1>1, <2>1, <2>3
  <1>9. CASE Running
    BY <1>2, <1>8, <1>9, RunningGives DEF Executing
  <1> QED
    BY <1>3, <1>4, <1>5, <1>6, <1>7, <1>9, EveryStep

(* What was in view stays in view while the rounds stand still.            *)
LEMMA FreshStays ==
    ASSUME BaseInv, RequestsInv, LeadsInv, LegacyNext,
           NEW n, NEW round, NEW of, Fresh(n, round, of), attempts'[n] = attempts[n],
           /\ dag'.deps[n] = dag.deps[n]
           /\ \A m \in dag.deps[n] : attempts'[m] = attempts[m]
    PROVE  Fresh(n, round, of)'
  BY CutStays DEF Fresh, InView

-----------------------------------------------------------------------------
(* What was done in which round *)

SeenInv ==
    \A n \in dag.nodes : status[n] = "done" /\ seen[n].by # "sweep"
                            => Fresh(n, seen[n].round, seen[n].of)

(* What is done was done in its round and in view of its inputs'.          *)
LEMMA SeenKeeps ==
    ASSUME BaseInv, RequestsInv, LeadsInv, SeenInv, LegacyNext
    PROVE  SeenInv'
  <1>1. /\ dag.nodes \subseteq Node /\ asked \subseteq open
        /\ status \in [Node -> {"pending", "done", "failed", "blocked"}]
        /\ attempts \in [Node -> Nat] /\ seen = [n \in Node |-> seen[n]]
        /\ \A n \in Node \ dag.nodes : status[n] = "pending"
        /\ \A n \in dag.nodes : status[n] = "done" => \A m \in dag.deps[n] : status[m] = "done"
        /\ \A n \in open : n \in dag.nodes /\ status[n] = "pending"
    BY DEF BaseInv, TypesInv, GraphInv, Graph, Ready
  <1>2. dag'.nodes \subseteq Node
    BY TypesKeep DEF TypesInv, Graph
  <1>3. ASSUME NEW n \in dag'.nodes, status[n] = "done", status'[n] = "done", seen'[n] = seen[n],
               seen[n].by # "sweep"
        PROVE  Fresh(n, seen[n].round, seen[n].of)'
    <2>1. n \in dag.nodes /\ n \in Node
      BY <1>1, <1>2, <1>3
    <2>2. attempts'[n] = attempts[n]
      BY <1>3, <2>1, RoundsGoUp
    <2>3. /\ dag'.deps[n] = dag.deps[n]
          /\ \A m \in dag.deps[n] : attempts'[m] = attempts[m]
      BY <1>1, <1>3, <2>1, <2>2, SameInputs DEF Frozen
    <2>4. Fresh(n, seen[n].round, seen[n].of)
      BY <1>3, <2>1 DEF SeenInv
    <2>5. Fresh(n, seen'[n].round, seen'[n].of)
      BY <1>3, <2>4
    <2> QED
      BY <1>3, <2>2, <2>3, <2>5, CutStays DEF Fresh, InView
  <1>4. ASSUME NEW n \in dag'.nodes, status'[n] = "done", seen'[n].by # "sweep",
               status[n] # "done" \/ seen'[n] # seen[n]
        PROVE  Fresh(n, seen[n].round, seen[n].of)'
    <2>1. CASE UNCHANGED <<status, seen>>
      BY <1>4, <2>1
    <2>2. CASE Answering
      <3>1. PICK k, by, round, of, bad : GivenAnswer(k, by, round, of, bad)
        BY <2>2, AnsweringGives
      <3>2. /\ status' = [status EXCEPT ![k] = IF bad = Nothing THEN "done" ELSE "failed"]
            /\ seen' = [seen EXCEPT ![k] = [by |-> by, round |-> round, of |-> of]]
            /\ UNCHANGED <<dag, attempts>>
            /\ by # "sweep" => Fresh(k, round, of)
        BY <3>1 DEF GivenAnswer
      <3>3. n = k /\ k \in Node
        BY <1>1, <1>2, <1>4, <3>2
      <3>4. seen'[n] = [by |-> by, round |-> round, of |-> of]
        BY <1>1, <3>2, <3>3
      <3>5. Fresh(n, seen'[n].round, seen'[n].of)
        BY <1>4, <3>2, <3>3, <3>4
      <3> QED
        BY <3>2, <3>5, CutStays DEF Fresh, InView
    <2>3. CASE Unblocking
      <3>1. PICK reset : /\ status' = [m \in Node |-> IF m \in reset THEN "pending" ELSE status[m]]
                         /\ seen' = seen
        BY <2>3, UnblockingGives
      <3> QED
        BY <1>2, <1>4, <3>1
    <2>4. CASE Dispatched
      BY <1>2, <1>4, <2>4 DEF Dispatched, Resolved
    <2>5. ASSUME NEW ended, NEW fails, Executing(ended, fails)
          PROVE  Fresh(n, seen[n].round, seen[n].of)'
      <3>1. /\ fails \subseteq ended /\ UNCHANGED <<dag, attempts>>
            /\ status' = [m \in Node |-> IF m \in fails THEN "failed"
                                         ELSE IF m \in ended THEN "done" ELSE status[m]]
            /\ seen' = [m \in Node |->
                          IF m \in ended
                          THEN [by |-> "engine", round |-> attempts[m],
                                of |-> [x \in dag.deps[m] |-> attempts[x]]]
                          ELSE seen[m]]
        BY <2>5 DEF Executing, EngineFinish
      <3>2. n \in ended /\ n \in Node
        BY <1>2, <1>4, <3>1
      <3>3. seen'[n] = [by |-> "engine", round |-> attempts[n],
                        of |-> [x \in dag.deps[n] |-> attempts[x]]]
        BY <3>1, <3>2
      <3> DEFINE of == [x \in dag.deps[n] |-> attempts[x]]
      <3>4. DOMAIN of = dag.deps[n] /\ \A m \in dag.deps[n] : of[m] = attempts[m]
        OBVIOUS
      <3>5. seen'[n].round = attempts[n] /\ seen'[n].of = of
        BY <3>3
      <3> HIDE DEF of
      <3> QED
        BY <3>1, <3>4, <3>5 DEF Fresh, InView
    <2>6. CASE Running
      BY <2>4, <2>5, <2>6, RunningGives
    <2> QED
      BY <2>1, <2>2, <2>3, <2>6, EveryStep, QuietlyFacts, NotingGives, EditingGives DEF run
  <1> QED
    BY <1>3, <1>4 DEF SeenInv

-----------------------------------------------------------------------------
(* Beats *)

(* The interrupts carried over a beat are of nodes that wait again after it, *)
(* and a job ends with nothing to send back, unless it was cut short.        *)
BeatInv ==
    /\ ~(driver.write = TRUE /\ driver.at \in Carried) => driver.keep = {} /\ driver.kept = {}
    /\ driver.at = "dispatch" => driver.keep \subseteq Ready(dag, status) \ Reset
    /\ driver.at = "workers" => driver.keep \subseteq open
    /\ driver.at = "rebind" => driver.keep \subseteq asked
    /\ \A c \in driver.kept : c.node \in driver.keep
    /\ driver.at \in {"idle", "close", "record"} => cut \/ Reopening = {}

(* A refund takes back what was granted. *)
LEMMA RefundsLess ==
    ASSUME grants \in [Node -> [given : Nat, more : Nat, back : Nat, less : Nat]],
           NEW g \in Node, NEW less \in Nat,
           grants' = [grants EXCEPT ![g].back = @ + 1, ![g].less = @ + less],
           NEW h \in Node
    PROVE  Granted(h) \in Nat /\ Granted(h)' \in Nat /\ Granted(h)' <= Granted(h)
  <1>1. grants[h].more \in Nat /\ grants[h].less \in Nat
    OBVIOUS
  <1>2. CASE h # g
    <2>1. grants'[h] = grants[h]
      BY <1>2
    <2> QED
      BY <1>1, <2>1 DEF Granted
  <1>3. CASE h = g
    <2>1. grants'[h] = [grants[h] EXCEPT !.back = @ + 1, !.less = @ + less]
      BY <1>3
    <2>2. grants'[h].more = grants[h].more /\ grants'[h].less = grants[h].less + less
      BY <2>1
    <2> QED
      BY <1>1, <2>2 DEF Granted
  <1> QED
    BY <1>2, <1>3

(* What a new checkpoint leaves to be sent back was to be sent back before, *)
(* and nobody with all his inputs is drawn in. *)
LEMMA ReopensLess ==
    ASSUME BaseInv, Noting \/ Editing \/ Unblocking, NEW h \in Reopening'
    PROVE  /\ h \in Reopening
           /\ \A n \in dag.nodes : /\ n \in Redone(h, Targets(h))'
                                   /\ LockFree => Frozen(n)
                                   /\ \A m \in dag.deps[n] : status[m] = "done"
                 => n \in Redone(h, Targets(h))
  <1>1. /\ dag \in Graph /\ SoundGraph(dag) /\ dag.nodes \subseteq Node
        /\ status \in [Node -> {"pending", "done", "failed", "blocked"}]
        /\ reopens \in [Node -> Nat]
        /\ grants \in [Node -> [given : Nat, more : Nat, back : Nat, less : Nat]]
        /\ \A n \in Node : status[n] = "failed" => n \in Gate
        /\ \A n \in Node \ dag.nodes : status[n] = "pending"
        /\ \A n \in dag.nodes : status[n] \in {"done", "failed"} =>
              \A m \in dag.deps[n] : status[m] = "done"
    BY DEF BaseInv, TypesInv, GraphInv, Graph
  <1>2. h \in dag'.nodes /\ status'[h] = "failed" /\ UsedUp(h)' = FALSE /\ Targets(h)' # {}
    BY DEF Reopening, Failed
  <1>3. ASSUME UNCHANGED <<dag, verdict, reopens>>, h \in Failed,
               Granted(h) \in Nat, Granted(h)' \in Nat, Granted(h)' <= Granted(h)
        PROVE  /\ h \in Reopening
               /\ \A n \in dag.nodes : n \in Redone(h, Targets(h))' => n \in Redone(h, Targets(h))
    <2>1. Targets(h)' = Targets(h) /\ Redone(h, Targets(h))' = Redone(h, Targets(h))
      BY <1>3 DEF Targets, Redone, Downstream, Ancestors
    <2>2. h \in Gate /\ Budget[h] \in Nat /\ reopens[h] \in Nat
      BY <1>1, <1>3, LegacyAssumption DEF Failed
    <2>3. ~(reopens[h] >= Budget[h] + Granted(h)')
      BY <1>2, <1>3 DEF UsedUp
    <2>4. ~(reopens[h] >= Budget[h] + Granted(h))
      BY <1>3, <2>2, <2>3
    <2> QED
      BY <1>2, <1>3, <2>1, <2>4 DEF Reopening, UsedUp
  <1>4. CASE Noting
    <2>1. /\ UNCHANGED <<dag, status, verdict, reopens>>
          /\ \/ grants' = grants
             \/ /\ driver.at = "record" /\ driver.then # "verdict"
                /\ grants' = [grants EXCEPT ![driver.request.gate].back = @ + 1,
                                 ![driver.request.gate].less = @ + driver.request.more]
      BY <1>4, NotingGives
    <2>2. h \in Failed /\ h \in Node
      BY <1>1, <1>2, <2>1 DEF Failed
    <2>3. Granted(h) \in Nat /\ Granted(h)' \in Nat /\ Granted(h)' <= Granted(h)
      <3>1. CASE grants' = grants
        <4>1. grants[h].more \in Nat /\ grants[h].less \in Nat
          BY <1>1, <2>2
        <4> QED
          BY <3>1, <4>1 DEF Granted
      <3>2. CASE driver.at = "record" /\ driver.then # "verdict"
        <4>1. driver.request.gate \in Node /\ driver.request.more \in Nat
          BY <3>2 DEF BaseInv, DriverInv
        <4> QED
          BY <1>1, <2>1, <2>2, <3>1, <4>1, RefundsLess
      <3> QED
        BY <2>1, <3>1, <3>2
    <2> QED
      BY <1>3, <2>1, <2>2, <2>3
  <1>5. CASE Editing
    <2>1. PICK d \in Graph, k \in Node :
             /\ LockFree /\ EditOf(k, d) /\ dag' = d /\ UNCHANGED <<status, verdict, reopens, grants>>
      BY <1>5, EditingGives
    <2>2. status[k] = "pending"
      BY <1>1, <2>1 DEF EditOf, Frozen
    <2>3. ASSUME NEW n \in dag.nodes, Frozen(n), \A m \in dag.deps[n] : status[m] = "done"
          PROVE  n \in d.nodes /\ Ancestors(d, n) = Ancestors(dag, n)
      <3>1. n # k
        BY <2>1, <2>3 DEF EditOf
      <3>2. k \notin Ancestors(dag, n)
        BY <2>2, <2>3, DoneBefore DEF BaseInv
      <3> QED
        BY <2>1, <2>3, <3>1, <3>2, SameAncestors DEF BaseInv
    <2>4. h \in Node /\ status[h] = "failed"
      BY <1>2, <2>1 DEF Graph
    <2>5. h \in dag.nodes /\ Frozen(h) /\ \A m \in dag.deps[h] : status[m] = "done"
      BY <1>1, <2>4 DEF Frozen
    <2>6. Ancestors(d, h) = Ancestors(dag, h)
      BY <2>3, <2>5
    <2>7. Targets(h)' = Targets(h)
      BY <2>1, <2>6 DEF Targets, Ancestors
    <2>8. UsedUp(h)' = UsedUp(h)
      BY <2>1 DEF UsedUp, Granted
    <2>9. h \in Reopening
      BY <1>2, <2>4, <2>5, <2>7, <2>8 DEF Reopening, Failed
    <2>10. ASSUME NEW n \in dag.nodes, n \in Redone(h, Targets(h))', Frozen(n),
                  \A m \in dag.deps[n] : status[m] = "done"
           PROVE  n \in Redone(h, Targets(h))
      <3>1. Ancestors(d, n) = Ancestors(dag, n)
        BY <2>3, <2>10
      <3>2. CASE n \in Targets(h)' \cup {h}
        BY <2>7, <3>2 DEF Redone
      <3>3. ASSUME NEW t \in Targets(h), n \in Downstream(d, t) PROVE n \in Redone(h, Targets(h))
        <4>1. t \in Ancestors(d, n)
          BY <3>3 DEF Downstream
        <4>2. n \in Downstream(dag, t)
          BY <3>1, <4>1 DEF Downstream
        <4> QED
          BY <4>2 DEF Redone
      <3>4. n \in Targets(h)' \cup {h} \/ \E t \in Targets(h)' : n \in Downstream(d, t)
        BY <2>1, <2>10 DEF Redone, Downstream, Ancestors
      <3> QED
        BY <2>7, <3>2, <3>3, <3>4
    <2> QED
      BY <2>1, <2>9, <2>10
  <1>6. CASE Unblocking
    <2>1. PICK g \in Stuck, reset \in SUBSET dag.nodes :
             /\ g \in reset /\ UNCHANGED <<dag, verdict, reopens>>
             /\ status' = [n \in Node |-> IF n \in reset THEN "pending" ELSE status[n]]
             /\ grants' = [grants EXCEPT ![g].given = @ + 1, ![g].more = @ + 1]
      BY <1>6, UnblockingGives
    <2>2. h \in Failed /\ h # g /\ h \in Node
      BY <1>1, <1>2, <2>1 DEF Failed
    <2>3. grants'[h] = grants[h]
      BY <1>1, <2>1, <2>2
    <2>4. grants[h].more \in Nat /\ grants[h].less \in Nat
      BY <1>1, <2>2
    <2>5. Granted(h) \in Nat /\ Granted(h)' \in Nat /\ Granted(h)' <= Granted(h)
      BY <2>3, <2>4 DEF Granted
    <2> QED
      BY <1>3, <2>1, <2>2, <2>5
  <1> QED
    BY <1>4, <1>5, <1>6

(* Whom a new checkpoint goes on waiting for will wait again.              *)
LEMMA KeptWaits ==
    ASSUME BaseInv, RequestsInv, LeadsInv, Noting \/ Editing \/ Unblocking, LegacyNext
    PROVE  /\ open' = {} /\ asked' = {} /\ leads' = {} /\ driver'.at = "dispatch"
           /\ driver'.write = TRUE
           /\ \A n \in driver'.keep :
                /\ n \in asked /\ n \in dag.nodes /\ attempts'[n] = attempts[n]
                /\ dag'.deps[n] = dag.deps[n]
                /\ \A m \in dag.deps[n] : attempts'[m] = attempts[m]
                /\ n \in Ready(dag, status)' /\ n \notin Reset'
           /\ driver'.kept = {c \in leads : c.node \in driver'.keep}
           /\ \A n \in asked : attempts'[n] = attempts[n] /\ n \notin Reset => n \in driver'.keep
  <1>1. /\ dag.nodes \subseteq Node /\ attempts \in [Node -> Nat]
        /\ status \in [Node -> {"pending", "done", "failed", "blocked"}]
        /\ \A n \in asked : /\ n \in dag.nodes /\ status[n] = "pending"
                            /\ \A m \in dag.deps[n] : status[m] = "done"
    BY DEF BaseInv, TypesInv, GraphInv, Graph, Ready
  <1>2. PICK reset \in SUBSET dag.nodes :
           /\ Written(reset)
           /\ \A n \in Node : attempts'[n] = attempts[n] <=> n \notin reset
           /\ \A n \in Node \ reset : status'[n] = status[n]
    <2>1. CASE Noting
      <3>1. Written({}) /\ UNCHANGED <<status, attempts>>
        BY <2>1, NotingGives
      <3> QED
        BY <3>1
    <2>2. CASE Editing
      <3>1. Written({}) /\ UNCHANGED <<status, attempts>>
        BY <2>2, EditingGives
      <3> QED
        BY <3>1
    <2>3. CASE Unblocking
      <3>1. PICK reset \in SUBSET dag.nodes :
               /\ Written(reset)
               /\ status' = [n \in Node |-> IF n \in reset THEN "pending" ELSE status[n]]
               /\ attempts' = [n \in Node |-> attempts[n] + IF n \in reset THEN 1 ELSE 0]
        BY <2>3, UnblockingGives
      <3>2. \A n \in Node : attempts'[n] = attempts[n] <=> n \notin reset
        BY <1>1, <3>1
      <3>3. \A n \in Node \ reset : status'[n] = status[n]
        BY <1>1, <3>1
      <3> QED
        BY <3>1, <3>2, <3>3
    <2> QED
      BY <2>1, <2>2, <2>3
  <1>3. driver'.keep = asked \ (Reset \cup reset)
    BY <1>2 DEF Written, Kept
  <1>4. ASSUME NEW n \in driver'.keep
        PROVE  /\ n \in asked /\ n \in dag.nodes /\ attempts'[n] = attempts[n]
               /\ dag'.deps[n] = dag.deps[n]
               /\ \A m \in dag.deps[n] : attempts'[m] = attempts[m]
               /\ n \in Ready(dag, status)' /\ n \notin Reset'
    <2>1. n \in asked /\ n \notin Reset /\ n \notin reset /\ n \in Node
      BY <1>1, <1>3, <1>4
    <2>2. n \in dag.nodes /\ status[n] = "pending" /\ \A m \in dag.deps[n] : status[m] = "done"
      BY <1>1, <2>1
    <2>3. attempts'[n] = attempts[n] /\ status'[n] = "pending"
      BY <1>2, <2>1, <2>2
    <2>4. Frozen(n)
      BY <2>1 DEF Frozen
    <2>5. /\ n \in dag'.nodes /\ dag'.deps[n] = dag.deps[n]
          /\ \A m \in dag.deps[n] : attempts'[m] = attempts[m]
      BY <2>2, <2>3, <2>4, SameInputs
    <2>6. ASSUME NEW m \in dag.deps[n] PROVE status'[m] = "done"
      <3>1. m \in Node /\ status[m] = "done" /\ attempts'[m] = attempts[m]
        BY <2>2, <2>5 DEF BaseInv, TypesInv, Graph, SoundGraph
      <3> QED
        BY <1>2, <3>1
    <2>7. n \in Ready(dag, status)'
      BY <2>3, <2>5, <2>6 DEF Ready
    <2>8. ASSUME n \in Reset' PROVE FALSE
      <3>1. PICK h \in Reopening' : n \in Redone(h, Targets(h))'
        BY <2>8 DEF Reset
      <3>2. h \in Reopening /\ n \in Redone(h, Targets(h))
        BY <2>2, <2>4, <3>1, ReopensLess
      <3>3. n \notin Halted
        BY <2>2, ResetFacts DEF Failed
      <3> QED
        BY <2>1, <3>2, <3>3 DEF Reset
    <2> QED
      BY <2>1, <2>2, <2>3, <2>5, <2>7, <2>8
  <1>5. driver'.kept = {c \in leads : c.node \in driver'.keep}
    BY <1>2, <1>3 DEF Written, Kept
  <1>6. \A n \in asked : attempts'[n] = attempts[n] /\ n \notin Reset => n \in driver'.keep
    BY <1>1, <1>2, <1>3
  <1> QED
    BY <1>2, <1>4, <1>5, <1>6 DEF Written

(* What is sent back depends on the state of the instance alone. *)
LEMMA SameResets ==
    ASSUME UNCHANGED run
    PROVE  Reset' = Reset /\ Reopening' = Reopening /\ Halted' = Halted
  <1>1. UNCHANGED <<dag, status, attempts, reopens, verdict, grants>>
    BY DEF run
  <1>2. Failed' = Failed /\ \A g : UsedUp(g)' = UsedUp(g) /\ Targets(g)' = Targets(g)
    BY <1>1 DEF Failed, UsedUp, Granted, Targets, Ancestors
  <1>3. \A g, T : Redone(g, T)' = Redone(g, T)
    BY <1>1 DEF Redone, Downstream, Ancestors
  <1>4. Reopening' = Reopening
    BY <1>2 DEF Reopening
  <1>5. Halted' = Halted
    BY <1>2, <1>3, <1>4 DEF Halted
  <1> QED
    BY <1>2, <1>3, <1>4, <1>5 DEF Reset

(* Whom a beat keeps is still asked, and work to send back has a driver.   *)
LEMMA BeatKeeps ==
    ASSUME BaseInv, RequestsInv, LeadsInv, BeatInv, LegacyNext
    PROVE  BeatInv'
  <1>1. /\ IsDriver(driver) /\ driver.at \in Places /\ driver.write \in BOOLEAN
        /\ driver.keep \subseteq Human /\ asked \subseteq open /\ cut \in BOOLEAN
        /\ attempts \in [Node -> Nat] /\ dag.nodes \subseteq Node
        /\ driver.at = "dispatch" => open = {}
    BY DEF BaseInv, DriverInv, TypesInv, GraphInv, Graph
  <1>2. /\ ~(driver.write = TRUE /\ driver.at \in Carried) => driver.keep = {} /\ driver.kept = {}
        /\ driver.at = "dispatch" => driver.keep \subseteq Ready(dag, status) \ Reset
        /\ driver.at = "workers" => driver.keep \subseteq open
        /\ driver.at = "rebind" => driver.keep \subseteq asked
        /\ \A c \in driver.kept : c.node \in driver.keep
        /\ driver.at \in {"idle", "close", "record"} => cut \/ Reopening = {}
    BY DEF BeatInv
  <1>3. cut => cut'
    BY CutStays
  <1>4. ASSUME driver'.keep = {}, driver'.kept = {},
               driver'.at \in {"idle", "close", "record"} => cut' \/ Reopening' = {}
        PROVE  BeatInv'
    BY <1>4 DEF BeatInv
  <1>5. CASE Quietly
    <2>1. UNCHANGED run /\ UNCHANGED step
      BY <1>5, QuietlyFacts
    <2>2. Reset' = Reset /\ Reopening' = Reopening
      BY <2>1, SameResets
    <2>3. CASE driver' = driver
      BY <1>2, <1>3, <2>1, <2>2, <2>3 DEF BeatInv, run, step
    <2>4. CASE Rebind
      <3>1. driver'.keep = {} /\ driver'.kept = {} /\ driver'.at = "hand"
        BY <1>1, <2>4 DEF Rebind, IsDriver
      <3> QED
        BY <1>4, <3>1
    <2>5. CASE Hand
      <3>1. driver.at = "hand" /\ driver' = [driver EXCEPT
                !.at = IF Stalled THEN "beat" ELSE "close", !.skip = {}, !.advancing = TRUE]
        BY <2>5 DEF Hand
      <3>2. driver'.keep = {} /\ driver'.kept = {}
        BY <1>1, <1>2, <3>1 DEF IsDriver, Carried
      <3>3. driver'.at = IF Stalled THEN "beat" ELSE "close"
        BY <1>1, <3>1 DEF IsDriver
      <3>4. ~Stalled => Reopening = {}
        BY ResetFacts DEF Stalled
      <3> QED
        BY <1>4, <2>2, <3>2, <3>3, <3>4
    <2>6. CASE Close
      <3>1. driver.at = "close" /\ driver'.at \in {"record", "idle"}
            /\ driver'.keep = {} /\ driver'.kept = {}
        BY <2>6 DEF Close, AtRest
      <3> QED
        BY <1>2, <1>3, <1>4, <2>2, <3>1
    <2>7. CASE Crash
      <3>1. driver'.keep = {} /\ driver'.kept = {}
            /\ cut' = (cut \/ driver.kept # {} \/ Reopening # {})
        BY <2>7 DEF Crash, AtRest
      <3> QED
        BY <1>4, <2>2, <3>1
    <2>8. CASE Reconcile
      <3>1. driver'.keep = {} /\ driver'.kept = {} /\ driver'.at = "hand"
        BY <2>8 DEF Reconcile, AtRest
      <3> QED
        BY <1>4, <3>1
    <2>9. CASE (\E n \in Ticket : SweepRounds(n)) \/ SweepInterrupts \/ SweepEnds
               \/ \E c \in cards : Complete(c)
      BY <2>3, <2>9 DEF SweepRounds, SweepInterrupts, SweepEnds, Complete
    <2> QED
      BY <1>5, <2>4, <2>5, <2>6, <2>7, <2>8, <2>9 DEF Quietly
  <1>6. CASE Answering
    <2>1. PICK n, by, round, of, bad : GivenAnswer(n, by, round, of, bad)
      BY <1>6, AnsweringGives
    <2>2. driver'.keep = {} /\ driver'.kept = {} /\ driver'.at \in {"dispatch", "hand", "workers"}
      BY <2>1 DEF GivenAnswer
    <2> QED
      BY <1>4, <2>2
  <1>7. CASE Noting \/ Editing \/ Unblocking
    BY <1>7, KeptWaits DEF BeatInv, Carried
  <1>8. CASE Dispatched
    <2>1. /\ driver.at = "dispatch" /\ open = {} /\ dag' = dag /\ asked' = asked
          /\ status' = [n \in Node |-> Resolved(n)] /\ open' = Ready(dag, status')
          /\ driver' = [driver EXCEPT !.at = IF open' = {} THEN Returned ELSE "workers"]
      BY <1>8 DEF Dispatched
    <2>2. /\ driver'.keep = driver.keep /\ driver'.kept = driver.kept
          /\ driver'.write = driver.write
          /\ driver'.at = IF open' = {} THEN Returned ELSE "workers"
      BY <1>1, <2>1 DEF IsDriver
    <2>3. ASSUME NEW n \in driver.keep PROVE n \in open'
      <3>1. /\ n \in dag.nodes /\ status[n] = "pending" /\ n \notin Reset
            /\ \A m \in dag.deps[n] : status[m] = "done"
        BY <1>2, <2>1, <2>3 DEF Ready
      <3>2. n \notin Halted
        BY <3>1, ResetFacts DEF Failed
      <3>3. ASSUME NEW m \in dag.deps[n] PROVE status'[m] = "done"
        <4>1. m \in Node /\ status[m] = "done"
          BY <3>1 DEF BaseInv, TypesInv, Graph, SoundGraph
        <4>2. m \notin Reset /\ m \notin Halted
          BY <3>1, <3>2, <4>1, ResetIsClosed, ResetFacts DEF Failed, BaseInv
        <4> QED
          BY <2>1, <4>1, <4>2 DEF Resolved
      <3>4. status'[n] = "pending"
        BY <1>1, <2>1, <3>1, <3>2 DEF Resolved
      <3> QED
        BY <2>1, <3>1, <3>3, <3>4 DEF Ready
    <2>4. CASE open' = {}
      <3>1. driver'.keep = {} /\ driver'.kept = {}
        BY <1>2, <2>2, <2>3, <2>4
      <3>2. driver'.at \in {"rebind", "hand"}
        BY <2>2, <2>4 DEF Returned
      <3> QED
        BY <1>4, <3>1, <3>2
    <2>5. CASE open' # {}
      <3>1. driver'.at = "workers" /\ driver'.keep \subseteq open'
        BY <2>2, <2>3, <2>5
      <3>2. ~(driver'.write = TRUE) => driver'.keep = {} /\ driver'.kept = {}
        BY <1>2, <2>2
      <3> QED
        BY <1>2, <2>2, <3>1, <3>2 DEF BeatInv, Carried
    <2> QED
      BY <2>4, <2>5
  <1>9. CASE SuperStep
    <2>1. /\ driver.at = "workers"
          /\ open' = open \cap Human /\ asked' = open \cap Human
          /\ driver' = [driver EXCEPT !.at =
                           IF open \cap Human = {} THEN "dispatch" ELSE Returned]
      BY <1>9 DEF SuperStep
    <2>2. /\ driver'.keep = driver.keep /\ driver'.kept = driver.kept
          /\ driver'.write = driver.write
          /\ driver'.at = IF open \cap Human = {} THEN "dispatch" ELSE Returned
      BY <1>1, <2>1 DEF IsDriver
    <2>3. driver.keep \subseteq open \cap Human
      BY <1>1, <1>2, <2>1
    <2>4. CASE open \cap Human = {}
      <3>1. driver'.keep = {} /\ driver'.kept = {} /\ driver'.at = "dispatch"
        BY <1>2, <2>2, <2>3, <2>4
      <3> QED
        BY <1>4, <3>1
    <2>5. CASE open \cap Human # {} /\ driver.write = TRUE
      <3>1. driver'.at = "rebind" /\ driver'.write = TRUE
        BY <2>2, <2>5 DEF Returned
      <3> QED
        BY <1>2, <2>1, <2>2, <2>3, <3>1 DEF BeatInv, Carried
    <2>6. CASE open \cap Human # {} /\ driver.write = FALSE
      <3>1. driver'.at = "hand" /\ driver'.keep = {} /\ driver'.kept = {}
        BY <1>2, <2>2, <2>6 DEF Returned
      <3> QED
        BY <1>4, <3>1
    <2> QED
      BY <1>1, <2>4, <2>5, <2>6
  <1>10. CASE Raise
    <2>1. driver' = Thrown /\ cut' = (cut \/ driver.kept # {} \/ Reopening' # {})
      BY <1>10 DEF Raise
    <2>2. driver'.keep = {} /\ driver'.kept = {}
      BY <2>1 DEF Thrown, AtRest
    <2> QED
      BY <1>4, <2>1, <2>2
  <1>11. CASE Dispatch
    BY <1>8, <1>11 DEF Dispatch, Dispatched, Resolved
  <1> QED
    BY <1>5, <1>6, <1>7, <1>9, <1>10, <1>11, EveryStep DEF Running

-----------------------------------------------------------------------------
(* Messages that lead somewhere *)

(* Of what is pending in a round it was asked in, the last message still   *)
(* leads to him, or is carried over the beat, or the round is about to end. *)
Leading(n, C) == \E c \in C : Slot(c) = <<n, attempts[n]>> /\ c.copy > 0
Led(n) ==
    \/ n \in asked /\ Leading(n, leads)
    \/ n \in driver.keep /\ Leading(n, driver.kept)
    \/ driver.at = "dispatch" /\ n \in Reset
LedInv == ~cut => \A n \in Node : status[n] = "pending" /\ ~Unasked(n) => Led(n)

(* The last card of a round shows the rounds of its inputs.                *)
CardsInv ==
    ~cut => \A c \in cards :
        Recorded(c) /\ c.attempt = attempts[c.node] /\ status[c.node] = "pending"
            => InView(c.node, c.of)

(* How many copies there are of a card, what went wrong being counted.     *)
CopiesInv ==
    /\ \A c \in cards : c.copy <= Cardinality(Sheet(Slot(c)))
    /\ \E p \in Plans : \A s :
          Cardinality(Sheet(s)) <= (IF s \in idem THEN 1 ELSE 0) + (p.mishaps - mishaps)

IInv == /\ BaseInv /\ RequestsInv /\ LeadsInv /\ ConsentInv /\ SeenInv /\ BeatInv
        /\ LedInv /\ CardsInv /\ CopiesInv

(* Nothing is handed out but by the driver. *)
LEMMA OnlyHandGivesOut ==
    ASSUME BaseInv, RequestsInv, LeadsInv, LegacyNext, ~Hand
    PROVE  UNCHANGED <<cards, idem>>
  <1>1. CASE Quietly
    BY <1>1, QuietlyFacts
  <1>2. CASE Answering
    <2>1. PICK n, by, round, of, bad : GivenAnswer(n, by, round, of, bad)
      BY <1>2, AnsweringGives
    <2> QED
      BY <2>1 DEF GivenAnswer
  <1>3. CASE Noting \/ Editing \/ Unblocking
    BY <1>3, NotingGives, EditingGives, UnblockingGives
  <1>4. CASE Running
    BY <1>4, RunningGives DEF Dispatched, Executing
  <1> QED
    BY <1>1, <1>2, <1>3, <1>4, EveryStep

(* A round in which somebody was asked, and that is pending, was so before. *)
LEMMA FiledBefore ==
    ASSUME BaseInv, RequestsInv, LeadsInv, LegacyNext, NEW n \in Node,
           status'[n] = "pending", <<n, attempts'[n]>> \in idem'
    PROVE  /\ attempts'[n] = attempts[n] /\ status[n] = "pending"
           /\ ~Hand => ~Unasked(n)
  <1>1. attempts[n] \in Nat /\ \A s \in idem : s[2] <= attempts[s[1]]
    BY DEF BaseInv, TypesInv, FilesInv
  <1>2. CASE Hand
    <2>1. UNCHANGED <<status, attempts>>
      BY <1>2 DEF Hand, run
    <2> QED
      BY <1>2, <2>1
  <1>3. CASE ~Hand
    <2>1. <<n, attempts'[n]>> \in idem
      BY <1>3, OnlyHandGivesOut
    <2>2. attempts'[n] <= attempts[n]
      BY <1>1, <2>1
    <2>3. attempts'[n] = attempts[n]
      BY <1>1, <2>2, RoundsGoUp
    <2> QED
      BY <2>1, <2>3, RoundsGoUp DEF Unasked
  <1> QED
    BY <1>2, <1>3

(* Whoever is asked has a lead, or the job at work is about to give one.   *)
LEMMA LedKeeps ==
    ASSUME IInv, LegacyNext
    PROVE  LedInv'
  <1> USE DEF IInv
  <1>1. /\ IsDriver(driver) /\ asked \subseteq open /\ cut \in BOOLEAN
        /\ status \in [Node -> {"pending", "done", "failed", "blocked"}]
        /\ attempts \in [Node -> Nat] /\ dag.nodes \subseteq Node
        /\ open \subseteq dag.nodes
    BY DEF BaseInv, DriverInv, TypesInv, GraphInv, Graph, Ready
  <1>2. /\ ~(driver.write = TRUE /\ driver.at \in Carried) => driver.keep = {} /\ driver.kept = {}
        /\ driver.at = "rebind" => driver.keep \subseteq asked
        /\ driver.at \in {"idle", "close", "record"} => cut \/ Reopening = {}
    BY DEF BeatInv
  <1> SUFFICES ASSUME ~cut', NEW n \in Node, status'[n] = "pending", ~Unasked(n)'
               PROVE  Led(n)'
    BY DEF LedInv
  <1>3. ~cut
    BY CutStays
  <1>4. attempts'[n] = attempts[n] /\ status[n] = "pending" /\ (~Hand => ~Unasked(n))
    BY FiledBefore DEF Unasked
  <1>5. \A C : Leading(n, C)' <=> Leading(n, C)
    BY <1>4 DEF Leading, Slot
  <1>6. ~Unasked(n) => Led(n)
    BY <1>3, <1>4 DEF LedInv
  <1>7. ASSUME NEW C, NEW D, Leading(n, C), \A c \in C : c.node = n /\ c.copy > 0 => c \in D
        PROVE  Leading(n, D)
    BY <1>7 DEF Leading, Slot
  <1>8. CASE n \in asked' /\ Leading(n, leads')
    <2>1. Leading(n, leads)'
      BY <1>4, <1>8 DEF Leading, Slot
    <2> QED
      BY <1>8, <2>1 DEF Led
  <1>9. CASE n \in driver'.keep /\ Leading(n, driver'.kept)
    <2>1. Leading(n, driver.kept)'
      BY <1>4, <1>9 DEF Leading, Slot
    <2> QED
      BY <1>9, <2>1 DEF Led
  <1>10. CASE Quietly
    <2>1. UNCHANGED run /\ UNCHANGED step
      BY <1>10, QuietlyFacts
    <2>2. Reset' = Reset /\ asked' = asked
      BY <2>1, SameResets DEF step
    <2>4. CASE Rebind
      <3>1. driver.at = "rebind" /\ leads' = leads \cup {c \in driver.kept : c.node \in asked}
        BY <2>4 DEF Rebind, Remapped
      <3>2. n \in asked /\ (Leading(n, leads) \/ Leading(n, driver.kept))
        BY <1>2, <1>4, <1>6, <2>4, <3>1 DEF Led, Rebind, Hand
      <3>3. Leading(n, leads')
        BY <3>1, <3>2 DEF Leading, Slot
      <3> QED
        BY <1>8, <2>2, <3>2, <3>3
    <2>5. CASE Hand
      <3>1. PICK new, bad, ghost : Handing(new, bad, ghost)
        BY <2>5, HandGives
      <3>2. driver.at = "hand" /\ leads \subseteq leads'
        BY <2>5, <3>1 DEF Hand, Handing
      <3>3. CASE ~Unasked(n)
        <4>1. n \in asked /\ Leading(n, leads)
          BY <1>2, <1>6, <3>2, <3>3 DEF Led, Carried
        <4> QED
          BY <1>7, <1>8, <2>2, <3>2, <4>1
      <3>4. CASE Unasked(n)
        <4>1. n \in new \ bad
          BY <1>4, <3>1, <3>4 DEF Handing, Unasked
        <4>2. n \in asked /\ Message(n) \in leads'
          BY <3>1, <4>1 DEF Handing
        <4>3. Slot(Message(n)) = <<n, attempts[n]>> /\ Message(n).copy > 0
          <5>1. IsFiniteSet(Sheet(<<n, attempts[n]>>))
            BY DEF BaseInv, FilesInv
          <5>2. {c \in cards : Slot(c) = <<n, attempts[n]>> /\ c.copy > 0} = Sheet(<<n, attempts[n]>>)
            BY DEF Sheet, BaseInv, FilesInv, IsCard
          <5>3. Copies(n) \in Nat
            BY <5>1, <5>2, FS_CardinalityType DEF Copies
          <5> QED
            BY <5>3 DEF Slot, Message
        <4>4. Leading(n, leads')
          BY <4>2, <4>3 DEF Leading
        <4> QED
          BY <1>8, <2>2, <4>2, <4>4
      <3> QED
        BY <3>3, <3>4
    <2>6. CASE Close \/ Reconcile
      <3>1. driver.at \in {"close", "idle"} /\ leads' = leads
        BY <2>6 DEF Close, Reconcile, LockFree, feishu
      <3>2. ~Hand
        BY <3>1 DEF Hand
      <3>3. n \in asked /\ Leading(n, leads)
        BY <1>2, <1>4, <1>6, <3>1, <3>2 DEF Led, Carried
      <3> QED
        BY <1>8, <2>2, <3>1, <3>3
    <2>7. CASE Crash
      <3>1. /\ cut' = (cut \/ driver.kept # {} \/ Reopening # {})
            /\ leads' = {c \in leads : c.copy > 0}
        BY <2>7 DEF Crash
      <3>2. driver.kept = {} /\ Reset = {}
        BY <3>1, ResetFacts
      <3>3. ~Unasked(n)
        <4>1. idem' = idem
          BY <2>7 DEF Crash
        <4> QED
          BY <1>4, <4>1 DEF Unasked
      <3>4. n \in asked /\ Leading(n, leads)
        BY <1>6, <3>2, <3>3 DEF Led, Leading
      <3>5. Leading(n, leads')
        BY <1>7, <3>1, <3>4
      <3> QED
        BY <1>8, <2>2, <3>4, <3>5
    <2>8. CASE (\E k \in Ticket : SweepRounds(k)) \/ \E c \in cards : Complete(c)
      <3>1. driver' = driver /\ leads' = leads /\ idem' = idem
        BY <2>8 DEF SweepRounds, Complete, feishu
      <3>2. Led(n)
        BY <1>4, <1>6, <3>1 DEF Unasked
      <3> QED
        BY <1>5, <2>2, <3>1, <3>2 DEF Led
    <2>9. CASE SweepInterrupts \/ SweepEnds
      <3>1. driver' = driver /\ idem' = idem /\ sweep # NoSweep
            /\ (leads' = leads \cup {sweep.as} \/ leads' = leads \ {sweep.as})
        BY <2>9 DEF SweepInterrupts, SweepEnds, NoSweep
      <3>2. Led(n) /\ sweep.as.copy = 0
        BY <1>4, <1>6, <3>1 DEF Unasked, BaseInv, DriverInv
      <3>3. \A c \in leads : c.node = n /\ c.copy > 0 => c \in leads'
        BY <3>1, <3>2
      <3>4. Leading(n, leads) => Leading(n, leads')
        BY <1>7, <3>3
      <3> QED
        BY <1>5, <1>8, <2>2, <3>1, <3>2, <3>4 DEF Led
    <2> QED
      BY <1>10, <2>4, <2>5, <2>6, <2>7, <2>8, <2>9 DEF Quietly
  <1>11. CASE Answering
    <2>1. PICK k, by, round, of, bad : GivenAnswer(k, by, round, of, bad)
      BY <1>11, AnsweringGives
    <2>2. /\ LockFree /\ asked' = asked \ {k} /\ leads' = {e \in leads : e.node # k}
          /\ status' = [status EXCEPT ![k] = IF bad = Nothing THEN "done" ELSE "failed"]
          /\ idem' = idem
      BY <2>1 DEF GivenAnswer
    <2>3. n # k
      BY <1>1, <2>2
    <2>4. n \in asked /\ Leading(n, leads)
      BY <1>2, <1>4, <1>6, <2>2 DEF Led, LockFree, Carried, Unasked
    <2>5. Leading(n, leads')
      BY <1>7, <2>2, <2>3, <2>4
    <2> QED
      BY <1>8, <2>2, <2>3, <2>4, <2>5
  <1>12. CASE Noting \/ Editing \/ Unblocking
    <2>1. /\ driver'.kept = {c \in leads : c.node \in driver'.keep} /\ driver'.at = "dispatch"
          /\ n \in asked /\ n \notin Reset => n \in driver'.keep
      BY <1>4, <1>12, KeptWaits
    <2>2. idem' = idem /\ driver.at \in {"idle", "beat", "record"}
      BY <1>12, NotingGives, EditingGives, UnblockingGives DEF LockFree
    <2>3. n \in asked /\ Leading(n, leads)
      BY <1>2, <1>4, <1>6, <2>2 DEF Led, Carried, Unasked
    <2>4. CASE n \notin Reset
      <3>1. Leading(n, driver'.kept)
        BY <1>7, <2>1, <2>3, <2>4
      <3> QED
        BY <1>9, <2>1, <2>3, <2>4, <3>1
    <2>5. CASE n \in Reset
      <3>1. Reopening # {}
        BY <2>5, ResetFacts
      <3>2. driver.at = "beat"
        BY <1>2, <1>3, <2>2, <3>1
      <3>3. UNCHANGED run
        BY <1>12, <3>2, NotingGives, EditingGives, UnblockingGives DEF LockFree
      <3> QED
        BY <2>1, <2>5, <3>3, SameResets DEF Led
    <2> QED
      BY <2>4, <2>5
  <1>13. CASE Dispatched
    <2>1. /\ driver.at = "dispatch" /\ open = {} /\ idem' = idem
          /\ attempts' = [m \in Node |-> attempts[m] + IF m \in Reset THEN 1 ELSE 0]
          /\ driver'.keep = driver.keep /\ driver'.kept = driver.kept
      BY <1>1, <1>13 DEF Dispatched, IsDriver
    <2>2. n \notin Reset /\ n \notin asked
      BY <1>1, <1>4, <2>1
    <2>3. n \in driver.keep /\ Leading(n, driver.kept)
      BY <1>4, <1>6, <2>1, <2>2 DEF Led, Unasked
    <2> QED
      BY <1>9, <2>1, <2>3
  <1>14. ASSUME NEW ended, NEW fails, SuperStep \/ Raise, Executing(ended, fails)
         PROVE  Led(n)'
    <2>1. /\ driver.at = "workers" /\ asked' = open \cap Human
          /\ leads' = leads /\ idem' = idem
      BY <1>14 DEF Executing
    <2>2. Led(n)
      BY <1>4, <1>6, <2>1 DEF Unasked
    <2>3. CASE n \in asked /\ Leading(n, leads)
      <3>1. n \in asked'
        BY <2>1, <2>3 DEF BaseInv, TypesInv
      <3> QED
        BY <1>8, <2>1, <2>3, <3>1
    <2>4. CASE n \in driver.keep /\ Leading(n, driver.kept)
      <3>1. CASE SuperStep
        <4>1. driver'.keep = driver.keep /\ driver'.kept = driver.kept
          BY <1>1, <3>1 DEF SuperStep, IsDriver
        <4> QED
          BY <1>9, <2>4, <4>1
      <3>2. CASE Raise
        <4>1. driver.kept # {}
          BY <2>4 DEF Leading
        <4> QED
          BY <3>2, <4>1 DEF Raise
      <3> QED
        BY <1>14, <3>1, <3>2
    <2> QED
      BY <2>1, <2>2, <2>3, <2>4 DEF Led
  <1>15. CASE Running
    BY <1>13, <1>14, <1>15, RunningGives
  <1> QED
    BY <1>10, <1>11, <1>12, <1>15, EveryStep

(* The last card of a round shows the rounds of its inputs.                *)
LEMMA CardsKeep ==
    ASSUME IInv, LegacyNext
    PROVE  CardsInv'
  <1> USE DEF IInv
  <1>1. /\ asked \subseteq open /\ cut \in BOOLEAN
        /\ attempts \in [Node -> Nat] /\ dag.nodes \subseteq Node
        /\ \A n \in open : /\ n \in dag.nodes /\ status[n] = "pending"
                           /\ \A m \in dag.deps[n] : status[m] = "done"
        /\ driver.at = "dispatch" => open = {}
    BY DEF BaseInv, TypesInv, GraphInv, Graph, Ready
  <1>2. /\ ~(driver.write = TRUE /\ driver.at \in Carried) => driver.keep = {} /\ driver.kept = {}
        /\ driver.at = "dispatch" => driver.keep \subseteq Ready(dag, status) \ Reset
    BY DEF BeatInv
  <1> SUFFICES ASSUME ~cut', NEW c \in cards', Recorded(c)', c.attempt = attempts'[c.node],
                      status'[c.node] = "pending"
               PROVE  InView(c.node, c.of)'
    BY DEF CardsInv
  <1>3. ~cut
    BY CutStays
  <1>4. ASSUME UNCHANGED <<dag, attempts>>, InView(c.node, c.of)
        PROVE  InView(c.node, c.of)'
    BY <1>4 DEF InView
  <1>5. CASE Hand
    <2>1. PICK new, bad, ghost : Handing(new, bad, ghost)
      BY <1>5, HandGives
    <2>2. UNCHANGED <<dag, attempts, status>>
      BY <1>5 DEF Hand, run
    <2>3. ASSUME NEW n, c = Message(n) PROVE InView(c.node, c.of)
      <3> DEFINE of == [m \in dag.deps[n] |-> attempts[m]]
      <3>1. DOMAIN of = dag.deps[n] /\ \A m \in dag.deps[n] : of[m] = attempts[m]
        OBVIOUS
      <3>2. c.node = n /\ c.of = of
        BY <2>3 DEF Message
      <3> HIDE DEF of
      <3> QED
        BY <3>1, <3>2 DEF InView
    <2>4. ASSUME c \in cards, ~\E n : c = Message(n) PROVE InView(c.node, c.of)
      <3> DEFINE s == Slot(c)
      <3>1. /\ s \in idem' /\ c.copy > 0
            /\ \A e \in cards' : Slot(e) = s => e.copy <= c.copy
        BY DEF Recorded, Slot
      <3>2. cards \subseteq cards'
        BY <2>1 DEF Handing
      <3>3. CASE s \in idem
        <4>1. Recorded(c)
          BY <3>1, <3>2, <3>3 DEF Recorded
        <4> QED
          BY <1>3, <2>2, <2>4, <4>1 DEF CardsInv
      <3>4. ASSUME NEW n \in new \ bad, s = <<n, attempts[n]>> PROVE FALSE
        <4>1. Message(n) \in cards' /\ Slot(Message(n)) = s
          BY <2>1, <3>4 DEF Handing, Slot, Message
        <4>2. Message(n).copy <= c.copy
          BY <3>1, <4>1
        <4>3. c \in Sheet(s) /\ c.copy <= Cardinality(Sheet(s))
          BY <2>4 DEF Sheet, CopiesInv
        <4>4. Copies(n) = Cardinality(Sheet(s))
          <5>1. {e \in cards : Slot(e) = <<n, attempts[n]>> /\ e.copy > 0} = Sheet(s)
            BY <3>4 DEF Sheet, BaseInv, FilesInv, IsCard
          <5> QED
            BY <5>1 DEF Copies
        <4>5. Cardinality(Sheet(s)) \in Nat /\ c.copy \in Nat
          BY <2>4, FS_CardinalityType DEF BaseInv, FilesInv, IsCard
        <4>6. Message(n).copy = Copies(n) + 1
          BY DEF Message
        <4> HIDE DEF s
        <4> QED
          BY <4>2, <4>3, <4>4, <4>5, <4>6
      <3> QED
        BY <2>1, <3>1, <3>3, <3>4 DEF Handing
    <2> QED
      BY <1>4, <2>1, <2>2, <2>3, <2>4 DEF Handing
  <1>6. CASE ~Hand
    <2> DEFINE n == c.node
    <2>1. c \in cards /\ UNCHANGED <<cards, idem>>
      BY <1>6, OnlyHandGivesOut
    <2>2. n \in Node /\ Slot(c) = <<n, attempts'[n]>>
      BY <2>1 DEF BaseInv, FilesInv, IsCard, Slot
    <2>3. Recorded(c)
      BY <2>1 DEF Recorded, Slot
    <2>4. attempts'[n] = attempts[n] /\ status[n] = "pending" /\ ~Unasked(n)
      <3>1. <<n, attempts'[n]>> \in idem'
        BY <2>1, <2>2, <2>3 DEF Recorded
      <3> QED
        BY <1>6, <2>2, <3>1, FiledBefore
    <2>5. InView(c.node, c.of)
      BY <1>3, <2>1, <2>3, <2>4 DEF CardsInv
    <2>6. Led(n)
      BY <1>3, <2>2, <2>4 DEF LedInv
    <2>7. ASSUME n \in dag.nodes, \A m \in dag.deps[n] : status[m] = "done", LockFree => n \in asked
          PROVE  InView(c.node, c.of)'
      <3>1. /\ dag'.deps[n] = dag.deps[n]
            /\ \A m \in dag.deps[n] : attempts'[m] = attempts[m]
        BY <2>4, <2>7, SameInputs DEF Frozen
      <3> QED
        BY <2>5, <3>1 DEF InView
    <2>8. CASE UNCHANGED <<dag, attempts>>
      BY <1>4, <2>5, <2>8
    <2>9. CASE Quietly
      BY <2>8, <2>9, QuietlyFacts DEF run
    <2>10. CASE Answering
      <3>1. PICK k, by, round, of, bad : GivenAnswer(k, by, round, of, bad)
        BY <2>10, AnsweringGives
      <3> QED
        BY <2>8, <3>1 DEF GivenAnswer
    <2>11. CASE Noting
      BY <2>8, <2>11, NotingGives
    <2>12. CASE Editing \/ Unblocking
      <3>1. driver.at = "idle"
        BY <2>12, EditingGives, UnblockingGives DEF LockFree
      <3>2. n \in asked
        BY <1>2, <2>6, <3>1 DEF Led, Carried
      <3> QED
        BY <1>1, <2>7, <3>2
    <2>13. CASE Dispatched
      <3>1. /\ driver.at = "dispatch" /\ open = {}
            /\ attempts' = [m \in Node |-> attempts[m] + IF m \in Reset THEN 1 ELSE 0]
        BY <2>13 DEF Dispatched
      <3>2. n \notin Reset
        BY <1>1, <2>2, <2>4, <3>1
      <3>3. n \in Ready(dag, status)
        BY <1>1, <1>2, <2>6, <3>1, <3>2 DEF Led
      <3> QED
        BY <2>7, <3>1, <3>3 DEF Ready, LockFree
    <2>14. CASE Running
      BY <2>8, <2>13, <2>14, RunningGives DEF Executing
    <2> QED
      BY <2>9, <2>10, <2>11, <2>12, <2>14, EveryStep
  <1> QED
    BY <1>5, <1>6

(* What leads to an interrupt is a card that shows what is there.          *)
LEMMA LeadsKeep ==
    ASSUME IInv, LegacyNext
    PROVE  LeadsInv'
  <1> USE DEF IInv
  <1>1. /\ IsDriver(driver) /\ asked \subseteq open
        /\ sweep # NoSweep => sweep.as.copy = 0
        /\ \A n \in open : /\ n \in dag.nodes /\ status[n] = "pending"
                           /\ \A m \in dag.deps[n] : status[m] = "done"
    BY DEF BaseInv, DriverInv, TypesInv, GraphInv, Ready
  <1>2. /\ ~(driver.write = TRUE /\ driver.at \in Carried) => driver.keep = {} /\ driver.kept = {}
        /\ driver.at = "dispatch" => driver.keep \subseteq Ready(dag, status) \ Reset
        /\ \A c \in driver.kept : c.node \in driver.keep
    BY DEF BeatInv
  <1> DEFINE Leads(c) == (c \in cards \/ c.copy = 0)
                         /\ (c.copy > 0 => Fresh(c.node, c.attempt, c.of))
  <1>3. \A c \in leads \cup driver.kept : Leads(c)
    BY DEF LeadsInv
  <1>4. cards \subseteq cards'
    <2>1. CASE Hand
      BY <2>1, HandGives DEF Handing
    <2> QED
      BY <2>1, OnlyHandGivesOut
  <1>5. ASSUME NEW c, Leads(c), UNCHANGED <<dag, attempts>> PROVE Leads(c)'
    BY <1>4, <1>5, CutStays DEF Fresh, InView
  <1>6. (\A c \in leads' \cup driver'.kept : Leads(c)') => LeadsInv'
    BY DEF LeadsInv
  <1>7. CASE /\ UNCHANGED <<dag, attempts>>
             /\ \A c \in leads' \cup driver'.kept :
                   c \in leads \cup driver.kept \/ c.copy = 0
    <2>1. ASSUME NEW c, c.copy = 0 PROVE Leads(c)
      BY <2>1
    <2> HIDE DEF Leads
    <2> QED
      BY <1>3, <1>5, <1>6, <1>7, <2>1
  <1>8. CASE Quietly
    <2>1. UNCHANGED <<dag, attempts>> /\ UNCHANGED step
      BY <1>8, QuietlyFacts DEF run
    <2>2. CASE Rebind
      <3>1. leads' = leads \cup {c \in driver.kept : c.node \in asked} /\ driver'.kept = {}
        BY <1>1, <2>2 DEF Rebind, Remapped, IsDriver
      <3> QED
        BY <1>7, <2>1, <3>1
    <2>3. CASE Hand
      <3>1. PICK new, bad, ghost : Handing(new, bad, ghost)
        BY <2>3, HandGives
      <3>2. driver.at = "hand" /\ driver'.kept = driver.kept
        BY <1>1, <2>3 DEF Hand, IsDriver
      <3>3. driver'.kept = {}
        BY <1>2, <3>2 DEF Carried
      <3>4. ASSUME NEW c, NEW n \in (new \ bad) \cup ghost, c = Message(n) PROVE Leads(c)'
        <4> DEFINE of == [m \in dag.deps[n] |-> attempts[m]]
        <4>1. DOMAIN of = dag.deps[n] /\ \A m \in dag.deps[n] : of[m] = attempts[m]
          OBVIOUS
        <4>2. c.node = n /\ c.attempt = attempts[n] /\ c.of = of
          BY <3>4 DEF Message
        <4>3. c \in cards'
          BY <3>1, <3>4 DEF Handing
        <4> HIDE DEF of
        <4> QED
          BY <2>1, <4>1, <4>2, <4>3 DEF Fresh, InView
      <3>5. ASSUME NEW c \in cards, c.node \in asked, Recorded(c), c.attempt = attempts[c.node]
            PROVE  Leads(c)
        <4>1. status[c.node] = "pending"
          BY <1>1, <3>5
        <4> QED
          BY <3>5, <4>1 DEF CardsInv, Fresh
      <3>6. ASSUME NEW c \in leads' PROVE Leads(c)'
        <4>1. CASE c \in leads
          BY <1>3, <1>5, <2>1, <4>1
        <4>2. ASSUME NEW n \in (new \ bad) \cup ghost, c = Message(n) PROVE Leads(c)'
          BY <3>4, <4>2
        <4>3. CASE c \in cards /\ c.node \in asked /\ Recorded(c) /\ c.attempt = attempts[c.node]
          BY <1>5, <2>1, <3>5, <4>3
        <4> QED
          BY <3>1, <4>1, <4>2, <4>3 DEF Handing
      <3> QED
        BY <1>6, <3>3, <3>6
    <2>4. CASE Close \/ Reconcile
      <3>1. leads' = leads
        BY <2>4 DEF Close, Reconcile, feishu
      <3>2. driver'.kept = {}
        <4>1. CASE Close
          BY <4>1 DEF Close, AtRest
        <4>2. CASE Reconcile
          BY <4>2 DEF Reconcile, AtRest
        <4> QED
          BY <2>4, <4>1, <4>2
      <3> QED
        BY <1>7, <2>1, <3>1, <3>2
    <2>5. CASE Crash
      <3>1. leads' \subseteq leads /\ driver'.kept = {}
        BY <2>5 DEF Crash, AtRest
      <3> QED
        BY <1>7, <2>1, <3>1
    <2>6. CASE (\E n \in Ticket : SweepRounds(n)) \/ \E c \in cards : Complete(c)
      <3>1. leads' = leads /\ driver' = driver
        BY <2>6 DEF SweepRounds, Complete, feishu
      <3> QED
        BY <1>7, <2>1, <3>1
    <2>7. CASE SweepInterrupts \/ SweepEnds
      <3>1. sweep # NoSweep /\ driver' = driver
            /\ (leads' = leads \cup {sweep.as} \/ leads' = leads \ {sweep.as})
        BY <2>7 DEF SweepInterrupts, SweepEnds, NoSweep
      <3> QED
        BY <1>1, <1>7, <2>1, <3>1
    <2> QED
      BY <1>8, <2>2, <2>3, <2>4, <2>5, <2>6, <2>7 DEF Quietly
  <1>9. CASE Answering
    <2>1. PICK k, by, round, of, bad : GivenAnswer(k, by, round, of, bad)
      BY <1>9, AnsweringGives
    <2>2. UNCHANGED <<dag, attempts>> /\ leads' \subseteq leads /\ driver'.kept = {}
      BY <2>1 DEF GivenAnswer
    <2> QED
      BY <1>7, <2>2
  <1>10. ASSUME NEW c \in leads \cup driver.kept, c.node \in dag.nodes, status[c.node] = "pending",
                \A m \in dag.deps[c.node] : status[m] = "done", LockFree => c.node \in asked,
                attempts'[c.node] = attempts[c.node]
         PROVE  Leads(c)'
    <2>1. /\ dag'.deps[c.node] = dag.deps[c.node]
          /\ \A m \in dag.deps[c.node] : attempts'[m] = attempts[m]
      BY <1>10, SameInputs DEF Frozen
    <2> QED
      BY <1>3, <1>4, <1>10, <2>1, CutStays DEF Fresh, InView
  <1>11. CASE Noting \/ Editing \/ Unblocking
    <2>1. /\ leads' = {}
          /\ \A n \in driver'.keep : n \in asked /\ n \in dag.nodes /\ attempts'[n] = attempts[n]
          /\ driver'.kept = {c \in leads : c.node \in driver'.keep}
      BY <1>11, KeptWaits
    <2>2. ASSUME NEW c \in driver'.kept PROVE Leads(c)'
      <3>1. c \in leads /\ c.node \in asked /\ attempts'[c.node] = attempts[c.node]
        BY <2>1, <2>2
      <3> QED
        BY <1>1, <1>10, <3>1
    <2> QED
      BY <1>6, <2>1, <2>2
  <1>12. CASE Dispatched
    <2>1. /\ driver.at = "dispatch" /\ leads' = {} /\ driver'.kept = driver.kept
          /\ attempts' = [m \in Node |-> attempts[m] + IF m \in Reset THEN 1 ELSE 0]
      BY <1>1, <1>12 DEF Dispatched, IsDriver
    <2>2. ASSUME NEW c \in driver.kept PROVE Leads(c)'
      <3>1. c.node \in Ready(dag, status) \ Reset
        BY <1>2, <2>1, <2>2
      <3>2. attempts'[c.node] = attempts[c.node]
        BY <2>1, <3>1 DEF Ready, BaseInv, TypesInv, Graph
      <3> QED
        BY <1>10, <2>1, <2>2, <3>1, <3>2 DEF Ready, LockFree
    <2> QED
      BY <1>6, <2>1, <2>2
  <1>13. ASSUME NEW ended, NEW fails, SuperStep \/ Raise, Executing(ended, fails)
         PROVE  LeadsInv'
    <2>1. UNCHANGED <<dag, attempts, leads>>
      BY <1>13 DEF Executing
    <2>2. driver'.kept = driver.kept \/ driver'.kept = {}
      <3>1. CASE SuperStep
        BY <1>1, <3>1 DEF SuperStep, IsDriver
      <3>2. CASE Raise
        BY <3>2 DEF Raise, Thrown, AtRest
      <3> QED
        BY <1>13, <3>1, <3>2
    <2> QED
      BY <1>7, <2>1, <2>2
  <1>14. CASE Running
    BY <1>12, <1>13, <1>14, RunningGives
  <1> QED
    BY <1>8, <1>9, <1>11, <1>14, EveryStep

(* Mishaps are used up one at a time. *)
LEMMA MishapsGoDown ==
    ASSUME BaseInv, RequestsInv, LeadsInv, LegacyNext
    PROVE  mishaps' \in Nat /\ mishaps' <= mishaps /\ mishaps \in Nat
  <1>1. mishaps \in Nat
    BY DEF BaseInv, TypesInv
  <1>2. CASE mishaps' = mishaps
    BY <1>1, <1>2
  <1>3. CASE Quietly
    BY <1>1, <1>3, QuietlyFacts
  <1>4. CASE Answering
    <2>1. PICK n, by, round, of, bad : GivenAnswer(n, by, round, of, bad)
      BY <1>4, AnsweringGives
    <2> QED
      BY <1>2, <2>1 DEF GivenAnswer
  <1>5. CASE Noting \/ Editing \/ Unblocking
    BY <1>2, <1>5, NotingGives, EditingGives, UnblockingGives
  <1>6. CASE Running
    BY <1>1, <1>6 DEF Running, Dispatch, SuperStep, Raise, GoesWrong
  <1> QED
    BY <1>3, <1>4, <1>5, <1>6, EveryStep

(* A second card of a round is the work of a mishap.                       *)
LEMMA CopiesKeep ==
    ASSUME IInv, LegacyNext
    PROVE  CopiesInv'
  <1> USE DEF IInv
  <1>1. mishaps' \in Nat /\ mishaps' <= mishaps /\ mishaps \in Nat
    BY MishapsGoDown
  <1>2. PICK p \in Plans : \A s :
           Cardinality(Sheet(s)) <= (IF s \in idem THEN 1 ELSE 0) + (p.mishaps - mishaps)
    BY DEF CopiesInv
  <1>3. \A s : IsFiniteSet(Sheet(s)) /\ Cardinality(Sheet(s)) \in Nat
    BY FS_CardinalityType DEF BaseInv, FilesInv
  <1>4. p.mishaps \in Nat
    BY PlansAssumption
  <1>5. CASE ~Hand
    <2>1. UNCHANGED <<cards, idem>>
      BY <1>5, OnlyHandGivesOut
    <2>2. \A s : Sheet(s)' = Sheet(s)
      BY <2>1 DEF Sheet, Slot
    <2>3. \A c \in cards' : c.copy <= Cardinality(Sheet(Slot(c)))
      BY <2>1 DEF CopiesInv
    <2>4. \A s : Cardinality(Sheet(s)) <= (IF s \in idem THEN 1 ELSE 0) + (p.mishaps - mishaps')
      BY <1>1, <1>2, <1>3, <1>4
    <2>5. \A c \in cards' : c.copy <= Cardinality(Sheet(Slot(c))')
      BY <2>2, <2>3 DEF Slot
    <2>6. \A s : Cardinality(Sheet(s)') <= (IF s \in idem' THEN 1 ELSE 0) + (p.mishaps - mishaps')
      BY <2>1, <2>2, <2>4
    <2> QED
      BY <2>5, <2>6 DEF CopiesInv, Slot
  <1>6. CASE Hand
    <2>1. PICK new, bad, ghost : Handing(new, bad, ghost)
      BY <1>6, HandGives
    <2>2. /\ new \subseteq asked /\ bad \subseteq new /\ ghost \subseteq bad
          /\ \A n \in new : Unasked(n)
          /\ cards' = cards \cup {Message(n) : n \in (new \ bad) \cup ghost}
          /\ idem' = idem \cup {<<n, attempts[n]>> : n \in new \ bad}
          /\ bad # {} => mishaps' = mishaps - 1
      BY <2>1 DEF Handing
    <2>3. ASSUME NEW s, NEW n \in (new \ bad) \cup ghost, s = <<n, attempts[n]>>,
                 Sheet(s)' = Sheet(s) \cup {Message(n)},
                 Message(n).copy = Cardinality(Sheet(s)) + 1
          PROVE  Cardinality(Sheet(s)') = Cardinality(Sheet(s)) + 1
      <3>1. Message(n) \notin Sheet(s)
        <4>1. ASSUME Message(n) \in cards, Slot(Message(n)) = s PROVE FALSE
          <5>1. Message(n).copy <= Cardinality(Sheet(s))
            BY <4>1 DEF CopiesInv
          <5> QED
            BY <1>3, <2>3, <5>1
        <4> QED
          BY <4>1 DEF Sheet
      <3> QED
        BY <1>3, <2>3, <3>1, FS_AddElement
    <2>4. ASSUME NEW s
          PROVE  Cardinality(Sheet(s)') <= (IF s \in idem' THEN 1 ELSE 0) + (p.mishaps - mishaps')
      <3>1. Cardinality(Sheet(s)) <= (IF s \in idem THEN 1 ELSE 0) + (p.mishaps - mishaps)
        BY <1>2
      <3>2. CASE Sheet(s)' = Sheet(s)
        <4>1. s \in idem => s \in idem'
          BY <2>2
        <4>2. Cardinality(Sheet(s)) <= (IF s \in idem' THEN 1 ELSE 0) + (p.mishaps - mishaps')
          BY <1>1, <1>3, <1>4, <3>1, <4>1
        <4> QED
          BY <3>2, <4>2
      <3>3. ASSUME NEW n \in (new \ bad) \cup ghost, s = <<n, attempts[n]>>,
                   Cardinality(Sheet(s)') = Cardinality(Sheet(s)) + 1
            PROVE  Cardinality(Sheet(s)') <= (IF s \in idem' THEN 1 ELSE 0) + (p.mishaps - mishaps')
        <4>1. s \notin idem
          BY <2>2, <3>3 DEF Unasked
        <4>2. Cardinality(Sheet(s)) <= 0 + (p.mishaps - mishaps)
          BY <3>1, <4>1
        <4>3. CASE n \in new \ bad
          <5>1. s \in idem'
            BY <2>2, <3>3, <4>3
          <5> QED
            BY <1>1, <1>3, <1>4, <3>3, <4>2, <5>1
        <4>4. CASE n \in ghost
          <5>1. mishaps' = mishaps - 1
            BY <2>2, <4>4
          <5> QED
            BY <1>1, <1>3, <1>4, <3>3, <4>2, <5>1
        <4> QED
          BY <3>3, <4>3, <4>4
      <3> QED
        BY <2>1, <2>3, <3>2, <3>3, SheetGrows
    <2>5. ASSUME NEW s PROVE Cardinality(Sheet(s)') \in Nat
                             /\ Cardinality(Sheet(s)) <= Cardinality(Sheet(s)')
      <3>1. CASE Sheet(s)' = Sheet(s)
        BY <1>3, <3>1
      <3>2. CASE Cardinality(Sheet(s)') = Cardinality(Sheet(s)) + 1
        BY <1>3, <3>2
      <3> QED
        BY <2>1, <2>3, <3>1, <3>2, SheetGrows
    <2>6. ASSUME NEW c \in cards' PROVE c.copy <= Cardinality(Sheet(Slot(c))')
      <3>1. CASE c \in cards
        <4>1. c.copy <= Cardinality(Sheet(Slot(c))) /\ c.copy \in Nat
          BY <3>1 DEF CopiesInv, BaseInv, FilesInv, IsCard
        <4>2. Cardinality(Sheet(Slot(c))) \in Nat /\ Cardinality(Sheet(Slot(c))') \in Nat
              /\ Cardinality(Sheet(Slot(c))) <= Cardinality(Sheet(Slot(c))')
          BY <1>3, <2>5 DEF Slot
        <4> QED
          BY <4>1, <4>2
      <3>2. ASSUME NEW n \in (new \ bad) \cup ghost, c = Message(n), c \notin cards
            PROVE  c.copy <= Cardinality(Sheet(Slot(c))')
        <4> PICK s : s = <<n, attempts[n]>>
          OBVIOUS
        <4>1. Slot(c) = s
          BY <3>2 DEF Slot, Message
        <4>2. c \in Sheet(s)'
          BY <4>1 DEF Sheet, Slot
        <4>3. Sheet(s)' # Sheet(s)
          BY <3>2, <4>2 DEF Sheet
        <4>4. PICK m \in (new \ bad) \cup ghost :
                 /\ s = <<m, attempts[m]>> /\ Sheet(s)' = Sheet(s) \cup {Message(m)}
                 /\ Message(m).copy = Cardinality(Sheet(s)) + 1
          BY <2>1, <4>3, SheetGrows
        <4>5. m = n
          BY <4>4
        <4>6. Cardinality(Sheet(s)') = c.copy
          BY <2>3, <3>2, <4>4
        <4>7. c.copy \in Nat
          BY <1>3, <3>2, <4>4, <4>5
        <4> QED
          BY <4>1, <4>6, <4>7 DEF Slot
      <3> QED
        BY <2>2, <3>1, <3>2
    <2> QED
      BY <2>4, <2>6 DEF CopiesInv, Slot
  <1> QED
    BY <1>5, <1>6

-----------------------------------------------------------------------------
(* The invariant *)

(* An instance starts well.                                                *)
LEMMA InitInv ==
    ASSUME LegacyInit
    PROVE  IInv
  <1>1. PICK p \in Plans : dag = p.dag /\ turns = p.turns /\ mishaps = p.mishaps
    BY DEF LegacyInit
  <1>2. dag \in Graph /\ SoundGraph(dag) /\ mishaps \in Nat /\ dag.nodes \subseteq Node
    BY <1>1, PlansAssumption DEF Graph, SoundGraph, Ancestors
  <1>3. /\ status = [n \in Node |-> "pending"]
        /\ attempts = [n \in Node |-> 0] /\ reopens = [n \in Node |-> 0]
        /\ seen = [n \in Node |-> <<>>] /\ verdict = [n \in Node |-> Nothing]
        /\ grants = [n \in Node |-> [given |-> 0, more |-> 0, back |-> 0, less |-> 0]]
        /\ requests = {} /\ open = {} /\ asked = {} /\ cards = {} /\ leads = {} /\ idem = {}
        /\ cut = FALSE /\ sweep = NoSweep
    BY DEF LegacyInit
  <1>4. /\ IsDriver(driver) /\ driver.at = "dispatch" /\ driver.write = FALSE
        /\ driver.keep = {} /\ driver.kept = {} /\ driver.then = "end"
    BY DEF LegacyInit, AtRest, IsDriver
  <1>5. TypesInv
    BY <1>2, <1>3 DEF TypesInv
  <1>6. DriverInv
    BY <1>3, <1>4 DEF DriverInv, Places, Carried
  <1>7. Failed = {}
    BY <1>2, <1>3 DEF Failed
  <1>8. \A s : Sheet(s) = {}
    BY <1>3 DEF Sheet
  <1>9. FilesInv
    BY <1>3, <1>8, FS_EmptySet DEF FilesInv
  <1>10. GraphInv
    BY <1>2, <1>3 DEF GraphInv
  <1>11. RequestsInv /\ LeadsInv /\ ConsentInv /\ SeenInv
    BY <1>2, <1>3, <1>4, <1>7 DEF RequestsInv, LeadsInv, ConsentInv, SeenInv
  <1>12. BeatInv
    BY <1>4 DEF BeatInv
  <1>13. LedInv /\ CardsInv
    BY <1>3 DEF LedInv, CardsInv, Unasked
  <1>14. CopiesInv
    <2>1. \A s : Cardinality(Sheet(s)) = 0
      BY <1>8, FS_EmptySet
    <2>2. p.mishaps - mishaps = 0
      BY <1>1, <1>2
    <2>3. \A s : Cardinality(Sheet(s)) <= (IF s \in idem THEN 1 ELSE 0) + (p.mishaps - mishaps)
      BY <1>3, <2>1, <2>2
    <2> QED
      BY <1>3, <2>3 DEF CopiesInv
  <1> QED
    BY <1>5, <1>6, <1>9, <1>10, <1>11, <1>12, <1>13, <1>14 DEF IInv, BaseInv

(* A step of the engine keeps all of it; between steps nothing moves. *)
LEMMA StepInv ==
    ASSUME IInv, [LegacyNext]_legacyVars
    PROVE  IInv'
  <1>1. CASE LegacyNext
    <2>1. BaseInv' /\ RequestsInv' /\ ConsentInv' /\ SeenInv' /\ BeatInv'
      BY <1>1, BaseKeeps, RequestsKeep, ConsentKeeps, SeenKeeps, BeatKeeps DEF IInv
    <2>2. LeadsInv' /\ LedInv' /\ CardsInv' /\ CopiesInv'
      BY <1>1, LeadsKeep, LedKeeps, CardsKeep, CopiesKeep
    <2> QED
      BY <2>1, <2>2 DEF IInv
  <1>2. CASE UNCHANGED legacyVars
    <2>1. /\ UNCHANGED <<dag, status, attempts, reopens, seen, verdict, grants, requests>>
          /\ UNCHANGED <<open, asked, cards, leads, idem, driver, sweep, cut, mishaps>>
          /\ UNCHANGED run
      BY <1>2 DEF legacyVars, run, step, feishu
    <2>2. Reset' = Reset /\ Reopening' = Reopening
      BY <2>1, SameResets
    <2>3. TypesInv' /\ DriverInv'
      BY <2>1 DEF IInv, BaseInv, TypesInv, DriverInv, SoundGraph, Ancestors, NoSweep
    <2>4. \A s : Sheet(s)' = Sheet(s)
      BY <2>1 DEF Sheet, Slot
    <2>5. FilesInv' /\ GraphInv'
      BY <2>1, <2>4 DEF IInv, BaseInv, FilesInv, GraphInv, IsCard
    <2>6. RequestsInv'
      BY <2>1 DEF IInv, RequestsInv, RequestOK, Answered, Approvers
    <2>7. \A n, round, of : Fresh(n, round, of)' = Fresh(n, round, of)
      BY <2>1 DEF Fresh, InView
    <2>8. LeadsInv' /\ SeenInv'
      BY <2>1, <2>7 DEF IInv, LeadsInv, SeenInv
    <2>9. ConsentInv'
      BY <2>1, ConsentStays DEF IInv, ConsentInv, Failed
    <2>10. BeatInv'
      BY <2>1, <2>2 DEF IInv, BeatInv, Ready
    <2>11. LedInv' /\ CardsInv'
      BY <2>1, <2>2 DEF IInv, LedInv, CardsInv, Led, Leading, Unasked, Recorded, Slot, InView
    <2>12. CopiesInv'
      BY <2>1, <2>4 DEF IInv, CopiesInv, Slot
    <2> QED
      BY <2>3, <2>5, <2>6, <2>8, <2>9, <2>10, <2>11, <2>12 DEF IInv, BaseInv
  <1> QED
    BY <1>1, <1>2

(* The invariant, for any plan, people, budgets and mishaps.               *)
LEMMA LegacyInvariant == LegacySpec => []IInv
  BY InitInv, StepInv, PTL DEF LegacySpec

(* FreshWork: whatever beats, edits, crashes and late answers there are,   *)
(* what is done was done in its round, after its inputs, and in view of    *)
(* the rounds they are in. *)
THEOREM WorkIsFresh == LegacySpec => []FreshWork
  <1>1. IInv => FreshWork
    <2> SUFFICES ASSUME IInv PROVE FreshWork
      OBVIOUS
    <2>1. LegacyTypeOK
      BY DEF IInv, BaseInv, TypesInv, LeadsInv, LegacyTypeOK, Graph
    <2>2. \A n \in dag.nodes : status[n] = "done" => \A m \in dag.deps[n] : status[m] = "done"
      BY DEF IInv, BaseInv, GraphInv
    <2>3. \A n \in dag.nodes : status[n] = "done" /\ seen[n].by # "sweep"
                                  => Fresh(n, seen[n].round, seen[n].of)
      BY DEF IInv, SeenInv
    <2> QED
      BY <2>1, <2>2, <2>3 DEF FreshWork, Fresh, InView
  <1> QED
    BY <1>1, LegacyInvariant, PTL

(* AskedOnce: a person is asked once for a round, but for what went wrong, *)
(* and while no job was cut short whoever waits holds a message that leads *)
(* to him. *)
THEOREM OneQuestionEach == LegacySpec => []AskedOnce
  <1>1. IInv => AskedOnce
    <2> SUFFICES ASSUME IInv PROVE AskedOnce
      OBVIOUS
    <2>1. ASSUME NEW c \in cards PROVE \E p \in Plans : c.copy <= 1 + p.mishaps - mishaps
      <3>1. PICK p \in Plans : \A s :
               Cardinality(Sheet(s)) <= (IF s \in idem THEN 1 ELSE 0) + (p.mishaps - mishaps)
        BY DEF IInv, CopiesInv
      <3>2. c.copy \in Nat /\ c.copy <= Cardinality(Sheet(Slot(c)))
        BY DEF IInv, CopiesInv, BaseInv, FilesInv, IsCard
      <3>3. Cardinality(Sheet(Slot(c))) \in Nat
        BY FS_CardinalityType DEF IInv, BaseInv, FilesInv
      <3>4. p.mishaps \in Nat /\ mishaps \in Nat
        BY PlansAssumption DEF IInv, BaseInv, TypesInv
      <3>5. Cardinality(Sheet(Slot(c))) <= 1 + (p.mishaps - mishaps)
        BY <3>1, <3>3, <3>4
      <3> QED
        BY <3>2, <3>3, <3>4, <3>5
    <2>2. ASSUME LockFree, ~cut, NEW n \in asked, <<n, attempts[n]>> \in idem
          PROVE  \E c \in leads : Slot(c) = <<n, attempts[n]>> /\ c.copy > 0
      <3>1. n \in Node /\ status[n] = "pending"
        BY DEF IInv, BaseInv, TypesInv, GraphInv, Ready
      <3>2. Led(n)
        BY <2>2, <3>1 DEF IInv, LedInv, Unasked
      <3>3. driver.keep = {} /\ driver.at = "idle"
        BY <2>2 DEF IInv, BeatInv, LockFree, Carried
      <3> QED
        BY <3>2, <3>3 DEF Led, Leading
    <2> QED
      BY <2>1, <2>2 DEF AskedOnce
  <1> QED
    BY <1>1, LegacyInvariant, PTL

(* WithConsent: nobody sends back what others did but the owner or with    *)
(* the consent of another who may give it, and a request is carried out    *)
(* once at most and shows what became of it. *)
THEOREM OthersConsent == LegacySpec => []WithConsent
  <1>1. IInv => WithConsent
    <2> SUFFICES ASSUME IInv PROVE WithConsent
      OBVIOUS
    <2>1. \A g \in Failed \cap Human : Consented(g)
      BY DEF IInv, ConsentInv
    <2>2. \A q \in requests :
             q.ran \in {0, 1} /\ (q.verdict # "none" => (q.ran = 1 <=> q.verdict = "approved"))
      BY DEF IInv, RequestsInv, RequestOK
    <2> QED
      BY <2>1, <2>2 DEF WithConsent, Consented
  <1> QED
    BY <1>1, LegacyInvariant, PTL

=============================================================================
