--------------------------- MODULE DeliveryProofs ---------------------------
(***************************************************************************)
(* A result that counts was made from the inputs of its attempt, and no    *)
(* device sends what it may have lost: for any number of instances, owners,*)
(* central workers, devices and threads of the gateway.                    *)
(*                                                                         *)
(* Between the claim, the second reading of the instance, the execution    *)
(* and the result anything may happen to the node.  What a worker has in   *)
(* hand is therefore not true of the node, but of the attempt it names:    *)
(* attempts only grow, an attempt that was once started is not ready       *)
(* again, and so inputs that were read belong to the attempt that was      *)
(* claimed or that attempt is over.                                        *)
(***************************************************************************)
EXTENDS Delivery, TLAPS

NodeRow == [work: People \cup {"central", "none"},
            status: {"ready", "running", "done", "failed"}, attempt: 1 .. MaxAttempt,
            claim: Nat, holder: Workers \cup {Nobody}, live: BOOLEAN,
            from: 0 .. MaxAttempt]

(* A node is held while it runs, and settled from its own attempt. *)
NodeOK(n) ==
    /\ n \in NodeRow
    /\ n.holder # Nobody <=> n.status = "running"
    /\ n.live => n.status = "running"
    /\ n.status \in {"done", "failed"} => n.from = n.attempt

NodeInv ==
    /\ DOMAIN node = Instances /\ \A i \in Instances : NodeOK(node[i])
    /\ node = [i \in Instances |-> node[i]] /\ paused \subseteq Instances

IsScan(s) ==
    s = [pc |-> s.pc, by |-> s.by, heard |-> s.heard, list |-> s.list, item |-> s.item,
         fits |-> s.fits, attempt |-> s.attempt, claim |-> s.claim]

(* What was claimed has been started, or is over. *)
Claimed(i, attempt) ==
    i \in Instances =>
        /\ attempt \in 1 .. MaxAttempt /\ attempt <= node[i].attempt
        /\ attempt = node[i].attempt => node[i].status # "ready"

ScanOK(s) ==
    /\ IsScan(s) /\ s.pc \in {"idle", "look", "dispatch", "fetch"}
    /\ s.pc # "idle" => s.by \in Workers
    /\ s.pc = "fetch" => Claimed(s.item, s.attempt)

ScanInv == DOMAIN scan = Clerks /\ \A c \in Clerks : ScanOK(scan[c])

IsJob(j) ==
    j = [pc |-> j.pc, item |-> j.item, attempt |-> j.attempt, claim |-> j.claim,
         inputs |-> j.inputs, good |-> j.good]

AtWork == {"work", "complete", "fail", "join", "send", "commit"}

(* What was read belongs to the attempt that was claimed, or that is over. *)
ReadFor(i, attempt, inputs) ==
    i \in Instances =>
        /\ attempt \in 1 .. MaxAttempt /\ attempt <= node[i].attempt
        /\ attempt = node[i].attempt => inputs = attempt

JobOK(j) ==
    /\ IsJob(j) /\ j.pc \in {"idle", "asking"} \cup AtWork
    /\ j.pc \in AtWork => ReadFor(j.item, j.attempt, j.inputs)

JobInv == DOMAIN job = Workers /\ \A w \in Workers : JobOK(job[w])

DeviceInv ==
    /\ beat \in [Devices -> {"off", "waiting", "due", "asking", "renewing"}]
    /\ lost \cup on \cup revoked \cup unpaired \subseteq Devices /\ codes \subseteq People

(* Attempts only grow, and one that was started is not ready again. *)
Moves ==
    \A i \in Instances :
        /\ node'[i].attempt >= node[i].attempt
        /\ node'[i].attempt = node[i].attempt /\ node[i].status # "ready" =>
             node'[i].status # "ready"

DeliveryInv == NodeInv /\ ScanInv /\ JobInv /\ DeviceInv /\ NoneLost

-----------------------------------------------------------------------------
(* What a step has to show *)

(* The bounds, and who is who. *)
LEMMA Constants ==
    /\ MaxAttempt \in Nat /\ 1 <= MaxAttempt /\ 1 \in 1 .. MaxAttempt
    /\ Nobody \notin Workers /\ Central \subseteq Workers /\ Devices \subseteq Workers
    /\ Central \subseteq Clerks /\ Threads \subseteq Clerks /\ Central \cap Devices = {}
  BY DeliveryAssumption DEF Workers, Clerks

(* Nobody has anything to do at first. *)
LEMMA InitDelivery == Init => DeliveryInv
  <1> SUFFICES ASSUME Init PROVE DeliveryInv
    OBVIOUS
  <1>1. PICK s \in Scopes :
          /\ node = [i \in Instances |->
                    [work |-> s.work[i],
                     status |-> IF s.work[i] = "none" THEN "done" ELSE "ready",
                     attempt |-> 1, claim |-> 0, holder |-> Nobody, live |-> FALSE,
                     from |-> 1]]
          /\ unpaired = s.unpaired /\ on = Devices \ s.unpaired
    BY DEF Init
  <1>2. /\ s.work \in [Instances -> People \cup {"central", "none"}]
        /\ s.unpaired \subseteq Devices
    BY DeliveryAssumption
  <1>3. NodeInv
    <2>1. ASSUME NEW i \in Instances
          PROVE  NodeOK(node[i])
      <3>1. PICK work \in People \cup {"central", "none"} : work = s.work[i]
        BY <1>2
      <3>2. PICK st \in {"done", "ready"} : st = IF work = "none" THEN "done" ELSE "ready"
        OBVIOUS
      <3>3. node[i] = [work |-> work, status |-> st, attempt |-> 1, claim |-> 0,
                       holder |-> Nobody, live |-> FALSE, from |-> 1]
        BY <1>1, <3>1, <3>2
      <3>4. 1 \in 0 .. MaxAttempt
        BY Constants
      <3>5. node[i] \in NodeRow
        BY <3>3, <3>4, Constants DEF NodeRow
      <3> QED
        BY <3>3, <3>5 DEF NodeOK
    <2> QED
      BY <1>1, <2>1 DEF NodeInv, Init
  <1>4. ScanInv
    BY DEF Init, ScanInv, ScanOK, IsScan, NoScan
  <1>5. JobInv
    BY DEF Init, JobInv, JobOK, IsJob, NoJob, AtWork
  <1>6. DeviceInv
    BY <1>1, <1>2 DEF Init, DeviceInv
  <1>7. NoneLost
    BY Constants DEF Init, NoneLost, NoJob
  <1> QED
    BY <1>3, <1>4, <1>5, <1>6, <1>7 DEF DeliveryInv

(* Attempts are numbers. *)
LEMMA Attempts ==
    ASSUME NodeInv, NEW i \in Instances
    PROVE  /\ node[i] \in NodeRow /\ NodeOK(node[i]) /\ node[i].attempt \in 1 .. MaxAttempt
           /\ node[i].attempt \in Nat /\ node[i].claim \in Nat
  BY Constants DEF NodeInv, NodeOK, NodeRow

(* They stay numbers. *)
LEMMA AttemptsNext ==
    ASSUME NodeInv', NEW i \in Instances
    PROVE  node'[i].attempt \in Nat
  BY Constants DEF NodeInv, NodeOK, NodeRow

(* What was claimed has been started, whatever became of it. *)
LEMMA ClaimedStays ==
    ASSUME NodeInv, NodeInv', Moves, NEW i, NEW a, Claimed(i, a)
    PROVE  Claimed(i, a)'
  <1>1. i \in Instances => node[i].attempt \in Nat /\ node'[i].attempt \in Nat
    BY Attempts, AttemptsNext
  <1> QED
    BY <1>1, Constants DEF Claimed, Moves

(* What was read belongs to its attempt, whatever became of it. *)
LEMMA ReadStays ==
    ASSUME NodeInv, NodeInv', Moves, NEW i, NEW a, NEW inputs, ReadFor(i, a, inputs)
    PROVE  ReadFor(i, a, inputs)'
  <1>1. i \in Instances => node[i].attempt \in Nat /\ node'[i].attempt \in Nat
    BY Attempts, AttemptsNext
  <1> QED
    BY <1>1, Constants DEF ReadFor, Moves

(* A step that moves nodes on has only to look after what it writes. *)
LEMMA StepKeeps ==
    ASSUME DeliveryInv, Moves, NodeInv', DeviceInv', NoneLost',
           DOMAIN scan' = Clerks, \A c \in Clerks : scan'[c] = scan[c] \/ ScanOK(scan[c])',
           DOMAIN job' = Workers, \A w \in Workers : job'[w] = job[w] \/ JobOK(job[w])'
    PROVE  DeliveryInv'
  <1>1. ASSUME NEW c \in Clerks
        PROVE  ScanOK(scan[c])'
    <2>1. CASE scan'[c] = scan[c]
      <3>1. PICK s : s = scan[c]
        OBVIOUS
      <3>2. ScanOK(s)
        BY <3>1 DEF DeliveryInv, ScanInv
      <3>3. s.pc = "fetch" => Claimed(s.item, s.attempt)'
        BY <3>2, ClaimedStays DEF ScanOK, DeliveryInv
      <3>4. ScanOK(s)'
        BY <3>2, <3>3 DEF ScanOK
      <3> QED
        BY <2>1, <3>1, <3>4
    <2> QED
      BY <2>1
  <1>2. ASSUME NEW w \in Workers
        PROVE  JobOK(job[w])'
    <2>1. CASE job'[w] = job[w]
      <3>1. PICK j : j = job[w]
        OBVIOUS
      <3>2. JobOK(j)
        BY <3>1 DEF DeliveryInv, JobInv
      <3>3. j.pc \in AtWork => ReadFor(j.item, j.attempt, j.inputs)'
        BY <3>2, ReadStays DEF JobOK, DeliveryInv
      <3>4. JobOK(j)'
        BY <3>2, <3>3 DEF JobOK
      <3> QED
        BY <2>1, <3>1, <3>4
    <2> QED
      BY <2>1
  <1> QED
    BY <1>1, <1>2 DEF DeliveryInv, ScanInv, JobInv

(* A step that leaves the nodes alone. *)
LEMMA QuietStep ==
    ASSUME DeliveryInv, UNCHANGED node, paused' \subseteq Instances, DeviceInv', NoneLost',
           DOMAIN scan' = Clerks, \A c \in Clerks : scan'[c] = scan[c] \/ ScanOK(scan'[c]),
           DOMAIN job' = Workers, \A w \in Workers : job'[w] = job[w] \/ JobOK(job'[w])
    PROVE  DeliveryInv'
  <1>1. NodeInv'
    BY DEF DeliveryInv, NodeInv
  <1>2. Moves
    BY Attempts DEF Moves, DeliveryInv
  <1>3. \A c \in Clerks : scan'[c] = scan[c] \/ ScanOK(scan[c])'
    BY DEF ScanOK, Claimed
  <1>4. \A w \in Workers : job'[w] = job[w] \/ JobOK(job[w])'
    BY DEF JobOK, ReadFor
  <1> QED
    BY <1>1, <1>2, <1>3, <1>4, StepKeeps

(* A step that moves one node on. *)
LEMMA NodeStep ==
    ASSUME NodeInv, paused' \subseteq Instances, NEW i, NEW n, node' = [node EXCEPT ![i] = n],
           i \in Instances =>
             /\ NodeOK(n) /\ n.attempt >= node[i].attempt
             /\ n.attempt = node[i].attempt /\ node[i].status # "ready" =>
                  n.status # "ready"
    PROVE  NodeInv' /\ Moves
  <1>1. /\ DOMAIN node' = Instances /\ node' = [j \in Instances |-> node'[j]]
        /\ \A j \in Instances : node'[j] = IF j = i THEN n ELSE node[j]
    BY DEF NodeInv
  <1>2. \A j \in Instances : NodeOK(node[j]) /\ node[j].attempt \in Nat
    BY Attempts
  <1>3. NodeInv'
    BY <1>1, <1>2 DEF NodeInv, NodeOK
  <1>4. Moves
    BY <1>1, <1>2 DEF Moves
  <1> QED
    BY <1>3, <1>4

-----------------------------------------------------------------------------
(* Owners *)

(* An owner restarts, edits, pauses or resumes an instance. *)
LEMMA InstanceStep ==
    ASSUME DeliveryInv, UNCHANGED <<scan, job, device>>, NEW i \in Instances,
           \/ Restart(i) \/ Pause(i) \/ Resume(i)
           \/ \E work \in People \cup {"central"} : Edit(i, work)
    PROVE  DeliveryInv'
  <1>1. /\ DeviceInv' /\ NoneLost'
        /\ DOMAIN scan' = Clerks /\ DOMAIN job' = Workers /\ paused \subseteq Instances
        /\ NodeInv
    BY DEF DeliveryInv, DeviceInv, NoneLost, ScanInv, JobInv, NodeInv, device, pairing
  <1>2. CASE Pause(i) \/ Resume(i)
    <2>1. UNCHANGED node /\ paused' \subseteq Instances
      BY <1>1, <1>2 DEF Pause, Resume
    <2> QED
      BY <1>1, <2>1, QuietStep
  <1>3. CASE Restart(i)
    <2>1. /\ node[i] \in NodeRow /\ node[i].attempt \in Nat /\ node[i].attempt < MaxAttempt
      BY <1>3, Attempts DEF Restart, DeliveryInv
    <2>2. PICK a \in 1 .. MaxAttempt : a = node[i].attempt + 1
      BY <2>1, Constants
    <2>3. 0 \in 0 .. MaxAttempt
      BY Constants
    <2>4. PICK n : n = [node[i] EXCEPT !.status = "ready", !.attempt = a, !.from = 0,
                                       !.holder = Nobody, !.live = FALSE]
      OBVIOUS
    <2>5. /\ n \in NodeRow /\ n.status = "ready" /\ n.attempt = a
          /\ n.holder = Nobody /\ n.live = FALSE
      BY <2>1, <2>3, <2>4 DEF NodeRow
    <2>6. node' = [node EXCEPT ![i] = n] /\ UNCHANGED paused
      BY <1>3, <2>1, <2>2, <2>4 DEF Restart, Reset, NodeRow
    <2>7. /\ NodeOK(n) /\ n.attempt >= node[i].attempt
          /\ n.attempt = node[i].attempt /\ node[i].status # "ready" => n.status # "ready"
      BY <2>1, <2>2, <2>5 DEF NodeOK
    <2>8. NodeInv' /\ Moves
      BY <1>1, <2>6, <2>7, NodeStep
    <2> QED
      BY <1>1, <2>8, StepKeeps
  <1>4. ASSUME NEW work \in People \cup {"central"}, Edit(i, work)
        PROVE  DeliveryInv'
    <2>1. node[i] \in NodeRow /\ NodeOK(node[i]) /\ node[i].attempt \in Nat
      BY Attempts DEF DeliveryInv
    <2>2. PICK n : n = [node[i] EXCEPT !.work = work]
      OBVIOUS
    <2>3. /\ n \in NodeRow /\ n.status = node[i].status /\ n.attempt = node[i].attempt
          /\ n.holder = node[i].holder /\ n.live = node[i].live /\ n.from = node[i].from
      BY <2>1, <2>2 DEF NodeRow
    <2>4. node' = [node EXCEPT ![i] = n] /\ UNCHANGED paused
      BY <1>4, <2>2 DEF Edit
    <2>5. /\ NodeOK(n) /\ n.attempt >= node[i].attempt
          /\ n.attempt = node[i].attempt /\ node[i].status # "ready" => n.status # "ready"
      BY <2>1, <2>3 DEF NodeOK
    <2>6. NodeInv' /\ Moves
      BY <1>1, <2>4, <2>5, NodeStep
    <2> QED
      BY <1>1, <2>6, StepKeeps
  <1> QED
    BY <1>2, <1>3, <1>4

(* Devices are revoked, switched and paired, codes are issued and expire. *)
LEMMA DeviceStep ==
    ASSUME DeliveryInv, UNCHANGED <<world, scan, job, beat, lost>>,
           on' \subseteq Devices, revoked' \subseteq Devices, unpaired' \subseteq Devices,
           codes' \subseteq People
    PROVE  DeliveryInv'
  <1>1. UNCHANGED <<node, paused, scan, job, beat, lost>>
    BY DEF world
  <1>2. /\ DeviceInv' /\ NoneLost' /\ DOMAIN scan' = Clerks /\ DOMAIN job' = Workers
        /\ paused' \subseteq Instances
    BY <1>1 DEF DeliveryInv, DeviceInv, NoneLost, ScanInv, JobInv, NodeInv
  <1> QED
    BY <1>1, <1>2, QuietStep

(* Whatever owners do. *)
LEMMA OwnersStep ==
    ASSUME DeliveryInv, Owners
    PROVE  DeliveryInv'
  <1>1. /\ on \subseteq Devices /\ revoked \subseteq Devices /\ unpaired \subseteq Devices
        /\ codes \subseteq People
    BY DEF DeliveryInv, DeviceInv
  <1>2. ASSUME NEW i \in Instances,
               \/ Restart(i) \/ Pause(i) \/ Resume(i)
               \/ \E work \in People \cup {"central"} : Edit(i, work)
        PROVE  DeliveryInv'
    <2>1. UNCHANGED <<scan, job, device>>
      BY <1>2 DEF Restart, Pause, Resume, Edit
    <2> QED
      BY <1>2, <2>1, InstanceStep
  <1>3. ASSUME NEW d \in Devices, Revoke(d)
        PROVE  DeliveryInv'
    BY <1>1, <1>3, DeviceStep DEF Revoke, pairing
  <1>4. ASSUME NEW d \in Devices, Switch(d)
        PROVE  DeliveryInv'
    BY <1>1, <1>4, DeviceStep DEF Switch, pairing
  <1>5. ASSUME NEW p \in People, IssuePairing(p)
        PROVE  DeliveryInv'
    BY <1>1, <1>5, DeviceStep DEF IssuePairing
  <1> QED
    BY <1>2, <1>3, <1>4, <1>5 DEF Owners

(* A code is used, or expires. *)
LEMMA PairingStep ==
    ASSUME DeliveryInv,
           (\E d \in Devices : PairDevice(d)) \/ (\E p \in People : CodeExpires(p))
    PROVE  DeliveryInv'
  <1>1. /\ on \subseteq Devices /\ revoked \subseteq Devices /\ unpaired \subseteq Devices
        /\ codes \subseteq People
    BY DEF DeliveryInv, DeviceInv
  <1>2. ASSUME NEW d \in Devices, PairDevice(d)
        PROVE  DeliveryInv'
    <2>1. unpaired' \subseteq Devices /\ codes' \subseteq People
      BY <1>1, <1>2 DEF PairDevice, Keep
    <2> QED
      BY <1>1, <1>2, <2>1, DeviceStep DEF PairDevice
  <1>3. ASSUME NEW p \in People, CodeExpires(p)
        PROVE  DeliveryInv'
    BY <1>1, <1>3, DeviceStep DEF CodeExpires
  <1> QED
    BY <1>2, <1>3

-----------------------------------------------------------------------------
(* The way to a claim *)

(* A scan and a job change; nothing of a device but what it waits for. *)
LEMMA ScanStep ==
    ASSUME DeliveryInv, UNCHANGED <<node, paused>>, DeviceInv', lost' \subseteq lost,
           \A d \in Devices : beat'[d] = beat[d] \/ beat'[d] \in {"off", "waiting"},
           DOMAIN scan' = Clerks, \A c \in Clerks : scan'[c] = scan[c] \/ ScanOK(scan'[c]),
           DOMAIN job' = Workers,
           \A w \in Workers : job'[w] = job[w] \/ (JobOK(job'[w])
                                                   /\ job'[w].pc \notin {"send", "commit"})
    PROVE  DeliveryInv'
  <1>1. NoneLost'
    BY Constants DEF DeliveryInv, NoneLost
  <1>2. paused' \subseteq Instances
    BY DEF DeliveryInv, NodeInv
  <1> QED
    BY <1>1, <1>2, QuietStep

(* At rest everybody is in order. *)
LEMMA AtRest ==
    /\ ScanOK(NoScan) /\ NoScan.pc = "idle"
    /\ JobOK(NoJob) /\ NoJob.pc = "idle"
  BY DEF ScanOK, IsScan, NoScan, JobOK, IsJob, NoJob, AtWork

(* A new list. *)
LEMMA NewScan ==
    ASSUME NEW w \in Workers, NEW list
    PROVE  ScanOK([NoScan EXCEPT !.pc = "look", !.by = w, !.heard = TRUE, !.list = list])
  <1>1. PICK s : s = [NoScan EXCEPT !.pc = "look", !.by = w, !.heard = TRUE, !.list = list]
    OBVIOUS
  <1>2. s.pc = "look" /\ s.by = w /\ IsScan(s)
    BY <1>1 DEF NoScan, IsScan
  <1>3. ScanOK(s)
    BY <1>2 DEF ScanOK
  <1> QED
    BY <1>1, <1>3

(* A worker ticks, or a device asks the gateway. *)
LEMMA AskStep ==
    ASSUME DeliveryInv, (\E c \in Central : StartTick(c))
                        \/ (\E d \in Devices, t \in Threads : Poll(d, t))
    PROVE  DeliveryInv'
  <1>1. /\ DOMAIN scan = Clerks /\ DOMAIN job = Workers
        /\ \A w \in Workers : JobOK(job[w])
    BY DEF DeliveryInv, ScanInv, JobInv
  <1>2. ASSUME NEW c \in Central, StartTick(c)
        PROVE  DeliveryInv'
    <2>1. PICK s : s = [NoScan EXCEPT !.pc = "look", !.by = c, !.heard = TRUE,
                                      !.list = Candidates]
      OBVIOUS
    <2>2. ScanOK(s) /\ scan' = [scan EXCEPT ![c] = s]
      BY <1>2, <2>1, NewScan, Constants DEF StartTick
    <2>3. UNCHANGED <<node, paused, job, beat, lost>> /\ DeviceInv'
      BY <1>2 DEF StartTick, world, device, pairing, DeliveryInv, DeviceInv
    <2>4. /\ DOMAIN scan' = Clerks
          /\ \A k \in Clerks : scan'[k] = scan[k] \/ ScanOK(scan'[k])
      BY <1>1, <2>2
    <2> QED
      BY <1>1, <2>3, <2>4, ScanStep
  <1>3. ASSUME NEW d \in Devices, NEW t \in Threads, Poll(d, t), d \in revoked
        PROVE  DeliveryInv'
    <2>1. /\ on' \subseteq Devices
          /\ UNCHANGED <<world, scan, job, beat, lost, revoked, pairing>>
      BY <1>3 DEF Poll, DeliveryInv, DeviceInv
    <2> QED
      BY <2>1, DeviceStep DEF pairing, DeliveryInv, DeviceInv
  <1>4. ASSUME NEW d \in Devices, NEW t \in Threads, Poll(d, t), d \notin revoked
        PROVE  DeliveryInv'
    <2>1. PICK s : s = [NoScan EXCEPT !.pc = "look", !.by = d, !.heard = TRUE,
                                      !.list = Candidates]
      OBVIOUS
    <2>2. ScanOK(s) /\ scan' = [scan EXCEPT ![t] = s]
      BY <1>4, <2>1, NewScan, Constants DEF Poll
    <2>3. PICK j : j = [job[d] EXCEPT !.pc = "asking"]
      OBVIOUS
    <2>4. JobOK(j) /\ j.pc = "asking"
      BY <1>1, <2>3, Constants DEF JobOK, IsJob, AtWork
    <2>5. job' = [job EXCEPT ![d] = j] /\ UNCHANGED <<node, paused, beat, lost>> /\ DeviceInv'
      BY <1>4, <2>3 DEF Poll, world, pairing, DeliveryInv, DeviceInv
    <2>6. /\ DOMAIN scan' = Clerks /\ DOMAIN job' = Workers
          /\ \A k \in Clerks : scan'[k] = scan[k] \/ ScanOK(scan'[k])
          /\ \A w \in Workers : job'[w] = job[w] \/ (JobOK(job'[w])
                                                   /\ job'[w].pc \notin {"send", "commit"})
      BY <1>1, <2>2, <2>4, <2>5
    <2> QED
      BY <2>5, <2>6, ScanStep
  <1> QED
    BY <1>2, <1>3, <1>4

(* The request is given up, the tick or the gateway ends. *)
LEMMA DropStep ==
    ASSUME DeliveryInv, UNCHANGED <<world, lost, on, revoked, pairing>>,
           \A d \in Devices : beat'[d] = beat[d] \/ beat'[d] = "off",
           beat' \in [Devices -> {"off", "waiting", "due", "asking", "renewing"}],
           DOMAIN scan' = Clerks,
           \A c \in Clerks : scan'[c] \in {scan[c], NoScan, [scan[c] EXCEPT !.heard = FALSE]},
           DOMAIN job' = Workers, \A w \in Workers : job'[w] \in {job[w], NoJob}
    PROVE  DeliveryInv'
  <1>1. DeviceInv' /\ UNCHANGED <<node, paused>>
    BY DEF DeliveryInv, DeviceInv, world, pairing
  <1>2. ASSUME NEW c \in Clerks
        PROVE  scan'[c] = scan[c] \/ ScanOK(scan'[c])
    <2>1. PICK r : r = [scan[c] EXCEPT !.heard = FALSE]
      OBVIOUS
    <2>2. ScanOK(scan[c])
      BY DEF DeliveryInv, ScanInv
    <2>3. /\ IsScan(r) /\ r.pc = scan[c].pc /\ r.by = scan[c].by /\ r.item = scan[c].item
          /\ r.attempt = scan[c].attempt
      BY <2>1, <2>2 DEF ScanOK, IsScan
    <2>4. ScanOK(r)
      BY <2>2, <2>3 DEF ScanOK
    <2> QED
      BY <2>1, <2>4, AtRest
  <1>3. \A w \in Workers : job'[w] = job[w] \/ (JobOK(job'[w])
                                                /\ job'[w].pc \notin {"send", "commit"})
    BY AtRest
  <1> QED
    BY <1>1, <1>2, <1>3, ScanStep

(* The device no longer waits. *)
LEMMA GiveUpStep ==
    ASSUME DeliveryInv, NEW d \in Devices, GiveUp(d)
    PROVE  DeliveryInv'
  <1>1. /\ UNCHANGED <<world, lost, on, revoked, pairing, beat>>
        /\ DOMAIN scan = Clerks /\ DOMAIN job = Workers
        /\ beat \in [Devices -> {"off", "waiting", "due", "asking", "renewing"}]
    BY DEF GiveUp, device, DeliveryInv, ScanInv, JobInv, DeviceInv
  <1>2. /\ DOMAIN scan' = Clerks /\ DOMAIN job' = Workers
        /\ \A c \in Clerks : scan'[c] \in {scan[c], NoScan, [scan[c] EXCEPT !.heard = FALSE]}
        /\ \A w \in Workers : job'[w] \in {job[w], NoJob}
    BY <1>1 DEF GiveUp
  <1> QED
    BY <1>1, <1>2, DropStep

(* Killed and started again. *)
LEMMA CrashStep ==
    ASSUME DeliveryInv, (\E w \in Workers : Die(w)) \/ GatewayDies
    PROVE  DeliveryInv'
  <1>1. /\ DOMAIN scan = Clerks /\ DOMAIN job = Workers
        /\ beat \in [Devices -> {"off", "waiting", "due", "asking", "renewing"}]
    BY DEF DeliveryInv, ScanInv, JobInv, DeviceInv
  <1>2. ASSUME NEW w \in Workers, Die(w)
        PROVE  DeliveryInv'
    <2>1. /\ DOMAIN scan' = Clerks /\ DOMAIN job' = Workers
          /\ \A c \in Clerks : scan'[c] \in {scan[c], NoScan, [scan[c] EXCEPT !.heard = FALSE]}
          /\ \A v \in Workers : job'[v] \in {job[v], NoJob}
      BY <1>1, <1>2 DEF Die
    <2>2. /\ beat' \in [Devices -> {"off", "waiting", "due", "asking", "renewing"}]
          /\ \A d \in Devices : beat'[d] = beat[d] \/ beat'[d] = "off"
      BY <1>1, <1>2 DEF Die
    <2> QED
      BY <1>2, <2>1, <2>2, DropStep DEF Die
  <1>3. CASE GatewayDies
    <2>1. /\ DOMAIN scan' = Clerks /\ DOMAIN job' = Workers
          /\ \A c \in Clerks : scan'[c] \in {scan[c], NoScan, [scan[c] EXCEPT !.heard = FALSE]}
          /\ \A v \in Workers : job'[v] \in {job[v], NoJob}
      BY <1>1, <1>3 DEF GatewayDies
    <2>2. UNCHANGED <<world, lost, on, revoked, pairing, beat>>
      BY <1>3 DEF GatewayDies, device
    <2> QED
      BY <1>1, <2>1, <2>2, DropStep
  <1> QED
    BY <1>2, <1>3

(* A tick or a request ends, or goes on with the next candidate. *)
LEMMA NextCandidate ==
    ASSUME DeliveryInv, NEW c \in Clerks, scan[c].pc # "idle",
           EndScan(c) \/ (LookFurther(c) /\ UNCHANGED job),
           UNCHANGED <<node, paused, device>>
    PROVE  DeliveryInv'
  <1>1. /\ DOMAIN scan = Clerks /\ DOMAIN job = Workers /\ ScanOK(scan[c])
        /\ DeviceInv' /\ UNCHANGED <<lost, beat>>
    BY DEF DeliveryInv, ScanInv, JobInv, DeviceInv, device, pairing
  <1>2. CASE EndScan(c)
    BY <1>1, <1>2, AtRest, ScanStep DEF EndScan
  <1>3. CASE LookFurther(c) /\ UNCHANGED job
    <2>1. PICK s : s = [scan[c] EXCEPT !.pc = "look"]
      OBVIOUS
    <2>2. s.pc = "look" /\ s.by = scan[c].by /\ IsScan(s)
      BY <1>1, <2>1 DEF ScanOK, IsScan
    <2>3. ScanOK(s)
      BY <1>1, <2>2 DEF ScanOK
    <2>4. scan' = [scan EXCEPT ![c] = s]
      BY <1>3, <2>1 DEF LookFurther
    <2>5. /\ DOMAIN scan' = Clerks
          /\ \A k \in Clerks : scan'[k] = scan[k] \/ ScanOK(scan'[k])
      BY <1>1, <2>3, <2>4
    <2> QED
      BY <1>1, <1>3, <2>5, ScanStep
  <1> QED
    BY <1>2, <1>3

(* The next candidate is looked at. *)
LEMMA LookStep ==
    ASSUME DeliveryInv, NEW c \in Clerks, Look(c)
    PROVE  DeliveryInv'
  <1>1. /\ DOMAIN scan = Clerks /\ DOMAIN job = Workers /\ ScanOK(scan[c])
        /\ DeviceInv' /\ UNCHANGED <<lost, beat, node, paused>> /\ scan[c].pc = "look"
    BY DEF DeliveryInv, ScanInv, JobInv, DeviceInv, device, pairing, world, Look
  <1>2. CASE EndScan(c)
    <2>1. UNCHANGED <<node, paused, device>>
      BY DEF Look, world
    <2> QED
      BY <1>1, <1>2, <2>1, NextCandidate
  <1>3. CASE ~EndScan(c)
    <2>1. PICK item, list, fits :
            item = Head(scan[c].list) /\ list = Tail(scan[c].list)
            /\ fits = Serves(scan[c].by, Head(scan[c].list))
      OBVIOUS
    <2>2. PICK s : s = [scan[c] EXCEPT !.pc = "dispatch", !.item = item, !.list = list,
                                       !.fits = fits]
      OBVIOUS
    <2>3. s.pc = "dispatch" /\ s.by = scan[c].by /\ IsScan(s)
      BY <1>1, <2>2 DEF ScanOK, IsScan
    <2>4. ScanOK(s)
      BY <1>1, <2>3 DEF ScanOK
    <2>5. scan' = [scan EXCEPT ![c] = s] /\ UNCHANGED job
      BY <1>3, <2>1, <2>2 DEF Look
    <2>6. /\ DOMAIN scan' = Clerks
          /\ \A k \in Clerks : scan'[k] = scan[k] \/ ScanOK(scan'[k])
      BY <1>1, <2>4, <2>5
    <2> QED
      BY <1>1, <2>5, <2>6, ScanStep
  <1> QED
    BY <1>2, <1>3

(* A claim starts the attempt the node is at. *)
LEMMA ClaimStep ==
    ASSUME DeliveryInv, NEW c \in Clerks, LET i == scan[c].item IN
             /\ scan[c].pc = "dispatch" /\ ~NotRunning(i)
             /\ node' = [node EXCEPT ![i] =
                   [@ EXCEPT !.status = "running", !.claim = node[i].claim + 1,
                             !.holder = scan[c].by, !.live = TRUE]]
             /\ scan' = [scan EXCEPT ![c] = [@ EXCEPT !.pc = "fetch",
                   !.attempt = node[i].attempt, !.claim = node[i].claim + 1]],
           UNCHANGED <<paused, job, device>>
    PROVE  DeliveryInv'
  <1>1. /\ DOMAIN scan = Clerks /\ DOMAIN job = Workers /\ ScanOK(scan[c]) /\ NodeInv
        /\ DeviceInv' /\ NoneLost' /\ paused' \subseteq Instances
        /\ UNCHANGED <<paused, job, lost, beat>> /\ DOMAIN node = Instances
    BY DEF DeliveryInv, ScanInv, JobInv, NodeInv, DeviceInv, NoneLost, device, pairing
  <1>2. PICK i : i = scan[c].item
    OBVIOUS
  <1>3. PICK k : k = node[i].claim + 1
    OBVIOUS
  <1>4. PICK w \in Workers : w = scan[c].by
    BY <1>1 DEF ScanOK
  <1>5. PICK n : n = [node[i] EXCEPT !.status = "running", !.claim = k, !.holder = w,
                                     !.live = TRUE]
    OBVIOUS
  <1>6. node' = [node EXCEPT ![i] = n]
    BY <1>2, <1>3, <1>4, <1>5
  <1>7. ASSUME i \in Instances
        PROVE  /\ NodeOK(n) /\ n.attempt >= node[i].attempt /\ n.status = "running"
               /\ n.attempt = node[i].attempt /\ node[i].attempt \in 1 .. MaxAttempt
    <2>1. /\ node[i] \in NodeRow /\ node[i].attempt \in 1 .. MaxAttempt
          /\ node[i].attempt \in Nat /\ node[i].claim \in Nat
      BY <1>1, <1>7, Attempts
    <2>2. k \in Nat
      BY <1>3, <2>1
    <2>3. /\ n \in NodeRow /\ n.status = "running" /\ n.attempt = node[i].attempt
          /\ n.holder = w /\ n.live = TRUE
      BY <1>5, <2>1, <2>2 DEF NodeRow
    <2> QED
      BY <2>1, <2>3, Constants DEF NodeOK
  <1>8. i \in Instances =>
          /\ NodeOK(n) /\ n.attempt >= node[i].attempt
          /\ n.attempt = node[i].attempt /\ node[i].status # "ready" => n.status # "ready"
    BY <1>7
  <1>9. NodeInv' /\ Moves
    BY <1>1, <1>6, <1>8, NodeStep
  <1>10. PICK a : a = node[i].attempt
    OBVIOUS
  <1>11. PICK s : s = [scan[c] EXCEPT !.pc = "fetch", !.attempt = a, !.claim = k]
    OBVIOUS
  <1>12. scan' = [scan EXCEPT ![c] = s]
    BY <1>2, <1>3, <1>10, <1>11
  <1>13. s.pc = "fetch" /\ s.by = w /\ IsScan(s) /\ s.item = i /\ s.attempt = a
    BY <1>1, <1>2, <1>4, <1>11 DEF ScanOK, IsScan
  <1>14. Claimed(i, a)'
    <2>1. i \in Instances => node'[i] = n
      BY <1>1, <1>6
    <2>2. i \in Instances => a \in 1 .. MaxAttempt /\ a = n.attempt /\ n.status = "running"
                             /\ a <= a
      BY <1>7, <1>10
    <2> QED
      BY <2>1, <2>2 DEF Claimed
  <1>15. ScanOK(s)'
    BY <1>13, <1>14 DEF ScanOK
  <1>16. /\ DOMAIN scan' = Clerks
         /\ \A x \in Clerks : scan'[x] = scan[x] \/ ScanOK(scan[x])'
    <2>1. scan'[c] = s
      BY <1>1, <1>12
    <2>2. ScanOK(scan[c])'
      BY <1>15, <2>1
    <2> QED
      BY <1>1, <1>12, <2>2
  <1> QED
    BY <1>1, <1>9, <1>16, StepKeeps

(* A candidate is claimed or passed over. *)
LEMMA DispatchStep ==
    ASSUME DeliveryInv, NEW c \in Clerks, Dispatch(c)
    PROVE  DeliveryInv'
  <1>1. scan[c].pc = "dispatch" /\ UNCHANGED <<due, paused, device>>
    BY DEF Dispatch
  <1>2. CASE UNCHANGED node /\ (EndScan(c) \/ (LookFurther(c) /\ UNCHANGED job))
    BY <1>1, <1>2, NextCandidate
  <1>3. CASE ~(UNCHANGED node /\ (EndScan(c) \/ (LookFurther(c) /\ UNCHANGED job)))
    BY <1>1, <1>3, ClaimStep DEF Dispatch
  <1> QED
    BY <1>2, <1>3

(* What was claimed is read: for the attempt, or for a later one. *)
LEMMA FetchStep ==
    ASSUME DeliveryInv, NEW c \in Clerks, Fetch(c)
    PROVE  DeliveryInv'
  <1>1. /\ DOMAIN scan = Clerks /\ DOMAIN job = Workers /\ ScanOK(scan[c]) /\ NodeInv
        /\ UNCHANGED <<node, paused, on, revoked, unpaired, codes>> /\ scan[c].pc = "fetch"
        /\ DeviceInv
    BY DEF DeliveryInv, ScanInv, JobInv, world, pairing, Fetch
  <1>2. PICK w \in Workers : w = scan[c].by
    BY <1>1 DEF ScanOK
  <1>3. scan' = [scan EXCEPT ![c] = NoScan]
    BY DEF Fetch
  <1>4. PICK inputs : inputs = Captured(scan[c].item)
    OBVIOUS
  <1>5. PICK good : good = ((node[scan[c].item].work = "central") = (w \in Central))
    OBVIOUS
  <1>6. PICK j : j = [pc |-> "work", item |-> scan[c].item, attempt |-> scan[c].attempt,
                      claim |-> scan[c].claim, inputs |-> inputs, good |-> good]
    OBVIOUS
  <1>7. ReadFor(j.item, j.attempt, j.inputs)
    <2>1. Claimed(scan[c].item, scan[c].attempt)
      BY <1>1 DEF ScanOK
    <2> QED
      BY <1>4, <1>6, <2>1 DEF ReadFor, Claimed, Captured
  <1>8. JobOK(j) /\ j.pc = "work"
    BY <1>6, <1>7 DEF JobOK, IsJob, AtWork
  <1>9. /\ job' = job \/ job' = [job EXCEPT ![w] = j] \/ job' = [job EXCEPT ![w] = NoJob]
        /\ beat' = beat \/ (w \in Devices /\ beat' = [beat EXCEPT ![w] = "waiting"])
        /\ lost' = lost \/ lost' = lost \ {w}
    BY <1>2, <1>4, <1>5, <1>6 DEF Fetch
  <1>10. DeviceInv'
    BY <1>1, <1>9 DEF DeviceInv
  <1>11. lost' \subseteq lost
    BY <1>9
  <1>12. \A d \in Devices : beat'[d] = beat[d] \/ beat'[d] \in {"off", "waiting"}
    BY <1>1, <1>9 DEF DeviceInv
  <1>13. /\ DOMAIN scan' = Clerks
         /\ \A k \in Clerks : scan'[k] = scan[k] \/ ScanOK(scan'[k])
    BY <1>1, <1>3, AtRest
  <1>14. /\ DOMAIN job' = Workers
         /\ \A v \in Workers : job'[v] = job[v] \/ (JobOK(job'[v])
                                                    /\ job'[v].pc \notin {"send", "commit"})
    BY <1>1, <1>8, <1>9, AtRest
  <1> QED
    BY <1>1, <1>10, <1>11, <1>12, <1>13, <1>14, ScanStep

-----------------------------------------------------------------------------
(* Work and its results *)

(* A job whose claim is accepted settles its own attempt. *)
LEMMA SettleStep ==
    ASSUME DeliveryInv, NEW w \in Workers, job[w].pc \in AtWork, Accepted(w),
           NEW status \in {"done", "failed"}, Settled(w, status),
           job' = [job EXCEPT ![w] = NoJob], on' \subseteq Devices,
           UNCHANGED <<scan, beat, lost, revoked, pairing>>
    PROVE  DeliveryInv'
  <1>1. /\ DOMAIN scan = Clerks /\ DOMAIN job = Workers /\ JobOK(job[w]) /\ NodeInv
        /\ DeviceInv' /\ paused' \subseteq Instances /\ DOMAIN node = Instances
    BY DEF DeliveryInv, ScanInv, JobInv, NodeInv, DeviceInv, pairing, Settled
  <1>2. PICK i, inputs, attempt :
          i = job[w].item /\ inputs = job[w].inputs /\ attempt = job[w].attempt
    OBVIOUS
  <1>3. PICK n : n = [node[i] EXCEPT !.status = status, !.holder = Nobody, !.live = FALSE,
                                     !.from = inputs]
    OBVIOUS
  <1>4. node' = [node EXCEPT ![i] = n]
    BY <1>2, <1>3 DEF Settled
  <1>5. ReadFor(i, attempt, inputs)
    BY <1>1, <1>2 DEF JobOK
  <1>6. node[i].attempt = attempt
    BY <1>2 DEF Accepted
  <1>7. ASSUME i \in Instances
        PROVE  NodeOK(n) /\ n.attempt = node[i].attempt /\ n.status = status
    <2>1. node[i] \in NodeRow /\ inputs = attempt /\ inputs \in 1 .. MaxAttempt
      BY <1>1, <1>5, <1>6, <1>7, Attempts DEF ReadFor
    <2>2. inputs \in 0 .. MaxAttempt
      BY <2>1, Constants
    <2>3. /\ n \in NodeRow /\ n.status = status /\ n.attempt = node[i].attempt
          /\ n.holder = Nobody /\ n.live = FALSE /\ n.from = inputs
      BY <1>3, <2>1, <2>2 DEF NodeRow
    <2> QED
      BY <1>6, <2>1, <2>3 DEF NodeOK
  <1>8. i \in Instances =>
          /\ NodeOK(n) /\ n.attempt >= node[i].attempt
          /\ n.attempt = node[i].attempt /\ node[i].status # "ready" => n.status # "ready"
    <2>1. i \in Instances => node[i].attempt \in Nat
      BY <1>1, Attempts
    <2> QED
      BY <1>7, <2>1
  <1>9. NodeInv' /\ Moves
    BY <1>1, <1>4, <1>8, NodeStep
  <1>10. \A v \in Workers : job'[v] = job[v] \/ (JobOK(job[v])' /\ job'[v].pc = "idle")
    BY <1>1, AtRest DEF JobOK, AtWork, NoJob
  <1>11. NoneLost'
    BY <1>10, Constants DEF NoneLost, DeliveryInv
  <1> QED
    BY <1>1, <1>9, <1>10, <1>11, StepKeeps

(* The jobs of one worker or device change, on nodes that stay. *)
LEMMA JobStep ==
    ASSUME DeliveryInv, NEW w \in Workers, NEW j, job' = [job EXCEPT ![w] = j], JobOK(j),
           j.pc \in {"send", "commit"} /\ w \in Devices =>
             w \notin lost /\ beat[w] \notin {"asking", "renewing"},
           on' \subseteq Devices, UNCHANGED <<world, scan, beat, lost, revoked, pairing>>
    PROVE  DeliveryInv'
  <1>1. /\ DOMAIN scan = Clerks /\ DOMAIN job = Workers /\ DeviceInv'
        /\ UNCHANGED <<node, paused, scan, beat, lost>> /\ paused' \subseteq Instances
    BY DEF DeliveryInv, ScanInv, JobInv, NodeInv, DeviceInv, pairing, world
  <1>2. NoneLost'
    BY <1>1, Constants DEF NoneLost, DeliveryInv
  <1>3. /\ DOMAIN scan' = Clerks /\ DOMAIN job' = Workers
        /\ \A v \in Workers : job'[v] = job[v] \/ JobOK(job'[v])
    BY <1>1
  <1> QED
    BY <1>1, <1>2, <1>3, QuietStep

(* A job goes on with what it is about. *)
LEMMA GoesOn ==
    ASSUME NEW w \in Workers, JobOK(job[w]), job[w].pc \in AtWork, NEW pc \in AtWork,
           NEW k, k = [job[w] EXCEPT !.pc = pc] \/ k = [job[w] EXCEPT !.pc = pc, !.good = FALSE]
    PROVE  JobOK(k) /\ k.pc = pc
  <1>1. PICK j : j = job[w]
    OBVIOUS
  <1>2. /\ IsJob(k) /\ k.pc = pc /\ k.item = j.item /\ k.attempt = j.attempt
        /\ k.inputs = j.inputs
    BY <1>1 DEF JobOK, IsJob
  <1> QED
    BY <1>1, <1>2 DEF JobOK

(* A central worker performs the work, and reports the result. *)
LEMMA CentralStep ==
    ASSUME DeliveryInv, NEW w \in Central, Perform(w) \/ Report(w)
    PROVE  DeliveryInv'
  <1>1. /\ w \in Workers /\ w \notin Devices /\ JobOK(job[w]) /\ DOMAIN job = Workers
        /\ on \subseteq Devices
    BY Constants DEF DeliveryInv, JobInv, DeviceInv
  <1>2. CASE Perform(w)
    <2>1. PICK pc \in {"complete", "fail"} : job' = [job EXCEPT ![w].pc = pc]
      BY <1>2 DEF Perform
    <2>2. PICK j : j = [job[w] EXCEPT !.pc = pc]
      OBVIOUS
    <2>3. job[w].pc \in AtWork /\ pc \in AtWork
      BY <1>2 DEF Perform, AtWork
    <2>4. JobOK(j)
      BY <1>1, <2>2, <2>3, GoesOn
    <2>5. /\ job' = [job EXCEPT ![w] = j]
          /\ UNCHANGED <<world, scan, beat, lost, revoked, pairing, on>>
      BY <1>2, <2>1, <2>2 DEF Perform, device
    <2> QED
      BY <1>1, <2>4, <2>5, JobStep
  <1>3. CASE Report(w)
    <2>1. /\ job' = [job EXCEPT ![w] = NoJob] /\ job[w].pc \in AtWork
          /\ UNCHANGED <<scan, beat, lost, revoked, pairing, on>>
      BY <1>3 DEF Report, AtWork, device
    <2>2. CASE UNCHANGED world
      BY <1>1, <2>1, <2>2, AtRest, JobStep
    <2>3. CASE ~UNCHANGED world
      <3>1. PICK status \in {"done", "failed"} :
              status = IF job[w].pc = "complete" THEN "done" ELSE "failed"
        OBVIOUS
      <3>2. Accepted(w) /\ Settled(w, status)
        BY <1>3, <2>3, <3>1 DEF Report
      <3> QED
        BY <1>1, <2>1, <3>2, SettleStep
    <2> QED
      BY <2>2, <2>3
  <1> QED
    BY <1>2, <1>3

(* A device executes, waits for its other thread, sends, and is answered. *)
LEMMA AgentStep ==
    ASSUME DeliveryInv, NEW d \in Devices, Execute(d) \/ Join(d) \/ Send(d) \/ Commit(d)
    PROVE  DeliveryInv'
  <1>1. /\ d \in Workers /\ JobOK(job[d]) /\ DOMAIN job = Workers
        /\ on \subseteq Devices /\ NoneLost
    BY Constants DEF DeliveryInv, JobInv, DeviceInv
  <1>2. CASE Execute(d)
    <2>1. /\ job[d].pc = "work" /\ job[d].pc \in AtWork /\ "join" \in AtWork
          /\ UNCHANGED <<world, scan, beat, lost, revoked, pairing, on>>
      BY <1>2 DEF Execute, AtWork, device
    <2>2. PICK j : /\ job' = [job EXCEPT ![d] = j]
                   /\ \/ j = [job[d] EXCEPT !.pc = "join"]
                      \/ j = [job[d] EXCEPT !.pc = "join", !.good = FALSE]
      BY <1>1, <1>2 DEF Execute
    <2>3. JobOK(j) /\ j.pc = "join"
      BY <1>1, <2>1, <2>2, GoesOn
    <2> QED
      BY <1>1, <2>1, <2>2, <2>3, JobStep
  <1>3. CASE Join(d)
    <2>1. /\ job[d].pc = "join" /\ job[d].pc \in AtWork /\ "send" \in AtWork
          /\ beat[d] \notin {"asking", "renewing"}
          /\ UNCHANGED <<world, scan, beat, lost, revoked, pairing, on>>
      BY <1>3 DEF Join, AtWork, device
    <2>2. PICK j : /\ job' = [job EXCEPT ![d] = j]
                   /\ \/ j = [job[d] EXCEPT !.pc = "send"] /\ d \notin lost
                      \/ j = NoJob
      BY <1>1, <1>3 DEF Join
    <2>3. JobOK(j) /\ (j.pc = "idle" \/ d \notin lost)
      BY <1>1, <2>1, <2>2, GoesOn, AtRest
    <2> QED
      BY <1>1, <2>1, <2>2, <2>3, JobStep
  <1>4. CASE Send(d)
    <2>1. /\ job[d].pc = "send" /\ job[d].pc \in AtWork /\ "commit" \in AtWork
          /\ d \notin lost /\ beat[d] \notin {"asking", "renewing"} /\ on' \subseteq Devices
          /\ UNCHANGED <<world, scan, beat, lost, revoked, pairing>>
      BY <1>1, <1>4 DEF Send, AtWork, NoneLost
    <2>2. PICK j : /\ job' = [job EXCEPT ![d] = j]
                   /\ j = [job[d] EXCEPT !.pc = "commit"] \/ j = NoJob
      BY <1>1, <1>4 DEF Send
    <2>3. JobOK(j)
      BY <1>1, <2>1, <2>2, GoesOn, AtRest
    <2> QED
      BY <1>1, <2>1, <2>2, <2>3, JobStep
  <1>5. CASE Commit(d)
    <2>1. /\ job' = [job EXCEPT ![d] = NoJob] /\ job[d].pc \in AtWork /\ on' \subseteq Devices
          /\ UNCHANGED <<scan, beat, lost, revoked, pairing>>
      BY <1>1, <1>5 DEF Commit, AtWork
    <2>2. CASE UNCHANGED world
      BY <1>1, <2>1, <2>2, AtRest, JobStep
    <2>3. CASE ~UNCHANGED world
      <3>1. Accepted(d) /\ Settled(d, "done")
        BY <1>5, <2>3 DEF Commit
      <3> QED
        BY <1>1, <2>1, <3>1, SettleStep
    <2> QED
      BY <2>2, <2>3
  <1> QED
    BY <1>2, <1>3, <1>4, <1>5

(* The other thread asks for the lock only while the executor is at work, *)
(* and so never while a result is on its way.                             *)
LEMMA HeartStep ==
    ASSUME DeliveryInv, NEW d \in Devices, Heart(d)
    PROVE  DeliveryInv'
  <1>1. /\ DOMAIN scan = Clerks /\ DOMAIN job = Workers /\ DeviceInv /\ NoneLost
        /\ UNCHANGED <<node, paused, scan, job, on, revoked, unpaired, codes>>
        /\ paused \subseteq Instances
    BY DEF DeliveryInv, ScanInv, JobInv, NodeInv, Heart, Beat, TakeLock, RenewAuth, Renew,
           RenewalLost, pairing, world
  <1>2. PICK b \in {"off", "waiting", "due", "asking", "renewing"} :
          /\ beat' = [beat EXCEPT ![d] = b]
          /\ b \in {"asking", "renewing"} => job[d].pc \notin {"send", "commit"}
          /\ lost' = lost \/ (lost' = lost \cup {d} /\ job[d].pc \notin {"send", "commit"})
    BY <1>1 DEF Heart, Beat, TakeLock, RenewAuth, Renew, RenewalLost, SeesStop, NoneLost
  <1>3. DeviceInv' /\ NoneLost'
    BY <1>1, <1>2 DEF DeviceInv, NoneLost
  <1> QED
    BY <1>1, <1>3, QuietStep

(* A lease ends; the node stays what it is. *)
LEMMA LeaseStep ==
    ASSUME DeliveryInv, NEW i \in Instances, LeaseEnds(i)
    PROVE  DeliveryInv'
  <1>1. /\ DeviceInv' /\ NoneLost' /\ NodeInv /\ UNCHANGED <<paused, scan, job>>
        /\ DOMAIN scan' = Clerks /\ DOMAIN job' = Workers /\ paused' \subseteq Instances
    BY
    DEF DeliveryInv, DeviceInv, NoneLost, ScanInv, JobInv, NodeInv, device, pairing,
        LeaseEnds
  <1>2. node[i] \in NodeRow /\ NodeOK(node[i]) /\ node[i].attempt \in Nat
    BY <1>1, Attempts
  <1>3. PICK n : n = [node[i] EXCEPT !.live = FALSE]
    OBVIOUS
  <1>4. /\ n \in NodeRow /\ n.status = node[i].status /\ n.attempt = node[i].attempt
        /\ n.holder = node[i].holder /\ n.live = FALSE /\ n.from = node[i].from
    BY <1>2, <1>3 DEF NodeRow
  <1>5. node' = [node EXCEPT ![i] = n]
    BY <1>3 DEF LeaseEnds
  <1>6. /\ NodeOK(n) /\ n.attempt >= node[i].attempt
        /\ n.attempt = node[i].attempt /\ node[i].status # "ready" => n.status # "ready"
    BY <1>2, <1>4 DEF NodeOK
  <1>7. NodeInv' /\ Moves
    BY <1>1, <1>5, <1>6, NodeStep
  <1> QED
    BY <1>1, <1>7, StepKeeps

-----------------------------------------------------------------------------
(* The theorems *)

(* Every step keeps it. *)
LEMMA NextDelivery == DeliveryInv /\ [Next]_vars => DeliveryInv'
  <1> SUFFICES ASSUME DeliveryInv, [Next]_vars PROVE DeliveryInv'
    OBVIOUS
  <1>1. ASSUME NEW w \in Central, Server(w)
        PROVE  DeliveryInv'
    BY <1>1, AskStep, LookStep, DispatchStep, FetchStep, CentralStep, Constants
       DEF Server, Clerk
  <1>2. ASSUME NEW t \in Threads, Clerk(t)
        PROVE  DeliveryInv'
    BY <1>2, LookStep, DispatchStep, FetchStep, Constants DEF Clerk
  <1>3. ASSUME NEW d \in Devices, Agent(d) \/ Heart(d) \/ GiveUp(d) \/ PairDevice(d)
        PROVE  DeliveryInv'
    BY <1>3, AskStep, AgentStep, HeartStep, GiveUpStep, PairingStep DEF Agent
  <1>4. ASSUME NEW i \in Instances, Late(i) \/ Forgotten(i)
        PROVE  DeliveryInv'
    BY <1>4, LeaseStep DEF Late, Forgotten
  <1>5. CASE UNCHANGED vars
    <2>1. UNCHANGED <<world, scan, job, beat, lost, on, revoked, unpaired, codes>>
      BY <1>5 DEF vars, device, pairing
    <2> QED
      BY <2>1, DeviceStep DEF DeliveryInv, DeviceInv
  <1> QED
    BY <1>1, <1>2, <1>3, <1>4, <1>5, OwnersStep, PairingStep, CrashStep DEF Next

(* The inductive invariant of the delivery of work. *)
THEOREM DeliveryIsInOrder == Spec => []DeliveryInv
  BY InitDelivery, NextDelivery, PTL DEF Spec

(* A node that is settled was settled from the inputs of its own attempt,  *)
(* for any number of restarts, crashes, late leases and lost answers       *)
(* (_execution_request, check_automated_completion); and every variable    *)
(* has its type.                                                           *)
THEOREM ResultsAreOwn == Spec => []OwnResults
  <1>1. DeliveryInv => OwnResults
    <2> SUFFICES ASSUME DeliveryInv PROVE OwnResults
      OBVIOUS
    <2>1. /\ DOMAIN node = Instances /\ paused \subseteq Instances
          /\ \A c \in Clerks : scan[c].pc \in {"idle", "look", "dispatch", "fetch"}
          /\ \A w \in Workers : job[w].pc \in {"idle", "asking", "work", "complete", "fail",
                                               "join", "send", "commit"}
          /\ lost \cup on \cup revoked \cup unpaired \subseteq Devices /\ codes \subseteq People
      BY DEF DeliveryInv, NodeInv, ScanInv, ScanOK, JobInv, JobOK, AtWork, DeviceInv
    <2>2. ASSUME NEW i \in Instances
          PROVE  /\ node[i].status \in {"ready", "running", "done", "failed"}
                 /\ node[i].attempt \in 1..MaxAttempt /\ node[i].claim \in Nat
                 /\ (node[i].holder # Nobody) = (node[i].status = "running")
                 /\ node[i].live => node[i].status = "running"
                 /\ node[i].status \in {"done", "failed"} => node[i].from = node[i].attempt
      BY Attempts DEF DeliveryInv, NodeOK, NodeRow
    <2> QED
      BY <2>1, <2>2 DEF OwnResults, TypeOK
  <1> QED
    BY <1>1, DeliveryIsInOrder, PTL

(* While a device sends a result none of its renewals has failed or is     *)
(* under way (EdgeWorker.run_once): the renewing thread takes the lock only *)
(* before the executing one has ended.                                     *)
THEOREM NothingLostIsSent == Spec => []NoneLost
  BY DeliveryIsInOrder, PTL DEF DeliveryInv

=============================================================================
