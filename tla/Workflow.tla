------------------------------ MODULE Workflow ------------------------------
(***************************************************************************)
(* One workflow instance: the aggregate of workflow/model.py and every     *)
(* command of workflow/service.py that changes it, each one atomic.  That  *)
(* a command which loads the aggregate, works on its copy and saves under  *)
(* an expected version behaves like an atomic step is what Store.tla is    *)
(* about.                                                                  *)
(*                                                                         *)
(* The actors are the instance owner, the node owners, and Workers: each   *)
(* worker claims at most one automated node per tick and works on it       *)
(* outside of any transaction (held), so that its answer may come late.    *)
(* The wall clock appears only as the bit "live" of a claim and the action *)
(* ClaimExpires.                                                           *)
(*                                                                         *)
(* Bounds: MaxAttempt caps the attempts of a node, Budget the number of    *)
(* disturbances (pause, transfer, renewal, lost worker, expiry of a claim  *)
(* somebody still works under, previews).  Progress itself is not bounded, *)
(* so liveness is not cut off by a bound.                                  *)
(***************************************************************************)
EXTENDS DagGraph, Integers, FiniteSets

CONSTANTS Workers,      \* worker ids
          NoWorker,     \* "claimed_by is None"
          Accepts,      \* the executors each worker serves
          Drafts,       \* snapshots a draft may be created with
          Edits,        \* snapshots an edit may try to arrive at
          MaxAttempt,   \* bound on attempt numbers
          Budget        \* bound on disturbances

ASSUME WorkflowAssumption ==
    /\ NoWorker \notin Workers
    /\ Accepts \in [Workers -> SUBSET (Executors \ {"human"})]
    /\ Drafts \subseteq Snapshot /\ Edits \subseteq Snapshot
    /\ \A g \in Drafts : Valid(g)
    /\ MaxAttempt \in Nat \ {0}
    /\ Budget \in Nat

VARIABLES
    status, version,            \* workflow_instances
    snapshot, revision,         \* the frozen graph and graph_revision
    nodeStatus,                 \* "absent": no row for the key
    nodeVersion, owner, current,\* version, owner_person_id, current_attempt_no
    attempts,                   \* attempts[k][n]
    previews,                   \* unconsumed restart and graph edit previews
    held,                       \* worker memory: the activation it works on
    budget                      \* disturbances still allowed

instanceVars == <<status, version>>
graphVars == <<snapshot, revision>>
rowVars == <<nodeStatus, nodeVersion, owner, current, attempts>>
aggregate == <<instanceVars, graphVars, rowVars>>
vars == <<status, version, snapshot, revision, nodeStatus, nodeVersion, owner,
          current, attempts, previews, held, budget>>

-----------------------------------------------------------------------------
(* Status tables. *)
InstanceStatus == {"draft", "running", "paused", "done", "failed", "canceled",
                   "discarded"}
NodeStatus == {"absent", "pending", "ready", "running", "waiting", "done",
               "failed", "canceled"}
AttemptStatus == {"none", "pending", "running", "waiting", "done", "failed",
                  "canceled"}

(* A slip: a canceled process can be resumed. *)
ResumableTransitions ==
    [s \in InstanceStatus |->
        CASE s = "draft"    -> {"running", "discarded"}
          [] s \in {"running", "paused"} ->
                {"running", "paused", "done", "failed", "canceled"} \ {s}
          [] s = "canceled" -> {"running"}
          [] OTHER          -> {}]

InstanceTransitions ==
    [s \in InstanceStatus |->
        CASE s = "draft"   -> {"running", "discarded"}
          [] s = "running" -> {"paused", "done", "failed", "canceled"}
          [] s = "paused"  -> {"running", "done", "failed", "canceled"}
          [] OTHER         -> {}]

Active == {"running", "paused"}
Restartable == {"running", "done", "failed"}
RestartableTarget == {"running", "waiting", "done", "failed"}
Unfinished == {"pending", "ready", "running", "waiting"}
Terminal == {"done", "failed", "canceled"}

(* Slot 0 stands for "no attempt", so that Cur(k) is defined for all keys. *)
AttemptNo == 0 .. MaxAttempt
NoInputs == [d \in Keys |-> 0]

Attempt == [status: AttemptStatus, claimedBy: Workers \cup {NoWorker},
            token: Nat, live: BOOLEAN, inputs: [Keys -> AttemptNo],
            rework: BOOLEAN, rejected: BOOLEAN]

NewAttempt(s, in, rework) ==
    [status |-> s, claimedBy |-> NoWorker, token |-> 0, live |-> FALSE,
     inputs |-> in, rework |-> rework, rejected |-> FALSE]

NoAttempt == NewAttempt("none", NoInputs, FALSE)

Claim == [key: Keys, attempt: AttemptNo, version: Nat, token: Nat]
NoClaim == [key |-> NoKey, attempt |-> 0, version |-> 0, token |-> 0]

(* target = NoKey: the whole instance.  graph is the snapshot the preview  *)
(* leads to and seen, a history variable, what its reader was shown.       *)
Preview == [kind: {"restart", "edit"}, target: Keys \cup {NoKey},
            affected: SUBSET Keys, graph: Snapshot, version: Nat,
            revision: Nat, seen: [Keys -> NodeStatus]]

-----------------------------------------------------------------------------
(* Reading the aggregate. *)
Rows == {k \in Keys : nodeStatus[k] # "absent"}
Cur(k) == attempts[k][current[k]]

(* Every key of the snapshot has its row.  A command that looks a missing  *)
(* row up raises KeyError and saves nothing.                               *)
Materialised == snapshot.nodes \subseteq Rows

IsHuman(k) == snapshot.executor[k] = "human"

(* _capture_input_snapshot: which attempt of each dependency was read. *)
InputsOf(k) ==
    [d \in Keys |-> IF d \in snapshot.deps[k] THEN current[d] ELSE 0]

(* save: the optimistic write, seen as one step. *)
Commit == version' = version + 1
Spend == budget > 0 /\ budget' = budget - 1

(* The current attempt of k becomes a. *)
SetCurrent(k, a) == attempts' = [attempts EXCEPT ![k][current[k]] = a]

(* An attempt that ends in status s: its claim is cleared. *)
Ended(a, s) ==
    [a EXCEPT !.status = s, !.claimedBy = NoWorker, !.token = 0, !.live = FALSE]

-----------------------------------------------------------------------------
(* The draft. *)
Init ==
    /\ status = "draft" /\ version = 0
    /\ snapshot \in Drafts /\ revision = 1
    /\ nodeStatus = [k \in Keys |-> "absent"]
    /\ nodeVersion = [k \in Keys |-> 0]
    /\ owner = snapshot.owner
    /\ current = [k \in Keys |-> 0]
    /\ attempts = [k \in Keys |-> [n \in AttemptNo |-> NoAttempt]]
    /\ previews = {}
    /\ held = [w \in Workers |-> NoClaim]
    /\ budget = Budget

(* confirm_draft and Scheduler.confirm: one row and one attempt per node,  *)
(* the roots ready.                                                        *)
ConfirmDraft ==
    /\ status = "draft"
    /\ Valid(snapshot)
    /\ status' = "running" /\ Commit
    /\ nodeStatus' = [k \in Keys |->
            CASE k \notin snapshot.nodes -> nodeStatus[k]
              [] k \in Roots(snapshot)   -> "ready"
              [] OTHER                   -> "pending"]
    /\ nodeVersion' = [k \in Keys |->
            IF k \in snapshot.nodes THEN 0 ELSE nodeVersion[k]]
    /\ owner' = [k \in Keys |->
            IF k \in snapshot.nodes THEN snapshot.owner[k] ELSE owner[k]]
    /\ current' = [k \in Keys |->
            IF k \in snapshot.nodes THEN 1 ELSE current[k]]
    /\ attempts' = [k \in Keys |->
            IF k \in snapshot.nodes
            THEN [attempts[k] EXCEPT ![1] = NewAttempt("pending", NoInputs, FALSE)]
            ELSE attempts[k]]
    /\ UNCHANGED <<graphVars, previews, held, budget>>

(* A command that only moves the instance from one status to another. *)
MoveTo(s) ==
    /\ s \in InstanceTransitions[status]
    /\ status' = s /\ Commit
    /\ UNCHANGED <<graphVars, rowVars, previews, held>>

DiscardDraft == MoveTo("discarded") /\ UNCHANGED budget

(* Its audit payload looks every row up. *)
Pause == Materialised /\ MoveTo("paused") /\ Spend

(* The code asks only for the transition, which a draft has as well. *)
Resume == MoveTo("running") /\ UNCHANGED budget

(* confirm_cancellation on the version the owner was shown. *)
Cancel ==
    /\ "canceled" \in InstanceTransitions[status]
    /\ Materialised
    /\ LET hit == {k \in Rows : nodeStatus[k] \in Unfinished} IN
       /\ nodeStatus' = [k \in Keys |->
              IF k \in hit THEN "canceled" ELSE nodeStatus[k]]
       /\ nodeVersion' = [k \in Keys |->
              IF k \in hit THEN nodeVersion[k] + 1 ELSE nodeVersion[k]]
       /\ attempts' = [k \in Keys |->
              IF k \in hit
              THEN [attempts[k] EXCEPT ![current[k]] = Ended(@, "canceled")]
              ELSE attempts[k]]
    /\ status' = "canceled" /\ Commit
    /\ UNCHANGED <<graphVars, owner, current, previews, held, budget>>

-----------------------------------------------------------------------------
(* Dispatch. *)

(* A slip: _require_active where only a running instance may dispatch. *)
DispatchableWhenPaused == status \in Active /\ Materialised

Dispatchable == status = "running" /\ Materialised

ReadyHumans == {k \in Rows : nodeStatus[k] = "ready" /\ IsHuman(k)}

Served(w) == {k \in Rows : snapshot.executor[k] \in Accepts[w]}

(* A slip: the comparison with the clock the wrong way round. *)
ReclaimableEarly(w) ==
    {k \in Served(w) : nodeStatus[k] = "running" /\ Cur(k).live}

(* is_reclaimable: a running automated attempt whose claim has expired. *)
Reclaimable(w) ==
    {k \in Served(w) : /\ nodeStatus[k] = "running"
                       /\ Cur(k).status = "running"
                       /\ Cur(k).token # 0 /\ ~Cur(k).live}

(* Expired claims first; one automated node per tick, in an order of the   *)
(* snapshot that is left open here.                                        *)
Claimable(w) ==
    IF Reclaimable(w) # {} THEN Reclaimable(w)
    ELSE {k \in Served(w) : nodeStatus[k] = "ready"}

(* activate and reclaim_expired of node c by worker w.  A claim that is    *)
(* taken over keeps its attempt and what that attempt captured.            *)
Claimed(w, c) ==
    [Cur(c) EXCEPT !.status = "running", !.claimedBy = w,
        !.token = version + 1, !.live = TRUE,
        !.inputs = IF nodeStatus[c] = "ready" THEN InputsOf(c) ELSE @]

(* dispatch_due: all ready human nodes and the automated node c; c = NoKey *)
(* when nothing is claimable or the tick has used up its claim elsewhere.  *)
Dispatch(w, c) ==
    /\ Dispatchable
    /\ held[w] = NoClaim
    /\ c \in Claimable(w) \cup {NoKey}
    /\ ReadyHumans # {} \/ c # NoKey
    /\ nodeStatus' = [k \in Keys |->
            CASE k \in ReadyHumans -> "waiting"
              [] k = c             -> "running"
              [] OTHER             -> nodeStatus[k]]
    /\ nodeVersion' = [k \in Keys |->
            IF k \in ReadyHumans \cup {c} THEN nodeVersion[k] + 1
                                          ELSE nodeVersion[k]]
    /\ attempts' = [k \in Keys |->
            CASE k \in ReadyHumans ->
                    [attempts[k] EXCEPT ![current[k]].status = "waiting",
                                        ![current[k]].inputs = InputsOf(k)]
              [] k = c -> [attempts[k] EXCEPT ![current[k]] = Claimed(w, c)]
              [] OTHER -> attempts[k]]
    /\ held' = IF c = NoKey THEN held
               ELSE [held EXCEPT ![w] =
                        [key |-> c, attempt |-> current[c],
                         version |-> nodeVersion[c] + 1, token |-> version + 1]]
    /\ Commit
    /\ UNCHANGED <<status, graphVars, owner, current, previews, budget>>

-----------------------------------------------------------------------------
(* Completion.  unlock_after: node k is done, its successors that wait for *)
(* nothing else become ready, and the instance is done with its last row.  *)
AfterDone(k) == [nodeStatus EXCEPT ![k] = "done"]

(* A slip: one finished dependency is enough. *)
UnlockedByAny(k) ==
    {x \in Successors(snapshot, k) : nodeStatus[x] = "pending"}

Unlocked(k) == Successors(snapshot, k) \cap ReadyKeys(snapshot, AfterDone(k))

(* The instance is done when it has rows and all of them are done. *)
CompletedBy(ns) ==
    LET rows == {k \in Keys : ns[k] # "absent"} IN
    IF rows # {} /\ \A k \in rows : ns[k] = "done" THEN "done" ELSE status

FinishNode(k) ==
    /\ nodeStatus' = [x \in Keys |->
            IF x \in Unlocked(k) THEN "ready" ELSE AfterDone(k)[x]]
    /\ nodeVersion' = [x \in Keys |->
            IF x \in Unlocked(k) \cup {k} THEN nodeVersion[x] + 1
                                          ELSE nodeVersion[x]]
    /\ status' = CompletedBy(nodeStatus')
    /\ SetCurrent(k, Ended(Cur(k), "done"))
    /\ Commit
    /\ UNCHANGED <<graphVars, owner, current, previews>>

(* fail_instance: the other nodes keep what they are doing. *)
FailNode(k, a) ==
    /\ nodeStatus' = [nodeStatus EXCEPT ![k] = "failed"]
    /\ nodeVersion' = [nodeVersion EXCEPT ![k] = @ + 1]
    /\ status' = "failed"
    /\ SetCurrent(k, a)
    /\ Commit
    /\ UNCHANGED <<graphVars, owner, current, previews>>

(* submit_human, or the accept of a decision: the owner of the node        *)
(* answers for its current attempt and version.                            *)
Submit(k) ==
    /\ status \in Active
    /\ nodeStatus[k] = "waiting"
    /\ FinishNode(k)
    /\ UNCHANGED <<held, budget>>

(* submit_human_decision with a rejection. *)
Reject(k) ==
    /\ status \in Active
    /\ nodeStatus[k] = "waiting" /\ IsDecision(snapshot, k) /\ IsHuman(k)
    /\ FailNode(k, [Ended(Cur(k), "failed") EXCEPT !.rejected = TRUE])
    /\ UNCHANGED <<held, budget>>

(* transfer_human_task to another active person. *)
Transfer(k, p) ==
    /\ status \in Active
    /\ nodeStatus[k] = "waiting" /\ Cur(k).status = "waiting"
    /\ IsHuman(k) /\ ~IsDecision(snapshot, k)
    /\ p # owner[k]
    /\ owner' = [owner EXCEPT ![k] = p]
    /\ nodeVersion' = [nodeVersion EXCEPT ![k] = @ + 1]
    /\ Commit /\ Spend
    /\ UNCHANGED <<status, graphVars, nodeStatus, current, attempts, previews,
                   held>>

(* A slip: the attempt alone is compared, which a takeover keeps. *)
ClaimAcceptedByAttempt(w) ==
    LET h == held[w] k == h.key IN
    /\ h # NoClaim
    /\ k \in Rows /\ ~IsHuman(k)
    /\ h.attempt = current[k]
    /\ Cur(k).live /\ nodeStatus[k] = "running"

(* check_automated_completion for what worker w holds. *)
ClaimAccepted(w) ==
    LET h == held[w] k == h.key IN
    /\ h # NoClaim
    /\ k \in Rows /\ ~IsHuman(k)
    /\ h.attempt = current[k] /\ h.version = nodeVersion[k]
    /\ Cur(k).token = h.token /\ Cur(k).claimedBy = w
    /\ Cur(k).live
    /\ nodeStatus[k] = "running"

LetGo(w) == held' = [held EXCEPT ![w] = NoClaim]

Complete(w) ==
    /\ status \in Active /\ ClaimAccepted(w)
    /\ FinishNode(held[w].key)
    /\ LetGo(w) /\ UNCHANGED budget

Fail(w) ==
    /\ status \in Active /\ ClaimAccepted(w)
    /\ FailNode(held[w].key, Ended(Cur(held[w].key), "failed"))
    /\ LetGo(w) /\ UNCHANGED budget

(* _complete and _fail swallow the refusal; the result is gone. *)
DropResult(w) ==
    /\ held[w] # NoClaim
    /\ ~(status \in Active /\ ClaimAccepted(w))
    /\ LetGo(w)
    /\ UNCHANGED <<instanceVars, graphVars, rowVars, previews, budget>>

(* The worker process dies, or its save loses the race against another     *)
(* command and ConcurrentUpdateError drops a result that was still good.   *)
Abandon(w) ==
    /\ held[w] # NoClaim
    /\ LetGo(w) /\ Spend
    /\ UNCHANGED <<instanceVars, graphVars, rowVars, previews>>

(* renew_automated_claim: a later expiry and a new aggregate version. *)
Renew(w) ==
    /\ status \in Active /\ ClaimAccepted(w)
    /\ Cur(held[w].key).status = "running"
    /\ Commit /\ Spend
    /\ UNCHANGED <<status, graphVars, rowVars, previews, held>>

(* The clock passes claim_expires_at.  It costs budget only under a worker *)
(* that is still busy with the claim.                                      *)
ClaimExpires(k) ==
    /\ k \in Rows /\ nodeStatus[k] = "running" /\ Cur(k).live
    /\ IF \E w \in Workers : held[w].token = Cur(k).token
       THEN Spend ELSE UNCHANGED budget
    /\ SetCurrent(k, [Cur(k) EXCEPT !.live = FALSE])
    /\ UNCHANGED <<instanceVars, graphVars, nodeStatus, nodeVersion, owner,
                   current, previews, held>>

-----------------------------------------------------------------------------
(* Restart and recovery. *)

(* A slip: the direct successors instead of everything downstream. *)
RestartNeighbours(t) ==
    IF t = NoKey THEN snapshot.nodes ELSE {t} \cup Successors(snapshot, t)

(* affected_restart_node_keys and its instance-wide counterpart. *)
RestartImpact(t) ==
    IF t = NoKey THEN snapshot.nodes ELSE Affected(snapshot, t)

(* A slip: failed nodes elsewhere do not block a restart. *)
RestartAllowedAnywhere(t) ==
    /\ status \in Restartable
    /\ t # NoKey =>
        /\ t \in Rows /\ nodeStatus[t] \in RestartableTarget
        /\ \A d \in snapshot.deps[t] : nodeStatus[d] = "done"

RestartAllowed(t) ==
    /\ status \in Restartable
    /\ t # NoKey =>
        /\ t \in Rows /\ nodeStatus[t] \in RestartableTarget
        /\ \A d \in snapshot.deps[t] : nodeStatus[d] = "done"
        /\ \A k \in Rows \ Affected(snapshot, t) : nodeStatus[k] # "failed"

(* _rework_feedback_for_target: a current rejection names the target. *)
ReworkFor(t) ==
    \E k \in snapshot.nodes : snapshot.rejectTarget[k] = t /\ Cur(k).rejected

(* _apply_restart: a fresh attempt for everything in the impact, the old   *)
(* ones canceled where unfinished and kept.                                *)
ApplyRestart(t) ==
    LET impact == RestartImpact(t)
        starts == IF t = NoKey THEN Roots(snapshot) ELSE {t}
        close(a) == Ended(a, IF a.status \in Terminal THEN a.status
                                                      ELSE "canceled")
    IN /\ impact \subseteq Rows
       /\ \A k \in impact : current[k] < MaxAttempt
       /\ nodeStatus' = [k \in Keys |->
              CASE k \in starts            -> "ready"
                [] k \in impact \ starts   -> "pending"
                [] OTHER                   -> nodeStatus[k]]
       /\ nodeVersion' = [k \in Keys |->
              IF k \in impact THEN nodeVersion[k] + 1 ELSE nodeVersion[k]]
       /\ current' = [k \in Keys |->
              IF k \in impact THEN current[k] + 1 ELSE current[k]]
       /\ attempts' = [k \in Keys |->
              IF k \in impact
              THEN [attempts[k] EXCEPT
                      ![current[k]] = close(@),
                      ![current[k] + 1] =
                          NewAttempt("pending", NoInputs,
                                     k = t /\ ReworkFor(t))]
              ELSE attempts[k]]
       /\ status' = "running" /\ Commit
       /\ UNCHANGED <<graphVars, owner, held>>

PreviewRestart(t) ==
    /\ t # NoKey => t \in snapshot.nodes
    /\ RestartAllowed(t) /\ Spend
    /\ previews' = previews \cup
         {[kind |-> "restart", target |-> t, affected |-> RestartImpact(t),
           graph |-> snapshot, version |-> version, revision |-> revision,
           seen |-> nodeStatus]}
    /\ UNCHANGED <<instanceVars, graphVars, rowVars, held>>

(* A slip: only the graph is compared. *)
FreshRevision(p) == p.revision = revision

(* The preview was made of the aggregate as it is now. *)
Fresh(p) == p.version = version /\ p.revision = revision

(* _confirm_restart consumes the preview with the command it confirms; a   *)
(* repeated confirmation finds it consumed and changes nothing.            *)
ConfirmRestart(p) ==
    /\ p.kind = "restart" /\ Fresh(p)
    /\ RestartAllowed(p.target)
    /\ RestartImpact(p.target) = p.affected
    /\ ApplyRestart(p.target)
    /\ previews' = previews \ {p}
    /\ UNCHANGED budget

(* _validate_recovery_target: an automated node whose attempt failed.      *)
(* Only a person can leave a submitted_by mark, and no attempt such a      *)
(* person answers on an automated node can fail.                           *)
Recoverable(k) ==
    /\ status = "failed"
    /\ k \in Rows /\ ~IsHuman(k)
    /\ nodeStatus[k] = "failed" /\ Cur(k).status = "failed"
    /\ RestartAllowed(k)

(* recover_failed_node, retry: a node restart without a preview. *)
Retry(k) ==
    /\ Recoverable(k)
    /\ ApplyRestart(k)
    /\ UNCHANGED <<previews, budget>>

(* recover_failed_node, takeover: the owner answers in the agent's place. *)
Takeover(k) ==
    /\ Recoverable(k) /\ current[k] < MaxAttempt
    /\ nodeStatus' = [nodeStatus EXCEPT ![k] = "waiting"]
    /\ nodeVersion' = [nodeVersion EXCEPT ![k] = @ + 1]
    /\ current' = [current EXCEPT ![k] = @ + 1]
    /\ attempts' = [attempts EXCEPT ![k][current[k] + 1] =
                        NewAttempt("waiting", InputsOf(k), FALSE)]
    /\ status' = "running" /\ Commit
    /\ UNCHANGED <<graphVars, owner, previews, held, budget>>

-----------------------------------------------------------------------------
(* Editing the future region. *)
Added(g) == g.nodes \ snapshot.nodes
Removed(g) == snapshot.nodes \ g.nodes
Updated(g) == {k \in g.nodes \cap snapshot.nodes : ~SameSpec(g, snapshot, k)}
Touched(g) == Added(g) \cup Removed(g) \cup Updated(g)

(* A slip: the frontier is not checked. *)
PristineIfPresent(k) == k \in Rows

(* _require_pristine_future_node. *)
Pristine(k) ==
    /\ k \in Rows /\ nodeStatus[k] \in {"pending", "ready"}
    /\ Cur(k).status = "pending" /\ Cur(k).token = 0
    /\ Cur(k).claimedBy = NoWorker /\ ~Cur(k).rejected

(* apply_future_graph_edit up to the point where it starts to write. *)
EditAllowed(g) ==
    /\ status \in {"draft", "running"}
    /\ status = "draft" => Rows = {}
    /\ Touched(g) # {}
    /\ status = "running" => \A k \in Removed(g) \cup Updated(g) : Pristine(k)
    /\ Valid(g)

(* _future_status *)
FutureStatus(g, k) ==
    IF \A d \in g.deps[k] : nodeStatus[d] = "done" THEN "ready" ELSE "pending"

(* A draft has no rows; only its snapshot changes. *)
EditDraft(g) == status = "draft" /\ UNCHANGED <<status, rowVars>>

(* Every attempt of a removed node is deleted. *)
WithoutAttempts(k) == [n \in AttemptNo |-> NoAttempt]

(* A running instance: rows and attempts of removed nodes are deleted,     *)
(* updated ones reset, added ones created; without unfinished rows left    *)
(* the instance is done.                                                   *)
EditFuture(g) ==
    /\ status = "running"
    /\ nodeStatus' = [k \in Keys |->
            CASE k \in Removed(g)                 -> "absent"
              [] k \in Updated(g) \cup Added(g)   -> FutureStatus(g, k)
              [] OTHER                            -> nodeStatus[k]]
    /\ nodeVersion' = [k \in Keys |->
            CASE k \in Removed(g) \cup Added(g)   -> 0
              [] k \in Updated(g)                 -> nodeVersion[k] + 1
              [] OTHER                            -> nodeVersion[k]]
    /\ owner' = [k \in Keys |->
            IF k \in Updated(g) \cup Added(g) THEN g.owner[k] ELSE owner[k]]
    /\ current' = [k \in Keys |->
            CASE k \in Removed(g) -> 0
              [] k \in Added(g)   -> 1
              [] OTHER            -> current[k]]
    /\ attempts' = [k \in Keys |->
            CASE k \in Removed(g) -> WithoutAttempts(k)
              [] k \in Updated(g) ->
                    [attempts[k] EXCEPT ![current[k]].status = "pending",
                                        ![current[k]].rework = FALSE]
              [] k \in Added(g) ->
                    [attempts[k] EXCEPT
                        ![1] = NewAttempt("pending", NoInputs, FALSE)]
              [] OTHER -> attempts[k]]
    /\ status' = CompletedBy(nodeStatus')

PreviewEdit(g) ==
    /\ EditAllowed(g) /\ Spend
    /\ previews' = previews \cup
         {[kind |-> "edit", target |-> NoKey, affected |-> Touched(g),
           graph |-> g, version |-> version, revision |-> revision,
           seen |-> nodeStatus]}
    /\ UNCHANGED <<instanceVars, graphVars, rowVars, held>>

(* confirm_graph_edit plans the edit again and applies it only if the plan *)
(* is the one that was previewed.                                          *)
ConfirmEdit(p) ==
    /\ p.kind = "edit" /\ Fresh(p)
    /\ EditAllowed(p.graph) /\ Touched(p.graph) = p.affected
    /\ EditDraft(p.graph) \/ EditFuture(p.graph)
    /\ snapshot' = p.graph /\ revision' = revision + 1
    /\ Commit
    /\ previews' = previews \ {p}
    /\ UNCHANGED <<held, budget>>

-----------------------------------------------------------------------------
Owner ==
    \/ ConfirmDraft \/ DiscardDraft \/ Pause \/ Resume \/ Cancel
    \/ \E t \in Keys \cup {NoKey} : PreviewRestart(t)
    \/ \E g \in Edits : PreviewEdit(g)
    \/ \E p \in previews : ConfirmRestart(p) \/ ConfirmEdit(p)

Answer(k) == Submit(k) \/ Reject(k)

NodeOwner ==
    \E k \in Keys :
        \/ Answer(k) \/ Retry(k) \/ Takeover(k)
        \/ \E p \in People : Transfer(k, p)

Finish(w) == Complete(w) \/ Fail(w) \/ DropResult(w)

Worker(w) ==
    \/ \E c \in Keys \cup {NoKey} : Dispatch(w, c)
    \/ Finish(w) \/ Renew(w) \/ Abandon(w)

Next ==
    \/ Owner \/ NodeOwner
    \/ \E w \in Workers : Worker(w)
    \/ \E k \in Keys : ClaimExpires(k)

Spec == Init /\ [][Next]_vars

(* The worker daemon polls runnable instances and finishes what it starts, *)
(* time passes, and node owners answer sooner or later.  Nobody owes the   *)
(* instance a pause, a resume, a recovery, a restart or an edit.           *)
Fairness ==
    /\ \A w \in Workers :
        /\ WF_vars(\E c \in Keys \cup {NoKey} : Dispatch(w, c))
        /\ WF_vars(Finish(w))
    /\ \A k \in Keys : WF_vars(ClaimExpires(k)) /\ WF_vars(Answer(k))

FairSpec == Spec /\ Fairness

-----------------------------------------------------------------------------
(* Types of all variables. *)
TypeOK ==
    /\ status \in InstanceStatus /\ version \in Nat
    /\ snapshot \in Snapshot /\ revision \in Nat
    /\ nodeStatus \in [Keys -> NodeStatus]
    /\ nodeVersion \in [Keys -> Nat]
    /\ owner \in [Keys -> People]
    /\ current \in [Keys -> AttemptNo]
    /\ attempts \in [Keys -> [AttemptNo -> Attempt]]
    /\ previews \subseteq Preview
    /\ held \in [Workers -> Claim \cup {NoClaim}]
    /\ budget \in 0 .. Budget

(* A node that may work, works or has worked stands on finished            *)
(* dependencies, whatever restarts, recoveries and edits came before       *)
(* (ready_node_keys, _apply_restart, _future_status).                      *)
Started == {"ready", "running", "waiting", "done", "failed"}
DepsDone ==
    \A k \in Rows : nodeStatus[k] \in Started =>
        \A d \in snapshot.deps[k] : nodeStatus[d] = "done"

(* No unlock is lost: a pending node still has an unfinished dependency,   *)
(* so somebody will unlock it.  Only unlock_after ever looks at a pending  *)
(* node again; a node left pending with all its dependencies done would    *)
(* hang the instance for good.                                             *)
NoLostUnlock ==
    \A k \in Rows : nodeStatus[k] = "pending" =>
        \E d \in snapshot.deps[k] : nodeStatus[d] # "done"

(* The scheduling frontier is exact: ready means runnable, and pending     *)
(* means blocked (Scheduler.unlock_after, _apply_restart, _future_status). *)
FrontierExact == DepsDone /\ NoLostUnlock

(* The attempt table follows the node table: the current attempt says what *)
(* its node says, every earlier one is finished, none is numbered ahead,   *)
(* and a claim sits on running automated attempts only.                    *)
MatchingAttempt(s) == IF s = "ready" THEN "pending" ELSE s
AttemptsMatchNodes ==
    /\ Rows \subseteq snapshot.nodes
    /\ \A k \in Keys : k \in Rows <=> current[k] > 0
    /\ \A k \in Rows : Cur(k).status = MatchingAttempt(nodeStatus[k])
    /\ \A k \in Keys, n \in AttemptNo :
          LET att == attempts[k][n] IN
          /\ n = 0 \/ n > current[k] <=> att.status = "none"
          /\ n \in 1 .. current[k] - 1 => att.status \in Terminal
          /\ att.token # 0 <=> att.status = "running"
          /\ att.claimedBy # NoWorker <=> att.status = "running"
          /\ att.live => att.status = "running"
          /\ att.status = "running" => ~IsHuman(k)

(* The instance status and the node rows, two tables the code updates one  *)
(* after the other, agree: a failed instance has exactly one failed node   *)
(* (which recovery and restart must cover), no other instance has one, a   *)
(* done instance has only done nodes, and an active one that was started   *)
(* properly still has something to do.                                     *)
StatusAgrees ==
    /\ AttemptsMatchNodes
    /\ status \in {"draft", "discarded"} => Rows = {}
    /\ status = "failed" =>
          /\ \E k \in Rows : nodeStatus[k] = "failed"
          /\ \A j, k \in Rows :
                nodeStatus[j] = "failed" /\ nodeStatus[k] = "failed" => j = k
    /\ status # "failed" => \A k \in Rows : nodeStatus[k] # "failed"
    /\ status = "done" => Materialised /\ \A k \in Rows : nodeStatus[k] = "done"
    /\ status \in Active /\ Materialised =>
          \E k \in Rows : nodeStatus[k] # "done"
    /\ status = "canceled" =>
          \A k \in Rows : nodeStatus[k] \in {"done", "canceled"}
    /\ status # "canceled" => \A k \in Rows : nodeStatus[k] # "canceled"

(* What a node worked from is what its dependencies now hold: a started    *)
(* node captured exactly the current attempts of its dependencies, so a    *)
(* restart never leaves a result behind that was computed from a replaced  *)
(* attempt.                                                                *)
FreshInputs ==
    \A k \in Rows : nodeStatus[k] \in {"running", "waiting", "done", "failed"} =>
        \A d \in snapshot.deps[k] : Cur(k).inputs[d] = current[d]

(* Attempts that ended are history: no command rewrites them as long as    *)
(* their node exists (README.md:30; a removal deletes them, see            *)
(* HistoryNeverDeleted).                                                   *)
HistoryFrozen ==
    [][\A k \in Keys, n \in AttemptNo :
         attempts[k][n].status \in Terminal /\ nodeStatus'[k] # "absent"
            => attempts'[k][n] = attempts[k][n]]_vars

(* A refused claim stays refused: once a worker's claim would not be taken *)
(* - it has expired, was taken over, the node was restarted, canceled, or  *)
(* edited away and added again - its late result is never taken either,    *)
(* however often the node is claimed, by whomever, while it works on       *)
(* (check_automated_completion).                                           *)
RefusedForGood ==
    [][\A w \in Workers :
         held[w] # NoClaim /\ held'[w] = held[w] /\ ~ClaimAccepted(w)
            => ~ClaimAccepted(w)']_vars

(* A canceled or discarded instance never changes again, however many      *)
(* late results, expired claims and confirmed previews still arrive.       *)
TerminalFrozen ==
    [][(status \in {"canceled", "discarded"}) => aggregate' = aggregate]_vars

(* The owner gets what the owner was shown: when a preview is confirmed,   *)
(* no node has moved since the preview was made, and the nodes that get a  *)
(* new attempt (or are edited) are the ones it listed.                     *)
ConfirmMatchesPreview ==
    [][\A p \in previews \ previews' :
         /\ nodeStatus = p.seen
         /\ {k \in Keys : nodeVersion'[k] # nodeVersion[k] \/
                          current'[k] # current[k]} \subseteq p.affected
         /\ snapshot' = p.graph]_vars

(* Pausing drains (AIREADME/SPEC.md:229): until the instance runs again    *)
(* the nodes at work only become fewer, and no claim changes hands.        *)
ActiveRows == {k \in Rows : nodeStatus[k] \in {"running", "waiting"}}
PauseDrains ==
    [][status = "paused" =>
         /\ ActiveRows' \subseteq ActiveRows
         /\ \A k \in ActiveRows : Cur(k).token' \in {Cur(k).token, 0}]_vars

(* A started instance does not hang: as long as its owner leaves it        *)
(* running it comes to an end (or to a failure somebody must recover).     *)
Settles == (status = "running" /\ Materialised) ~> (status # "running")

(* What the repository says and the code does not do: README, section 7.   *)

(* AIREADME/SPEC.md:230: resume takes only a paused instance back to       *)
(* running.                                                                *)
ResumeOnlyPaused ==
    [][status' = "running" /\ status = "draft" => rowVars' # rowVars]_vars

(* AIREADME/SPEC.md:237: removing a node deletes only what never started,  *)
(* the executed history stays as it is.                                    *)
HistoryNeverDeleted ==
    [][\A k \in Keys, n \in AttemptNo :
         attempts[k][n].status \in Terminal
            => attempts'[k][n] = attempts[k][n]]_vars

(* AIREADME/ARCHITECTURE.md:157: the rework feedback a restart injects is  *)
(* kept until the runner activates the attempt.                            *)
ReworkReachesRunner ==
    [][\A k \in Rows :
         Cur(k).rework /\ current'[k] = current[k] => Cur(k).rework']_vars

=============================================================================
