--------------------------- MODULE WorkflowProofs ---------------------------
(***************************************************************************)
(* Proofs about Workflow, for every set of keys, people, workers, drafts   *)
(* and edits and every bound: its types, what a restart resets, that the   *)
(* scheduling frontier is exact, and, in the second half, what the         *)
(* commands on an instance keep and what they may never do.                *)
(*                                                                         *)
(* Kept: the tables agree with each other, finished attempts stay, inputs  *)
(* are fresh.  The argument goes through rows: a command writes many rows  *)
(* at once, but what it may do to one of them is one of five things        *)
(* (RowStep), and each property is shown once per kind of row step, not    *)
(* once per command.                                                       *)
(*                                                                         *)
(* Never done: a closed instance changes, a claim that was refused counts  *)
(* again, work starts in a paused instance, something else is confirmed    *)
(* than what was previewed.                                                *)
(***************************************************************************)
EXTENDS Workflow, TLAPS

USE DEF InstanceStatus, NodeStatus, AttemptStatus, AttemptNo

-----------------------------------------------------------------------------
(* What the operators on attempts return. *)

(* A fresh attempt is an attempt. *)
LEMMA NewAttemptType ==
    ASSUME NEW s \in AttemptStatus, NEW in \in [Keys -> AttemptNo],
           NEW rework \in BOOLEAN
    PROVE  NewAttempt(s, in, rework) \in Attempt
  BY WorkflowAssumption DEF NewAttempt, Attempt

(* "No attempt" is one. *)
LEMMA NoAttemptType == NoAttempt \in Attempt
  <1>1. NoInputs \in [Keys -> AttemptNo]
    BY WorkflowAssumption DEF NoInputs
  <1> QED
    BY <1>1, NewAttemptType DEF NoAttempt

(* Ending an attempt leaves an attempt. *)
LEMMA EndedType ==
    ASSUME NEW a \in Attempt, NEW s \in AttemptStatus
    PROVE  Ended(a, s) \in Attempt
  BY DEF Ended, Attempt

(* The captured inputs of a node are attempt numbers. *)
LEMMA InputsType ==
    ASSUME TypeOK, NEW k \in Keys
    PROVE  InputsOf(k) \in [Keys -> AttemptNo]
  BY WorkflowAssumption DEF InputsOf, TypeOK

(* Every key has a current attempt, slot 0 included. *)
LEMMA CurType ==
    ASSUME TypeOK, NEW k \in Keys
    PROVE  Cur(k) \in Attempt
  BY DEF Cur, TypeOK

(* Replacing the current attempt of a node by another one. *)
LEMMA SetCurrentType ==
    ASSUME TypeOK, NEW k \in Keys, NEW a \in Attempt, SetCurrent(k, a)
    PROVE  attempts' \in [Keys -> [AttemptNo -> Attempt]]
  BY DEF SetCurrent, TypeOK

-----------------------------------------------------------------------------
(* Types.  One lemma per action or group of actions. *)

(* A new draft is well-typed. *)
LEMMA InitType == Init => TypeOK
  <1> SUFFICES ASSUME Init PROVE TypeOK
    OBVIOUS
  <1>1. snapshot \in Snapshot
    BY WorkflowAssumption DEF Init
  <1>2. owner \in [Keys -> People]
    BY <1>1 DEF Init, Snapshot
  <1>3. attempts \in [Keys -> [AttemptNo -> Attempt]]
    BY NoAttemptType DEF Init
  <1>4. current \in [Keys -> AttemptNo]
    BY WorkflowAssumption DEF Init
  <1>5. held \in [Workers -> Claim \cup {NoClaim}] /\ budget \in 0 .. Budget
    BY WorkflowAssumption DEF Init
  <1>6. /\ status \in InstanceStatus /\ version \in Nat /\ revision \in Nat
        /\ nodeStatus \in [Keys -> NodeStatus]
        /\ nodeVersion \in [Keys -> Nat]
        /\ previews \subseteq Preview
    BY DEF Init
  <1> QED
    BY <1>1, <1>2, <1>3, <1>4, <1>5, <1>6 DEF TypeOK

(* Confirming a draft creates well-typed rows and attempts. *)
LEMMA ConfirmDraftType == TypeOK /\ ConfirmDraft => TypeOK'
  <1> SUFFICES ASSUME TypeOK, ConfirmDraft PROVE TypeOK'
    OBVIOUS
  <1>1. attempts' \in [Keys -> [AttemptNo -> Attempt]]
    <2>1. NewAttempt("pending", NoInputs, FALSE) \in Attempt
      <3>1. NoInputs \in [Keys -> AttemptNo]
        BY WorkflowAssumption DEF NoInputs
      <3> QED
        BY <3>1, NewAttemptType
    <2> QED
      BY <2>1 DEF TypeOK, ConfirmDraft
  <1>2. owner' \in [Keys -> People]
    BY DEF TypeOK, ConfirmDraft, Snapshot
  <1>3. nodeStatus' \in [Keys -> NodeStatus] /\ nodeVersion' \in [Keys -> Nat]
    BY DEF TypeOK, ConfirmDraft
  <1>4. current' \in [Keys -> AttemptNo]
    BY WorkflowAssumption DEF TypeOK, ConfirmDraft
  <1>5. status' \in InstanceStatus /\ version' \in Nat
    BY DEF TypeOK, ConfirmDraft, Commit
  <1> QED
    BY <1>1, <1>2, <1>3, <1>4, <1>5 DEF TypeOK, ConfirmDraft, graphVars

(* A mere change of status. *)
LEMMA MoveToType ==
    ASSUME TypeOK, NEW s \in InstanceStatus, MoveTo(s),
           budget' \in 0 .. Budget
    PROVE  TypeOK'
  BY DEF TypeOK, MoveTo, Commit, graphVars, rowVars

(* The budget of disturbances is never overdrawn. *)
LEMMA SpendType ==
    ASSUME TypeOK, Spend
    PROVE  budget' \in 0 .. Budget
  BY WorkflowAssumption DEF TypeOK, Spend

(* Cancelling ends attempts that are attempts. *)
LEMMA CancelType == TypeOK /\ Cancel => TypeOK'
  <1> SUFFICES ASSUME TypeOK, Cancel PROVE TypeOK'
    OBVIOUS
  <1>1. attempts' \in [Keys -> [AttemptNo -> Attempt]]
    <2>1. \A k \in Keys : Ended(attempts[k][current[k]], "canceled") \in Attempt
      BY EndedType DEF TypeOK
    <2> QED
      BY <2>1 DEF TypeOK, Cancel
  <1>2. nodeStatus' \in [Keys -> NodeStatus] /\ nodeVersion' \in [Keys -> Nat]
    BY DEF TypeOK, Cancel
  <1> QED
    BY <1>1, <1>2 DEF TypeOK, Cancel, Commit, graphVars

(* What a dispatch captures and claims is well-typed. *)
LEMMA DispatchType ==
    ASSUME TypeOK, NEW w \in Workers, NEW c \in Keys \cup {NoKey},
           Dispatch(w, c)
    PROVE  TypeOK'
  <1>1. nodeStatus' \in [Keys -> NodeStatus] /\ nodeVersion' \in [Keys -> Nat]
    BY DEF TypeOK, Dispatch
  <1>2. attempts' \in [Keys -> [AttemptNo -> Attempt]]
    <2>1. \A k \in Keys : Claimed(w, k) \in Attempt
      <3> TAKE k \in Keys
      <3>1. Cur(k) \in Attempt /\ InputsOf(k) \in [Keys -> AttemptNo]
        BY CurType, InputsType
      <3>2. version + 1 \in Nat
        BY DEF TypeOK
      <3> DEFINE in == IF nodeStatus[k] = "ready" THEN InputsOf(k)
                                                 ELSE Cur(k).inputs
      <3>3. in \in [Keys -> AttemptNo]
        BY <3>1 DEF Attempt
      <3>4. Claimed(w, k) =
               [Cur(k) EXCEPT !.status = "running", !.claimedBy = w,
                  !.token = version + 1, !.live = TRUE, !.inputs = in]
        BY <3>1 DEF Claimed, Attempt
      <3> HIDE DEF in
      <3> QED
        BY <3>1, <3>2, <3>3, <3>4 DEF Attempt
    <2>2. \A k \in Keys :
             [attempts[k] EXCEPT ![current[k]].status = "waiting",
                                 ![current[k]].inputs = InputsOf(k)]
                 \in [AttemptNo -> Attempt]
      <3> TAKE k \in Keys
      <3>1. InputsOf(k) \in [Keys -> AttemptNo]
        BY InputsType
      <3>2. attempts[k] \in [AttemptNo -> Attempt] /\ current[k] \in AttemptNo
        BY DEF TypeOK
      <3> DEFINE a == attempts[k][current[k]]
                 b == [[a EXCEPT !.status = "waiting"]
                          EXCEPT !.inputs = InputsOf(k)]
      <3>3. a \in Attempt
        BY <3>2
      <3>4. b \in Attempt
        BY <3>1, <3>3 DEF Attempt
      <3>5. [attempts[k] EXCEPT ![current[k]].status = "waiting",
                                ![current[k]].inputs = InputsOf(k)]
              = [attempts[k] EXCEPT ![current[k]] = b]
        BY <3>2
      <3> HIDE DEF b
      <3> QED
        BY <3>2, <3>4, <3>5
    <2>3. \A k \in Keys : attempts[k] \in [AttemptNo -> Attempt]
      BY DEF TypeOK
    <2> QED
      BY <2>1, <2>2, <2>3 DEF Dispatch
  <1>3. held' \in [Workers -> Claim \cup {NoClaim}]
    BY DEF TypeOK, Dispatch, Claim
  <1>4. /\ version' = version + 1
        /\ UNCHANGED <<status, snapshot, revision, owner, current, previews,
                       budget>>
    BY DEF Dispatch, Commit, graphVars
  <1> QED
    BY <1>1, <1>2, <1>3, <1>4 DEF TypeOK

(* Completing a node, whoever does it. *)
LEMMA FinishNodeType ==
    ASSUME TypeOK, NEW k \in Keys, FinishNode(k),
           held' \in [Workers -> Claim \cup {NoClaim}], UNCHANGED budget
    PROVE  TypeOK'
  <1>1. attempts' \in [Keys -> [AttemptNo -> Attempt]]
    <2>1. PICK a \in Attempt : a = Ended(Cur(k), "done")
      BY CurType, EndedType
    <2> QED
      BY <2>1, SetCurrentType DEF FinishNode
  <1>2. nodeStatus' \in [Keys -> NodeStatus] /\ nodeVersion' \in [Keys -> Nat]
    BY DEF TypeOK, FinishNode, AfterDone
  <1>3. status' \in InstanceStatus
    BY DEF TypeOK, FinishNode, CompletedBy
  <1>4. /\ version' = version + 1
        /\ UNCHANGED <<snapshot, revision, owner, current, previews>>
    BY DEF FinishNode, Commit, graphVars
  <1> QED
    BY <1>1, <1>2, <1>3, <1>4 DEF TypeOK

(* Failing a node, whoever does it. *)
LEMMA FailNodeType ==
    ASSUME TypeOK, NEW k \in Keys, NEW a \in Attempt, FailNode(k, a),
           held' \in [Workers -> Claim \cup {NoClaim}], UNCHANGED budget
    PROVE  TypeOK'
  <1>1. attempts' \in [Keys -> [AttemptNo -> Attempt]]
    BY SetCurrentType DEF FailNode
  <1>2. /\ nodeStatus' \in [Keys -> NodeStatus]
        /\ nodeVersion' \in [Keys -> Nat]
    BY DEF TypeOK, FailNode
  <1>3. /\ status' = "failed" /\ version' = version + 1
        /\ UNCHANGED <<snapshot, revision, owner, current, previews>>
    BY DEF FailNode, Commit, graphVars
  <1> QED
    BY <1>1, <1>2, <1>3 DEF TypeOK

(* A person's submission, acceptance or rejection. *)
LEMMA AnswerType ==
    ASSUME TypeOK, NEW k \in Keys, Answer(k)
    PROVE  TypeOK'
  <1>1. CASE Submit(k)
    BY <1>1, FinishNodeType DEF Submit, TypeOK
  <1>2. CASE Reject(k)
    <2>1. PICK a \in Attempt :
             a = [Ended(Cur(k), "failed") EXCEPT !.rejected = TRUE]
      <3>1. Ended(Cur(k), "failed") \in Attempt
        BY CurType, EndedType
      <3> QED
        BY <3>1 DEF Attempt
    <2> QED
      BY <1>2, <2>1, FailNodeType DEF Reject, TypeOK
  <1> QED
    BY <1>1, <1>2 DEF Answer

(* Handing a task to somebody else. *)
LEMMA TransferType ==
    ASSUME TypeOK, NEW k \in Keys, NEW p \in People, Transfer(k, p)
    PROVE  TypeOK'
  BY SpendType DEF TypeOK, Transfer, Commit, graphVars

(* A worker forgets its claim. *)
LEMMA LetGoType ==
    ASSUME TypeOK, NEW w \in Workers, LetGo(w)
    PROVE  held' \in [Workers -> Claim \cup {NoClaim}]
  BY DEF TypeOK, LetGo

(* A worker holds a key of the instance, not the absence of one. *)
LEMMA HeldKey ==
    ASSUME TypeOK, NEW w \in Workers, ClaimAccepted(w)
    PROVE  held[w].key \in Keys
  BY DEF TypeOK, ClaimAccepted, Claim

(* A worker's result, committed or dropped. *)
LEMMA FinishType ==
    ASSUME TypeOK, NEW w \in Workers, Finish(w)
    PROVE  TypeOK'
  <1>1. CASE Complete(w)
    <2>1. PICK k \in Keys : k = held[w].key
      BY <1>1, HeldKey DEF Complete
    <2> QED
      BY <1>1, <2>1, FinishNodeType, LetGoType DEF Complete
  <1>2. CASE Fail(w)
    <2>1. PICK k \in Keys : k = held[w].key
      BY <1>2, HeldKey DEF Fail
    <2>2. PICK a \in Attempt : a = Ended(Cur(k), "failed")
      BY CurType, EndedType
    <2> QED
      BY <1>2, <2>1, <2>2, FailNodeType, LetGoType DEF Fail
  <1>3. CASE DropResult(w)
    BY <1>3, LetGoType
    DEF TypeOK, DropResult, instanceVars, graphVars, rowVars
  <1> QED
    BY <1>1, <1>2, <1>3 DEF Finish

(* A worker dies or loses the race. *)
LEMMA AbandonType ==
    ASSUME TypeOK, NEW w \in Workers, Abandon(w)
    PROVE  TypeOK'
  BY LetGoType, SpendType DEF TypeOK, Abandon, instanceVars, graphVars, rowVars

(* A worker renews its claim. *)
LEMMA RenewType ==
    ASSUME TypeOK, NEW w \in Workers, Renew(w)
    PROVE  TypeOK'
  BY SpendType DEF TypeOK, Renew, Commit, graphVars, rowVars

(* The clock passes the expiry of a claim. *)
LEMMA ClaimExpiresType ==
    ASSUME TypeOK, NEW k \in Keys, ClaimExpires(k)
    PROVE  TypeOK'
  <1>1. attempts' \in [Keys -> [AttemptNo -> Attempt]]
    <2>1. PICK a \in Attempt : a = [Cur(k) EXCEPT !.live = FALSE]
      BY CurType DEF Attempt
    <2> QED
      BY <2>1, SetCurrentType DEF ClaimExpires
  <1>2. budget' \in 0 .. Budget
    BY SpendType DEF TypeOK, ClaimExpires
  <1> QED
    BY <1>1, <1>2 DEF TypeOK, ClaimExpires, instanceVars, graphVars

(* A restart resets keys. *)
LEMMA ImpactType ==
    ASSUME TypeOK, NEW t \in Keys \cup {NoKey}
    PROVE  RestartImpact(t) \subseteq Keys
  BY DEF TypeOK, RestartImpact, Affected, Snapshot

(* A restart stays within the attempt numbers, by its guard. *)
LEMMA ApplyRestartType ==
    ASSUME TypeOK, NEW t \in Keys \cup {NoKey}, ApplyRestart(t),
           previews' \subseteq Preview, UNCHANGED budget
    PROVE  TypeOK'
  <1> DEFINE impact == RestartImpact(t)
             close(a) == Ended(a, IF a.status \in Terminal THEN a.status
                                                           ELSE "canceled")
             fresh(k) == NewAttempt("pending", NoInputs, k = t /\ ReworkFor(t))
  <1>1. nodeStatus' \in [Keys -> NodeStatus] /\ nodeVersion' \in [Keys -> Nat]
    BY DEF TypeOK, ApplyRestart
  <1>2. current' \in [Keys -> AttemptNo]
    <2>1. \A k \in RestartImpact(t) : current[k] < MaxAttempt
      BY DEF ApplyRestart
    <2>2. current' = [k \in Keys |-> IF k \in RestartImpact(t)
                                     THEN current[k] + 1 ELSE current[k]]
      BY DEF ApplyRestart
    <2> QED
      BY <2>1, <2>2, WorkflowAssumption DEF TypeOK
  <1>3. attempts' \in [Keys -> [AttemptNo -> Attempt]]
    <2>1. \A a \in Attempt : close(a) \in Attempt
      BY EndedType DEF Attempt, Terminal
    <2>2. \A k \in Keys : fresh(k) \in Attempt
      <3>1. NoInputs \in [Keys -> AttemptNo]
        BY WorkflowAssumption DEF NoInputs
      <3> QED
        BY <3>1, NewAttemptType
    <2>3. attempts' = [k \in Keys |->
              IF k \in impact
              THEN [attempts[k] EXCEPT ![current[k]] = close(@),
                                       ![current[k] + 1] = fresh(k)]
              ELSE attempts[k]]
      BY DEF ApplyRestart
    <2>4. \A k \in Keys : attempts[k] \in [AttemptNo -> Attempt]
                          /\ current[k] \in AttemptNo
      BY DEF TypeOK
    <2> HIDE DEF close, fresh, impact
    <2> QED
      BY <2>1, <2>2, <2>3, <2>4
  <1>4. /\ status' = "running" /\ version' = version + 1
        /\ UNCHANGED <<snapshot, revision, owner, held>>
    BY DEF ApplyRestart, Commit, graphVars
  <1> QED
    BY <1>1, <1>2, <1>3, <1>4 DEF TypeOK

(* What a restart preview stores. *)
LEMMA PreviewRestartType ==
    ASSUME TypeOK, NEW t \in Keys \cup {NoKey}, PreviewRestart(t)
    PROVE  TypeOK'
  <1>1. RestartImpact(t) \subseteq Keys
    BY ImpactType
  <1>2. previews' \subseteq Preview
    BY <1>1 DEF TypeOK, PreviewRestart, Preview
  <1> QED
    BY <1>2, SpendType
    DEF TypeOK, PreviewRestart, instanceVars, graphVars, rowVars

(* Confirming a restart preview. *)
LEMMA ConfirmRestartType ==
    ASSUME TypeOK, NEW p \in previews, ConfirmRestart(p)
    PROVE  TypeOK'
  <1>1. p.target \in Keys \cup {NoKey}
    BY DEF TypeOK, Preview
  <1>2. previews' \subseteq Preview /\ UNCHANGED budget
    BY DEF TypeOK, ConfirmRestart
  <1>3. ApplyRestart(p.target)
    BY DEF ConfirmRestart
  <1> QED
    BY <1>1, <1>2, <1>3, ApplyRestartType

(* Retrying a failed node. *)
LEMMA RetryType ==
    ASSUME TypeOK, NEW k \in Keys, Retry(k)
    PROVE  TypeOK'
  BY ApplyRestartType DEF Retry, TypeOK

(* The owner takes a failed node over. *)
LEMMA TakeoverType ==
    ASSUME TypeOK, NEW k \in Keys, Takeover(k)
    PROVE  TypeOK'
  <1>1. attempts' \in [Keys -> [AttemptNo -> Attempt]]
    <2>1. NewAttempt("waiting", InputsOf(k), FALSE) \in Attempt
      BY InputsType, NewAttemptType
    <2> QED
      BY <2>1 DEF TypeOK, Takeover
  <1>2. /\ nodeStatus' \in [Keys -> NodeStatus]
        /\ nodeVersion' \in [Keys -> Nat]
    BY DEF TypeOK, Takeover
  <1>3. current' \in [Keys -> AttemptNo]
    BY WorkflowAssumption DEF TypeOK, Takeover
  <1>4. /\ status' = "running" /\ version' = version + 1
        /\ UNCHANGED <<snapshot, revision, owner, previews, held, budget>>
    BY DEF Takeover, Commit, graphVars
  <1> QED
    BY <1>1, <1>2, <1>3, <1>4 DEF TypeOK

(* What an edit preview stores. *)
LEMMA PreviewEditType ==
    ASSUME TypeOK, NEW g \in Edits, PreviewEdit(g)
    PROVE  TypeOK'
  <1>1. g \in Snapshot
    BY WorkflowAssumption
  <1>2. Touched(g) \subseteq Keys
    BY <1>1 DEF TypeOK, Touched, Added, Removed, Updated, Snapshot
  <1>3. previews' \subseteq Preview
    BY <1>1, <1>2 DEF TypeOK, PreviewEdit, Preview
  <1> QED
    BY <1>3, SpendType
    DEF TypeOK, PreviewEdit, instanceVars, graphVars, rowVars

(* What an edit of a running instance writes. *)
LEMMA EditFutureType ==
    ASSUME TypeOK, NEW g \in Snapshot, EditFuture(g)
    PROVE  /\ status' \in InstanceStatus
           /\ nodeStatus' \in [Keys -> NodeStatus]
           /\ nodeVersion' \in [Keys -> Nat]
           /\ owner' \in [Keys -> People]
           /\ current' \in [Keys -> AttemptNo]
           /\ attempts' \in [Keys -> [AttemptNo -> Attempt]]
  <1>1. nodeStatus' \in [Keys -> NodeStatus] /\ nodeVersion' \in [Keys -> Nat]
    BY DEF TypeOK, EditFuture, FutureStatus
  <1>2. owner' \in [Keys -> People]
    BY DEF TypeOK, EditFuture, Snapshot
  <1>3. current' \in [Keys -> AttemptNo]
    BY WorkflowAssumption DEF TypeOK, EditFuture
  <1>4. attempts' \in [Keys -> [AttemptNo -> Attempt]]
    <2> DEFINE first == NewAttempt("pending", NoInputs, FALSE)
               reset(k) == [attempts[k] EXCEPT
                               ![current[k]].status = "pending",
                               ![current[k]].rework = FALSE]
    <2>1. first \in Attempt
      <3>1. NoInputs \in [Keys -> AttemptNo]
        BY WorkflowAssumption DEF NoInputs
      <3> QED
        BY <3>1, NewAttemptType
    <2>2. \A k \in Keys : reset(k) \in [AttemptNo -> Attempt]
      <3> TAKE k \in Keys
      <3> DEFINE a == attempts[k][current[k]]
                 b == [[a EXCEPT !.status = "pending"] EXCEPT !.rework = FALSE]
      <3>1. /\ attempts[k] \in [AttemptNo -> Attempt]
            /\ current[k] \in AttemptNo
        BY DEF TypeOK
      <3>2. a \in Attempt
        BY <3>1
      <3>3. b \in Attempt
        BY <3>2 DEF Attempt
      <3>4. reset(k) = [attempts[k] EXCEPT ![current[k]] = b]
        BY <3>1
      <3> HIDE DEF b
      <3> QED
        BY <3>1, <3>3, <3>4
    <2>3. \A k \in Keys : WithoutAttempts(k) \in [AttemptNo -> Attempt]
      BY NoAttemptType DEF WithoutAttempts
    <2>4. \A k \in Keys : /\ attempts[k] \in [AttemptNo -> Attempt]
                          /\ [attempts[k] EXCEPT ![1] = first]
                                \in [AttemptNo -> Attempt]
      BY <2>1 DEF TypeOK
    <2>5. attempts' = [k \in Keys |->
              CASE k \in Removed(g) -> WithoutAttempts(k)
                [] k \in Updated(g) -> reset(k)
                [] k \in Added(g)   -> [attempts[k] EXCEPT ![1] = first]
                [] OTHER            -> attempts[k]]
      BY DEF EditFuture
    <2> HIDE DEF first, reset
    <2> QED
      BY <2>2, <2>3, <2>4, <2>5
  <1>5. status' \in InstanceStatus
    BY DEF TypeOK, EditFuture, CompletedBy
  <1> QED
    BY <1>1, <1>2, <1>3, <1>4, <1>5

(* Confirming an edit preview. *)
LEMMA ConfirmEditType ==
    ASSUME TypeOK, NEW p \in previews, ConfirmEdit(p)
    PROVE  TypeOK'
  <1>1. p.graph \in Snapshot
    BY DEF TypeOK, Preview
  <1>2. /\ snapshot' = p.graph /\ revision' = revision + 1
        /\ version' = version + 1 /\ previews' = previews \ {p}
        /\ UNCHANGED <<held, budget>>
    BY DEF ConfirmEdit, Commit
  <1>3. /\ status' \in InstanceStatus
        /\ nodeStatus' \in [Keys -> NodeStatus]
        /\ nodeVersion' \in [Keys -> Nat]
        /\ owner' \in [Keys -> People]
        /\ current' \in [Keys -> AttemptNo]
        /\ attempts' \in [Keys -> [AttemptNo -> Attempt]]
    <2>1. CASE EditDraft(p.graph)
      BY <2>1 DEF TypeOK, EditDraft, rowVars
    <2>2. CASE EditFuture(p.graph)
      BY <2>2, <1>1, EditFutureType
    <2> QED
      BY <2>1, <2>2 DEF ConfirmEdit
  <1> QED
    BY <1>1, <1>2, <1>3 DEF TypeOK

-----------------------------------------------------------------------------
(* The instance stays well-typed, by one lemma per action. *)
LEMMA NextType == TypeOK /\ [Next]_vars => TypeOK'
  <1> SUFFICES ASSUME TypeOK, [Next]_vars PROVE TypeOK'
    OBVIOUS
  <1>1. CASE ConfirmDraft
    BY <1>1, ConfirmDraftType
  <1>2. CASE DiscardDraft \/ Pause \/ Resume
    BY <1>2, MoveToType, SpendType DEF DiscardDraft, Pause, Resume, TypeOK
  <1>3. CASE Cancel
    BY <1>3, CancelType
  <1>4. CASE \E t \in Keys \cup {NoKey} : PreviewRestart(t)
    BY <1>4, PreviewRestartType
  <1>5. CASE \E g \in Edits : PreviewEdit(g)
    BY <1>5, PreviewEditType
  <1>6. CASE \E p \in previews : ConfirmRestart(p) \/ ConfirmEdit(p)
    BY <1>6, ConfirmRestartType, ConfirmEditType
  <1>7. CASE \E k \in Keys : Answer(k) \/ Retry(k) \/ Takeover(k)
    BY <1>7, AnswerType, RetryType, TakeoverType
  <1>8. CASE \E k \in Keys : \E p \in People : Transfer(k, p)
    BY <1>8, TransferType
  <1>9. CASE \E w \in Workers : \E c \in Keys \cup {NoKey} : Dispatch(w, c)
    BY <1>9, DispatchType
  <1>10. CASE \E w \in Workers : Finish(w) \/ Renew(w) \/ Abandon(w)
    BY <1>10, FinishType, RenewType, AbandonType
  <1>11. CASE \E k \in Keys : ClaimExpires(k)
    BY <1>11, ClaimExpiresType
  <1>12. CASE UNCHANGED vars
    BY <1>12 DEF TypeOK, vars
  <1> QED
    BY <1>1, <1>2, <1>3, <1>4, <1>5, <1>6, <1>7, <1>8, <1>9, <1>10, <1>11,
       <1>12
    DEF Next, Owner, NodeOwner, Worker

(* Type correctness: whatever commands the people and the workers of an    *)
(* instance issue, its rows, attempts, claims and previews stay of the     *)
(* types model.py declares.                                                *)
THEOREM Types == Spec => []TypeOK
  <1>1. Init => TypeOK
    BY InitType
  <1>2. TypeOK /\ [Next]_vars => TypeOK'
    BY NextType
  <1> QED
    BY <1>1, <1>2, PTL DEF Spec

-----------------------------------------------------------------------------
(* Facts about snapshots that the commands of an instance rely on, for     *)
(* graphs of any size.                                                     *)

(* A restarted node is among the nodes it resets. *)
LEMMA AffectedHasTarget ==
    ASSUME NEW g, NEW t \in g.nodes
    PROVE  t \in Affected(g, t)
  BY DEF Affected

(* Whoever waits for a node that is reset is reset too. *)
LEMMA AffectedIsClosed ==
    ASSUME NEW g, NEW t
    PROVE  SuccessorClosed(g, Affected(g, t))
  BY DEF Affected, SuccessorClosed

(* Nobody but the target is reset without a dependency that is: a node     *)
(* without one could be left out of the closed set.                        *)
LEMMA AffectedIsReached ==
    ASSUME NEW g, NEW t \in g.nodes, NEW x \in Affected(g, t), x # t
    PROVE  g.deps[x] \cap Affected(g, t) # {}
  <1> SUFFICES ASSUME g.deps[x] \cap Affected(g, t) = {}
               PROVE  FALSE
    OBVIOUS
  <1> DEFINE rest == Affected(g, t) \ {x}
  <1>1. rest \in SUBSET g.nodes /\ t \in rest
    BY AffectedHasTarget DEF Affected
  <1>2. SuccessorClosed(g, rest)
    BY AffectedIsClosed DEF SuccessorClosed
  <1>3. x \in rest
    <2>1. \A C \in SUBSET g.nodes : t \in C /\ SuccessorClosed(g, C) => x \in C
      BY DEF Affected
    <2> QED
      BY <1>1, <1>2, <2>1
  <1> QED
    BY <1>3

(* In an acyclic graph a restart never resets what its target waits for:   *)
(* the one member of the impact without a dependency inside it can only be *)
(* the target.                                                             *)
LEMMA AffectedIsDownstream ==
    ASSUME NEW g, NEW t \in g.nodes, Acyclic(g)
    PROVE  g.deps[t] \cap Affected(g, t) = {}
  <1>1. Affected(g, t) \in SUBSET g.nodes /\ Affected(g, t) # {}
    BY AffectedHasTarget DEF Affected
  <1>2. PICK m \in Affected(g, t) : g.deps[m] \cap Affected(g, t) = {}
    BY <1>1 DEF Acyclic
  <1> QED
    BY <1>2, AffectedIsReached

-----------------------------------------------------------------------------
(* The scheduling frontier is exact.                                       *)
(*                                                                         *)
(* FrontierExact alone is not inductive.  A restart keeps it only because  *)
(* the graph has no cycle; completing a node keeps it only because every   *)
(* row belongs to a node of the graph, so that unlock_after meets all who  *)
(* wait; and an edit of a draft, which rewires dependencies without a look *)
(* at the rows, keeps it only because a draft has none.                    *)
FrontierInv ==
    /\ TypeOK
    /\ Valid(snapshot)
    /\ Rows \subseteq snapshot.nodes
    /\ status = "draft" => Rows = {}
    /\ FrontierExact

-----------------------------------------------------------------------------
(* Steps that are sound for a reason several actions share. *)

(* A step that leaves the graph and the node states alone. *)
LEMMA NodesUntouched ==
    ASSUME FrontierInv, TypeOK', UNCHANGED <<snapshot, nodeStatus>>,
           status' = "draft" => status = "draft"
    PROVE  FrontierInv'
  BY DEF FrontierInv, FrontierExact, DepsDone, NoLostUnlock, Rows, Valid,
         Acyclic, IsDecision

(* Started and not finished. *)
AtWork == Started \ {"done"}

(* A step that only moves started nodes between the states of being at     *)
(* work: nobody finishes, so nobody's dependencies change.                 *)
LEMMA WorkMoves ==
    ASSUME FrontierInv, TypeOK', UNCHANGED snapshot,
           status' # "draft",
           \A k \in Keys : \/ nodeStatus'[k] = nodeStatus[k]
                           \/ nodeStatus[k] \in AtWork /\ nodeStatus'[k] \in AtWork
    PROVE  FrontierInv'
  <1>1. Valid(snapshot)' /\ snapshot.deps \in [Keys -> SUBSET Keys]
    BY DEF FrontierInv, TypeOK, Snapshot, Valid, Acyclic, IsDecision
  <1>2. Rows' = Rows
    BY DEF Rows, AtWork, Started
  <1>3. \A k \in Keys : nodeStatus'[k] = "done" <=> nodeStatus[k] = "done"
    BY DEF AtWork, Started
  <1>4. DepsDone' /\ NoLostUnlock'
    BY <1>1, <1>2, <1>3
    DEF FrontierInv, FrontierExact, DepsDone, NoLostUnlock, Rows, AtWork,
        Started
  <1> QED
    BY <1>1, <1>2, <1>4 DEF FrontierInv, FrontierExact

(* A step after which every node of the graph waits, except the roots:     *)
(* confirming a draft and restarting the whole instance.                   *)
LEMMA AllWait ==
    ASSUME FrontierInv, TypeOK', UNCHANGED snapshot,
           status' # "draft",
           \A k \in Keys : nodeStatus'[k] =
               CASE k \in Roots(snapshot)  -> "ready"
                 [] k \in snapshot.nodes \ Roots(snapshot) -> "pending"
                 [] OTHER                  -> "absent"
    PROVE  FrontierInv'
  <1>1. /\ Valid(snapshot)' /\ Valid(snapshot)
        /\ snapshot.deps \in [Keys -> SUBSET Keys]
        /\ snapshot.nodes \subseteq Keys
    BY DEF FrontierInv, TypeOK, Snapshot, Valid, Acyclic, IsDecision
  <1>2. Rows' = snapshot.nodes
    BY <1>1 DEF Rows, Roots
  <1>3. DepsDone'
    BY <1>1, <1>2 DEF DepsDone, Started, Roots
  <1>4. NoLostUnlock'
    <2> SUFFICES ASSUME NEW k \in Rows', nodeStatus'[k] = "pending"
                 PROVE  \E d \in snapshot.deps[k] : nodeStatus'[d] # "done"
      BY DEF NoLostUnlock
    <2>1. k \in snapshot.nodes /\ k \in Keys /\ snapshot.deps[k] # {}
      BY <1>1, <1>2 DEF Roots
    <2>2. PICK d \in snapshot.deps[k] : d \in Keys
      BY <1>1, <2>1
    <2> QED
      BY <2>2
  <1> QED
    BY <1>1, <1>2, <1>3, <1>4 DEF FrontierInv, FrontierExact

-----------------------------------------------------------------------------
(* The actions. *)

(* A draft has no rows, so there is nothing to be wrong about. *)
LEMMA InitFrontier == Init => FrontierInv
  <1> SUFFICES ASSUME Init PROVE FrontierInv
    OBVIOUS
  <1>1. TypeOK
    BY InitType
  <1>2. Valid(snapshot)
    BY WorkflowAssumption DEF Init
  <1>3. Rows = {}
    BY DEF Init, Rows
  <1> QED
    BY <1>1, <1>2, <1>3
    DEF FrontierInv, FrontierExact, DepsDone, NoLostUnlock

(* Confirming a draft makes exactly the roots ready. *)
LEMMA ConfirmDraftFrontier ==
    ASSUME FrontierInv, TypeOK', ConfirmDraft
    PROVE  FrontierInv'
  <1>1. \A k \in Keys : nodeStatus[k] = "absent"
    BY DEF FrontierInv, ConfirmDraft, Rows
  <1>2. snapshot' = snapshot /\ status' = "running"
    BY DEF ConfirmDraft, graphVars
  <1>3. nodeStatus' = [k \in Keys |->
            CASE k \notin snapshot.nodes -> nodeStatus[k]
              [] k \in Roots(snapshot)   -> "ready"
              [] OTHER                   -> "pending"]
    BY DEF ConfirmDraft
  <1>4. Roots(snapshot) \subseteq snapshot.nodes
    BY DEF Roots
  <1>5. \A k \in Keys : nodeStatus'[k] =
               CASE k \in Roots(snapshot)  -> "ready"
                 [] k \in snapshot.nodes \ Roots(snapshot) -> "pending"
                 [] OTHER                  -> "absent"
    BY <1>1, <1>3, <1>4
  <1> QED
    BY <1>2, <1>5, AllWait

(* Cancelling leaves nobody pending and no done node behind. *)
LEMMA CancelFrontier ==
    ASSUME FrontierInv, TypeOK', Cancel
    PROVE  FrontierInv'
  <1>1. /\ snapshot' = snapshot /\ status' = "canceled"
        /\ Valid(snapshot)' /\ snapshot.deps \in [Keys -> SUBSET Keys]
    BY DEF FrontierInv, TypeOK, Snapshot, Valid, Acyclic, IsDecision, Cancel,
           graphVars
  <1>2. \A k \in Keys :
           nodeStatus'[k] = IF nodeStatus[k] \in Unfinished THEN "canceled"
                                                           ELSE nodeStatus[k]
    BY DEF Cancel, Rows, Unfinished
  <1>3. Rows' = Rows
    BY <1>2 DEF Rows, Unfinished
  <1>4. DepsDone' /\ NoLostUnlock'
    BY <1>1, <1>2, <1>3
    DEF FrontierInv, FrontierExact, DepsDone, NoLostUnlock, Rows, Started,
        Unfinished
  <1> QED
    BY <1>1, <1>3, <1>4 DEF FrontierInv, FrontierExact

(* A dispatch puts ready nodes to work and takes expired claims over. *)
LEMMA DispatchFrontier ==
    ASSUME FrontierInv, TypeOK', NEW w \in Workers, NEW c \in Keys \cup {NoKey},
           Dispatch(w, c)
    PROVE  FrontierInv'
  <1>1. UNCHANGED snapshot /\ status' # "draft"
    BY DEF Dispatch, graphVars, Dispatchable
  <1>2. c \in Keys => nodeStatus[c] \in AtWork
    <2>1. c \in Keys => c \in Claimable(w)
      BY KeyAssumption DEF Dispatch
    <2> QED
      BY <2>1 DEF Claimable, Reclaimable, Served, AtWork, Started
  <1>3. \A k \in ReadyHumans : nodeStatus[k] = "ready"
    BY DEF ReadyHumans
  <1>4. \A k \in Keys :
           nodeStatus'[k] = CASE k \in ReadyHumans -> "waiting"
                              [] k = c             -> "running"
                              [] OTHER             -> nodeStatus[k]
    BY DEF Dispatch
  <1>5. \A k \in Keys : \/ nodeStatus'[k] = nodeStatus[k]
                        \/ nodeStatus[k] \in AtWork /\ nodeStatus'[k] \in AtWork
    BY <1>2, <1>3, <1>4 DEF AtWork, Started
  <1> QED
    BY <1>1, <1>5, WorkMoves

(* A failure finishes nothing and unlocks nobody. *)
LEMMA FailNodeFrontier ==
    ASSUME FrontierInv, TypeOK', NEW k \in Keys, NEW a,
           nodeStatus[k] \in AtWork, FailNode(k, a)
    PROVE  FrontierInv'
  <1>1. UNCHANGED snapshot /\ status' # "draft"
    BY DEF FailNode, graphVars
  <1>2. \A x \in Keys :
           nodeStatus'[x] = IF x = k THEN "failed" ELSE nodeStatus[x]
    BY DEF FailNode, FrontierInv, TypeOK
  <1>3. \A x \in Keys : \/ nodeStatus'[x] = nodeStatus[x]
                        \/ nodeStatus[x] \in AtWork /\ nodeStatus'[x] \in AtWork
    BY <1>2 DEF AtWork, Started
  <1> QED
    BY <1>1, <1>3, WorkMoves

(* Completion unlocks whoever waited for this node alone.                  *)
LEMMA FinishNodeFrontier ==
    ASSUME FrontierInv, TypeOK', NEW k \in Keys, status # "draft",
           nodeStatus[k] \in AtWork, FinishNode(k)
    PROVE  FrontierInv'
  <1>1. /\ snapshot' = snapshot /\ status' # "draft"
        /\ Valid(snapshot)' /\ Valid(snapshot)
        /\ snapshot.deps \in [Keys -> SUBSET Keys]
    BY DEF FrontierInv, TypeOK, Snapshot, Valid, Acyclic, IsDecision,
           FinishNode, graphVars, CompletedBy
  <1>2. \A x \in Keys :
           AfterDone(k)[x] = IF x = k THEN "done" ELSE nodeStatus[x]
    BY DEF AfterDone, FrontierInv, TypeOK
  <1>3. \A x \in Keys :
           nodeStatus'[x] = IF x \in Unlocked(k) THEN "ready"
                                                 ELSE AfterDone(k)[x]
    BY DEF FinishNode
  <1>4. \A x \in Unlocked(k) :
           /\ nodeStatus[x] = "pending" /\ x # k
           /\ \A d \in snapshot.deps[x] : AfterDone(k)[d] = "done"
    <2>1. Unlocked(k) \subseteq Keys
      BY DEF Unlocked, ReadyKeys, FrontierInv, TypeOK, Snapshot
    <2> QED
      BY <1>2, <2>1 DEF Unlocked, ReadyKeys
  <1>5. \A x \in Keys : nodeStatus'[x] = "done" <=> AfterDone(k)[x] = "done"
    BY <1>2, <1>3, <1>4
  <1>6. Rows' = Rows
    BY <1>2, <1>3, <1>4 DEF Rows, AtWork, Started
  <1>7. DepsDone'
    <2> SUFFICES ASSUME NEW x \in Rows, nodeStatus'[x] \in Started,
                        NEW d \in snapshot.deps[x]
                 PROVE  nodeStatus'[d] = "done"
      BY <1>1, <1>6 DEF DepsDone
    <2>1. x \in Keys /\ d \in Keys
      BY <1>1 DEF Rows
    <2>2. CASE x \in Unlocked(k)
      BY <1>4, <1>5, <2>1, <2>2
    <2>3. CASE x \notin Unlocked(k)
      <3>1. nodeStatus[x] \in Started
        BY <1>2, <1>3, <2>1, <2>3 DEF AtWork
      <3>2. nodeStatus[d] = "done"
        BY <3>1 DEF FrontierInv, FrontierExact, DepsDone
      <3> QED
        BY <1>2, <1>5, <2>1, <3>2
    <2> QED
      BY <2>2, <2>3
  <1>8. NoLostUnlock'
    <2> SUFFICES ASSUME NEW x \in Rows, nodeStatus'[x] = "pending",
                        \A d \in snapshot.deps[x] : nodeStatus'[d] = "done"
                 PROVE  FALSE
      BY <1>1, <1>6 DEF NoLostUnlock
    <2>1. x \in Keys /\ snapshot.deps[x] \subseteq Keys
      BY <1>1 DEF Rows
    <2>2. x \notin Unlocked(k) /\ nodeStatus[x] = "pending" /\ x # k
      BY <1>2, <1>3, <2>1
    <2>3. \A d \in snapshot.deps[x] : AfterDone(k)[d] = "done"
      BY <1>5, <2>1
    <2>4. CASE k \in snapshot.deps[x]
      <3>1. x \in Unlocked(k)
        BY <1>2, <2>1, <2>2, <2>3, <2>4
        DEF Unlocked, Successors, ReadyKeys, FrontierInv
      <3> QED
        BY <2>2, <3>1
    <2>5. CASE k \notin snapshot.deps[x]
      <3>1. \A d \in snapshot.deps[x] : nodeStatus[d] = "done"
        BY <1>2, <2>1, <2>3, <2>5
      <3> QED
        BY <2>2, <3>1 DEF FrontierInv, FrontierExact, NoLostUnlock
    <2> QED
      BY <2>4, <2>5
  <1> QED
    BY <1>1, <1>6, <1>7, <1>8 DEF FrontierInv, FrontierExact

(* A person's answer. *)
LEMMA AnswerFrontier ==
    ASSUME FrontierInv, TypeOK', NEW k \in Keys, Answer(k)
    PROVE  FrontierInv'
  <1>1. status # "draft" /\ nodeStatus[k] \in AtWork
    BY DEF Answer, Submit, Reject, Active, AtWork, Started
  <1>2. CASE Submit(k)
    BY <1>1, <1>2, FinishNodeFrontier DEF Submit
  <1>3. CASE Reject(k)
    BY <1>1, <1>3, FailNodeFrontier DEF Reject
  <1> QED
    BY <1>2, <1>3 DEF Answer

(* A worker's result. *)
LEMMA FinishFrontier ==
    ASSUME FrontierInv, TypeOK', NEW w \in Workers, Finish(w)
    PROVE  FrontierInv'
  <1>1. CASE Complete(w) \/ Fail(w)
    <2>1. PICK k \in Keys : k = held[w].key
      BY <1>1, HeldKey DEF Complete, Fail, FrontierInv
    <2>2. status # "draft" /\ nodeStatus[k] \in AtWork
      BY <1>1, <2>1
      DEF Complete, Fail, ClaimAccepted, Active, AtWork, Started
    <2>3. CASE Complete(w)
      BY <2>1, <2>2, <2>3, FinishNodeFrontier DEF Complete
    <2>4. CASE Fail(w)
      BY <2>1, <2>2, <2>4, FailNodeFrontier DEF Fail
    <2> QED
      BY <1>1, <2>3, <2>4
  <1>2. CASE DropResult(w)
    BY <1>2, NodesUntouched DEF DropResult, instanceVars, graphVars, rowVars
  <1> QED
    BY <1>1, <1>2 DEF Finish

(* A restart.  The impact is closed under successors, so no node outside   *)
(* of it waits for one inside; every member but the target waits for       *)
(* another member; and the target waits for none of them.                  *)
LEMMA ApplyRestartFrontier ==
    ASSUME FrontierInv, TypeOK', NEW t \in Keys \cup {NoKey},
           RestartAllowed(t), ApplyRestart(t)
    PROVE  FrontierInv'
  <1>1. /\ snapshot' = snapshot /\ status' = "running"
        /\ Valid(snapshot)' /\ Valid(snapshot)
        /\ snapshot.deps \in [Keys -> SUBSET Keys]
    BY DEF FrontierInv, TypeOK, Snapshot, Valid, Acyclic, IsDecision,
           ApplyRestart, graphVars
  <1>2. CASE t = NoKey
    <2>1. \A k \in Keys :
             nodeStatus'[k] =
               CASE k \in Roots(snapshot)                   -> "ready"
                 [] k \in snapshot.nodes \ Roots(snapshot)  -> "pending"
                 [] OTHER                                   -> nodeStatus[k]
      BY <1>2 DEF ApplyRestart, RestartImpact
    <2>2. \A k \in Keys \ snapshot.nodes : nodeStatus[k] = "absent"
      BY DEF FrontierInv, Rows
    <2>3. Roots(snapshot) \subseteq snapshot.nodes
      BY DEF Roots
    <2>4. \A k \in Keys :
             nodeStatus'[k] =
               CASE k \in Roots(snapshot)                   -> "ready"
                 [] k \in snapshot.nodes \ Roots(snapshot)  -> "pending"
                 [] OTHER                                   -> "absent"
      BY <2>1, <2>2, <2>3
    <2> QED
      BY <1>1, <2>4, AllWait
  <1>3. CASE t # NoKey
    <2> DEFINE A == Affected(snapshot, t)
    <2>1. t \in Keys /\ t \in snapshot.nodes
      BY <1>3 DEF RestartAllowed, FrontierInv
    <2>2. A \subseteq Rows /\ t \in A
      BY <1>3, <2>1, AffectedHasTarget DEF ApplyRestart, RestartImpact
    <2>3. \A k \in Keys : nodeStatus'[k] = CASE k = t       -> "ready"
                                             [] k \in A \ {t} -> "pending"
                                             [] OTHER       -> nodeStatus[k]
      BY <1>3 DEF ApplyRestart, RestartImpact
    <2>4. \A x \in Rows \ A : snapshot.deps[x] \cap A = {}
      BY AffectedIsClosed DEF SuccessorClosed, FrontierInv
    <2>5. \A x \in A : x # t => snapshot.deps[x] \cap A # {}
      BY <2>1, AffectedIsReached
    <2>6. snapshot.deps[t] \cap A = {}
      BY <1>1, <2>1, AffectedIsDownstream DEF Valid
    <2>7. \A d \in snapshot.deps[t] : nodeStatus[d] = "done"
      BY <1>3 DEF RestartAllowed
    <2> HIDE DEF A
    <2>8. Rows' = Rows
      BY <2>2, <2>3 DEF Rows
    <2>9. DepsDone'
      <3> SUFFICES ASSUME NEW x \in Rows, nodeStatus'[x] \in Started,
                          NEW d \in snapshot.deps[x]
                   PROVE  nodeStatus'[d] = "done"
        BY <1>1, <2>8 DEF DepsDone
      <3>1. x \in Keys /\ d \in Keys
        BY <1>1 DEF Rows
      <3>2. CASE x = t
        BY <2>2, <2>3, <2>6, <2>7, <3>1, <3>2
      <3>3. CASE x \in A \ {t}
        BY <2>3, <3>1, <3>3 DEF Started
      <3>4. CASE x \notin A
        <4>1. nodeStatus[x] \in Started /\ d \notin A
          BY <2>2, <2>3, <2>4, <3>1, <3>4
        <4>2. nodeStatus[d] = "done"
          BY <4>1 DEF FrontierInv, FrontierExact, DepsDone
        <4> QED
          BY <2>2, <2>3, <3>1, <4>1, <4>2
      <3> QED
        BY <3>2, <3>3, <3>4
    <2>10. NoLostUnlock'
      <3> SUFFICES ASSUME NEW x \in Rows, nodeStatus'[x] = "pending"
                   PROVE  \E d \in snapshot.deps[x] : nodeStatus'[d] # "done"
        BY <1>1, <2>8 DEF NoLostUnlock
      <3>1. x \in Keys /\ snapshot.deps[x] \subseteq Keys /\ x # t
        BY <1>1, <2>3 DEF Rows
      <3>2. CASE x \in A
        <4>1. PICK d \in snapshot.deps[x] : d \in A
          BY <2>5, <3>1, <3>2
        <4> QED
          BY <2>3, <3>1, <4>1
      <3>3. CASE x \notin A
        <4>1. nodeStatus[x] = "pending"
          BY <2>3, <3>1, <3>3
        <4>2. PICK d \in snapshot.deps[x] : nodeStatus[d] # "done"
          BY <4>1 DEF FrontierInv, FrontierExact, NoLostUnlock
        <4>3. d \in Keys /\ d \notin A
          BY <2>4, <3>1, <3>3, <4>2
        <4> QED
          BY <2>2, <2>3, <4>2, <4>3
      <3> QED
        BY <3>2, <3>3
    <2> QED
      BY <1>1, <2>8, <2>9, <2>10 DEF FrontierInv, FrontierExact
  <1> QED
    BY <1>2, <1>3

(* A takeover puts a failed node back to work. *)
LEMMA TakeoverFrontier ==
    ASSUME FrontierInv, TypeOK', NEW k \in Keys, Takeover(k)
    PROVE  FrontierInv'
  <1>1. UNCHANGED snapshot /\ status' # "draft"
    BY DEF Takeover, graphVars
  <1>2. nodeStatus[k] = "failed"
    BY DEF Takeover, Recoverable
  <1>3. \A x \in Keys :
           nodeStatus'[x] = IF x = k THEN "waiting" ELSE nodeStatus[x]
    BY DEF Takeover, FrontierInv, TypeOK
  <1>4. \A x \in Keys : \/ nodeStatus'[x] = nodeStatus[x]
                        \/ nodeStatus[x] \in AtWork /\ nodeStatus'[x] \in AtWork
    BY <1>2, <1>3 DEF AtWork, Started
  <1> QED
    BY <1>1, <1>4, WorkMoves

(* An edit of a running instance.  Done nodes are not pristine, so the     *)
(* edit neither removes nor rewires nor adds one: what it recomputes       *)
(* for the nodes it touches is right for the new graph, and the others     *)
(* keep both their dependencies and the states of these.                   *)
LEMMA EditFutureFrontier ==
    ASSUME FrontierInv, TypeOK', NEW g \in Snapshot,
           EditAllowed(g), EditFuture(g), snapshot' = g
    PROVE  FrontierInv'
  <1>1. /\ Valid(g) /\ Valid(snapshot)'
        /\ g.deps \in [Keys -> SUBSET Keys] /\ g.nodes \subseteq Keys
    BY DEF EditAllowed, Snapshot, Valid, Acyclic, IsDecision
  <1>2. status' # "draft"
    BY DEF EditFuture, CompletedBy
  <1>3. \A k \in Removed(g) \cup Updated(g) : nodeStatus[k] \in {"pending", "ready"}
    BY DEF EditAllowed, EditFuture, Pristine
  <1>4. \A k \in Keys :
           nodeStatus'[k] =
             CASE k \in Removed(g)               -> "absent"
               [] k \in Updated(g) \cup Added(g) -> FutureStatus(g, k)
               [] OTHER                          -> nodeStatus[k]
    BY DEF EditFuture
  <1>5. \A k \in Added(g) : k \in Keys /\ nodeStatus[k] = "absent"
    BY <1>1 DEF Added, FrontierInv, Rows
  <1>6. \A k \in Keys : FutureStatus(g, k) \in {"pending", "ready"}
    BY DEF FutureStatus
  <1>7. \A k \in Keys : nodeStatus'[k] = "done" <=> nodeStatus[k] = "done"
    BY <1>3, <1>4, <1>5, <1>6
  <1>8. \A k \in Rows \ Touched(g) :
           k \in g.nodes /\ g.deps[k] = snapshot.deps[k]
    BY DEF Touched, Added, Removed, Updated, SameSpec, FrontierInv
  <1>9. Rows' \subseteq g.nodes
    <2>1. Updated(g) \cup Added(g) \subseteq g.nodes
      BY DEF Updated, Added
    <2> QED
      BY <1>4, <1>8, <2>1 DEF Rows, Touched
  <1>10. \A k \in Rows' :
            \/ k \in Updated(g) \cup Added(g) /\ nodeStatus'[k] = FutureStatus(g, k)
            \/ k \in Rows \ Touched(g) /\ nodeStatus'[k] = nodeStatus[k]
    BY <1>4 DEF Rows, Touched
  <1>11. \A k \in Rows' : k \in Keys /\ g.deps[k] \subseteq Keys
    BY <1>1 DEF Rows
  <1>12. DepsDone'
    <2> SUFFICES ASSUME NEW k \in Rows', nodeStatus'[k] \in Started,
                        NEW d \in g.deps[k]
                 PROVE  nodeStatus'[d] = "done"
      BY DEF DepsDone
    <2>1. CASE nodeStatus'[k] = FutureStatus(g, k)
      BY <1>7, <1>11, <2>1 DEF FutureStatus, Started
    <2>2. CASE k \in Rows \ Touched(g) /\ nodeStatus'[k] = nodeStatus[k]
      <3>1. nodeStatus[d] = "done"
        BY <1>8, <2>2 DEF FrontierInv, FrontierExact, DepsDone
      <3> QED
        BY <1>7, <1>11, <3>1
    <2> QED
      BY <1>10, <2>1, <2>2
  <1>13. NoLostUnlock'
    <2> SUFFICES ASSUME NEW k \in Rows', nodeStatus'[k] = "pending"
                 PROVE  \E d \in g.deps[k] : nodeStatus'[d] # "done"
      BY DEF NoLostUnlock
    <2>1. CASE nodeStatus'[k] = FutureStatus(g, k)
      BY <1>7, <1>11, <2>1 DEF FutureStatus
    <2>2. CASE k \in Rows \ Touched(g) /\ nodeStatus'[k] = nodeStatus[k]
      <3>1. PICK d \in g.deps[k] : nodeStatus[d] # "done"
        BY <1>8, <2>2 DEF FrontierInv, FrontierExact, NoLostUnlock
      <3> QED
        BY <1>7, <1>11, <3>1
    <2> QED
      BY <1>10, <2>1, <2>2
  <1> QED
    BY <1>1, <1>2, <1>9, <1>12, <1>13 DEF FrontierInv, FrontierExact

(* A confirmed edit, of a draft or of a running instance. *)
LEMMA ConfirmEditFrontier ==
    ASSUME FrontierInv, TypeOK', NEW p \in previews, ConfirmEdit(p)
    PROVE  FrontierInv'
  <1>1. PICK g \in Snapshot : g = p.graph
    BY DEF FrontierInv, TypeOK, Preview
  <1>2. snapshot' = g /\ EditAllowed(g)
    BY <1>1 DEF ConfirmEdit
  <1>3. CASE EditFuture(g)
    BY <1>2, <1>3, EditFutureFrontier
  <1>4. CASE EditDraft(g)
    <2>1. Valid(snapshot)'
      BY <1>2 DEF EditAllowed, Valid, Acyclic, IsDecision
    <2>2. Rows' = {}
      BY <1>4 DEF EditDraft, rowVars, Rows, FrontierInv
    <2> QED
      BY <2>1, <2>2 DEF FrontierInv, FrontierExact, DepsDone, NoLostUnlock
  <1> QED
    BY <1>1, <1>3, <1>4 DEF ConfirmEdit

-----------------------------------------------------------------------------
(* Every step keeps the frontier exact. *)
LEMMA NextFrontier == FrontierInv /\ [Next]_vars => FrontierInv'
  <1> SUFFICES ASSUME FrontierInv, [Next]_vars PROVE FrontierInv'
    OBVIOUS
  <1> TypeOK'
    BY NextType DEF FrontierInv
  <1>1. CASE ConfirmDraft
    BY <1>1, ConfirmDraftFrontier
  <1>2. CASE DiscardDraft \/ Pause \/ Resume
    BY <1>2, NodesUntouched
    DEF DiscardDraft, Pause, Resume, MoveTo, graphVars, rowVars
  <1>3. CASE Cancel
    BY <1>3, CancelFrontier
  <1>4. CASE \E t \in Keys \cup {NoKey} : PreviewRestart(t)
    BY <1>4, NodesUntouched
    DEF PreviewRestart, instanceVars, graphVars, rowVars
  <1>5. CASE \E g \in Edits : PreviewEdit(g)
    BY <1>5, NodesUntouched
    DEF PreviewEdit, instanceVars, graphVars, rowVars
  <1>6. CASE \E p \in previews : ConfirmRestart(p)
    <2>1. PICK p \in previews : ConfirmRestart(p)
      BY <1>6
    <2>2. PICK t \in Keys \cup {NoKey} : t = p.target
      BY DEF FrontierInv, TypeOK, Preview
    <2> QED
      BY <2>1, <2>2, ApplyRestartFrontier DEF ConfirmRestart
  <1>7. CASE \E p \in previews : ConfirmEdit(p)
    BY <1>7, ConfirmEditFrontier
  <1>8. CASE \E k \in Keys : Answer(k) \/ Takeover(k)
    BY <1>8, AnswerFrontier, TakeoverFrontier
  <1>9. CASE \E k \in Keys : Retry(k)
    BY <1>9, ApplyRestartFrontier DEF Retry, Recoverable
  <1>10. CASE \E k \in Keys : \E p \in People : Transfer(k, p)
    BY <1>10, NodesUntouched DEF Transfer, graphVars
  <1>11. CASE \E w \in Workers : \E c \in Keys \cup {NoKey} : Dispatch(w, c)
    BY <1>11, DispatchFrontier
  <1>12. CASE \E w \in Workers : Finish(w)
    BY <1>12, FinishFrontier
  <1>13. CASE \E w \in Workers : Renew(w) \/ Abandon(w)
    BY <1>13, NodesUntouched
    DEF Renew, Abandon, instanceVars, graphVars, rowVars
  <1>14. CASE \E k \in Keys : ClaimExpires(k)
    BY <1>14, NodesUntouched DEF ClaimExpires, instanceVars, graphVars
  <1>15. CASE UNCHANGED vars
    BY <1>15, NodesUntouched DEF vars
  <1> QED
    BY <1>1, <1>2, <1>3, <1>4, <1>5, <1>6, <1>7, <1>8, <1>9, <1>10, <1>11,
       <1>12, <1>13, <1>14, <1>15
    DEF Next, Owner, NodeOwner, Worker

(* The frontier stays exact: whatever is ready, at work or finished stands *)
(* on finished dependencies, and whatever is pending has somebody left to  *)
(* wait for, through every restart, recovery and edit of the graph.        *)
THEOREM FrontierStaysExact == Spec => []FrontierExact
  <1>1. Init => FrontierInv
    BY InitFrontier
  <1>2. FrontierInv /\ [Next]_vars => FrontierInv'
    BY NextFrontier
  <1>3. FrontierInv => FrontierExact
    BY DEF FrontierInv
  <1> QED
    BY <1>1, <1>2, <1>3, PTL DEF Spec

-----------------------------------------------------------------------------
(* A claim sits on a running attempt and on no other. *)
ClaimFits(a) ==
    /\ a.token # 0 <=> a.status = "running"
    /\ a.claimedBy # NoWorker <=> a.status = "running"
    /\ a.live => a.status = "running"

(* AttemptsMatchNodes for one row. *)
RowMatches(k) ==
    /\ k \in Rows => k \in snapshot.nodes
    /\ k \in Rows <=> current[k] > 0
    /\ k \in Rows => Cur(k).status = MatchingAttempt(nodeStatus[k])
    /\ \A n \in AttemptNo :
          /\ n = 0 \/ n > current[k] <=> attempts[k][n].status = "none"
          /\ n \in 1 .. current[k] - 1 => attempts[k][n].status \in Terminal
          /\ ClaimFits(attempts[k][n])
          /\ attempts[k][n].status = "running" => ~IsHuman(k)

(* The table is its rows. *)
LEMMA RowByRow ==
    AttemptsMatchNodes <=> \A k \in Keys : RowMatches(k)
  BY DEF AttemptsMatchNodes, RowMatches, ClaimFits, Rows

(* The same in the next state. *)
LEMMA RowByRowNext ==
    AttemptsMatchNodes' <=> \A k \in Keys : RowMatches(k)'
  BY DEF AttemptsMatchNodes, RowMatches, ClaimFits, Rows, Cur, IsHuman

(* States of a node that has captured its inputs. *)
WorkedOn == {"running", "waiting", "done", "failed"}

(* The graph may change around a node that has been worked on, not at it.  *)
KeepsSpec(k) ==
    /\ nodeStatus'[k] # "absent" => k \in snapshot'.nodes
    /\ nodeStatus'[k] \in WorkedOn => SameSpec(snapshot', snapshot, k)

(* Nothing happens to the row. *)
Stays(k) ==
    /\ nodeStatus'[k] = nodeStatus[k]
    /\ current'[k] = current[k]
    /\ attempts'[k] = attempts[k]

(* The current attempt of an unfinished node goes on. *)
Moves(k) ==
    /\ nodeStatus[k] \in Unfinished /\ nodeStatus'[k] # "absent"
    /\ current'[k] = current[k]
    /\ \E a \in Attempt :
          /\ attempts'[k] = [attempts[k] EXCEPT ![current[k]] = a]
          /\ a.status = MatchingAttempt(nodeStatus'[k])
          /\ ClaimFits(a)
          /\ a.status = "running" => snapshot.executor[k] # "human"
          /\ nodeStatus'[k] \in WorkedOn =>
                /\ nodeStatus[k] # "pending"
                /\ a.inputs = IF nodeStatus[k] = "ready" THEN InputsOf(k)
                                                         ELSE Cur(k).inputs

(* A new attempt replaces the current one, which ends if it has not. *)
StartsOver(k) ==
    /\ nodeStatus[k] # "absent"
    /\ nodeStatus'[k] \in {"pending", "ready", "waiting"}
    /\ nodeStatus'[k] = "waiting" => nodeStatus[k] = "failed"
    /\ current[k] < MaxAttempt /\ current'[k] = current[k] + 1
    /\ \E a, old \in Attempt :
          /\ attempts'[k] = [attempts[k] EXCEPT ![current[k]] = old,
                                                ![current[k] + 1] = a]
          /\ IF Cur(k).status \in Terminal THEN old = Cur(k)
                                           ELSE old = Ended(Cur(k), "canceled")
          /\ a.status = MatchingAttempt(nodeStatus'[k]) /\ ClaimFits(a)
          /\ nodeStatus'[k] = "waiting" => a.inputs = InputsOf(k)

(* A row is created with its first attempt. *)
Appears(k) ==
    /\ nodeStatus[k] = "absent" /\ nodeStatus'[k] \in {"pending", "ready"}
    /\ current'[k] = 1
    /\ attempts'[k] =
          [attempts[k] EXCEPT ![1] = NewAttempt("pending", NoInputs, FALSE)]

(* A row that was never worked on is removed with its attempts. *)
Disappears(k) ==
    /\ nodeStatus[k] \in {"pending", "ready"} /\ nodeStatus'[k] = "absent"
    /\ current'[k] = 0
    /\ attempts'[k] = WithoutAttempts(k)

RowStep(k) ==
    /\ KeepsSpec(k)
    /\ Stays(k) \/ Moves(k) \/ StartsOver(k) \/ Appears(k) \/ Disappears(k)

-----------------------------------------------------------------------------
(* Whatever kind of step it is, the attempts of the row follow its node.   *)
LEMMA RowStepMatches ==
    ASSUME TypeOK, TypeOK', NEW k \in Keys, RowMatches(k), RowStep(k)
    PROVE  RowMatches(k)'
  <1> USE DEF RowMatches, Rows, Cur, IsHuman, ClaimFits, MatchingAttempt
  <1>1. /\ nodeStatus[k] \in NodeStatus /\ nodeStatus'[k] \in NodeStatus
        /\ current[k] \in AttemptNo /\ MaxAttempt \in Nat \ {0}
        /\ attempts[k] \in [AttemptNo -> Attempt]
        /\ snapshot \in Snapshot /\ snapshot' \in Snapshot
    BY WorkflowAssumption DEF TypeOK
  <1>2. nodeStatus'[k] # "absent" => k \in snapshot'.nodes
    BY DEF RowStep, KeepsSpec
  <1>3. CASE Stays(k)
    <2>1. nodeStatus[k] = "running" => snapshot'.executor[k] = snapshot.executor[k]
      BY <1>3 DEF Stays, RowStep, KeepsSpec, WorkedOn, SameSpec
    <2>2. \A n \in AttemptNo :
             attempts[k][n].status = "running" => nodeStatus[k] = "running"
      BY <1>1 DEF Terminal
    <2> QED
      BY <1>1, <1>2, <1>3, <2>1, <2>2 DEF Stays
  <1>4. CASE Moves(k)
    <2>1. PICK a \in Attempt :
             /\ attempts'[k] = [attempts[k] EXCEPT ![current[k]] = a]
             /\ a.status = MatchingAttempt(nodeStatus'[k])
             /\ ClaimFits(a)
             /\ a.status = "running" => snapshot.executor[k] # "human"
      BY <1>4 DEF Moves
    <2>2. a.status = "running" => snapshot'.executor[k] # "human"
      BY <2>1 DEF RowStep, KeepsSpec, WorkedOn, SameSpec
    <2>3. \A n \in AttemptNo \ {current[k]} : attempts[k][n].status # "running"
      BY <1>1 DEF Terminal
    <2>4. current'[k] = current[k] /\ current[k] > 0 /\ a.status # "none"
      BY <1>1, <1>4, <2>1 DEF Moves, Unfinished
    <2>5. \A n \in AttemptNo :
             attempts'[k][n] = IF n = current[k] THEN a ELSE attempts[k][n]
      BY <1>1, <2>1
    <2> QED
      BY <1>1, <1>2, <1>4, <2>1, <2>2, <2>3, <2>4, <2>5 DEF Moves
  <1>5. CASE StartsOver(k)
    <2>1. PICK a \in Attempt, old \in Attempt :
             /\ attempts'[k] = [attempts[k] EXCEPT ![current[k]] = old,
                                                   ![current[k] + 1] = a]
             /\ IF Cur(k).status \in Terminal THEN old = Cur(k)
                                              ELSE old = Ended(Cur(k), "canceled")
             /\ a.status = MatchingAttempt(nodeStatus'[k]) /\ ClaimFits(a)
      BY <1>5 DEF StartsOver
    <2>2. old.status \in Terminal /\ ClaimFits(old)
      <3>1. CASE Cur(k).status \in Terminal
        BY <1>1, <2>1, <3>1
      <3>2. CASE Cur(k).status \notin Terminal
        <4>1. Cur(k) \in Attempt /\ old = Ended(Cur(k), "canceled")
          BY <1>1, <2>1, <3>2
        <4> QED
          BY <4>1 DEF Ended, Attempt, Terminal
      <3> QED
        BY <3>1, <3>2
    <2>3. a.status \in {"pending", "waiting"}
      BY <1>5, <2>1 DEF StartsOver
    <2>4. current'[k] = current[k] + 1 /\ current[k] > 0
      BY <1>1, <1>5 DEF StartsOver
    <2>5. \A n \in AttemptNo :
             attempts'[k][n] = IF n = current[k] + 1 THEN a
                               ELSE IF n = current[k] THEN old ELSE attempts[k][n]
      BY <1>1, <1>5, <2>1 DEF StartsOver
    <2>6. \A n \in AttemptNo : attempts'[k][n].status # "running"
      BY <1>1, <2>2, <2>3, <2>5 DEF Terminal
    <2>7. (k \in Rows)' /\ Cur(k)' = a
      BY <1>1, <1>5, <2>4, <2>5 DEF StartsOver
    <2>8. \A n \in AttemptNo :
             /\ n = 0 \/ n > current'[k] <=> attempts'[k][n].status = "none"
             /\ n \in 1 .. current'[k] - 1 => attempts'[k][n].status \in Terminal
      BY <1>1, <2>2, <2>3, <2>4, <2>5 DEF Terminal
    <2>9. \A n \in AttemptNo : ClaimFits(attempts'[k][n])
      BY <2>1, <2>2, <2>5
    <2>10. (k \in Rows)' <=> current'[k] > 0
      BY <1>1, <2>4, <2>7
    <2>11. Cur(k)'.status = MatchingAttempt(nodeStatus'[k])
      BY <2>1, <2>7
    <2> HIDE DEF Cur, ClaimFits
    <2> QED
      BY <1>2, <2>6, <2>7, <2>8, <2>9, <2>10, <2>11
  <1>6. CASE Appears(k)
    <2>1. current[k] = 0 /\ \A n \in AttemptNo : attempts[k][n].status = "none"
      BY <1>1, <1>6 DEF Appears
    <2>2. \A n \in AttemptNo :
             attempts'[k][n] = IF n = 1 THEN NewAttempt("pending", NoInputs, FALSE)
                                        ELSE attempts[k][n]
      BY <1>1, <1>6 DEF Appears
    <2> QED
      BY <1>1, <1>2, <1>6, <2>1, <2>2 DEF Appears, NewAttempt
  <1>7. CASE Disappears(k)
    <2>1. \A n \in AttemptNo : attempts'[k][n] = NoAttempt
      BY <1>7 DEF Disappears, WithoutAttempts
    <2> QED
      BY <1>1, <1>7, <2>1 DEF Disappears, NoAttempt, NewAttempt
  <1> QED
    BY <1>3, <1>4, <1>5, <1>6, <1>7 DEF RowStep

(* Nor does any of them touch an attempt that has ended, but a removal.    *)
LEMMA RowStepFreezes ==
    ASSUME TypeOK, NEW k \in Keys, RowMatches(k), RowStep(k),
           nodeStatus'[k] # "absent",
           NEW n \in AttemptNo, attempts[k][n].status \in Terminal
    PROVE  attempts'[k][n] = attempts[k][n]
  <1> USE DEF RowMatches, Rows, Cur, MatchingAttempt
  <1>1. /\ nodeStatus[k] \in NodeStatus
        /\ current[k] \in AttemptNo /\ MaxAttempt \in Nat \ {0}
        /\ attempts[k] \in [AttemptNo -> Attempt]
    BY WorkflowAssumption DEF TypeOK
  <1>2. n # 0 /\ n <= current[k]
    BY <1>1 DEF Terminal
  <1>3. CASE Stays(k)
    BY <1>3 DEF Stays
  <1>4. CASE Moves(k)
    <2>1. n # current[k]
      BY <1>1, <1>4 DEF Moves, Unfinished, Terminal
    <2> QED
      BY <1>1, <1>4, <2>1 DEF Moves
  <1>5. CASE StartsOver(k)
    BY <1>1, <1>2, <1>5 DEF StartsOver
  <1>6. CASE Appears(k)
    BY <1>1, <1>2, <1>6 DEF Appears
  <1>7. CASE Disappears(k)
    BY <1>7 DEF Disappears
  <1> QED
    BY <1>3, <1>4, <1>5, <1>6, <1>7 DEF RowStep

-----------------------------------------------------------------------------
(* The inductive invariant.  StatusAgrees alone is not inductive: a draft  *)
(* can be resumed without rows, and an edit then adds rows to a graph most *)
(* of whose nodes have none.  What keeps such an instance from ever being  *)
(* called done is that none of its rows can have left the start.           *)
NotStarted ==
    ~Materialised => \A k \in Rows : nodeStatus[k] \in {"pending", "ready"}

AgreementInv == FrontierInv /\ StatusAgrees /\ NotStarted

(* What the commands need to know of a row. *)
LEMMA RowFacts ==
    ASSUME AgreementInv, NEW k \in Keys
    PROVE  /\ RowMatches(k)
           /\ nodeStatus[k] \in NodeStatus /\ current[k] \in AttemptNo
           /\ attempts[k] \in [AttemptNo -> Attempt]
           /\ Cur(k) \in Attempt /\ ClaimFits(Cur(k))
           /\ k \in Rows => Cur(k).status = MatchingAttempt(nodeStatus[k])
  <1>1. RowMatches(k)
    BY RowByRow DEF AgreementInv, StatusAgrees
  <1>2. /\ nodeStatus[k] \in NodeStatus /\ current[k] \in AttemptNo
        /\ attempts[k] \in [AttemptNo -> Attempt]
    BY DEF AgreementInv, FrontierInv, TypeOK
  <1> QED
    BY <1>1, <1>2 DEF RowMatches, Cur

(* A step that leaves the graph alone. *)
LEMMA SameGraph ==
    ASSUME FrontierInv', UNCHANGED snapshot, NEW k \in Keys
    PROVE  KeepsSpec(k)
  BY DEF KeepsSpec, FrontierInv, Rows, SameSpec

(* A step that leaves nodes and attempts alone as well. *)
LEMMA UntouchedRows ==
    ASSUME FrontierInv', UNCHANGED <<snapshot, nodeStatus, current, attempts>>,
           NEW k \in Keys
    PROVE  RowStep(k)
  BY SameGraph DEF RowStep, Stays

(* Confirming a draft creates the rows. *)
LEMMA ConfirmDraftRows ==
    ASSUME AgreementInv, FrontierInv', ConfirmDraft, NEW k \in Keys
    PROVE  RowStep(k)
  <1>1. nodeStatus[k] = "absent"
    BY DEF AgreementInv, FrontierInv, ConfirmDraft, Rows
  <1>2. KeepsSpec(k)
    BY SameGraph DEF ConfirmDraft, graphVars
  <1>3. k \in snapshot.nodes => Appears(k)
    <2> SUFFICES ASSUME k \in snapshot.nodes PROVE Appears(k)
      OBVIOUS
    <2>1. nodeStatus'[k] \in {"pending", "ready"}
      BY DEF ConfirmDraft
    <2>2. /\ current'[k] = 1
          /\ attempts'[k] = [attempts[k] EXCEPT
                                ![1] = NewAttempt("pending", NoInputs, FALSE)]
      BY DEF ConfirmDraft
    <2> QED
      BY <1>1, <2>1, <2>2 DEF Appears
  <1>4. k \notin snapshot.nodes => Stays(k)
    BY DEF ConfirmDraft, Stays, Roots
  <1> QED
    BY <1>2, <1>3, <1>4 DEF RowStep

(* An attempt that ends fits its claim, whatever it was. *)
LEMMA EndedFits ==
    ASSUME NEW a \in Attempt, NEW s \in Terminal
    PROVE  /\ Ended(a, s) \in Attempt /\ ClaimFits(Ended(a, s))
           /\ Ended(a, s).status = s /\ Ended(a, s).inputs = a.inputs
  <1>1. s \in AttemptStatus /\ s # "running"
    BY DEF Terminal
  <1>2. Ended(a, s) \in Attempt
    BY <1>1, EndedType
  <1>3. /\ Ended(a, s).status = s /\ Ended(a, s).claimedBy = NoWorker
        /\ Ended(a, s).token = 0 /\ Ended(a, s).live = FALSE
        /\ Ended(a, s).inputs = a.inputs
    BY DEF Ended, Attempt
  <1> QED
    BY <1>1, <1>2, <1>3 DEF ClaimFits

(* Cancelling ends every unfinished attempt. *)
LEMMA CancelRows ==
    ASSUME AgreementInv, FrontierInv', Cancel, NEW k \in Keys
    PROVE  RowStep(k)
  <1> DEFINE a == Ended(Cur(k), "canceled")
  <1>1. KeepsSpec(k)
    BY SameGraph DEF Cancel, graphVars
  <1>2. a \in Attempt /\ ClaimFits(a) /\ a.status = "canceled"
    BY RowFacts, EndedFits DEF Terminal
  <1>3. CASE nodeStatus[k] \in Unfinished
    <2>1. /\ nodeStatus'[k] = "canceled" /\ current'[k] = current[k]
          /\ attempts'[k] = [attempts[k] EXCEPT ![current[k]] = a]
      BY <1>3, RowFacts DEF Cancel, Rows, Unfinished, Cur
    <2> HIDE DEF a
    <2>2. Moves(k)
      BY <1>2, <1>3, <2>1 DEF Moves, MatchingAttempt, WorkedOn
    <2> QED
      BY <1>1, <2>2 DEF RowStep
  <1>4. CASE nodeStatus[k] \notin Unfinished
    <2>1. Stays(k)
      BY <1>4 DEF Cancel, Stays, Unfinished
    <2> QED
      BY <1>1, <2>1 DEF RowStep
  <1> QED
    BY <1>3, <1>4

(* What a worker claims is a running attempt of its own. *)
LEMMA ClaimedFits ==
    ASSUME AgreementInv, NEW w \in Workers, NEW k \in Keys
    PROVE  /\ Claimed(w, k) \in Attempt /\ ClaimFits(Claimed(w, k))
           /\ Claimed(w, k).status = "running"
           /\ Claimed(w, k).inputs =
                 IF nodeStatus[k] = "ready" THEN InputsOf(k) ELSE Cur(k).inputs
  <1> DEFINE in == IF nodeStatus[k] = "ready" THEN InputsOf(k)
                                              ELSE Cur(k).inputs
  <1>1. Cur(k) \in Attempt /\ in \in [Keys -> AttemptNo]
    BY RowFacts, InputsType DEF AgreementInv, FrontierInv, Attempt
  <1>2. version + 1 \in Nat /\ version + 1 # 0 /\ w # NoWorker
    BY WorkflowAssumption DEF AgreementInv, FrontierInv, TypeOK
  <1>3. Claimed(w, k) = [Cur(k) EXCEPT !.status = "running", !.claimedBy = w,
                            !.token = version + 1, !.live = TRUE, !.inputs = in]
    BY <1>1 DEF Claimed, Attempt
  <1> HIDE DEF in
  <1>4. /\ Claimed(w, k) \in Attempt /\ ClaimFits(Claimed(w, k))
        /\ Claimed(w, k).status = "running" /\ Claimed(w, k).inputs = in
    BY <1>1, <1>2, <1>3 DEF Attempt, ClaimFits
  <1> QED
    BY <1>4 DEF in

(* A dispatch starts ready nodes and takes over expired claims. *)
LEMMA DispatchRows ==
    ASSUME AgreementInv, FrontierInv', NEW w \in Workers,
           NEW c \in Keys \cup {NoKey}, Dispatch(w, c), NEW k \in Keys
    PROVE  RowStep(k)
  <1>1. KeepsSpec(k)
    BY SameGraph DEF Dispatch, graphVars
  <1>2. current'[k] = current[k]
    BY DEF Dispatch
  <1>0. k = c => /\ k \notin ReadyHumans
                 /\ nodeStatus[k] \in {"ready", "running"}
                 /\ snapshot.executor[k] # "human"
    <2> SUFFICES ASSUME k = c
                 PROVE  /\ nodeStatus[k] \in {"ready", "running"}
                        /\ snapshot.executor[k] # "human"
      BY DEF ReadyHumans, IsHuman
    <2>1. k \in Claimable(w)
      BY KeyAssumption DEF Dispatch
    <2> QED
      BY <2>1, WorkflowAssumption DEF Claimable, Reclaimable, Served
  <1>3. CASE k \in ReadyHumans
    <2> DEFINE a == [[Cur(k) EXCEPT !.status = "waiting"]
                        EXCEPT !.inputs = InputsOf(k)]
    <2>1. nodeStatus[k] = "ready" /\ nodeStatus'[k] = "waiting"
      <3>1. nodeStatus'[k] = "waiting"
        BY <1>3, <1>0 DEF Dispatch
      <3> QED
        BY <1>3, <3>1 DEF ReadyHumans
    <2>2. Cur(k).status = "pending" /\ InputsOf(k) \in [Keys -> AttemptNo]
      BY <1>3, <2>1, RowFacts, InputsType
      DEF MatchingAttempt, ReadyHumans, AgreementInv, FrontierInv
    <2>3. /\ a \in Attempt /\ ClaimFits(a)
          /\ a.status = "waiting" /\ a.inputs = InputsOf(k)
      BY <2>2, RowFacts DEF Attempt, ClaimFits
    <2>4. attempts'[k] = [attempts[k] EXCEPT ![current[k]] = a]
      <3>1. attempts'[k] = [attempts[k] EXCEPT
                               ![current[k]].status = "waiting",
                               ![current[k]].inputs = InputsOf(k)]
        BY <1>3, <1>0 DEF Dispatch
      <3>2. /\ attempts[k] \in [AttemptNo -> Attempt]
            /\ current[k] \in AttemptNo
        BY RowFacts
      <3> QED
        BY <3>1, <3>2 DEF Cur
    <2> HIDE DEF a
    <2>5. Moves(k)
      BY <1>2, <2>1, <2>3, <2>4 DEF Moves, MatchingAttempt, WorkedOn, Unfinished
    <2> QED
      BY <1>1, <2>5 DEF RowStep
  <1>4. CASE k = c /\ k \notin ReadyHumans
    <2>1. PICK a \in Attempt : a = Claimed(w, k)
      BY ClaimedFits
    <2>2. /\ ClaimFits(a) /\ a.status = "running"
          /\ a.inputs = IF nodeStatus[k] = "ready" THEN InputsOf(k)
                                                   ELSE Cur(k).inputs
      BY <2>1, ClaimedFits
    <2>3. /\ nodeStatus'[k] = "running"
          /\ attempts'[k] = [attempts[k] EXCEPT ![current[k]] = a]
      BY <1>4, <2>1 DEF Dispatch
    <2>4. Moves(k)
      BY <1>0, <1>2, <1>4, <2>2, <2>3
      DEF Moves, MatchingAttempt, WorkedOn, Unfinished
    <2> QED
      BY <1>1, <2>4 DEF RowStep
  <1>5. CASE k # c /\ k \notin ReadyHumans
    <2>1. Stays(k)
      BY <1>2, <1>5 DEF Dispatch, Stays
    <2> QED
      BY <1>1, <2>1 DEF RowStep
  <1> QED
    BY <1>3, <1>4, <1>5

(* Completing a node ends its attempt; the successors it unlocks only      *)
(* become ready.                                                           *)
LEMMA FinishNodeRows ==
    ASSUME AgreementInv, FrontierInv', NEW x \in Keys,
           nodeStatus[x] \in {"running", "waiting"}, FinishNode(x),
           NEW k \in Keys
    PROVE  RowStep(k)
  <1>1. KeepsSpec(k)
    BY SameGraph DEF FinishNode, graphVars
  <1>2. current'[k] = current[k]
    BY DEF FinishNode
  <1>3. nodeStatus'[k] = IF k \in Unlocked(x) THEN "ready"
                         ELSE IF k = x THEN "done" ELSE nodeStatus[k]
    BY DEF FinishNode, AfterDone, AgreementInv, FrontierInv, TypeOK
  <1>4. k \in Unlocked(x) => k # x /\ nodeStatus[k] = "pending"
    BY DEF Unlocked, ReadyKeys, AfterDone, AgreementInv, FrontierInv, TypeOK
  <1>5. CASE k = x
    <2>1. PICK a \in Attempt : a = Ended(Cur(k), "done")
      BY RowFacts, EndedFits DEF Terminal
    <2>2. ClaimFits(a) /\ a.status = "done" /\ a.inputs = Cur(k).inputs
      BY <2>1, RowFacts, EndedFits DEF Terminal
    <2>3. attempts'[k] = [attempts[k] EXCEPT ![current[k]] = a]
      BY <1>5, <2>1 DEF FinishNode, SetCurrent, AgreementInv, FrontierInv, TypeOK
    <2>4. nodeStatus'[k] = "done"
      BY <1>3, <1>4, <1>5
    <2>5. Moves(k)
      BY <1>2, <1>5, <2>2, <2>3, <2>4
      DEF Moves, MatchingAttempt, WorkedOn, Unfinished
    <2> QED
      BY <1>1, <2>5 DEF RowStep
  <1>6. CASE k # x
    <2>1. attempts'[k] = attempts[k]
      BY <1>6 DEF FinishNode, SetCurrent, AgreementInv, FrontierInv, TypeOK
    <2>2. CASE k \in Unlocked(x)
      <3>1. PICK a \in Attempt : a = Cur(k)
        BY RowFacts
      <3>2. ClaimFits(a) /\ a.status = "pending"
        BY <1>4, <2>2, <3>1, RowFacts DEF Rows, MatchingAttempt
      <3>3. attempts'[k] = [attempts[k] EXCEPT ![current[k]] = a]
        BY <2>1, <3>1, RowFacts DEF Cur
      <3>4. nodeStatus'[k] = "ready"
        BY <1>3, <2>2
      <3>5. Moves(k)
        BY <1>2, <1>4, <2>2, <3>2, <3>3, <3>4
        DEF Moves, MatchingAttempt, WorkedOn, Unfinished
      <3> QED
        BY <1>1, <3>5 DEF RowStep
    <2>3. CASE k \notin Unlocked(x)
      <3>1. Stays(k)
        BY <1>2, <1>3, <1>6, <2>1, <2>3 DEF Stays
      <3> QED
        BY <1>1, <3>1 DEF RowStep
    <2> QED
      BY <2>2, <2>3
  <1> QED
    BY <1>5, <1>6

(* A failure ends the attempt of its node and touches no other.            *)
LEMMA FailNodeRows ==
    ASSUME AgreementInv, FrontierInv', NEW x \in Keys, NEW a \in Attempt,
           nodeStatus[x] \in {"running", "waiting"}, FailNode(x, a),
           ClaimFits(a), a.status = "failed", a.inputs = Cur(x).inputs,
           NEW k \in Keys
    PROVE  RowStep(k)
  <1>1. KeepsSpec(k)
    BY SameGraph DEF FailNode, graphVars
  <1>2. current'[k] = current[k]
    BY DEF FailNode
  <1>3. nodeStatus'[k] = IF k = x THEN "failed" ELSE nodeStatus[k]
    BY DEF FailNode, AgreementInv, FrontierInv, TypeOK
  <1>4. attempts'[k] = IF k = x THEN [attempts[k] EXCEPT ![current[k]] = a]
                                ELSE attempts[k]
    BY DEF FailNode, SetCurrent, AgreementInv, FrontierInv, TypeOK
  <1>5. k # x => Stays(k)
    BY <1>2, <1>3, <1>4 DEF Stays
  <1>6. k = x => Moves(k)
    BY <1>2, <1>3, <1>4 DEF Moves, MatchingAttempt, WorkedOn, Unfinished
  <1> QED
    BY <1>1, <1>5, <1>6 DEF RowStep

(* A person's answer. *)
LEMMA AnswerRows ==
    ASSUME AgreementInv, FrontierInv', NEW x \in Keys, Answer(x), NEW k \in Keys
    PROVE  RowStep(k)
  <1>1. CASE Submit(x)
    BY <1>1, FinishNodeRows DEF Submit
  <1>2. CASE Reject(x)
    <2> DEFINE e == Ended(Cur(x), "failed")
    <2>1. /\ e \in Attempt /\ ClaimFits(e)
          /\ e.status = "failed" /\ e.inputs = Cur(x).inputs
      BY RowFacts, EndedFits DEF Terminal
    <2>2. FailNode(x, [e EXCEPT !.rejected = TRUE]) /\ nodeStatus[x] = "waiting"
      BY <1>2 DEF Reject
    <2> HIDE DEF e
    <2>3. PICK a \in Attempt : a = [e EXCEPT !.rejected = TRUE]
      BY <2>1 DEF Attempt
    <2>4. ClaimFits(a) /\ a.status = "failed" /\ a.inputs = Cur(x).inputs
      BY <2>1, <2>3 DEF Attempt, ClaimFits
    <2> QED
      BY <2>2, <2>3, <2>4, FailNodeRows
  <1> QED
    BY <1>1, <1>2 DEF Answer

(* A worker's result, committed or dropped. *)
LEMMA FinishRows ==
    ASSUME AgreementInv, FrontierInv', NEW w \in Workers, Finish(w),
           NEW k \in Keys
    PROVE  RowStep(k)
  <1>1. CASE Complete(w) \/ Fail(w)
    <2>1. PICK x \in Keys : x = held[w].key
      BY <1>1, HeldKey DEF Complete, Fail, AgreementInv, FrontierInv
    <2>2. nodeStatus[x] = "running"
      BY <1>1, <2>1 DEF Complete, Fail, ClaimAccepted
    <2>3. CASE Complete(w)
      BY <2>1, <2>2, <2>3, FinishNodeRows DEF Complete
    <2>4. CASE Fail(w)
      <3>1. PICK a \in Attempt : a = Ended(Cur(x), "failed")
        BY RowFacts, EndedFits DEF Terminal
      <3>2. ClaimFits(a) /\ a.status = "failed" /\ a.inputs = Cur(x).inputs
        BY <3>1, RowFacts, EndedFits DEF Terminal
      <3> QED
        BY <2>1, <2>2, <2>4, <3>1, <3>2, FailNodeRows DEF Fail
    <2> QED
      BY <1>1, <2>3, <2>4
  <1>2. CASE DropResult(w)
    BY <1>2, UntouchedRows DEF DropResult, instanceVars, graphVars, rowVars
  <1> QED
    BY <1>1, <1>2 DEF Finish

(* The expiry of a claim leaves it on the attempt, no longer live.         *)
LEMMA ClaimExpiresRows ==
    ASSUME AgreementInv, FrontierInv', NEW x \in Keys, ClaimExpires(x),
           NEW k \in Keys
    PROVE  RowStep(k)
  <1>1. KeepsSpec(k)
    BY SameGraph DEF ClaimExpires, graphVars
  <1>2. current'[k] = current[k] /\ nodeStatus'[k] = nodeStatus[k]
    BY DEF ClaimExpires
  <1>3. CASE k = x
    <2>1. /\ Cur(k) \in Attempt /\ ClaimFits(Cur(k))
          /\ Cur(k).status = "running" /\ nodeStatus[k] = "running"
      BY <1>3, RowFacts DEF ClaimExpires, MatchingAttempt
    <2>2. snapshot.executor[k] # "human"
      BY <2>1, RowFacts DEF RowMatches, Cur, IsHuman
    <2>3. PICK a \in Attempt : a = [Cur(k) EXCEPT !.live = FALSE]
      BY <2>1 DEF Attempt
    <2>4. ClaimFits(a) /\ a.status = "running" /\ a.inputs = Cur(k).inputs
      BY <2>1, <2>3 DEF ClaimFits, Attempt
    <2>5. attempts'[k] = [attempts[k] EXCEPT ![current[k]] = a]
      BY <1>3, <2>3
      DEF ClaimExpires, SetCurrent, AgreementInv, FrontierInv, TypeOK
    <2>6. Moves(k)
      BY <1>2, <2>1, <2>2, <2>4, <2>5
      DEF Moves, MatchingAttempt, WorkedOn, Unfinished
    <2> QED
      BY <1>1, <2>6 DEF RowStep
  <1>4. CASE k # x
    <2>1. Stays(k)
      BY <1>2, <1>4
      DEF Stays, ClaimExpires, SetCurrent, AgreementInv, FrontierInv, TypeOK
    <2> QED
      BY <1>1, <2>1 DEF RowStep
  <1> QED
    BY <1>3, <1>4

(* An attempt that has ended is not changed by ending it again. *)
LEMMA EndedStays ==
    ASSUME NEW a \in Attempt, ClaimFits(a), a.status \in Terminal
    PROVE  Ended(a, a.status) = a
  <1>1. a.token = 0 /\ a.claimedBy = NoWorker /\ a.live = FALSE
    BY DEF ClaimFits, Terminal, Attempt
  <1> QED
    BY <1>1 DEF Ended, Attempt

(* What a restart begins with. *)
LEMMA FreshFits ==
    ASSUME NEW s \in {"pending", "waiting"}, NEW in \in [Keys -> AttemptNo],
           NEW rework \in BOOLEAN
    PROVE  /\ NewAttempt(s, in, rework) \in Attempt
           /\ ClaimFits(NewAttempt(s, in, rework))
           /\ NewAttempt(s, in, rework).status = s
           /\ NewAttempt(s, in, rework).inputs = in
  <1>1. NewAttempt(s, in, rework) \in Attempt
    BY NewAttemptType
  <1> QED
    BY <1>1 DEF NewAttempt, ClaimFits

(* A restart starts every node of its impact over. *)
LEMMA ApplyRestartRows ==
    ASSUME AgreementInv, FrontierInv', NEW t \in Keys \cup {NoKey},
           RestartAllowed(t), ApplyRestart(t), NEW k \in Keys
    PROVE  RowStep(k)
  <1> DEFINE close(a) == Ended(a, IF a.status \in Terminal THEN a.status
                                                           ELSE "canceled")
             fresh == NewAttempt("pending", NoInputs, k = t /\ ReworkFor(t))
             starts == IF t = NoKey THEN Roots(snapshot) ELSE {t}
  <1>1. KeepsSpec(k)
    BY SameGraph DEF ApplyRestart, graphVars
  <1>2. CASE k \in RestartImpact(t)
    <2>1. nodeStatus[k] # "absent" /\ current[k] < MaxAttempt
      BY <1>2 DEF ApplyRestart, Rows
    <2>2. nodeStatus'[k] \in {"pending", "ready"}
      <3>1. nodeStatus' = [x \in Keys |->
                CASE x \in starts                         -> "ready"
                  [] x \in RestartImpact(t) \ starts      -> "pending"
                  [] OTHER                                -> nodeStatus[x]]
        BY DEF ApplyRestart
      <3> HIDE DEF starts
      <3> QED
        BY <1>2, <3>1
    <2>3. current'[k] = current[k] + 1
      BY <1>2 DEF ApplyRestart
    <2>4. PICK a \in Attempt : a = fresh
      <3>1. NoInputs \in [Keys -> AttemptNo]
        BY WorkflowAssumption DEF NoInputs
      <3> QED
        BY <3>1, FreshFits
    <2>5. ClaimFits(a) /\ a.status = "pending"
      BY <2>4 DEF NewAttempt, ClaimFits
    <2>6. Cur(k) \in Attempt /\ ClaimFits(Cur(k))
      BY RowFacts
    <2>7. PICK old \in Attempt : old = close(Cur(k))
      BY <2>6, EndedType DEF Attempt, Terminal
    <2>8. IF Cur(k).status \in Terminal THEN old = Cur(k)
                                        ELSE old = Ended(Cur(k), "canceled")
      BY <2>6, <2>7, EndedStays
    <2>9. attempts'[k] = [attempts[k] EXCEPT ![current[k]] = old,
                                             ![current[k] + 1] = a]
      <3>1. attempts'[k] = [attempts[k] EXCEPT ![current[k]] = close(@),
                                               ![current[k] + 1] = fresh]
        BY <1>2 DEF ApplyRestart
      <3> HIDE DEF close, fresh
      <3> QED
        BY <2>4, <2>7, <3>1, RowFacts DEF Cur
    <2>10. StartsOver(k)
      BY <2>1, <2>2, <2>3, <2>5, <2>8, <2>9 DEF StartsOver, MatchingAttempt
    <2> QED
      BY <1>1, <2>10 DEF RowStep
  <1>3. CASE k \notin RestartImpact(t)
    <2>1. k \notin starts
      <3>1. t = NoKey \/ t \in snapshot.nodes
        BY DEF RestartAllowed, AgreementInv, FrontierInv
      <3> QED
        BY <1>3, <3>1, AffectedHasTarget DEF RestartImpact, Roots
    <2>2. Stays(k)
      BY <1>3, <2>1 DEF ApplyRestart, Stays
    <2> QED
      BY <1>1, <2>2 DEF RowStep
  <1> QED
    BY <1>2, <1>3

(* A takeover adds an attempt for the person; the failed one stays.        *)
LEMMA TakeoverRows ==
    ASSUME AgreementInv, FrontierInv', NEW x \in Keys, Takeover(x),
           NEW k \in Keys
    PROVE  RowStep(k)
  <1>1. KeepsSpec(k)
    BY SameGraph DEF Takeover, graphVars
  <1>2. CASE k = x
    <2>1. /\ nodeStatus[k] = "failed" /\ nodeStatus'[k] = "waiting"
          /\ Cur(k).status \in Terminal
          /\ current[k] < MaxAttempt /\ current'[k] = current[k] + 1
      BY <1>2 DEF Takeover, Recoverable, Terminal, AgreementInv, FrontierInv,
                  TypeOK
    <2>2. PICK a \in Attempt : a = NewAttempt("waiting", InputsOf(k), FALSE)
      BY InputsType, FreshFits DEF AgreementInv, FrontierInv
    <2>3. ClaimFits(a) /\ a.status = "waiting" /\ a.inputs = InputsOf(k)
      BY <2>2 DEF NewAttempt, ClaimFits
    <2>4. attempts'[k] = [attempts[k] EXCEPT ![current[k] + 1] = a]
      BY <1>2, <2>2 DEF Takeover, AgreementInv, FrontierInv, TypeOK
    <2>5. PICK old \in Attempt : old = Cur(k)
      BY RowFacts
    <2>6. attempts'[k] = [attempts[k] EXCEPT ![current[k]] = old,
                                             ![current[k] + 1] = a]
      BY <2>4, <2>5, RowFacts DEF Cur
    <2>7. StartsOver(k)
      BY <2>1, <2>3, <2>5, <2>6 DEF StartsOver, MatchingAttempt
    <2> QED
      BY <1>1, <2>7 DEF RowStep
  <1>3. CASE k # x
    <2>1. Stays(k)
      BY <1>3 DEF Takeover, Stays, AgreementInv, FrontierInv, TypeOK
    <2> QED
      BY <1>1, <2>1 DEF RowStep
  <1> QED
    BY <1>2, <1>3

(* An edit creates, removes and resets rows that were never worked on, and *)
(* what has been worked on keeps its specification.                        *)
LEMMA EditFutureRows ==
    ASSUME AgreementInv, FrontierInv', NEW g \in Snapshot, EditAllowed(g),
           EditFuture(g), snapshot' = g, NEW k \in Keys
    PROVE  RowStep(k)
  <1>1. \A x \in Removed(g) \cup Updated(g) : Pristine(x)
    BY DEF EditAllowed, EditFuture
  <1>2. /\ nodeStatus' = [x \in Keys |->
              CASE x \in Removed(g)               -> "absent"
                [] x \in Updated(g) \cup Added(g) -> FutureStatus(g, x)
                [] OTHER                          -> nodeStatus[x]]
        /\ current' = [x \in Keys |->
              CASE x \in Removed(g) -> 0
                [] x \in Added(g)   -> 1
                [] OTHER            -> current[x]]
        /\ attempts' = [x \in Keys |->
            CASE x \in Removed(g) -> WithoutAttempts(x)
              [] x \in Updated(g) ->
                    [attempts[x] EXCEPT ![current[x]].status = "pending",
                                        ![current[x]].rework = FALSE]
              [] x \in Added(g) ->
                    [attempts[x] EXCEPT
                        ![1] = NewAttempt("pending", NoInputs, FALSE)]
              [] OTHER -> attempts[x]]
    BY DEF EditFuture
  <1>3. FutureStatus(g, k) \in {"pending", "ready"}
    BY DEF FutureStatus
  <1>4. CASE k \in Removed(g)
    <2>1. k \notin g.nodes /\ k \notin Updated(g) \cup Added(g)
      BY <1>4 DEF Removed, Updated, Added
    <2>2. nodeStatus[k] \in {"pending", "ready"}
      BY <1>1, <1>4 DEF Pristine
    <2>3. nodeStatus'[k] = "absent"
      BY <1>2, <1>4, <2>1
    <2>4. current'[k] = 0 /\ attempts'[k] = WithoutAttempts(k)
      BY <1>2, <1>4, <2>1
    <2>5. Disappears(k)
      BY <2>2, <2>3, <2>4 DEF Disappears
    <2>6. KeepsSpec(k)
      BY <2>3 DEF KeepsSpec, WorkedOn
    <2> QED
      BY <2>5, <2>6 DEF RowStep
  <1>5. CASE k \in Updated(g)
    <2>1. k \in g.nodes /\ k \notin Removed(g) \cup Added(g)
      BY <1>5 DEF Removed, Updated, Added
    <2>2. /\ nodeStatus[k] \in {"pending", "ready"} /\ Cur(k).status = "pending"
          /\ Cur(k) \in Attempt /\ ClaimFits(Cur(k))
      BY <1>1, <1>5, RowFacts DEF Pristine
    <2>3. nodeStatus'[k] \in {"pending", "ready"} /\ current'[k] = current[k]
      BY <1>2, <1>3, <1>5, <2>1
    <2>4. PICK a \in Attempt : a = [[Cur(k) EXCEPT !.status = "pending"]
                                              EXCEPT !.rework = FALSE]
      BY <2>2 DEF Attempt
    <2>5. ClaimFits(a) /\ a.status = "pending"
      BY <2>2, <2>4 DEF Attempt, ClaimFits
    <2>6. attempts'[k] = [attempts[k] EXCEPT ![current[k]] = a]
      <3>1. attempts'[k] = [attempts[k] EXCEPT
                               ![current[k]].status = "pending",
                               ![current[k]].rework = FALSE]
        BY <1>2, <1>5, <2>1
      <3> QED
        BY <2>4, <3>1, RowFacts DEF Cur
    <2>7. Moves(k)
      BY <2>2, <2>3, <2>5, <2>6 DEF Moves, Unfinished, MatchingAttempt, WorkedOn
    <2>8. KeepsSpec(k)
      BY <2>1, <2>3 DEF KeepsSpec, WorkedOn
    <2> QED
      BY <2>7, <2>8 DEF RowStep
  <1>6. CASE k \in Added(g)
    <2>1. /\ k \in g.nodes /\ k \notin Removed(g) \cup Updated(g)
          /\ nodeStatus[k] = "absent"
      BY <1>6
      DEF Removed, Updated, Added, AgreementInv, FrontierInv, Rows
    <2>2. nodeStatus'[k] \in {"pending", "ready"}
      BY <1>2, <1>3, <1>6, <2>1
    <2>3. /\ current'[k] = 1
          /\ attempts'[k] = [attempts[k] EXCEPT
                                ![1] = NewAttempt("pending", NoInputs, FALSE)]
      BY <1>2, <1>6, <2>1
    <2>4. Appears(k) /\ KeepsSpec(k)
      BY <2>1, <2>2, <2>3 DEF Appears, KeepsSpec, WorkedOn
    <2> QED
      BY <2>4 DEF RowStep
  <1>7. CASE k \notin Touched(g)
    <2>1. Stays(k)
      BY <1>2, <1>7 DEF Stays, Touched
    <2>2. nodeStatus'[k] # "absent" => k \in g.nodes /\ SameSpec(g, snapshot, k)
      BY <1>7, <2>1
      DEF Touched, Removed, Updated, Added, Stays, AgreementInv, FrontierInv,
          Rows
    <2> QED
      BY <2>1, <2>2 DEF RowStep, KeepsSpec, WorkedOn
  <1> QED
    BY <1>4, <1>5, <1>6, <1>7 DEF Touched

(* A confirmed edit: a draft has no rows to change. *)
LEMMA ConfirmEditRows ==
    ASSUME AgreementInv, FrontierInv', NEW p \in previews, ConfirmEdit(p),
           NEW k \in Keys
    PROVE  RowStep(k)
  <1>1. PICK g \in Snapshot : g = p.graph
    BY DEF AgreementInv, FrontierInv, TypeOK, Preview
  <1>2. CASE EditDraft(g)
    BY <1>2
    DEF EditDraft, rowVars, RowStep, Stays, KeepsSpec, WorkedOn, AgreementInv,
        FrontierInv, Rows
  <1>3. CASE EditFuture(g)
    BY <1>1, <1>3, EditFutureRows DEF ConfirmEdit
  <1> QED
    BY <1>1, <1>2, <1>3 DEF ConfirmEdit

(* Whatever step an instance takes, it is a row step for every key.        *)
LEMMA NextRows ==
    ASSUME AgreementInv, FrontierInv', [Next]_vars, NEW k \in Keys
    PROVE  RowStep(k)
  <1>1. CASE ConfirmDraft
    BY <1>1, ConfirmDraftRows
  <1>2. CASE DiscardDraft \/ Pause \/ Resume
    BY <1>2, UntouchedRows
    DEF DiscardDraft, Pause, Resume, MoveTo, graphVars, rowVars
  <1>3. CASE Cancel
    BY <1>3, CancelRows
  <1>4. CASE \E t \in Keys \cup {NoKey} : PreviewRestart(t)
    BY <1>4, UntouchedRows DEF PreviewRestart, instanceVars, graphVars, rowVars
  <1>5. CASE \E g \in Edits : PreviewEdit(g)
    BY <1>5, UntouchedRows DEF PreviewEdit, instanceVars, graphVars, rowVars
  <1>6. CASE \E p \in previews : ConfirmRestart(p)
    <2>1. PICK p \in previews : ConfirmRestart(p)
      BY <1>6
    <2>2. PICK t \in Keys \cup {NoKey} : t = p.target
      BY DEF AgreementInv, FrontierInv, TypeOK, Preview
    <2> QED
      BY <2>1, <2>2, ApplyRestartRows DEF ConfirmRestart
  <1>7. CASE \E p \in previews : ConfirmEdit(p)
    BY <1>7, ConfirmEditRows
  <1>8. CASE \E x \in Keys : Answer(x) \/ Takeover(x)
    BY <1>8, AnswerRows, TakeoverRows
  <1>9. CASE \E x \in Keys : Retry(x)
    BY <1>9, ApplyRestartRows DEF Retry, Recoverable
  <1>10. CASE \E x \in Keys : \E p \in People : Transfer(x, p)
    BY <1>10, UntouchedRows DEF Transfer, graphVars
  <1>11. CASE \E w \in Workers : \E c \in Keys \cup {NoKey} : Dispatch(w, c)
    BY <1>11, DispatchRows
  <1>12. CASE \E w \in Workers : Finish(w)
    BY <1>12, FinishRows
  <1>13. CASE \E w \in Workers : Renew(w) \/ Abandon(w)
    BY <1>13, UntouchedRows
    DEF Renew, Abandon, instanceVars, graphVars, rowVars
  <1>14. CASE \E x \in Keys : ClaimExpires(x)
    BY <1>14, ClaimExpiresRows
  <1>15. CASE UNCHANGED vars
    BY <1>15, UntouchedRows DEF vars
  <1> QED
    BY <1>1, <1>2, <1>3, <1>4, <1>5, <1>6, <1>7, <1>8, <1>9, <1>10, <1>11,
       <1>12, <1>13, <1>14, <1>15
    DEF Next, Owner, NodeOwner, Worker

-----------------------------------------------------------------------------
(* The status of the instance against the states of its rows.              *)
InstanceMatches ==
    /\ status \in {"draft", "discarded"} => Rows = {}
    /\ status = "failed" =>
          /\ \E k \in Rows : nodeStatus[k] = "failed"
          /\ \A j, k \in Rows :
                nodeStatus[j] = "failed" /\ nodeStatus[k] = "failed" => j = k
    /\ status # "failed" => \A k \in Rows : nodeStatus[k] # "failed"
    /\ status = "done" => Materialised /\ \A k \in Rows : nodeStatus[k] = "done"
    /\ status \in Active /\ Materialised =>
          \E k \in Rows : nodeStatus[k] # "done"
    /\ status = "canceled" =>
          \A k \in Rows : nodeStatus[k] \in {"done", "canceled"}
    /\ status # "canceled" => \A k \in Rows : nodeStatus[k] # "canceled"

(* StatusAgrees is that and the agreement row by row. *)
LEMMA StatusParts ==
    /\ StatusAgrees <=> AttemptsMatchNodes /\ InstanceMatches
    /\ StatusAgrees' <=> AttemptsMatchNodes' /\ InstanceMatches'
  BY DEF StatusAgrees, InstanceMatches

(* What every command may use. *)
LEMMA InstanceFacts ==
    ASSUME AgreementInv
    PROVE  /\ InstanceMatches /\ NotStarted
           /\ snapshot.nodes \subseteq Keys /\ snapshot.nodes # {}
           /\ Rows \subseteq snapshot.nodes
           /\ nodeStatus \in [Keys -> NodeStatus]
           /\ status \in InstanceStatus
  BY StatusParts
  DEF AgreementInv, FrontierInv, TypeOK, Valid, Snapshot

(* A step that changes no node: an active instance may stay active, and a  *)
(* draft may be resumed or discarded.                                      *)
LEMMA StatusOnly ==
    ASSUME AgreementInv, UNCHANGED <<snapshot, nodeStatus>>,
           \/ status' = status
           \/ status \in Active /\ status' \in Active
           \/ status = "draft" /\ status' \in {"running", "discarded"}
    PROVE  InstanceMatches' /\ NotStarted'
  <1>1. status = "draft" => ~Materialised
    BY InstanceFacts DEF InstanceMatches, Materialised
  <1> QED
    BY <1>1, InstanceFacts
    DEF InstanceMatches, NotStarted, Materialised, Rows, Active

(* A step that only lets nodes begin to work: nobody comes to an end.      *)
LEMMA NobodyEnds ==
    ASSUME AgreementInv, UNCHANGED <<snapshot, status>>, Materialised,
           nodeStatus' \in [Keys -> NodeStatus],
           \A k \in Keys : \/ nodeStatus'[k] = nodeStatus[k]
                           \/ nodeStatus[k] \in AtWork /\ nodeStatus'[k] \in AtWork
                              /\ nodeStatus[k] # "failed" /\ nodeStatus'[k] # "failed"
    PROVE  InstanceMatches' /\ NotStarted'
  <1>1. \A k \in Keys : \A s \in {"absent", "done", "failed", "canceled"} :
           nodeStatus'[k] = s <=> nodeStatus[k] = s
    BY DEF AtWork, Started
  <1>2. Rows' = Rows /\ Materialised'
    BY <1>1 DEF Rows, Materialised
  <1>3. \A k \in Rows : k \in Keys
    BY DEF Rows
  <1>4. NotStarted'
    BY <1>2 DEF NotStarted
  <1> QED
    BY <1>1, <1>2, <1>3, <1>4, InstanceFacts DEF InstanceMatches

(* Every node waits or is ready: nothing is wrong with a running instance  *)
(* of that kind.                                                           *)
LEMMA AtTheStart ==
    ASSUME AgreementInv, UNCHANGED snapshot, status' = "running",
           \A k \in Rows' : nodeStatus'[k] \in {"pending", "ready"}
    PROVE  InstanceMatches' /\ NotStarted'
  <1>1. NotStarted'
    BY DEF NotStarted
  <1>2. Materialised' => \E k \in Rows' : TRUE
    BY InstanceFacts DEF Materialised
  <1>3. Materialised' => \E k \in Rows' : nodeStatus'[k] # "done"
    BY <1>2
  <1> QED
    BY <1>1, <1>3 DEF InstanceMatches

(* Confirming a draft. *)
LEMMA ConfirmDraftStatus ==
    ASSUME AgreementInv, ConfirmDraft
    PROVE  InstanceMatches' /\ NotStarted'
  <1>1. \A k \in Keys : nodeStatus[k] = "absent"
    BY InstanceFacts DEF ConfirmDraft, InstanceMatches, Rows
  <1>2. \A k \in Keys : nodeStatus'[k] \in {"absent", "pending", "ready"}
    BY <1>1 DEF ConfirmDraft, Roots
  <1>3. UNCHANGED snapshot /\ status' = "running"
    BY DEF ConfirmDraft, graphVars
  <1> QED
    BY <1>2, <1>3, AtTheStart DEF Rows

(* Cancelling leaves done and canceled rows. *)
LEMMA CancelStatus ==
    ASSUME AgreementInv, Cancel
    PROVE  InstanceMatches' /\ NotStarted'
  <1>1. status \in Active /\ Materialised /\ UNCHANGED snapshot
        /\ status' = "canceled"
    BY InstanceFacts DEF Cancel, InstanceTransitions, Active, graphVars
  <1>2. \A k \in Keys :
           nodeStatus'[k] = IF nodeStatus[k] \in Unfinished THEN "canceled"
                                                           ELSE nodeStatus[k]
    BY DEF Cancel, Rows, Unfinished
  <1>3. Rows' = Rows
    BY <1>2 DEF Rows, Unfinished
  <1>4. NotStarted'
    BY <1>1, <1>3 DEF NotStarted, Materialised
  <1>5. \A k \in Rows : nodeStatus[k] \in Unfinished \cup {"done"}
    BY <1>1, InstanceFacts DEF InstanceMatches, Active, Rows, Unfinished
  <1>6. \A k \in Rows' : nodeStatus'[k] \in {"done", "canceled"}
    BY <1>2, <1>3, <1>5 DEF Rows
  <1> QED
    BY <1>1, <1>4, <1>6 DEF InstanceMatches, Active

(* Dispatching. *)
LEMMA DispatchStatus ==
    ASSUME AgreementInv, TypeOK', NEW w \in Workers,
           NEW c \in Keys \cup {NoKey}, Dispatch(w, c)
    PROVE  InstanceMatches' /\ NotStarted'
  <1>1. UNCHANGED <<snapshot, status>> /\ Materialised
    BY DEF Dispatch, graphVars, Dispatchable
  <1>2. c \in Keys => nodeStatus[c] \in {"ready", "running"}
    <2>1. c \in Keys => c \in Claimable(w)
      BY KeyAssumption DEF Dispatch
    <2> QED
      BY <2>1 DEF Claimable, Reclaimable, Served
  <1>3. \A k \in Keys :
           nodeStatus'[k] = CASE k \in ReadyHumans -> "waiting"
                              [] k = c             -> "running"
                              [] OTHER             -> nodeStatus[k]
    BY DEF Dispatch
  <1>4. \A k \in Keys :
           \/ nodeStatus'[k] = nodeStatus[k]
           \/ /\ nodeStatus[k] \in {"ready", "running"}
              /\ nodeStatus'[k] \in {"running", "waiting"}
    BY <1>2, <1>3 DEF ReadyHumans
  <1>5. nodeStatus' \in [Keys -> NodeStatus]
    BY DEF TypeOK
  <1> QED
    BY <1>1, <1>4, <1>5, NobodyEnds DEF AtWork, Started

(* The instance is done with its last node and not before. *)
LEMMA FinishNodeStatus ==
    ASSUME AgreementInv, NEW x \in Keys, status \in Active,
           nodeStatus[x] \in {"running", "waiting"}, FinishNode(x)
    PROVE  InstanceMatches' /\ NotStarted'
  <1>1. UNCHANGED snapshot
    BY DEF FinishNode, graphVars
  <1>2. \A k \in Keys :
           nodeStatus'[k] = IF k \in Unlocked(x) THEN "ready"
                            ELSE IF k = x THEN "done" ELSE nodeStatus[k]
    BY InstanceFacts DEF FinishNode, AfterDone
  <1>3. \A k \in Unlocked(x) : k # x /\ nodeStatus[k] = "pending"
    BY InstanceFacts DEF Unlocked, ReadyKeys, AfterDone
  <1>4. Rows' = Rows /\ x \in Rows
    BY <1>2, <1>3 DEF Rows
  <1>5. Materialised /\ Materialised'
    BY <1>1, <1>4, InstanceFacts DEF NotStarted, Materialised
  <1>6. \A k \in Rows : nodeStatus'[k] \notin {"failed", "canceled"}
    BY <1>2, InstanceFacts DEF InstanceMatches, Active, Rows
  <1>7. status' = IF \A k \in Rows : nodeStatus'[k] = "done" THEN "done"
                                                            ELSE status
    BY <1>4 DEF FinishNode, CompletedBy, Rows
  <1> QED
    BY <1>4, <1>5, <1>6, <1>7 DEF InstanceMatches, NotStarted, Active

(* The first failure is the only one. *)
LEMMA FailNodeStatus ==
    ASSUME AgreementInv, NEW x \in Keys, NEW a, status \in Active,
           nodeStatus[x] \in {"running", "waiting"}, FailNode(x, a)
    PROVE  InstanceMatches' /\ NotStarted'
  <1>1. UNCHANGED snapshot /\ status' = "failed"
    BY DEF FailNode, graphVars
  <1>2. \A k \in Keys :
           nodeStatus'[k] = IF k = x THEN "failed" ELSE nodeStatus[k]
    BY InstanceFacts DEF FailNode
  <1>3. Rows' = Rows /\ x \in Rows
    BY <1>2 DEF Rows
  <1>4. Materialised /\ Materialised'
    BY <1>1, <1>3, InstanceFacts DEF NotStarted, Materialised
  <1>5. \A k \in Rows : /\ nodeStatus[k] \notin {"failed", "canceled"}
                        /\ nodeStatus'[k] = "failed" <=> k = x
                        /\ nodeStatus'[k] # "canceled"
    BY <1>2, InstanceFacts DEF InstanceMatches, Active, Rows
  <1> QED
    BY <1>1, <1>3, <1>4, <1>5 DEF InstanceMatches, NotStarted, Active

(* A person's answer. *)
LEMMA AnswerStatus ==
    ASSUME AgreementInv, NEW x \in Keys, Answer(x)
    PROVE  InstanceMatches' /\ NotStarted'
  <1>1. CASE Submit(x)
    BY <1>1, FinishNodeStatus DEF Submit
  <1>2. CASE Reject(x)
    BY <1>2, FailNodeStatus DEF Reject
  <1> QED
    BY <1>1, <1>2 DEF Answer

(* A worker's result, committed or dropped. *)
LEMMA FinishStatus ==
    ASSUME AgreementInv, NEW w \in Workers, Finish(w)
    PROVE  InstanceMatches' /\ NotStarted'
  <1>1. CASE Complete(w) \/ Fail(w)
    <2>1. PICK x \in Keys : x = held[w].key
      BY <1>1, HeldKey DEF Complete, Fail, AgreementInv, FrontierInv
    <2>2. status \in Active /\ nodeStatus[x] = "running"
      BY <1>1, <2>1 DEF Complete, Fail, ClaimAccepted
    <2>3. CASE Complete(w)
      BY <2>1, <2>2, <2>3, FinishNodeStatus DEF Complete
    <2>4. CASE Fail(w)
      BY <2>1, <2>2, <2>4, FailNodeStatus DEF Fail
    <2> QED
      BY <1>1, <2>3, <2>4
  <1>2. CASE DropResult(w)
    BY <1>2, StatusOnly DEF DropResult, instanceVars, graphVars, rowVars
  <1> QED
    BY <1>1, <1>2 DEF Finish

(* A restart covers every failed node: the guard demands it of a node      *)
(* restart, and a restart of the whole instance covers all nodes.          *)
LEMMA ApplyRestartStatus ==
    ASSUME AgreementInv, NEW t \in Keys \cup {NoKey}, RestartAllowed(t),
           ApplyRestart(t)
    PROVE  InstanceMatches' /\ NotStarted'
  <1>1. UNCHANGED snapshot /\ status' = "running"
    BY DEF ApplyRestart, graphVars
  <1>2. CASE t = NoKey
    <2>1. Roots(snapshot) \subseteq snapshot.nodes
      BY DEF Roots
    <2>2. \A k \in snapshot.nodes : nodeStatus'[k] \in {"pending", "ready"}
      <3>1. nodeStatus' = [k \in Keys |->
                CASE k \in Roots(snapshot)                   -> "ready"
                  [] k \in snapshot.nodes \ Roots(snapshot)  -> "pending"
                  [] OTHER                                   -> nodeStatus[k]]
        BY <1>2 DEF ApplyRestart, RestartImpact
      <3> QED
        BY <3>1, InstanceFacts
    <2>3. \A k \in Keys \ snapshot.nodes : nodeStatus'[k] = "absent"
      BY <1>2, <2>1, InstanceFacts DEF ApplyRestart, RestartImpact, Rows
    <2> QED
      BY <1>1, <2>2, <2>3, AtTheStart DEF Rows
  <1>3. CASE t # NoKey
    <2> DEFINE A == Affected(snapshot, t)
    <2>1. t \in Keys /\ t \in Rows /\ nodeStatus[t] \in RestartableTarget
      BY <1>3 DEF RestartAllowed
    <2>2. t \in A /\ A \subseteq Rows
      BY <1>3, <2>1, InstanceFacts, AffectedHasTarget
      DEF ApplyRestart, RestartImpact
    <2>3. \A k \in Keys : nodeStatus'[k] = CASE k = t         -> "ready"
                                             [] k \in A \ {t} -> "pending"
                                             [] OTHER         -> nodeStatus[k]
      BY <1>3 DEF ApplyRestart, RestartImpact
    <2>4. \A k \in Rows \ A : nodeStatus[k] # "failed"
      BY <1>3 DEF RestartAllowed
    <2> HIDE DEF A
    <2>5. Rows' = Rows
      BY <2>2, <2>3 DEF Rows
    <2>6. Materialised /\ Materialised'
      BY <1>1, <2>1, <2>5, InstanceFacts
      DEF NotStarted, Materialised, RestartableTarget
    <2>7. \A k \in Rows : nodeStatus[k] # "canceled"
      BY InstanceFacts DEF InstanceMatches, RestartAllowed, Restartable
    <2>8. \A k \in Rows : nodeStatus'[k] \notin {"failed", "canceled"}
      BY <2>2, <2>3, <2>4, <2>7 DEF Rows
    <2>9. nodeStatus'[t] = "ready"
      BY <2>1, <2>3
    <2> QED
      BY <1>1, <2>1, <2>5, <2>6, <2>8, <2>9
      DEF InstanceMatches, NotStarted, Active
  <1> QED
    BY <1>2, <1>3

(* A takeover answers for the one node that failed. *)
LEMMA TakeoverStatus ==
    ASSUME AgreementInv, NEW x \in Keys, Takeover(x)
    PROVE  InstanceMatches' /\ NotStarted'
  <1>1. /\ UNCHANGED snapshot /\ status' = "running" /\ status = "failed"
        /\ x \in Rows /\ nodeStatus[x] = "failed"
    BY DEF Takeover, Recoverable, graphVars
  <1>2. \A k \in Keys :
           nodeStatus'[k] = IF k = x THEN "waiting" ELSE nodeStatus[k]
    BY InstanceFacts DEF Takeover
  <1>3. Rows' = Rows
    BY <1>1, <1>2 DEF Rows
  <1>4. Materialised /\ Materialised'
    BY <1>1, <1>3, InstanceFacts DEF NotStarted, Materialised
  <1>5. \A k \in Rows : nodeStatus'[k] \notin {"failed", "canceled"}
    BY <1>1, <1>2, InstanceFacts DEF InstanceMatches, Rows
  <1> QED
    BY <1>1, <1>2, <1>3, <1>4, <1>5 DEF InstanceMatches, NotStarted, Active

(* An edit of a running instance: what it removes or adds was or is at the *)
(* start, and a graph without all its rows is edited into another such.    *)
LEMMA EditFutureStatus ==
    ASSUME AgreementInv, NEW g \in Snapshot, EditAllowed(g), EditFuture(g),
           snapshot' = g
    PROVE  InstanceMatches' /\ NotStarted'
  <1>1. /\ status = "running" /\ g.nodes \subseteq Keys
        /\ \A k \in Removed(g) \cup Updated(g) :
              k \in Rows /\ nodeStatus[k] \in {"pending", "ready"}
    BY DEF EditAllowed, EditFuture, Pristine, Snapshot
  <1>2. \A k \in Keys : nodeStatus'[k] =
             CASE k \in Removed(g)               -> "absent"
               [] k \in Updated(g) \cup Added(g) -> FutureStatus(g, k)
               [] OTHER                          -> nodeStatus[k]
    BY DEF EditFuture
  <1>3. /\ \A k \in Removed(g) : k \notin g.nodes
        /\ \A k \in Updated(g) \cup Added(g) : k \in g.nodes
        /\ \A k \in Keys : FutureStatus(g, k) \in {"pending", "ready"}
    BY DEF Removed, Updated, Added, FutureStatus
  <1>4. \A k \in Removed(g) : nodeStatus'[k] = "absent"
    BY <1>1, <1>2, <1>3 DEF Rows
  <1>5. \A k \in Updated(g) \cup Added(g) :
           nodeStatus'[k] \in {"pending", "ready"}
    BY <1>1, <1>2, <1>3
  <1>6. \A k \in Keys \ Touched(g) : nodeStatus'[k] = nodeStatus[k]
    BY <1>2 DEF Touched
  <1>7. \A k \in Rows' : \/ nodeStatus'[k] \in {"pending", "ready"}
                         \/ k \in Rows /\ nodeStatus'[k] = nodeStatus[k]
    BY <1>4, <1>5, <1>6 DEF Rows, Touched
  <1>8. \A k \in Rows' : nodeStatus'[k] \notin {"failed", "canceled"}
    BY <1>1, <1>7, InstanceFacts DEF InstanceMatches
  <1>9. Materialised' <=> Materialised
    <2>1. ASSUME Materialised PROVE Materialised'
      <3>1. \A k \in g.nodes \ Touched(g) : k \in Rows
        BY <2>1 DEF Materialised, Touched, Added
      <3> QED
        BY <1>1, <1>5, <1>6, <3>1 DEF Materialised, Rows, Touched, Removed
    <2>2. ASSUME NEW k \in snapshot.nodes \ Rows
          PROVE  k \in g.nodes \ Rows'
      <3>1. k \in Keys /\ k \notin Touched(g)
        BY <1>1, <2>2, InstanceFacts DEF Touched, Added
      <3>2. k \in g.nodes
        BY <2>2, <3>1 DEF Touched, Removed
      <3>3. k \notin Rows'
        BY <1>6, <2>2, <3>1 DEF Rows
      <3> QED
        BY <3>2, <3>3
    <2> QED
      BY <2>1, <2>2 DEF Materialised
  <1>10. NotStarted'
    BY <1>7, <1>9, InstanceFacts DEF NotStarted
  <1>11. \/ status' = "running"
         \/ /\ status' = "done" /\ Rows' # {}
            /\ \A k \in Rows' : nodeStatus'[k] = "done"
    BY <1>1 DEF EditFuture, CompletedBy, Rows
  <1>12. status' = "running" /\ Materialised' =>
            \E k \in Rows' : nodeStatus'[k] # "done"
    <2> SUFFICES ASSUME status' = "running", Materialised',
                        \A k \in Rows' : nodeStatus'[k] = "done"
                 PROVE  FALSE
      OBVIOUS
    <2>1. Rows' # {}
      BY DEF Materialised, EditAllowed, Valid
    <2> QED
      BY <2>1 DEF EditFuture, CompletedBy, Rows
  <1>13. status' = "done" => Materialised'
    <2> SUFFICES ASSUME status' = "done", ~Materialised' PROVE FALSE
      OBVIOUS
    <2> QED
      BY <1>10, <1>11 DEF NotStarted
  <1> QED
    BY <1>8, <1>10, <1>11, <1>12, <1>13 DEF InstanceMatches, Active

(* A confirmed edit, of a draft or of a running instance. *)
LEMMA ConfirmEditStatus ==
    ASSUME AgreementInv, NEW p \in previews, ConfirmEdit(p)
    PROVE  InstanceMatches' /\ NotStarted'
  <1>1. PICK g \in Snapshot : g = p.graph
    BY DEF AgreementInv, FrontierInv, TypeOK, Preview
  <1>2. CASE EditFuture(g)
    BY <1>1, <1>2, EditFutureStatus DEF ConfirmEdit
  <1>3. CASE EditDraft(g)
    <2>1. status' = "draft" /\ Rows' = {}
      BY <1>3, InstanceFacts DEF EditDraft, rowVars, Rows, InstanceMatches
    <2> QED
      BY <2>1 DEF InstanceMatches, NotStarted, Active
  <1> QED
    BY <1>1, <1>2, <1>3 DEF ConfirmEdit

(* Every step keeps the status and the rows in agreement. *)
LEMMA NextStatus ==
    ASSUME AgreementInv, TypeOK', [Next]_vars
    PROVE  InstanceMatches' /\ NotStarted'
  <1>1. CASE ConfirmDraft
    BY <1>1, ConfirmDraftStatus
  <1>2. CASE DiscardDraft \/ Pause \/ Resume
    BY <1>2, StatusOnly, InstanceFacts
    DEF DiscardDraft, Pause, Resume, MoveTo, InstanceTransitions, Active,
        graphVars, rowVars
  <1>3. CASE Cancel
    BY <1>3, CancelStatus
  <1>4. CASE \E t \in Keys \cup {NoKey} : PreviewRestart(t)
    BY <1>4, StatusOnly DEF PreviewRestart, instanceVars, graphVars, rowVars
  <1>5. CASE \E g \in Edits : PreviewEdit(g)
    BY <1>5, StatusOnly DEF PreviewEdit, instanceVars, graphVars, rowVars
  <1>6. CASE \E p \in previews : ConfirmRestart(p)
    <2>1. PICK p \in previews : ConfirmRestart(p)
      BY <1>6
    <2>2. PICK t \in Keys \cup {NoKey} : t = p.target
      BY DEF AgreementInv, FrontierInv, TypeOK, Preview
    <2> QED
      BY <2>1, <2>2, ApplyRestartStatus DEF ConfirmRestart
  <1>7. CASE \E p \in previews : ConfirmEdit(p)
    BY <1>7, ConfirmEditStatus
  <1>8. CASE \E k \in Keys : Answer(k) \/ Takeover(k)
    BY <1>8, AnswerStatus, TakeoverStatus
  <1>9. CASE \E k \in Keys : Retry(k)
    BY <1>9, ApplyRestartStatus DEF Retry, Recoverable
  <1>10. CASE \E k \in Keys : \E p \in People : Transfer(k, p)
    BY <1>10, StatusOnly DEF Transfer, graphVars
  <1>11. CASE \E w \in Workers : \E c \in Keys \cup {NoKey} : Dispatch(w, c)
    BY <1>11, DispatchStatus
  <1>12. CASE \E w \in Workers : Finish(w)
    BY <1>12, FinishStatus
  <1>13. CASE \E w \in Workers : Renew(w) \/ Abandon(w)
    BY <1>13, StatusOnly DEF Renew, Abandon, instanceVars, graphVars, rowVars
  <1>14. CASE \E k \in Keys : ClaimExpires(k)
    BY <1>14, StatusOnly DEF ClaimExpires, instanceVars, graphVars
  <1>15. CASE UNCHANGED vars
    BY <1>15, StatusOnly DEF vars
  <1> QED
    BY <1>1, <1>2, <1>3, <1>4, <1>5, <1>6, <1>7, <1>8, <1>9, <1>10, <1>11,
       <1>12, <1>13, <1>14, <1>15
    DEF Next, Owner, NodeOwner, Worker

-----------------------------------------------------------------------------
(* The invariant is inductive. *)
LEMMA InitAgreement == Init => AgreementInv
  <1> SUFFICES ASSUME Init PROVE AgreementInv
    OBVIOUS
  <1>1. FrontierInv
    BY InitFrontier
  <1>2. status = "draft" /\ Rows = {}
    BY DEF Init, Rows
  <1>3. \A k \in Keys : RowMatches(k)
    <2> TAKE k \in Keys
    <2>1. /\ nodeStatus[k] = "absent" /\ current[k] = 0
          /\ \A n \in AttemptNo : attempts[k][n] = NoAttempt
      BY DEF Init
    <2>2. \A n \in AttemptNo : n = 0 \/ n > 0
      BY WorkflowAssumption
    <2>3. NoAttempt.status = "none" /\ ClaimFits(NoAttempt)
      BY DEF NoAttempt, NewAttempt, ClaimFits
    <2> QED
      BY <1>2, <2>1, <2>2, <2>3 DEF RowMatches
  <1>4. AttemptsMatchNodes
    BY <1>3, RowByRow
  <1>5. InstanceMatches /\ NotStarted
    BY <1>1, <1>2 DEF InstanceMatches, NotStarted, Active
  <1> QED
    BY <1>1, <1>4, <1>5, StatusParts DEF AgreementInv

(* Every step keeps it. *)
LEMMA NextAgreement == AgreementInv /\ [Next]_vars => AgreementInv'
  <1> SUFFICES ASSUME AgreementInv, [Next]_vars PROVE AgreementInv'
    OBVIOUS
  <1>1. FrontierInv'
    BY NextFrontier DEF AgreementInv
  <1>2. TypeOK /\ TypeOK'
    BY <1>1 DEF AgreementInv, FrontierInv
  <1>3. \A k \in Keys : RowMatches(k)'
    BY <1>1, <1>2, RowFacts, NextRows, RowStepMatches
  <1>4. AttemptsMatchNodes'
    BY <1>3, RowByRowNext
  <1>5. InstanceMatches' /\ NotStarted'
    BY <1>2, NextStatus
  <1> QED
    BY <1>1, <1>4, <1>5, StatusParts DEF AgreementInv

(* The tables agree: whatever commands, workers and the clock do to an     *)
(* instance, its attempts say what its nodes say, a claim sits on running  *)
(* automated attempts only, a failed instance has exactly one failed node, *)
(* a done one only done nodes, and an active one something left to do.     *)
THEOREM TablesAgree == Spec => []StatusAgrees
  <1>1. Init => AgreementInv
    BY InitAgreement
  <1>2. AgreementInv /\ [Next]_vars => AgreementInv'
    BY NextAgreement
  <1>3. AgreementInv => StatusAgrees
    BY DEF AgreementInv
  <1> QED
    BY <1>1, <1>2, <1>3, PTL DEF Spec

(* History is history: an attempt that ended stays as it is for as long as *)
(* its node is part of the graph, through every restart, recovery,         *)
(* takeover, cancellation and edit.                                        *)
THEOREM HistoryStays == Spec => HistoryFrozen
  <1>1. Init => AgreementInv
    BY InitAgreement
  <1>2. AgreementInv /\ [Next]_vars => AgreementInv'
    BY NextAgreement
  <1>3. AgreementInv /\ [Next]_vars =>
           [\A k \in Keys, n \in AttemptNo :
              attempts[k][n].status \in Terminal /\ nodeStatus'[k] # "absent"
                 => attempts'[k][n] = attempts[k][n]]_vars
    <2> SUFFICES ASSUME AgreementInv, [Next]_vars,
                        NEW k \in Keys, NEW n \in AttemptNo,
                        attempts[k][n].status \in Terminal,
                        nodeStatus'[k] # "absent"
                 PROVE  attempts'[k][n] = attempts[k][n]
      OBVIOUS
    <2>1. FrontierInv' /\ TypeOK
      BY NextFrontier DEF AgreementInv, FrontierInv
    <2> QED
      BY <2>1, NextRows, RowFacts, RowStepFreezes
  <1> QED
    BY <1>1, <1>2, <1>3, PTL DEF Spec, HistoryFrozen

-----------------------------------------------------------------------------
(* Inputs.  The dependencies of a node that has started are done, before   *)
(* and after any step, and a done row that stays done stays as it is.      *)
LEMMA DoneStays ==
    ASSUME AgreementInv, FrontierInv', [Next]_vars, NEW d \in Keys,
           nodeStatus[d] = "done", nodeStatus'[d] = "done"
    PROVE  current'[d] = current[d]
  <1>1. RowStep(d)
    BY NextRows
  <1> QED
    BY <1>1 DEF RowStep, Stays, Moves, StartsOver, Appears, Disappears, Unfinished

(* A node that has started keeps the attempts it stands on. *)
LEMMA DependenciesStay ==
    ASSUME AgreementInv, FrontierInv', [Next]_vars, NEW k \in Keys,
           nodeStatus[k] \in Started, nodeStatus'[k] \in WorkedOn,
           NEW d \in snapshot'.deps[k]
    PROVE  d \in Keys /\ d \in snapshot.deps[k] /\ current'[d] = current[d]
  <1>1. snapshot'.deps[k] = snapshot.deps[k]
    BY NextRows DEF RowStep, KeepsSpec, SameSpec
  <1>2. d \in Keys
    BY DEF FrontierInv, TypeOK, Snapshot
  <1>3. k \in Rows /\ (k \in Rows)'
    BY DEF Rows, Started, WorkedOn
  <1>4. nodeStatus[d] = "done" /\ nodeStatus'[d] = "done"
    BY <1>1, <1>3
    DEF AgreementInv, FrontierInv, FrontierExact, DepsDone, Started, WorkedOn
  <1> QED
    BY <1>1, <1>2, <1>4, DoneStays

FreshRow(k) ==
    k \in Rows /\ nodeStatus[k] \in WorkedOn =>
        \A d \in snapshot.deps[k] : Cur(k).inputs[d] = current[d]

(* Inputs stay fresh in each kind of row step. *)
LEMMA RowStaysFresh ==
    ASSUME AgreementInv, FrontierInv', [Next]_vars, NEW k \in Keys, FreshRow(k)
    PROVE  FreshRow(k)'
  <1> SUFFICES ASSUME nodeStatus'[k] \in WorkedOn, NEW d \in snapshot'.deps[k]
               PROVE  Cur(k)'.inputs[d] = current'[d]
    BY DEF FreshRow
  <1>1. RowStep(k) /\ current[k] \in AttemptNo /\ MaxAttempt \in Nat
        /\ attempts[k] \in [AttemptNo -> Attempt]
    BY NextRows, RowFacts, WorkflowAssumption
  <1>2. nodeStatus[k] \in Started =>
           d \in Keys /\ d \in snapshot.deps[k] /\ current'[d] = current[d]
    BY DependenciesStay
  <1>3. nodeStatus[k] \in WorkedOn /\ d \in snapshot.deps[k] =>
           Cur(k).inputs[d] = current[d]
    BY DEF FreshRow, Rows, WorkedOn
  <1>4. d \in Keys /\ d \in snapshot.deps[k] => InputsOf(k)[d] = current[d]
    BY DEF InputsOf
  <1>5. CASE Stays(k)
    BY <1>2, <1>3, <1>5 DEF Stays, Cur, WorkedOn, Started
  <1>6. CASE Moves(k)
    <2>1. PICK a \in Attempt :
             /\ attempts'[k] = [attempts[k] EXCEPT ![current[k]] = a]
             /\ nodeStatus[k] # "pending"
             /\ a.inputs = IF nodeStatus[k] = "ready" THEN InputsOf(k)
                                                      ELSE Cur(k).inputs
      BY <1>6 DEF Moves
    <2>2. nodeStatus[k] \in {"ready", "running", "waiting"}
      BY <1>6, <2>1 DEF Moves, Unfinished
    <2>3. Cur(k)' = a
      BY <1>1, <1>6, <2>1 DEF Moves, Cur
    <2> QED
      BY <1>2, <1>3, <1>4, <2>1, <2>2, <2>3 DEF Started, WorkedOn
  <1>7. CASE StartsOver(k)
    <2>1. nodeStatus'[k] = "waiting" /\ nodeStatus[k] = "failed"
      BY <1>7 DEF StartsOver, WorkedOn
    <2>2. Cur(k)'.inputs = InputsOf(k)
      BY <1>1, <1>7, <2>1 DEF StartsOver, Cur
    <2> QED
      BY <1>2, <1>4, <2>1, <2>2 DEF Started
  <1>8. CASE Appears(k) \/ Disappears(k)
    BY <1>8 DEF Appears, Disappears, WorkedOn
  <1> QED
    BY <1>1, <1>5, <1>6, <1>7, <1>8 DEF RowStep

(* Nobody works from stale inputs: a node that works, has finished or has  *)
(* failed captured the attempts its dependencies hold now, whatever was    *)
(* restarted, taken over, reclaimed or edited in the meantime.             *)
THEOREM InputsStayFresh == Spec => []FreshInputs
  <1> DEFINE FreshInv == AgreementInv /\ \A k \in Keys : FreshRow(k)
  <1>1. Init => FreshInv
    BY InitAgreement DEF Init, FreshRow, Rows
  <1>2. FreshInv /\ [Next]_vars => FreshInv'
    <2> SUFFICES ASSUME FreshInv, [Next]_vars PROVE FreshInv'
      OBVIOUS
    <2>1. AgreementInv' /\ FrontierInv'
      BY NextAgreement DEF AgreementInv
    <2>2. \A k \in Keys : FreshRow(k)'
      BY <2>1, RowStaysFresh
    <2> QED
      BY <2>1, <2>2
  <1>3. FreshInv => FreshInputs
    BY DEF FreshInputs, FreshRow, WorkedOn, Rows
  <1> HIDE DEF FreshInv
  <1> QED
    BY <1>1, <1>2, <1>3, PTL DEF Spec

-----------------------------------------------------------------------------
(* A canceled or discarded instance is final.  The guards of the commands  *)
(* do not give that alone: the clock passes the expiry of a claim whatever *)
(* the status is.  That no claim is left to expire is an invariant of its  *)
(* own.                                                                    *)

(* Nothing is running that could still end: a draft has no rows, a         *)
(* discarded one neither, and cancelling leaves no node at work.           *)
QuietInv ==
    /\ TypeOK
    /\ status \in {"draft", "discarded"} => Rows = {}
    /\ status = "canceled" => \A k \in Rows : nodeStatus[k] # "running"

Closed == {"canceled", "discarded"}

(* A closed instance takes no step but those that leave the aggregate be:  *)
(* workers drop their late results, previews stay unconfirmed.             *)
LEMMA ClosedStays ==
    ASSUME QuietInv, status \in Closed, [Next]_vars
    PROVE  aggregate' = aggregate
  <1> USE DEF aggregate, instanceVars, graphVars, rowVars
  <1> \A s : s \notin InstanceTransitions[status]
    BY DEF InstanceTransitions, InstanceStatus, Closed
  <1>1. CASE ConfirmDraft \/ DiscardDraft \/ Pause \/ Resume \/ Cancel
    BY <1>1 DEF ConfirmDraft, DiscardDraft, Pause, Resume, Cancel, MoveTo, Closed
  <1>2. CASE \E t \in Keys \cup {NoKey} : PreviewRestart(t)
    BY <1>2 DEF PreviewRestart
  <1>3. CASE \E g \in Edits : PreviewEdit(g)
    BY <1>3 DEF PreviewEdit
  <1>4. CASE \E p \in previews : ConfirmRestart(p) \/ ConfirmEdit(p)
    BY <1>4 DEF ConfirmRestart, RestartAllowed, Restartable, ConfirmEdit,
                EditAllowed, Closed
  <1>5. CASE \E k \in Keys : Answer(k) \/ Retry(k) \/ Takeover(k)
    BY <1>5 DEF Answer, Submit, Reject, Active, Retry, Takeover, Recoverable,
                Closed
  <1>6. CASE \E k \in Keys : \E p \in People : Transfer(k, p)
    BY <1>6 DEF Transfer, Active, Closed
  <1>7. CASE \E w \in Workers : \E c \in Keys \cup {NoKey} : Dispatch(w, c)
    BY <1>7 DEF Dispatch, Dispatchable, Closed
  <1>8. CASE \E w \in Workers : Finish(w)
    BY <1>8 DEF Finish, Complete, Fail, DropResult, Active, Closed
  <1>9. CASE \E w \in Workers : Renew(w) \/ Abandon(w)
    BY <1>9 DEF Renew, Abandon, Active, Closed
  <1>10. CASE \E k \in Keys : ClaimExpires(k)
    BY <1>10 DEF ClaimExpires, QuietInv, Closed
  <1>11. CASE UNCHANGED vars
    BY <1>11 DEF vars
  <1> QED
    BY <1>1, <1>2, <1>3, <1>4, <1>5, <1>6, <1>7, <1>8, <1>9, <1>10, <1>11
    DEF Next, Owner, NodeOwner, Worker

(* An open instance is closed by a cancellation, or as a draft, which gets *)
(* its rows with the step that makes it run; and no step makes a draft.    *)
LEMMA HowItCloses ==
    ASSUME QuietInv, status \notin Closed, [Next]_vars
    PROVE  \/ status' \notin Closed \cup {"draft"}
           \/ status = "draft" /\ nodeStatus' = nodeStatus
           \/ Cancel
  <1> USE DEF Closed, instanceVars, rowVars
  <1>1. CASE ConfirmDraft \/ Resume \/ Cancel
    BY <1>1 DEF ConfirmDraft, Resume, MoveTo
  <1>2. CASE Pause
    BY <1>2 DEF Pause, MoveTo
  <1>3. CASE DiscardDraft
    <2>1. "discarded" \in InstanceTransitions[status] /\ nodeStatus' = nodeStatus
      BY <1>3 DEF DiscardDraft, MoveTo
    <2>2. status \in InstanceStatus
      BY DEF QuietInv, TypeOK
    <2>3. status = "draft"
      BY <2>1, <2>2 DEF InstanceTransitions
    <2> QED
      BY <2>1, <2>3
  <1>4. CASE \E t \in Keys \cup {NoKey} : PreviewRestart(t)
    BY <1>4 DEF PreviewRestart
  <1>5. CASE \E g \in Edits : PreviewEdit(g)
    BY <1>5 DEF PreviewEdit
  <1>6. CASE \E p \in previews : ConfirmRestart(p) \/ ConfirmEdit(p)
    BY <1>6 DEF ConfirmRestart, ApplyRestart, ConfirmEdit, EditDraft,
                EditFuture, CompletedBy
  <1>7. CASE \E k \in Keys : Answer(k) \/ Retry(k) \/ Takeover(k)
    BY <1>7 DEF Answer, Submit, Reject, Active, FinishNode, FailNode,
                CompletedBy, Retry, ApplyRestart, Takeover
  <1>8. CASE \E k \in Keys : \E p \in People : Transfer(k, p)
    BY <1>8 DEF Transfer
  <1>9. CASE \E w \in Workers : \E c \in Keys \cup {NoKey} : Dispatch(w, c)
    BY <1>9 DEF Dispatch, Dispatchable
  <1>10. CASE \E w \in Workers : Finish(w)
    BY <1>10 DEF Finish, Complete, Fail, DropResult, Active, FinishNode,
                 FailNode, CompletedBy
  <1>11. CASE \E w \in Workers : Renew(w) \/ Abandon(w)
    BY <1>11 DEF Renew, Abandon
  <1>12. CASE \E k \in Keys : ClaimExpires(k)
    BY <1>12 DEF ClaimExpires
  <1>13. CASE UNCHANGED vars
    BY <1>13 DEF vars
  <1> QED
    BY <1>1, <1>2, <1>3, <1>4, <1>5, <1>6, <1>7, <1>8, <1>9, <1>10, <1>11,
       <1>12, <1>13
    DEF Next, Owner, NodeOwner, Worker

-----------------------------------------------------------------------------
(* The invariant is inductive. *)
LEMMA NextQuiet == QuietInv /\ [Next]_vars => QuietInv'
  <1> SUFFICES ASSUME QuietInv, [Next]_vars PROVE QuietInv'
    OBVIOUS
  <1>1. TypeOK'
    BY NextType DEF QuietInv
  <1>2. CASE status \in Closed
    <2>1. status' = status /\ nodeStatus' = nodeStatus
      BY <1>2, ClosedStays DEF aggregate, instanceVars, rowVars
    <2> QED
      BY <1>1, <2>1 DEF QuietInv, Rows
  <1>3. CASE status \notin Closed
    <2>1. CASE status' \notin Closed \cup {"draft"}
      BY <1>1, <2>1 DEF QuietInv, Closed
    <2>2. CASE status = "draft" /\ nodeStatus' = nodeStatus
      BY <1>1, <2>2 DEF QuietInv, Rows
    <2>3. CASE Cancel
      <3>1. status' = "canceled"
        BY <2>3 DEF Cancel
      <3>2. ASSUME NEW k \in Keys
            PROVE  nodeStatus'[k] # "running"
        <4>1. nodeStatus'[k] = IF k \in Rows /\ nodeStatus[k] \in Unfinished
                               THEN "canceled" ELSE nodeStatus[k]
          BY <2>3 DEF Cancel
        <4> QED
          BY <4>1 DEF Rows, Unfinished
      <3> QED
        BY <1>1, <3>1, <3>2 DEF QuietInv, Rows
    <2> QED
      BY <1>3, <2>1, <2>2, <2>3, HowItCloses
  <1> QED
    BY <1>2, <1>3

(* Closed is closed: no late result, expired claim, confirmed preview or   *)
(* repeated command changes anything of a canceled or discarded instance.  *)
THEOREM ClosedIsFinal == Spec => TerminalFrozen
  <1>1. Init => QuietInv
    <2> SUFFICES ASSUME Init PROVE QuietInv
      OBVIOUS
    <2>1. TypeOK
      BY InitType
    <2>2. status = "draft" /\ Rows = {}
      BY DEF Init, Rows
    <2> QED
      BY <2>1, <2>2 DEF QuietInv
  <1>2. QuietInv /\ [Next]_vars => QuietInv'
    BY NextQuiet
  <1>3. QuietInv /\ [Next]_vars
           => [(status \in {"canceled", "discarded"}) => aggregate' = aggregate]_vars
    BY ClosedStays DEF Closed
  <1> QED
    BY <1>1, <1>2, <1>3, PTL DEF Spec, TerminalFrozen

-----------------------------------------------------------------------------
(* Claims.  A refused claim stays refused (RefusedForGood).  The token     *)
(* that a new claim gets, the next aggregate version, was never handed out *)
(* before; and as long as the activation lives under the old one nothing   *)
(* of the row that the check compares can have changed.                    *)

(* A claim a worker holds was handed out by an earlier command. *)
ClaimsArePast == \A w \in Workers : held[w].token <= version

ClaimInv == AgreementInv /\ ClaimsArePast

(* How a node can be running after a step: it was and nothing changed, its *)
(* claim has expired, or it has just been claimed.                         *)
RunsOn(k) ==
    \/ /\ nodeStatus[k] = "running"
       /\ nodeVersion'[k] = nodeVersion[k]
       /\ current'[k] = current[k] /\ attempts'[k] = attempts[k]
    \/ ~Cur(k)'.live
    \/ Cur(k)'.token = version + 1

(* A step that leaves the rows alone. *)
LEMMA UntouchedRunsOn ==
    ASSUME UNCHANGED rowVars, NEW k \in Keys, nodeStatus'[k] = "running"
    PROVE  RunsOn(k)
  BY DEF RunsOn, rowVars

(* Completing or failing a node changes no row that goes on running. *)
LEMMA EndingRunsOn ==
    ASSUME AgreementInv, NEW x \in Keys, NEW a,
           FinishNode(x) \/ FailNode(x, a),
           NEW k \in Keys, nodeStatus'[k] = "running"
    PROVE  RunsOn(k)
  <1>1. nodeStatus \in [Keys -> NodeStatus] /\ TypeOK
    BY DEF AgreementInv, FrontierInv, TypeOK
  <1>2. CASE FinishNode(x)
    <2>1. k # x /\ k \notin Unlocked(x) /\ nodeStatus[k] = "running"
      BY <1>1, <1>2 DEF FinishNode, AfterDone
    <2> QED
      BY <1>1, <1>2, <2>1 DEF FinishNode, SetCurrent, RunsOn, TypeOK
  <1>3. CASE FailNode(x, a)
    <2>1. k # x /\ nodeStatus[k] = "running"
      BY <1>1, <1>3 DEF FailNode
    <2> QED
      BY <1>1, <1>3, <2>1 DEF FailNode, SetCurrent, RunsOn, TypeOK
  <1> QED
    BY <1>2, <1>3

(* A dispatch gives out the one new token. *)
LEMMA DispatchRunsOn ==
    ASSUME AgreementInv, NEW w \in Workers, NEW c \in Keys \cup {NoKey},
           Dispatch(w, c), NEW k \in Keys, nodeStatus'[k] = "running"
    PROVE  RunsOn(k)
  <1>1. \A x \in Keys : nodeStatus'[x] =
           CASE x \in ReadyHumans -> "waiting"
             [] x = c             -> "running"
             [] OTHER             -> nodeStatus[x]
    BY DEF Dispatch
  <1>2. k = c => k \notin ReadyHumans
    <2> SUFFICES ASSUME k = c PROVE snapshot.executor[k] # "human"
      BY DEF ReadyHumans, IsHuman
    <2>1. k \in Claimable(w)
      BY KeyAssumption DEF Dispatch
    <2> QED
      BY <2>1, WorkflowAssumption DEF Claimable, Reclaimable, Served
  <1>3. CASE k = c
    <2>1. attempts'[k] = [attempts[k] EXCEPT ![current[k]] = Claimed(w, k)]
          /\ current'[k] = current[k]
      BY <1>2, <1>3 DEF Dispatch
    <2>2. Cur(k)' = Claimed(w, k)
      BY <2>1, RowFacts DEF Cur
    <2>3. Claimed(w, k).token = version + 1
      BY RowFacts DEF Claimed, Attempt
    <2> QED
      BY <2>2, <2>3 DEF RunsOn
  <1>4. CASE k # c
    <2>1. k \notin ReadyHumans /\ nodeStatus[k] = "running"
      <3>1. k \notin ReadyHumans
        BY <1>1, <1>4
      <3> QED
        BY <1>1, <1>4, <3>1
    <2> QED
      BY <1>4, <2>1 DEF Dispatch, RunsOn
  <1> QED
    BY <1>3, <1>4

(* A restart makes nothing run. *)
LEMMA ApplyRestartRunsOn ==
    ASSUME AgreementInv, NEW t \in Keys \cup {NoKey}, RestartAllowed(t),
           ApplyRestart(t), NEW k \in Keys, nodeStatus'[k] = "running"
    PROVE  RunsOn(k)
  <1> DEFINE starts == IF t = NoKey THEN Roots(snapshot) ELSE {t}
  <1>1. t = NoKey \/ t \in snapshot.nodes
    BY DEF RestartAllowed, AgreementInv, FrontierInv
  <1>2. starts \subseteq RestartImpact(t)
    BY <1>1, AffectedHasTarget DEF RestartImpact, Roots
  <1>3. nodeStatus'[k] = CASE k \in starts -> "ready"
                           [] k \in RestartImpact(t) \ starts -> "pending"
                           [] OTHER -> nodeStatus[k]
    BY DEF ApplyRestart
  <1> HIDE DEF starts
  <1>4. k \notin RestartImpact(t) /\ nodeStatus[k] = "running"
    <2>1. k \notin starts
      BY <1>3
    <2>2. k \notin RestartImpact(t)
      BY <1>3, <2>1
    <2> QED
      BY <1>3, <2>1, <2>2
  <1> QED
    BY <1>4 DEF ApplyRestart, RunsOn

(* Nor does an edit. *)
LEMMA EditFutureRunsOn ==
    ASSUME AgreementInv, NEW g \in Snapshot, EditAllowed(g), EditFuture(g),
           NEW k \in Keys, nodeStatus'[k] = "running"
    PROVE  RunsOn(k)
  <1>1. nodeStatus'[k] =
             CASE k \in Removed(g)               -> "absent"
               [] k \in Updated(g) \cup Added(g) -> FutureStatus(g, k)
               [] OTHER                          -> nodeStatus[k]
    BY DEF EditFuture
  <1>2. FutureStatus(g, k) \in {"pending", "ready"}
    BY DEF FutureStatus
  <1>3. k \notin Removed(g) \cup Updated(g) \cup Added(g)
    <2>1. k \in Removed(g) => k \notin Updated(g) \cup Added(g)
      BY DEF Removed, Updated, Added
    <2> QED
      BY <1>1, <1>2, <2>1
  <1> QED
    BY <1>1, <1>3 DEF EditFuture, RunsOn

(* Every step. *)
LEMMA NextRunsOn ==
    ASSUME AgreementInv, AgreementInv', [Next]_vars,
           NEW k \in Keys, nodeStatus'[k] = "running"
    PROVE  RunsOn(k)
  <1> TypeOK
    BY DEF AgreementInv, FrontierInv
  <1>1. CASE ConfirmDraft
    BY <1>1, InstanceFacts DEF ConfirmDraft, RunsOn, Roots
  <1>2. CASE DiscardDraft \/ Pause \/ Resume
    BY <1>2, UntouchedRunsOn DEF DiscardDraft, Pause, Resume, MoveTo
  <1>3. CASE Cancel
    BY <1>3 DEF Cancel, RunsOn, Rows, Unfinished
  <1>4. CASE \E t \in Keys \cup {NoKey} : PreviewRestart(t)
    BY <1>4, UntouchedRunsOn DEF PreviewRestart
  <1>5. CASE \E g \in Edits : PreviewEdit(g)
    BY <1>5, UntouchedRunsOn DEF PreviewEdit
  <1>6. CASE \E p \in previews : ConfirmRestart(p)
    <2>1. PICK p \in previews : ConfirmRestart(p)
      BY <1>6
    <2>2. PICK t \in Keys \cup {NoKey} : t = p.target
      BY DEF TypeOK, Preview
    <2> QED
      BY <2>1, <2>2, ApplyRestartRunsOn DEF ConfirmRestart
  <1>7. CASE \E p \in previews : ConfirmEdit(p)
    <2>1. PICK p \in previews : ConfirmEdit(p)
      BY <1>7
    <2>2. PICK g \in Snapshot : g = p.graph
      BY DEF TypeOK, Preview
    <2>3. CASE EditDraft(g)
      BY <2>3, UntouchedRunsOn DEF EditDraft
    <2>4. CASE EditFuture(g)
      BY <2>1, <2>2, <2>4, EditFutureRunsOn DEF ConfirmEdit
    <2> QED
      BY <2>1, <2>2, <2>3, <2>4 DEF ConfirmEdit
  <1>8. CASE \E x \in Keys : Answer(x)
    BY <1>8, EndingRunsOn DEF Answer, Submit, Reject
  <1>9. CASE \E x \in Keys : Takeover(x)
    BY <1>9 DEF Takeover, RunsOn, TypeOK
  <1>10. CASE \E x \in Keys : Retry(x)
    BY <1>10, ApplyRestartRunsOn DEF Retry, Recoverable
  <1>11. CASE \E x \in Keys : \E p \in People : Transfer(x, p)
    BY <1>11 DEF Transfer, RunsOn, TypeOK
  <1>12. CASE \E w \in Workers : \E c \in Keys \cup {NoKey} : Dispatch(w, c)
    BY <1>12, DispatchRunsOn
  <1>13. CASE \E w \in Workers : Finish(w)
    <2>1. PICK w \in Workers : Finish(w)
      BY <1>13
    <2>2. CASE Complete(w) \/ Fail(w)
      <3>1. PICK x \in Keys : x = held[w].key
        BY <2>2, HeldKey DEF Complete, Fail
      <3>2. CASE FinishNode(x)
        BY <3>2, EndingRunsOn
      <3>3. CASE \E a : FailNode(x, a)
        BY <3>3, EndingRunsOn
      <3> QED
        BY <2>2, <3>1, <3>2, <3>3 DEF Complete, Fail
    <2>3. CASE DropResult(w)
      BY <2>3, UntouchedRunsOn DEF DropResult
    <2> QED
      BY <2>1, <2>2, <2>3 DEF Finish
  <1>14. CASE \E w \in Workers : Renew(w) \/ Abandon(w)
    BY <1>14, UntouchedRunsOn DEF Renew, Abandon
  <1>15. CASE \E x \in Keys : ClaimExpires(x)
    <2>1. PICK x \in Keys : ClaimExpires(x)
      BY <1>15
    <2>2. CASE k = x
      <3>1. attempts'[k] = [attempts[k] EXCEPT
                               ![current[k]] = [Cur(k) EXCEPT !.live = FALSE]]
            /\ current'[k] = current[k]
        BY <2>1, <2>2 DEF ClaimExpires, SetCurrent, TypeOK
      <3>2. PICK a \in Attempt : a = [Cur(k) EXCEPT !.live = FALSE]
        BY RowFacts DEF Attempt
      <3>3. Cur(k)' = a
        BY <3>1, <3>2, RowFacts DEF Cur
      <3>4. a.live = FALSE
        BY <3>2, RowFacts DEF Attempt
      <3> QED
        BY <3>3, <3>4 DEF RunsOn
    <2>3. CASE k # x
      BY <2>1, <2>3 DEF ClaimExpires, SetCurrent, RunsOn, TypeOK
    <2> QED
      BY <2>2, <2>3
  <1>16. CASE UNCHANGED vars
    BY <1>16, UntouchedRunsOn DEF vars, rowVars
  <1> QED
    BY <1>1, <1>2, <1>3, <1>4, <1>5, <1>6, <1>7, <1>8, <1>9, <1>10, <1>11,
       <1>12, <1>13, <1>14, <1>15, <1>16
    DEF Next, Owner, NodeOwner, Worker

(* Tokens of claims in hand lie in the past. *)
LEMMA NextClaimsArePast ==
    ASSUME TypeOK, ClaimsArePast, [Next]_vars
    PROVE  ClaimsArePast'
  <1> USE DEF ClaimsArePast
  <1>1. \A w \in Workers : held[w].token \in Nat
    BY DEF TypeOK, Claim, NoClaim
  <1>2. version \in Nat
    BY DEF TypeOK
  <1>3. CASE version' \in {version, version + 1} /\ held' = held
    BY <1>1, <1>2, <1>3
  <1>4. CASE \E w \in Workers : LetGo(w) /\ version' \in {version, version + 1}
    BY <1>1, <1>2, <1>4 DEF LetGo, NoClaim, TypeOK
  <1>5. CASE \E w \in Workers : \E c \in Keys \cup {NoKey} : Dispatch(w, c)
    <2>1. PICK w \in Workers, c \in Keys \cup {NoKey} : Dispatch(w, c)
      BY <1>5
    <2>2. version' = version + 1
      BY <2>1 DEF Dispatch, Commit
    <2>3. \A x \in Workers : held'[x] = held[x] \/ held'[x].token = version + 1
      BY <2>1 DEF Dispatch, TypeOK
    <2> QED
      BY <1>1, <1>2, <2>2, <2>3
  <1>6. CASE ConfirmDraft \/ DiscardDraft \/ Pause \/ Resume \/ Cancel
    BY <1>3, <1>6
    DEF ConfirmDraft, DiscardDraft, Pause, Resume, MoveTo, Cancel, Commit
  <1>7. CASE \/ \E t \in Keys \cup {NoKey} : PreviewRestart(t)
             \/ \E g \in Edits : PreviewEdit(g)
    BY <1>3, <1>7 DEF PreviewRestart, PreviewEdit, instanceVars
  <1>8. CASE \E p \in previews : ConfirmRestart(p) \/ ConfirmEdit(p)
    BY <1>3, <1>8 DEF ConfirmRestart, ApplyRestart, ConfirmEdit, Commit
  <1>9. CASE \E k \in Keys : Answer(k) \/ Retry(k) \/ Takeover(k)
    BY <1>3, <1>9
    DEF Answer, Submit, Reject, FinishNode, FailNode, Retry, ApplyRestart,
        Takeover, Commit
  <1>10. CASE \E k \in Keys : \E p \in People : Transfer(k, p)
    BY <1>3, <1>10 DEF Transfer, Commit
  <1>11. CASE \E w \in Workers : Finish(w) \/ Abandon(w)
    BY <1>4, <1>11
    DEF Finish, Complete, Fail, FinishNode, FailNode, DropResult, Abandon,
        instanceVars, Commit
  <1>12. CASE \E w \in Workers : Renew(w)
    BY <1>3, <1>12 DEF Renew, Commit
  <1>13. CASE (\E k \in Keys : ClaimExpires(k)) \/ UNCHANGED vars
    BY <1>3, <1>13 DEF ClaimExpires, instanceVars, vars
  <1> QED
    BY <1>5, <1>6, <1>7, <1>8, <1>9, <1>10, <1>11, <1>12, <1>13
    DEF Next, Owner, NodeOwner, Worker

(* The invariant is inductive. *)
LEMMA ClaimInvInductive ==
    /\ Init => ClaimInv
    /\ ClaimInv /\ [Next]_vars => ClaimInv'
  <1>1. Init => ClaimInv
    BY InitAgreement DEF Init, ClaimInv, ClaimsArePast, NoClaim
  <1>2. ClaimInv /\ [Next]_vars => ClaimInv'
    BY NextAgreement, NextClaimsArePast
    DEF ClaimInv, AgreementInv, FrontierInv
  <1> QED
    BY <1>1, <1>2

(* RefusedForGood: the answer of a worker whose claim was taken over,      *)
(* restarted, canceled, edited away or has expired is refused at any later *)
(* time, whatever claims there are by then.                                *)
THEOREM ClaimsStayRefused == Spec => RefusedForGood
  <1>1. ClaimInv /\ [Next]_vars =>
           [\A w \in Workers :
              held[w] # NoClaim /\ held'[w] = held[w] /\ ~ClaimAccepted(w)
                 => ~ClaimAccepted(w)']_vars
    <2> SUFFICES ASSUME ClaimInv, [Next]_vars, NEW w \in Workers,
                        held[w] # NoClaim, held'[w] = held[w],
                        ClaimAccepted(w)'
                 PROVE  ClaimAccepted(w)
      OBVIOUS
    <2>0. PICK k \in Keys : k = held[w].key
      <3>1. held[w].key \in Keys
        BY DEF ClaimAccepted, Rows
      <3> QED
        BY <3>1
    <2>1. AgreementInv /\ AgreementInv' /\ FrontierInv'
      BY ClaimInvInductive DEF ClaimInv, AgreementInv
    <2>2. /\ nodeStatus'[k] = "running"
          /\ held[w].attempt = current'[k] /\ held[w].version = nodeVersion'[k]
          /\ Cur(k)'.token = held[w].token /\ Cur(k)'.claimedBy = w
          /\ Cur(k)'.live /\ snapshot'.executor[k] # "human"
      BY <2>0 DEF ClaimAccepted, Rows, IsHuman, Cur
    <2>3. held[w].token \in Nat /\ version \in Nat /\ held[w].token <= version
      BY <2>1
      DEF ClaimInv, ClaimsArePast, AgreementInv, FrontierInv, TypeOK, Claim,
          NoClaim
    <2>4. /\ nodeStatus[k] = "running" /\ nodeVersion'[k] = nodeVersion[k]
          /\ current'[k] = current[k] /\ attempts'[k] = attempts[k]
      <3>1. RunsOn(k)
        BY <2>1, <2>2, NextRunsOn
      <3> QED
        BY <2>2, <2>3, <3>1 DEF RunsOn
    <2>5. snapshot.executor[k] # "human"
      BY <2>1, <2>2, NextRows DEF RowStep, KeepsSpec, SameSpec, WorkedOn
    <2>6. Cur(k)' = Cur(k)
      BY <2>4 DEF Cur
    <2> QED
      BY <2>0, <2>2, <2>4, <2>5, <2>6 DEF ClaimAccepted, Rows, IsHuman
  <1> QED
    BY <1>1, ClaimInvInductive, PTL DEF Spec, RefusedForGood

-----------------------------------------------------------------------------
(* Pausing.  In a paused instance a node either stays as it is, or ends.   *)
StaysOrEnds(k) ==
    /\ nodeStatus'[k] \in {"running", "waiting"} => nodeStatus'[k] = nodeStatus[k]
    /\ \/ current'[k] = current[k] /\ attempts'[k] = attempts[k]
       \/ Cur(k)'.token \in {Cur(k).token, 0}

(* A step that leaves nodes and attempts alone. *)
LEMMA UntouchedStays ==
    ASSUME UNCHANGED <<nodeStatus, current, attempts>>, NEW k \in Keys
    PROVE  StaysOrEnds(k)
  BY DEF StaysOrEnds

(* An attempt that is replaced by one with the same token or none. *)
LEMMA TokenGone ==
    ASSUME AgreementInv, NEW k \in Keys, NEW a \in Attempt,
           current'[k] = current[k],
           attempts'[k] = [attempts[k] EXCEPT ![current[k]] = a],
           a.token \in {Cur(k).token, 0}
    PROVE  Cur(k)'.token \in {Cur(k).token, 0}
  <1>1. Cur(k)' = a
    BY RowFacts DEF Cur
  <1> QED
    BY <1>1

(* Completing or failing a node. *)
LEMMA EndingStays ==
    ASSUME AgreementInv, NEW x \in Keys, NEW a \in Attempt, a.token = 0,
           \/ FinishNode(x) /\ a = Ended(Cur(x), "done")
           \/ FailNode(x, a),
           NEW k \in Keys
    PROVE  StaysOrEnds(k)
  <1>1. nodeStatus \in [Keys -> NodeStatus] /\ TypeOK
    BY DEF AgreementInv, FrontierInv, TypeOK
  <1>2. current'[k] = current[k] /\ SetCurrent(x, a)
    BY DEF FinishNode, FailNode
  <1>3. nodeStatus'[k] \in {"running", "waiting"} => nodeStatus'[k] = nodeStatus[k]
    BY <1>1 DEF FinishNode, FailNode, AfterDone
  <1>4. CASE k = x
    <2>1. attempts'[k] = [attempts[k] EXCEPT ![current[k]] = a]
      BY <1>1, <1>2, <1>4 DEF SetCurrent, TypeOK
    <2> QED
      BY <1>2, <1>3, <2>1, TokenGone DEF StaysOrEnds
  <1>5. CASE k # x
    <2>1. attempts'[k] = attempts[k]
      BY <1>1, <1>2, <1>5 DEF SetCurrent, TypeOK
    <2> QED
      BY <1>2, <1>3, <2>1 DEF StaysOrEnds
  <1> QED
    BY <1>4, <1>5

(* Everything that can happen to a paused instance. *)
LEMMA PausedStep ==
    ASSUME AgreementInv, status = "paused", [Next]_vars, NEW k \in Keys
    PROVE  StaysOrEnds(k)
  <1> USE DEF instanceVars, graphVars, rowVars
  <1> TypeOK
    BY DEF AgreementInv, FrontierInv
  <1>0. InstanceTransitions[status] = {"running", "done", "failed", "canceled"}
    BY DEF InstanceTransitions
  <1>1. CASE ConfirmDraft \/ DiscardDraft \/ Pause \/ Resume
    BY <1>0, <1>1, UntouchedStays
    DEF ConfirmDraft, DiscardDraft, Pause, Resume, MoveTo
  <1>2. CASE Cancel
    <2>1. current'[k] = current[k]
      BY <1>2 DEF Cancel
    <2>2. CASE k \in Rows /\ nodeStatus[k] \in Unfinished
      <3>1. PICK a \in Attempt : a = Ended(Cur(k), "canceled")
        BY RowFacts, EndedFits DEF Terminal
      <3>2. a.token = 0
        BY <3>1, RowFacts DEF Ended, Attempt
      <3>3. /\ attempts'[k] = [attempts[k] EXCEPT ![current[k]] = a]
            /\ nodeStatus'[k] = "canceled"
        BY <1>2, <2>2, <3>1, RowFacts DEF Cancel, Cur
      <3> QED
        BY <2>1, <3>2, <3>3, TokenGone DEF StaysOrEnds
    <2>3. CASE ~(k \in Rows /\ nodeStatus[k] \in Unfinished)
      BY <1>2, <2>1, <2>3 DEF Cancel, StaysOrEnds
    <2> QED
      BY <2>2, <2>3
  <1>3. CASE \/ \E t \in Keys \cup {NoKey} : PreviewRestart(t)
             \/ \E g \in Edits : PreviewEdit(g)
    BY <1>3, UntouchedStays DEF PreviewRestart, PreviewEdit
  <1>4. CASE \E p \in previews : ConfirmRestart(p) \/ ConfirmEdit(p)
    BY <1>4 DEF ConfirmRestart, RestartAllowed, Restartable, ConfirmEdit,
                EditAllowed
  <1>5. CASE \E x \in Keys : Submit(x)
    <2>1. PICK x \in Keys : FinishNode(x)
      BY <1>5 DEF Submit
    <2>2. PICK a \in Attempt : a = Ended(Cur(x), "done")
      BY RowFacts, EndedFits DEF Terminal
    <2>3. a.token = 0
      BY <2>2, RowFacts DEF Ended, Attempt
    <2> QED
      BY <2>1, <2>2, <2>3, EndingStays
  <1>6. CASE \E x \in Keys : Reject(x)
    <2>1. PICK x \in Keys : Reject(x)
      BY <1>6
    <2>2. PICK e \in Attempt : e = Ended(Cur(x), "failed")
      BY RowFacts, EndedFits DEF Terminal
    <2>3. e.token = 0
      BY <2>2, RowFacts DEF Ended, Attempt
    <2>4. PICK a \in Attempt : a = [e EXCEPT !.rejected = TRUE]
      BY DEF Attempt
    <2>5. a.token = 0
      BY <2>3, <2>4 DEF Attempt
    <2>6. FailNode(x, a)
      BY <2>1, <2>2, <2>4 DEF Reject
    <2> QED
      BY <2>5, <2>6, EndingStays
  <1>7. CASE \E x \in Keys : Retry(x) \/ Takeover(x)
    BY <1>7 DEF Retry, Takeover, Recoverable
  <1>8. CASE \E x \in Keys : \E p \in People : Transfer(x, p)
    BY <1>8, UntouchedStays DEF Transfer
  <1>9. CASE \E w \in Workers : \E c \in Keys \cup {NoKey} : Dispatch(w, c)
    BY <1>9 DEF Dispatch, Dispatchable
  <1>10. CASE \E w \in Workers : Complete(w) \/ Fail(w)
    <2>1. PICK w \in Workers : Complete(w) \/ Fail(w)
      BY <1>10
    <2>2. PICK x \in Keys : x = held[w].key
      BY <2>1, HeldKey DEF Complete, Fail
    <2>3. PICK a \in Attempt : a = Ended(Cur(x), "done")
      BY RowFacts, EndedFits DEF Terminal
    <2>4. PICK b \in Attempt : b = Ended(Cur(x), "failed")
      BY RowFacts, EndedFits DEF Terminal
    <2>5. a.token = 0 /\ b.token = 0
      BY <2>3, <2>4, RowFacts DEF Ended, Attempt
    <2>6. CASE Complete(w)
      BY <2>2, <2>3, <2>5, <2>6, EndingStays DEF Complete
    <2>7. CASE Fail(w)
      BY <2>2, <2>4, <2>5, <2>7, EndingStays DEF Fail
    <2> QED
      BY <2>1, <2>6, <2>7
  <1>11. CASE \E w \in Workers : DropResult(w) \/ Renew(w) \/ Abandon(w)
    BY <1>11, UntouchedStays DEF DropResult, Renew, Abandon
  <1>12. CASE \E x \in Keys : ClaimExpires(x)
    <2>1. PICK x \in Keys : ClaimExpires(x)
      BY <1>12
    <2>2. current'[k] = current[k] /\ nodeStatus'[k] = nodeStatus[k]
      BY <2>1 DEF ClaimExpires
    <2>3. CASE k = x
      <3>1. PICK a \in Attempt : a = [Cur(k) EXCEPT !.live = FALSE]
        BY RowFacts DEF Attempt
      <3>2. a.token = Cur(k).token
        BY <3>1, RowFacts DEF Attempt
      <3>3. attempts'[k] = [attempts[k] EXCEPT ![current[k]] = a]
        BY <2>1, <2>3, <3>1 DEF ClaimExpires, SetCurrent, TypeOK
      <3> QED
        BY <2>2, <3>2, <3>3, TokenGone DEF StaysOrEnds
    <2>4. CASE k # x
      BY <2>1, <2>2, <2>4 DEF ClaimExpires, SetCurrent, StaysOrEnds, TypeOK
    <2> QED
      BY <2>3, <2>4
  <1>13. CASE UNCHANGED vars
    BY <1>13, UntouchedStays DEF vars
  <1> QED
    BY <1>1, <1>2, <1>3, <1>4, <1>5, <1>6, <1>7, <1>8, <1>9, <1>10, <1>11,
       <1>12, <1>13
    DEF Next, Owner, NodeOwner, Worker, Answer, Finish

(* Pausing drains: until a paused instance runs again, nothing of it       *)
(* begins to work and no claim changes hands; what was at work when it was *)
(* paused can only come to its end.                                        *)
THEOREM PausedOnlyDrains == Spec => PauseDrains
  <1>1. AgreementInv /\ [Next]_vars =>
           [status = "paused" =>
              /\ ActiveRows' \subseteq ActiveRows
              /\ \A k \in ActiveRows : Cur(k).token' \in {Cur(k).token, 0}]_vars
    <2> SUFFICES ASSUME AgreementInv, [Next]_vars, status = "paused"
                 PROVE  /\ ActiveRows' \subseteq ActiveRows
                        /\ \A k \in ActiveRows :
                              Cur(k).token' \in {Cur(k).token, 0}
      OBVIOUS
    <2>1. \A k \in Keys : StaysOrEnds(k)
      BY PausedStep
    <2>2. ActiveRows' \subseteq ActiveRows
      BY <2>1 DEF ActiveRows, Rows, StaysOrEnds
    <2>3. \A k \in Keys : Cur(k).token' \in {Cur(k).token, 0}
      BY <2>1 DEF StaysOrEnds, Cur
    <2> QED
      BY <2>2, <2>3 DEF ActiveRows, Rows
  <1> QED
    BY <1>1, InitAgreement, NextAgreement, PTL DEF Spec, PauseDrains

-----------------------------------------------------------------------------
(* Previews.  A preview whose version is the version of the aggregate      *)
(* shows the aggregate as it is: every command that changes a node or the  *)
(* graph moves the version on, and what moves without it, the clock, the   *)
(* workers and other previews, changes neither.                            *)
Shows(p) == p.seen = nodeStatus /\ (p.kind = "restart" => p.graph = snapshot)

PreviewInv ==
    /\ TypeOK
    /\ \A p \in previews :
          p.version <= version /\ (p.version = version => Shows(p))

(* A step commits, or it leaves nodes and graph alone and may add a        *)
(* preview of them.                                                        *)
CommitsOrLooks ==
    \/ version' = version + 1 /\ previews' \subseteq previews
    \/ /\ UNCHANGED <<version, nodeStatus, snapshot>>
       /\ \A p \in previews' \ previews : p.version = version /\ Shows(p)

(* Every step is of one of the two kinds. *)
LEMMA NextCommitsOrLooks ==
    ASSUME [Next]_vars
    PROVE  CommitsOrLooks
  <1> USE DEF CommitsOrLooks, Commit, instanceVars, graphVars, rowVars
  <1>1. CASE ConfirmDraft \/ DiscardDraft \/ Pause \/ Resume \/ Cancel
    BY <1>1 DEF ConfirmDraft, DiscardDraft, Pause, Resume, MoveTo, Cancel
  <1>2. CASE \E t \in Keys \cup {NoKey} : PreviewRestart(t)
    BY <1>2 DEF PreviewRestart, Shows
  <1>3. CASE \E g \in Edits : PreviewEdit(g)
    BY <1>3 DEF PreviewEdit, Shows
  <1>4. CASE \E p \in previews : ConfirmRestart(p) \/ ConfirmEdit(p)
    BY <1>4 DEF ConfirmRestart, ApplyRestart, ConfirmEdit
  <1>5. CASE \E k \in Keys : Answer(k) \/ Retry(k) \/ Takeover(k)
    BY <1>5 DEF Answer, Submit, Reject, FinishNode, FailNode, Retry,
                ApplyRestart, Takeover
  <1>6. CASE \E k \in Keys : \E p \in People : Transfer(k, p)
    BY <1>6 DEF Transfer
  <1>7. CASE \E w \in Workers : \E c \in Keys \cup {NoKey} : Dispatch(w, c)
    BY <1>7 DEF Dispatch
  <1>8. CASE \E w \in Workers : Finish(w)
    BY <1>8 DEF Finish, Complete, Fail, FinishNode, FailNode, DropResult
  <1>9. CASE \E w \in Workers : Renew(w) \/ Abandon(w)
    BY <1>9 DEF Renew, Abandon
  <1>10. CASE (\E k \in Keys : ClaimExpires(k)) \/ UNCHANGED vars
    BY <1>10 DEF ClaimExpires, vars
  <1> QED
    BY <1>1, <1>2, <1>3, <1>4, <1>5, <1>6, <1>7, <1>8, <1>9, <1>10
    DEF Next, Owner, NodeOwner, Worker

(* The invariant is inductive. *)
LEMMA NextPreviewInv == PreviewInv /\ [Next]_vars => PreviewInv'
  <1> SUFFICES ASSUME PreviewInv, [Next]_vars PROVE PreviewInv'
    OBVIOUS
  <1>1. TypeOK /\ TypeOK'
    BY NextType DEF PreviewInv
  <1>2. /\ version \in Nat
        /\ \A p \in previews \cup previews' : p.version \in Nat
    BY <1>1 DEF TypeOK, Preview
  <1>3. CASE version' = version + 1 /\ previews' \subseteq previews
    BY <1>1, <1>2, <1>3 DEF PreviewInv
  <1>4. CASE /\ UNCHANGED <<version, nodeStatus, snapshot>>
             /\ \A p \in previews' \ previews : p.version = version /\ Shows(p)
    BY <1>1, <1>2, <1>4 DEF PreviewInv, Shows
  <1> QED
    BY <1>3, <1>4, NextCommitsOrLooks DEF CommitsOrLooks

(* A preview goes away only by being confirmed. *)
LEMMA OnlyConfirmed ==
    ASSUME [Next]_vars, NEW p \in previews \ previews'
    PROVE  ConfirmRestart(p) \/ ConfirmEdit(p)
  <1>1. CASE ConfirmDraft \/ DiscardDraft \/ Pause \/ Resume \/ Cancel
    BY <1>1 DEF ConfirmDraft, DiscardDraft, Pause, Resume, MoveTo, Cancel
  <1>2. CASE \E t \in Keys \cup {NoKey} : PreviewRestart(t)
    BY <1>2 DEF PreviewRestart
  <1>3. CASE \E g \in Edits : PreviewEdit(g)
    BY <1>3 DEF PreviewEdit
  <1>4. CASE \E q \in previews : ConfirmRestart(q) \/ ConfirmEdit(q)
    <2>1. PICK q \in previews : ConfirmRestart(q) \/ ConfirmEdit(q)
      BY <1>4
    <2>2. previews' = previews \ {q}
      BY <2>1 DEF ConfirmRestart, ConfirmEdit
    <2>3. p = q
      BY <2>2
    <2> QED
      BY <2>1, <2>3
  <1>5. CASE \E k \in Keys : Answer(k) \/ Retry(k) \/ Takeover(k)
    BY <1>5 DEF Answer, Submit, Reject, FinishNode, FailNode, Retry, Takeover
  <1>6. CASE \E k \in Keys : \E q \in People : Transfer(k, q)
    BY <1>6 DEF Transfer
  <1>7. CASE \E w \in Workers : \E c \in Keys \cup {NoKey} : Dispatch(w, c)
    BY <1>7 DEF Dispatch
  <1>8. CASE \E w \in Workers : Finish(w)
    BY <1>8 DEF Finish, Complete, Fail, FinishNode, FailNode, DropResult
  <1>9. CASE \E w \in Workers : Renew(w) \/ Abandon(w)
    BY <1>9 DEF Renew, Abandon
  <1>10. CASE (\E k \in Keys : ClaimExpires(k)) \/ UNCHANGED vars
    BY <1>10 DEF ClaimExpires, vars
  <1> QED
    BY <1>1, <1>2, <1>3, <1>4, <1>5, <1>6, <1>7, <1>8, <1>9, <1>10
    DEF Next, Owner, NodeOwner, Worker

(* What a confirmation changes. *)
LEMMA ConfirmChanges ==
    ASSUME TypeOK, NEW p \in previews, ConfirmRestart(p) \/ ConfirmEdit(p),
           NEW k \in Keys,
           nodeVersion'[k] # nodeVersion[k] \/ current'[k] # current[k]
    PROVE  k \in p.affected
  <1>1. CASE ConfirmRestart(p)
    BY <1>1 DEF ConfirmRestart, ApplyRestart
  <1>2. CASE ConfirmEdit(p) /\ EditDraft(p.graph)
    BY <1>2 DEF EditDraft, rowVars
  <1>3. CASE ConfirmEdit(p) /\ EditFuture(p.graph)
    <2>1. p.affected = Touched(p.graph)
      BY <1>3 DEF ConfirmEdit
    <2>2. k \in Touched(p.graph)
      BY <1>3 DEF EditFuture, Touched
    <2> QED
      BY <2>1, <2>2
  <1> QED
    BY <1>1, <1>2, <1>3 DEF ConfirmEdit

(* The owner gets what the owner was shown: a preview that is confirmed    *)
(* was made of the nodes as they are, it resets or edits no node it did    *)
(* not list, and leads to the graph it carried.                            *)
THEOREM ConfirmedAsShown == Spec => ConfirmMatchesPreview
  <1>1. Init => PreviewInv
    BY InitType DEF Init, PreviewInv
  <1>2. PreviewInv /\ [Next]_vars => PreviewInv'
    BY NextPreviewInv
  <1>3. PreviewInv /\ [Next]_vars =>
           [\A p \in previews \ previews' :
               /\ nodeStatus = p.seen
               /\ {k \in Keys : nodeVersion'[k] # nodeVersion[k] \/
                                current'[k] # current[k]} \subseteq p.affected
               /\ snapshot' = p.graph]_vars
    <2> SUFFICES ASSUME PreviewInv, [Next]_vars, NEW p \in previews \ previews'
                 PROVE  /\ nodeStatus = p.seen
                        /\ \A k \in Keys :
                              nodeVersion'[k] # nodeVersion[k] \/
                              current'[k] # current[k] => k \in p.affected
                        /\ snapshot' = p.graph
      OBVIOUS
    <2>1. ConfirmRestart(p) \/ ConfirmEdit(p)
      BY OnlyConfirmed
    <2>2. Shows(p)
      BY <2>1 DEF ConfirmRestart, ConfirmEdit, Fresh, PreviewInv
    <2>3. snapshot' = p.graph
      BY <2>1, <2>2
      DEF ConfirmRestart, ApplyRestart, graphVars, ConfirmEdit, Shows
    <2>4. TypeOK
      BY DEF PreviewInv
    <2> QED
      BY <2>1, <2>2, <2>3, <2>4, ConfirmChanges DEF Shows
  <1> QED
    BY <1>1, <1>2, <1>3, PTL DEF Spec, ConfirmMatchesPreview

=============================================================================
