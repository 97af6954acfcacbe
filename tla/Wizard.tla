------------------------------- MODULE Wizard -------------------------------
(***************************************************************************)
(* The cards on which people choose who plays a role, or describe a flow   *)
(* to be drafted.  A chat command asked for the card; a worker sends it,   *)
(* its form comes back as one stored action, which is verified and then    *)
(* made into a draft; meanwhile the card shows the progress, and in the    *)
(* end the result.  Four lanes with a lease each: the card, the action,    *)
(* the progress and the reply, every one served by whoever polls first.    *)
(*                                                                         *)
(* One card is modelled: rows of different cards share nothing but the     *)
(* workers, who take one row at a time.  Trouble bounds deaths, failures   *)
(* and leases that run out under a worker.                                 *)
(***************************************************************************)
EXTENDS Naturals

CONSTANTS Workers, Nobody, Kinds, Trouble

ASSUME WizardAssumption ==
    Nobody \notin Workers /\ Kinds \subseteq {"template", "wizard"} /\ Trouble \in Nat

VARIABLES
    kind,       \* of the request: roles of a template, or the draft wizard
    form,       \* what was submitted: absent, good or bad
    known,      \* the message id of the card is recorded with the command
    status,     \* of the row in each lane
    holder, live,   \* lease of each lane
    due,        \* the action may be claimed
    failedIn,   \* failure_stage
    stage, revision, claimed,   \* progress: stage, revision, revision claimed
    verdict,    \* the reply that was decided
    template,   \* enabled or not
    instance,   \* under the id made of the command's message id
    made,       \* history: drafts that were created
    feed,       \* the callback's thread
    shown,      \* Feishu: what the card shows
    message,    \* Feishu: the message that answers the action
    desk,       \* memory of the workers
    late,       \* history: a progress lease ran out under its worker
    trouble

action == <<form, due, failedIn, verdict>>
progress == <<stage, revision, claimed>>
domain == <<template, instance, made>>
vars == <<kind, action, known, status, holder, live, progress, domain, feed,
          shown, message, desk, late, trouble>>

Lanes == {"card", "action", "progress", "reply"}
Active == {"verified", "processing"}    \* while progress is shown
Idle == [lane |-> "none", pc |-> "idle", stage |-> "none", verdict |-> "none"]
Spend == trouble > 0 /\ trouble' = trouble - 1

Init ==
    /\ kind \in Kinds
    /\ form = "absent" /\ due = FALSE /\ failedIn = "none" /\ verdict = "none"
    /\ known = FALSE
    /\ status = [lane \in Lanes |-> IF lane = "card" THEN "pending" ELSE "none"]
    /\ holder = [lane \in Lanes |-> Nobody]
    /\ live = [lane \in Lanes |-> FALSE]
    /\ stage = "none" /\ revision = 0 /\ claimed = 0
    /\ template = "enabled" /\ instance = "none" /\ made = 0
    /\ feed = "off" /\ shown = "none" /\ message = "none"
    /\ desk = [w \in Workers |-> Idle]
    /\ late = FALSE /\ trouble = Trouble

-----------------------------------------------------------------------------
(* Leases. *)

(* A row is claimed when it is due, or when the lease of a claim ran out.  *)
Retryable(lane) == status[lane] \in {"pending", "failed"}

Lapsed(lane, active) == status[lane] = active /\ ~live[lane]

Claim(w, lane, active, pc) ==
    /\ desk[w].pc = "idle"
    /\ status' = [status EXCEPT ![lane] = active]
    /\ holder' = [holder EXCEPT ![lane] = w]
    /\ live' = [live EXCEPT ![lane] = TRUE]
    /\ desk' = [desk EXCEPT ![w] = [Idle EXCEPT !.lane = lane, !.pc = pc,
                                               !.stage = stage]]

(* Every UPDATE that settles a row names its status and the claim token.   *)
Mine(w, lane, active) == status[lane] = active /\ holder[lane] = w

Free(lane) ==
    /\ holder' = [holder EXCEPT ![lane] = Nobody]
    /\ live' = [live EXCEPT ![lane] = FALSE]

Settle(w, lane, to) ==
    /\ status' = [status EXCEPT ![lane] = to]
    /\ Free(lane)
    /\ desk' = [desk EXCEPT ![w] = Idle]

(* Where a worker stands that is about to settle with each status. *)
ActiveStatus(pc) ==
    CASE pc \in {"verify"} -> "verifying"
      [] pc \in {"bind", "look", "generate", "repaired", "create",
                "settle"} -> "processing"
      [] OTHER -> "sending"

(* InvalidRoleBindingClaimError: the update finds no row. *)
LostClaim(w) ==
    /\ desk[w].pc \in {"verify", "generate", "settle", "record", "noted", "told"}
    /\ ~Mine(w, desk[w].lane, ActiveStatus(desk[w].pc))
    /\ desk' = [desk EXCEPT ![w] = Idle]
    /\ UNCHANGED <<kind, action, known, status, holder, live, progress, domain,
                   feed, shown, message, late, trouble>>

(* Sure after a death, trouble while the worker lives. *)
LeaseEnds(lane) ==
    /\ live[lane]
    /\ live' = [live EXCEPT ![lane] = FALSE]
    /\ IF desk[holder[lane]].lane = lane
       THEN Spend /\ late' = (late \/ lane = "progress")
       ELSE UNCHANGED <<trouble, late>>
    /\ UNCHANGED <<kind, action, known, status, holder, progress, domain, feed,
                   shown, message, desk>>

Die(w) ==
    /\ desk[w].pc # "idle" /\ Spend
    /\ desk' = [desk EXCEPT ![w] = Idle]
    /\ UNCHANGED <<kind, action, known, status, holder, live, progress, domain,
                   feed, shown, message, late>>

-----------------------------------------------------------------------------
(* RoleBindingCardWorker *)

ClaimCard(w) ==
    /\ Retryable("card") \/ Lapsed("card", "sending")
    /\ Claim(w, "card", "sending", "send")
    /\ UNCHANGED <<kind, action, known, progress, domain, feed, shown, message,
                   late, trouble>>

(* send_chat_card, under a key made of the command id: one card. *)
SendCard(w) ==
    /\ desk[w].pc = "send"
    /\ shown' = IF shown = "none" THEN "form" ELSE shown
    /\ desk' = [desk EXCEPT ![w].pc = "record"]
    /\ UNCHANGED <<kind, action, known, status, holder, live, progress, domain,
                   feed, message, late, trouble>>

(* mark_role_binding_card_sent: message id and frozen candidates. *)
MarkCardSent(w) ==
    /\ desk[w].pc = "record" /\ Mine(w, "card", "sending")
    /\ known' = TRUE
    /\ Settle(w, "card", "sent")
    /\ UNCHANGED <<kind, action, progress, domain, feed, shown, message, late,
                   trouble>>

(* The directory, or Feishu. *)
CardFails(w) ==
    /\ desk[w].pc = "send" /\ Mine(w, "card", "sending") /\ Spend
    /\ Settle(w, "card", "failed")
    /\ UNCHANGED <<kind, action, known, progress, domain, feed, shown, message, late>>

-----------------------------------------------------------------------------
(* RoleBindingActionInboxBridge.  The first click on the card is stored,   *)
(* every other one hits the unique message id.                             *)

Click ==
    /\ shown # "none" /\ form = "absent"
    /\ form' \in {"good", "bad"}
    /\ status' = [status EXCEPT !["action"] = "pending"]
    /\ feed' = "feeding"
    /\ UNCHANGED <<kind, due, failedIn, verdict, known, holder, live, progress,
                   domain, shown, message, desk, late, trouble>>

ShowProcessing ==
    /\ feed = "feeding"
    /\ feed' = "shown"
    /\ \/ shown' = "processing" /\ UNCHANGED trouble
       \/ Spend /\ UNCHANGED shown
    /\ UNCHANGED <<kind, action, known, status, holder, live, progress, domain,
                   message, desk, late>>

(* release_role_binding_action, for an action that is still pending. *)
Release ==
    /\ feed = "shown" /\ feed' = "over"
    /\ due' = (due \/ status["action"] = "pending")
    /\ UNCHANGED <<kind, form, failedIn, verdict, known, status, holder, live,
                   progress, domain, shown, message, desk, late, trouble>>

CallbackDies ==
    /\ feed \in {"feeding", "shown"} /\ feed' = "over" /\ Spend
    /\ UNCHANGED <<kind, action, known, status, holder, live, progress, domain,
                   shown, message, desk, late>>

(* CARD_FEEDBACK_FALLBACK: longer than the update of the card may take. *)
FallsDue ==
    /\ feed = "over" /\ ~due /\ due' = TRUE
    /\ UNCHANGED <<kind, form, failedIn, verdict, known, status, holder, live,
                   progress, domain, feed, shown, message, desk, late, trouble>>

-----------------------------------------------------------------------------
(* RoleBindingVerificationWorker *)

ClaimVerification(w) ==
    /\ \/ status["action"] = "pending" /\ due
       \/ status["action"] = "failed" /\ failedIn = "verification"
       \/ Lapsed("action", "verifying")
    /\ Claim(w, "action", "verifying", "verify")
    /\ UNCHANGED <<kind, action, known, progress, domain, feed, shown, message,
                   late, trouble>>

Over(p) == IF p \in {"none", "sending"} THEN p ELSE "sent"

(* mark_role_binding_rejected, mark_role_binding_processed: the reply is   *)
(* due, the progress is over unless an update of the card is under way.    *)
Conclude(w, to, answer) ==
    /\ status' = [status EXCEPT
           !["action"] = to, !["reply"] = "pending",
           !["progress"] = Over(@)]
    /\ Free("action")
    /\ desk' = [desk EXCEPT ![w] = Idle]
    /\ verdict' = answer
    /\ UNCHANGED <<kind, form, due, known, domain, progress, feed, shown, message,
                   late, trouble>>

(* The operator, the form and the persons, against the recorded card. *)
Acceptable == known /\ form = "good"

VerifyRejects(w) ==
    /\ desk[w].pc = "verify" /\ Mine(w, "action", "verifying") /\ ~Acceptable
    /\ Conclude(w, "rejected", "rejected") /\ UNCHANGED failedIn

Verified(w) ==
    /\ desk[w].pc = "verify" /\ Mine(w, "action", "verifying") /\ Acceptable
    /\ status' = [status EXCEPT !["action"] = "verified",
                     !["progress"] = IF kind = "wizard" THEN "pending" ELSE @]
    /\ Free("action")
    /\ desk' = [desk EXCEPT ![w] = Idle]
    /\ failedIn' = "none"
    /\ IF kind = "wizard" THEN stage' = "generating" /\ revision' = revision + 1
                          ELSE UNCHANGED <<stage, revision>>
    /\ UNCHANGED <<kind, form, due, verdict, known, claimed, domain, feed, shown,
                   message, late, trouble>>

(* _mark_role_binding_action_failed *)
ActionFails(w) ==
    /\ \/ desk[w].pc = "verify" /\ Mine(w, "action", "verifying")
       \/ desk[w].pc \in {"bind", "look", "generate", "repaired", "create"}
          /\ Mine(w, "action", "processing")
    /\ Spend
    /\ failedIn' = IF desk[w].pc = "verify" THEN "verification" ELSE "processing"
    /\ Settle(w, "action", "failed")
    /\ UNCHANGED <<kind, form, due, verdict, known, progress, domain, feed, shown,
                   message, late>>

-----------------------------------------------------------------------------
(* RoleBindingActionWorker: the regular one for templates, and one for     *)
(* drafts that calls the model.                                            *)

ClaimAction(w) ==
    /\ \/ status["action"] = "verified"
       \/ status["action"] = "failed" /\ failedIn = "processing"
       \/ Lapsed("action", "processing")
    /\ Claim(w, "action", "processing",
             IF kind = "template" THEN "bind" ELSE "look")
    /\ UNCHANGED <<kind, action, known, progress, domain, feed, shown, message,
                   late, trouble>>

Says(w, answer) ==
    /\ desk' = [desk EXCEPT ![w] = [@ EXCEPT !.pc = "settle", !.verdict = answer]]
    /\ UNCHANGED <<kind, action, known, status, holder, live, progress, feed,
                   shown, message, late, trouble>>

(* create_draft finds no instance under the id of this command. *)
Fresh == instance = "none"

Create == instance' = "draft" /\ made' = made + 1

(* instantiate_template_version, then create_draft or the draft of before  *)
Bind(w) ==
    /\ desk[w].pc = "bind"
    /\ \/ template = "disabled" /\ UNCHANGED domain /\ Says(w, "rejected")
       \/ /\ template = "enabled" /\ UNCHANGED template
          /\ IF Fresh THEN Create ELSE UNCHANGED <<instance, made>>
          /\ Says(w, "created")

(* A draft that an earlier try has left is not generated again. *)
LookUp(w) ==
    /\ desk[w].pc = "look"
    /\ desk' = [desk EXCEPT ![w].pc = IF instance = "none" THEN "generate" ELSE "create"]
    /\ UNCHANGED <<kind, action, known, status, holder, live, progress, domain,
                   feed, shown, message, late, trouble>>

(* DraftDefinitionGenerator: a first answer of the model, a repair if it is   *)
(* not valid, and no third.                                                *)
Generate(w) ==
    /\ desk[w].pc \in {"generate", "repaired"}
    /\ desk' = [desk EXCEPT ![w].pc = "create"]
    /\ UNCHANGED <<kind, action, known, status, holder, live, progress, domain,
                   feed, shown, message, late, trouble>>

(* A slip: a new stage does not raise the revision. *)
SameRevision(to) == revision

NextRevision(to) == IF stage = to THEN revision ELSE revision + 1

(* on_repair: queue_role_binding_progress *)
Repair(w) ==
    /\ desk[w].pc = "generate" /\ Mine(w, "action", "processing")
    /\ stage' = "repairing" /\ revision' = NextRevision("repairing")
    /\ status' = [status EXCEPT !["progress"] = IF @ = "sending" THEN @ ELSE "pending"]
    /\ desk' = [desk EXCEPT ![w].pc = "repaired"]
    /\ UNCHANGED <<kind, action, known, holder, live, claimed, domain, feed, shown,
                   message, late, trouble>>

(* The request itself, or the repaired answer, is not valid. *)
GivesUp(w) ==
    /\ desk[w].pc \in {"generate", "repaired"}
    /\ UNCHANGED domain /\ Says(w, "rejected")

(* The draft, or the one an earlier try has left. *)
CreateGenerated(w) ==
    /\ desk[w].pc = "create" /\ UNCHANGED template
    /\ IF Fresh THEN Create /\ Says(w, "created")
       ELSE /\ UNCHANGED <<instance, made>>
            /\ Says(w, IF instance = "draft" THEN "created" ELSE "rejected")

MarkProcessed(w) ==
    /\ desk[w].pc = "settle" /\ Mine(w, "action", "processing")
    /\ Conclude(w, IF desk[w].verdict = "created" THEN "processed" ELSE "rejected",
                desk[w].verdict)
    /\ failedIn' = IF desk[w].verdict = "created" THEN "none" ELSE failedIn

-----------------------------------------------------------------------------
(* RoleBindingProgressWorker *)

ClaimProgress(w) ==
    /\ status["action"] \in Active
    /\ Retryable("progress") \/ Lapsed("progress", "sending")
    /\ Claim(w, "progress", "sending", "note")
    /\ claimed' = revision
    /\ UNCHANGED <<kind, action, known, stage, revision, domain, feed, shown,
                   message, late, trouble>>

(* The stage that was claimed, which need not be the latest. *)
Note(w) ==
    /\ desk[w].pc = "note"
    /\ shown' = desk[w].stage
    /\ desk' = [desk EXCEPT ![w].pc = "noted"]
    /\ UNCHANGED <<kind, action, known, status, holder, live, progress, domain,
                   feed, message, late, trouble>>

Newer == revision > claimed /\ status["action"] \in Active

MarkProgressSent(w) ==
    /\ desk[w].pc = "noted" /\ Mine(w, "progress", "sending")
    /\ Settle(w, "progress", IF Newer THEN "pending" ELSE "sent")
    /\ claimed' = 0
    /\ UNCHANGED <<kind, action, known, stage, revision, domain, feed, shown,
                   message, late, trouble>>

MarkProgressFailed(w) ==
    /\ desk[w].pc = "note" /\ Mine(w, "progress", "sending") /\ Spend
    /\ Settle(w, "progress", IF Newer THEN "pending"
                             ELSE IF status["action"] \in Active THEN "failed"
                             ELSE "sent")
    /\ claimed' = 0
    /\ UNCHANGED <<kind, action, known, stage, revision, domain, feed, shown,
                   message, late>>

-----------------------------------------------------------------------------
(* RoleBindingReplyWorker *)

(* A slip: an update of the card that is under way does not matter. *)
NeverBusy == FALSE

(* A slip: the update of a dead worker holds the reply up. *)
BusyForEver == status["progress"] = "sending"

ProgressBusy == status["progress"] = "sending" /\ live["progress"]

ClaimReply(w) ==
    /\ ~ProgressBusy
    /\ Retryable("reply") \/ Lapsed("reply", "sending")
    /\ Claim(w, "reply", "sending", "result")
    /\ UNCHANGED <<kind, action, known, progress, domain, feed, shown, message,
                   late, trouble>>

(* A card that cannot be updated does not hold the message up. *)
ShowResult(w) ==
    /\ desk[w].pc = "result"
    /\ \/ shown' = verdict /\ UNCHANGED trouble
       \/ Spend /\ UNCHANGED shown
    /\ desk' = [desk EXCEPT ![w].pc = "tell"]
    /\ UNCHANGED <<kind, action, known, status, holder, live, progress, domain,
                   feed, message, late>>

Tell(w) ==
    /\ desk[w].pc = "tell"
    /\ message' = IF message = "none" THEN verdict ELSE message
    /\ desk' = [desk EXCEPT ![w].pc = "told"]
    /\ UNCHANGED <<kind, action, known, status, holder, live, progress, domain,
                   feed, shown, late, trouble>>

MarkReplySent(w) ==
    /\ desk[w].pc = "told" /\ Mine(w, "reply", "sending")
    /\ Settle(w, "reply", "sent")
    /\ UNCHANGED <<kind, action, known, progress, domain, feed, shown, message,
                   late, trouble>>

ReplyFails(w) ==
    /\ desk[w].pc = "tell" /\ Mine(w, "reply", "sending") /\ Spend
    /\ Settle(w, "reply", "failed")
    /\ UNCHANGED <<kind, action, known, progress, domain, feed, shown, message, late>>

-----------------------------------------------------------------------------
(* Everybody else: the draft is confirmed or discarded, the template is    *)
(* disabled.                                                               *)

Others ==
    /\ \/ instance = "draft" /\ instance' = "taken" /\ UNCHANGED template
       \/ kind = "template" /\ template = "enabled" /\ template' = "disabled"
          /\ UNCHANGED instance
    /\ UNCHANGED <<kind, action, known, status, holder, live, progress, made, feed,
                   shown, message, desk, late, trouble>>

Starts(w) ==
    \/ ClaimCard(w) \/ ClaimVerification(w) \/ ClaimAction(w) \/ ClaimProgress(w)
    \/ ClaimReply(w)

Goes(w) ==
    \/ SendCard(w) \/ MarkCardSent(w) \/ CardFails(w)
    \/ VerifyRejects(w) \/ Verified(w) \/ ActionFails(w)
    \/ Bind(w) \/ LookUp(w) \/ Generate(w) \/ Repair(w) \/ GivesUp(w) \/ CreateGenerated(w)
    \/ MarkProcessed(w) \/ Note(w) \/ MarkProgressSent(w) \/ MarkProgressFailed(w)
    \/ ShowResult(w) \/ Tell(w) \/ MarkReplySent(w) \/ ReplyFails(w) \/ LostClaim(w)

Callback == ShowProcessing \/ Release \/ FallsDue

Next ==
    \/ Click \/ Callback \/ CallbackDies \/ Others
    \/ \E lane \in Lanes : LeaseEnds(lane)
    \/ \E w \in Workers : Starts(w) \/ Goes(w) \/ Die(w)

Spec == Init /\ [][Next]_vars

(* Workers poll every lane for ever and finish what they begin, leases run *)
(* out, the callback goes on.  People owe nothing.                         *)
FairSpec ==
    /\ Spec /\ WF_vars(Callback)
    /\ \A lane \in Lanes : WF_vars(LeaseEnds(lane))
    /\ \A w \in Workers : WF_vars(Goes(w))
    /\ SF_vars(\E w \in Workers : ClaimProgress(w))
    /\ SF_vars(\E w \in Workers : ClaimCard(w) \/ ClaimVerification(w) \/ ClaimAction(w)
                                  \/ ClaimReply(w))

-----------------------------------------------------------------------------
(* Properties. *)

Rank(card) ==
    CASE card = "none" -> 0 [] card = "form" -> 1 [] card = "processing" -> 2
      [] card = "generating" -> 3 [] card = "repairing" -> 4 [] OTHER -> 5

(* Rows in the statuses their lane has; a row with a holder is claimed,    *)
(* and a decided action has its reply.                                     *)
TypeOK ==
    /\ status["card"] \in {"pending", "sending", "failed", "sent"}
    /\ status["action"] \in {"none", "pending", "verifying", "verified", "processing",
                             "failed", "processed", "rejected"}
    /\ \A lane \in {"progress", "reply"} :
          status[lane] \in {"none", "pending", "sending", "failed", "sent"}
    /\ \A lane \in Lanes : holder[lane] # Nobody <=>
          status[lane] \in {"sending", "verifying", "processing"}
    /\ status["action"] \in {"processed", "rejected"} <=> status["reply"] # "none"
    /\ kind = "template" => status["progress"] = "none"

(* The card only moves on, from the form over the stages of the generation *)
(* to the result, although the callback, the progress and the reply are    *)
(* sent by different workers - as long as no progress lease runs out under *)
(* a worker that still updates the card.                                   *)
CardMovesOn == [][late \/ Rank(shown') >= Rank(shown)]_vars

(* A form that was submitted is answered in the end.                       *)
EventuallyAnswered == form # "absent" ~> message # "none"

(* However often it is tried, a submitted form becomes one draft at most,  *)
(* "created" is never said of a draft that is not there, and no progress   *)
(* is lost when the stage changes while the card is being updated: once    *)
(* the progress counts as sent the card shows the stage that the first try *)
(* of the generation is in.  (Between two tries the progress is given up:  *)
(* the row is neither verified nor processing then.)                       *)
SentMeansShown ==
    /\ TypeOK
    /\ made <= 1 /\ (message = "created" => made = 1)
    /\ status["progress"] = "sent" /\ status["action"] \in Active =>
        shown = stage \/ late \/ failedIn = "processing"

(* The first submission of a good form passes the verification.  Not what  *)
(* the code does: README, section 7.                                       *)
GoodFormsAreVerified ==
    form = "good" /\ verdict = "rejected" => stage # "none" \/ template = "disabled"
=============================================================================
