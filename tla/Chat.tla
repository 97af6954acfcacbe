-------------------------------- MODULE Chat --------------------------------
(***************************************************************************)
(* Commands that people send in the chat, as text or by a button of a      *)
(* card, from the callback to the reply.  The row of a command passes      *)
(* three lanes, each with its own lease: the directory verifies the        *)
(* sender, the domain worker applies the command, the reply worker settles *)
(* the card and sends a message.  A worker may die or lose its lease       *)
(* between any two calls, and then somebody else does the work again.      *)
(*                                                                         *)
(* Abstractions: one instance, "flow", stands for what the commands act    *)
(* on; Workflow.tla has the commands in full, and Store.tla shows that     *)
(* each is atomic.  Every process may serve every lane, one row at a time. *)
(* Bounds: MaxVersion on the flow (of steps of others), Trouble on         *)
(* crashes, failures and leases that run out under a worker.               *)
(***************************************************************************)
EXTENDS Naturals, FiniteSets

CONSTANTS Commands,     \* event ids
          Messages,     \* ids of messages and cards
          Requests,     \* what may be asked, a set of [Commands -> Request]
          Workers, Nobody,
          MaxTries,     \* max_attempts of the verification
          MaxVersion, Trouble

CardKinds == {"recover", "accept", "reject"}
Kinds == CardKinds \cup {"show", "draft", "wizard", "confirm", "pause",
                         "resume", "cancel", "restart"}
Request == [kind: Kinds, message: Messages, byOwner: BOOLEAN]
TokenUses == 2          \* Feishu: updates allowed with the token of a click

ASSUME ChatAssumption ==
    /\ Requests \subseteq [Commands -> Request]
    /\ Nobody \notin Workers
    /\ MaxTries \in Nat \ {0} /\ MaxVersion \in Nat /\ Trouble \in Nat

VARIABLES
    request,    \* text, message and sender of each command, fixed
    row,        \* workflow_im_commands
    bound,      \* instance_version on the card or in the confirmation
    flow,       \* the instance the commands name
    consumed,   \* consumed restart previews, by the command that names them
    drafts,     \* instances made from messages, by message id
    feed,       \* the callback's thread: off, feeding, shown, over
    card,       \* Feishu: what each card shows
    used,       \* Feishu: updates made with the token of the click
    chat,       \* Feishu: the message that answers each command
    desk,       \* memory of the workers
    effect,     \* history: how often a command changed the flow or made a draft
    trouble

vars == <<request, row, bound, flow, consumed, drafts, feed, card, used, chat,
          desk, effect, trouble>>

FlowStatus == {"draft", "running", "paused", "done", "failed", "canceled"}
Active == {"running", "paused"}
Verdicts == {"applied", "rejected", "exhausted", "card"}
(* The statuses that ask for a reply. *)
Final == {"processed", "exhausted"}

NoRow == [status |-> "absent", due |-> FALSE, holder |-> Nobody, live |-> FALSE,
          tries |-> 0, verdict |-> "none", reply |-> "none",
          sender |-> Nobody, sending |-> FALSE]
Idle == [pc |-> "idle", cmd |-> "none", verdict |-> "none"]

Spend == trouble > 0 /\ trouble' = trouble - 1
IsCard(c) == request[c].kind \in CardKinds
Message(c) == request[c].message

Init ==
    /\ request \in Requests
    /\ row = [c \in Commands |-> NoRow]
    /\ bound = [c \in Commands |-> 0]
    /\ flow \in [status: {"draft", "running", "failed"}, open: {"work", "review",
                 "none"}, version: {0}]
    /\ flow.status = "running" <=> flow.open # "none"
    /\ consumed = {} /\ drafts = [m \in Messages |-> "none"]
    /\ feed = [c \in Commands |-> "off"]
    /\ card = [m \in Messages |-> "buttons"]
    /\ used = [c \in Commands |-> 0]
    /\ chat = [c \in Commands |-> "none"]
    /\ desk = [w \in Workers |-> Idle]
    /\ effect = [c \in Commands |-> 0]
    /\ trouble = Trouble

flowVars == <<flow, consumed, drafts, effect>>
feishu == <<card, used, chat>>

-----------------------------------------------------------------------------
(* The callbacks. *)

(* ON CONFLICT DO NOTHING, on the event id and on the message id. *)
New(c) == \A d \in Commands : Message(d) = Message(c) => row[d].status = "absent"

(* available_at: now, or for a card after the fallback of ten seconds. *)
DueOnArrival(c) == ~IsCard(c)

(* The card or the preview was made at the version the flow has by now. *)
Receive(c) ==
    /\ New(c)
    /\ row' = [row EXCEPT ![c] = [NoRow EXCEPT !.status = "pending",
                                               !.due = DueOnArrival(c)]]
    /\ bound' = [bound EXCEPT ![c] = flow.version]
    /\ UNCHANGED <<request, flowVars, feishu, desk, trouble>>

ReceiveText(c) == ~IsCard(c) /\ Receive(c) /\ UNCHANGED feed

(* A click is stored, then its card changes. *)
ReceiveClick(c) == Receive(c) /\ feed' = [feed EXCEPT ![c] = "feeding"]
ReceiveRecovery(c) == request[c].kind = "recover" /\ ReceiveClick(c)
ReceiveDecision(c) == request[c].kind \in {"accept", "reject"} /\ ReceiveClick(c)

(* card_updater: the update lands, or fails and the callback goes on. *)
ShowProcessing(c) ==
    /\ feed[c] = "feeding"
    /\ feed' = [feed EXCEPT ![c] = "shown"]
    /\ \/ /\ card' = [card EXCEPT ![Message(c)] = "processing"]
          /\ used' = [used EXCEPT ![c] = @ + 1]
          /\ UNCHANGED trouble
       \/ Spend /\ UNCHANGED <<card, used>>
    /\ UNCHANGED <<request, row, bound, flowVars, chat, desk>>

(* release_im_command, for a row that is still pending. *)
Release(c) ==
    /\ feed[c] = "shown"
    /\ feed' = [feed EXCEPT ![c] = "over"]
    /\ row' = [row EXCEPT ![c].due = @ \/ row[c].status = "pending"]
    /\ UNCHANGED <<request, bound, flowVars, feishu, desk, trouble>>

CallbackDies(c) ==
    /\ feed[c] \in {"feeding", "shown"} /\ Spend
    /\ feed' = [feed EXCEPT ![c] = "over"]
    /\ UNCHANGED <<request, row, bound, flowVars, feishu, desk>>

(* CARD_FEEDBACK_FALLBACK: longer than the update of the card may take. *)
FallsDue(c) ==
    /\ row[c].status = "pending" /\ ~row[c].due /\ feed[c] = "over"
    /\ row' = [row EXCEPT ![c].due = TRUE]
    /\ UNCHANGED <<request, bound, flowVars, feed, feishu, desk, trouble>>

-----------------------------------------------------------------------------
(* Claims on the command. *)

(* A slip: the claim of a dead worker is never taken over. *)
NeverLapsed(c) == FALSE

Lapsed(c) == ~row[c].live
Verifiable(c) == \/ row[c].status = "pending" /\ row[c].due
                 \/ row[c].status = "verifyFailed"
                 \/ row[c].status = "verifying" /\ Lapsed(c)
Applicable(c) == \/ row[c].status \in {"verified", "applyFailed"}
                 \/ row[c].status = "processing" /\ Lapsed(c)

AtMost(n, m) == IF n < m THEN n ELSE m

(* _claim_commands; attempt_count matters up to MaxTries only. *)
Claim(w, c, status, pc) ==
    /\ desk[w].pc = "idle"
    /\ row' = [row EXCEPT ![c] = [@ EXCEPT
           !.status = status, !.holder = w, !.live = TRUE,
           !.tries = AtMost(row[c].tries + 1, MaxTries)]]
    /\ desk' = [desk EXCEPT ![w] = [Idle EXCEPT !.pc = pc, !.cmd = c]]
    /\ UNCHANGED <<request, bound, flowVars, feed, feishu, trouble>>

ClaimVerification(w, c) == Verifiable(c) /\ Claim(w, c, "verifying", "verify")
ClaimCommand(w, c) == Applicable(c) /\ Claim(w, c, "processing", "apply")

(* _settle_command: status and claim_token must still be the worker's. *)
Mine(w, c, status) == row[c].status = status /\ row[c].holder = w

Settle(w, c, status, verdict) ==
    /\ row' = [row EXCEPT ![c] = [@ EXCEPT
           !.status = status, !.holder = Nobody, !.live = FALSE,
           !.verdict = verdict,
           !.reply = IF status \in Final THEN "pending" ELSE row[c].reply]]
    /\ desk' = [desk EXCEPT ![w] = Idle]
    /\ UNCHANGED <<request, bound, flowVars, feed, feishu>>

(* InvalidIMCommandClaimError ends the worker's round. *)
LostClaim(w) ==
    /\ LET c == desk[w].cmd IN
       \/ desk[w].pc = "verify" /\ ~Mine(w, c, "verifying")
       \/ desk[w].pc = "settle" /\ ~Mine(w, c, "processing")
    /\ desk' = [desk EXCEPT ![w] = Idle]
    /\ UNCHANGED <<request, row, bound, flowVars, feed, feishu, trouble>>

-----------------------------------------------------------------------------
(* IMCommandVerificationWorker: sender and mentioned owners are active. *)

Verify(w) ==
    /\ desk[w].pc = "verify"
    /\ LET c == desk[w].cmd IN
       /\ Mine(w, c, "verifying")
       /\ \/ Settle(w, c, "verified", "none") /\ UNCHANGED trouble
          \/ Settle(w, c, "processed", "rejected") /\ UNCHANGED trouble

(* The directory cannot be asked: a trouble, but for the last try. *)
VerifyFails(w) ==
    /\ desk[w].pc = "verify"
    /\ LET c == desk[w].cmd IN
       /\ Mine(w, c, "verifying")
       /\ IF row[c].tries >= MaxTries
          THEN Settle(w, c, "exhausted", "exhausted") /\ UNCHANGED trouble
          ELSE Settle(w, c, "verifyFailed", "none") /\ Spend

-----------------------------------------------------------------------------
(* IMCommandWorker._apply: the worker makes up its answer, and the domain  *)
(* commits, before the row is settled.                                     *)

Says(w, v) ==
    desk' = [desk EXCEPT ![w] = [@ EXCEPT !.pc = "settle", !.verdict = v]]

Answer(w, v) == Says(w, v) /\ UNCHANGED flowVars

(* The command changes the flow in one transaction. *)
Change(w, c, status, open) ==
    /\ flow' = [status |-> status, open |-> open, version |-> flow.version + 1]
    /\ effect' = [effect EXCEPT ![c] = @ + 1]
    /\ Says(w, "applied")

ByOwner(c) == request[c].byOwner

(* A slip: the version on the card is not compared. *)
AlwaysCurrent(c) == TRUE

Current(c) == bound[c] = flow.version

Show(w, c) == request[c].kind = "show" /\ Answer(w, "applied")

(* A bare draft, and a start with roles to bind: a card is asked for. *)
AskForRoles(w, c) == request[c].kind = "wizard" /\ Answer(w, "card")

Fresh(c) == drafts[Message(c)] = "none"

(* create_draft, under an id made of the message id. *)
CreateDraft(w, c) ==
    /\ request[c].kind = "draft"
    /\ IF Fresh(c)
       THEN /\ drafts' = [drafts EXCEPT ![Message(c)] = "draft"]
            /\ effect' = [effect EXCEPT ![c] = @ + 1]
            /\ Says(w, "applied") /\ UNCHANGED <<flow, consumed>>
       ELSE Answer(w, IF drafts[Message(c)] = "draft" THEN "applied"
                                                      ELSE "rejected")

Confirm(w, c) ==
    /\ request[c].kind = "confirm"
    /\ IF ByOwner(c) /\ flow.status = "draft"
       THEN Change(w, c, "running", "work") /\ UNCHANGED <<consumed, drafts>>
       ELSE Answer(w, IF ByOwner(c) /\ flow.status \in {"running", "done"}
                      THEN "applied" ELSE "rejected")

(* pause and resume answer at once when the flow is there already. *)
Move(w, c, kind, from, to) ==
    /\ request[c].kind = kind
    /\ IF ByOwner(c) /\ flow.status \in from
       THEN Change(w, c, to, flow.open) /\ UNCHANGED <<consumed, drafts>>
       ELSE Answer(w, IF ByOwner(c) /\ flow.status = to THEN "applied"
                                                        ELSE "rejected")

Pause(w, c) == Move(w, c, "pause", {"running"}, "paused")
Resume(w, c) == Move(w, c, "resume", {"paused", "draft"}, "running")

(* cancel-confirm; a draft has no node rows to look at: KeyError. *)
Cancel(w, c) ==
    /\ request[c].kind = "cancel"
    /\ ~(ByOwner(c) /\ flow.status = "draft" /\ Current(c))
    /\ IF ByOwner(c) /\ flow.status \in Active /\ Current(c)
       THEN Change(w, c, "canceled", "none") /\ UNCHANGED <<consumed, drafts>>
       ELSE Answer(w, IF ByOwner(c) /\ flow.status = "canceled" THEN "applied"
                                                                ELSE "rejected")

(* A slip: the confirmed preview is not marked as consumed. *)
NotConsumed(c) == consumed

Consumed(c) == consumed \cup {c}

(* restart-confirm of a preview, which is consumed in the same transaction *)
Restart(w, c) ==
    /\ request[c].kind = "restart"
    /\ IF ByOwner(c) /\ flow.status \in {"done", "failed"} /\ Current(c)
                     /\ c \notin consumed
       THEN /\ Change(w, c, "running", "work")
            /\ consumed' = Consumed(c) /\ UNCHANGED drafts
       ELSE Answer(w, IF ByOwner(c) /\ c \in consumed THEN "applied"
                                                      ELSE "rejected")

Recover(w, c) ==
    /\ request[c].kind = "recover"
    /\ IF ByOwner(c) /\ flow.status = "failed" /\ Current(c)
       THEN Change(w, c, "running", "work") /\ UNCHANGED <<consumed, drafts>>
       ELSE Answer(w, "rejected")

(* submit_human_decision: accepting ends the flow, rejecting fails it. *)
Decide(w, c) ==
    /\ request[c].kind \in {"accept", "reject"}
    /\ IF ByOwner(c) /\ flow.status \in Active /\ flow.open = "review" /\ Current(c)
       THEN /\ Change(w, c, IF request[c].kind = "accept" THEN "done" ELSE "failed",
                      "none")
            /\ UNCHANGED <<consumed, drafts>>
       ELSE Answer(w, "rejected")

Apply(w) ==
    /\ desk[w].pc = "apply"
    /\ LET c == desk[w].cmd IN
       \/ Show(w, c) \/ AskForRoles(w, c) \/ CreateDraft(w, c) \/ Confirm(w, c)
       \/ Pause(w, c) \/ Resume(w, c) \/ Cancel(w, c) \/ Restart(w, c)
       \/ Recover(w, c) \/ Decide(w, c)
    /\ UNCHANGED <<request, row, bound, feed, feishu, trouble>>

(* mark_im_processed, or mark_im_role_binding_requested for a card *)
MarkProcessed(w) ==
    /\ desk[w].pc = "settle" /\ Mine(w, desk[w].cmd, "processing")
    /\ Settle(w, desk[w].cmd, "processed", desk[w].verdict)
    /\ UNCHANGED trouble

(* Any other exception: a lost race, the database, a cancelled draft. *)
ApplyFails(w) ==
    /\ desk[w].pc = "apply" /\ Mine(w, desk[w].cmd, "processing")
    /\ Settle(w, desk[w].cmd, "applyFailed", "none")
    /\ LET c == desk[w].cmd IN
       \/ Spend
       \/ /\ request[c].kind = "cancel" /\ ByOwner(c)
          /\ flow.status = "draft" /\ Current(c)
          /\ UNCHANGED trouble

-----------------------------------------------------------------------------
(* IMReplyWorker.  A role-binding card is sent by another worker. *)

ClaimReply(w, c) ==
    /\ desk[w].pc = "idle" /\ row[c].verdict # "card"
    /\ \/ row[c].reply \in {"pending", "failed"}
       \/ row[c].reply = "sending" /\ ~row[c].sending
    /\ row' = [row EXCEPT ![c] = [@ EXCEPT !.reply = "sending", !.sender = w,
                                           !.sending = TRUE]]
    /\ desk' = [desk EXCEPT ![w] = [Idle EXCEPT !.cmd = c,
                  !.pc = IF IsCard(c) THEN "update" ELSE "send"]]
    /\ UNCHANGED <<request, bound, flowVars, feed, feishu, trouble>>

(* update_chat_card; Feishu takes a token twice. *)
UpdateCard(w) ==
    /\ desk[w].pc = "update"
    /\ LET c == desk[w].cmd IN
       /\ used[c] < TokenUses
       /\ used' = [used EXCEPT ![c] = @ + 1]
       /\ card' = [card EXCEPT ![Message(c)] = "result"]
    /\ desk' = [desk EXCEPT ![w].pc = "send"]
    /\ UNCHANGED <<request, row, bound, flowVars, feed, chat, trouble>>

(* send_chat_message under a key made of the event id: Feishu sends once. *)
Sent(c) == IF chat[c] = "none" THEN row[c].verdict ELSE chat[c]

SendMessage(w) ==
    /\ desk[w].pc = "send"
    /\ chat' = [chat EXCEPT ![desk[w].cmd] = Sent(desk[w].cmd)]
    /\ desk' = [desk EXCEPT ![w].pc = "sent"]
    /\ UNCHANGED <<request, row, bound, flowVars, feed, card, used, trouble>>

Sending(w, c) == row[c].reply = "sending" /\ row[c].sender = w

FinishReply(w, c, reply) ==
    /\ row' = IF Sending(w, c)
              THEN [row EXCEPT ![c] = [@ EXCEPT !.reply = reply,
                                 !.sender = Nobody, !.sending = FALSE]]
              ELSE row
    /\ desk' = [desk EXCEPT ![w] = Idle]
    /\ UNCHANGED <<request, bound, flowVars, feed, feishu>>

MarkSent(w) ==
    desk[w].pc = "sent" /\ FinishReply(w, desk[w].cmd, "sent") /\ UNCHANGED trouble

(* The update of the card or the message fails; so does an update with a   *)
(* token that is used up.                                                  *)
ReplyFails(w) ==
    /\ desk[w].pc \in {"update", "send"}
    /\ FinishReply(w, desk[w].cmd, "failed")
    /\ \/ Spend
       \/ /\ desk[w].pc = "update" /\ used[desk[w].cmd] = TokenUses
          /\ UNCHANGED trouble

-----------------------------------------------------------------------------
(* Deaths, leases, and everybody else. *)

Die(w) ==
    /\ desk[w].pc # "idle" /\ Spend
    /\ desk' = [desk EXCEPT ![w] = Idle]
    /\ UNCHANGED <<request, row, bound, flowVars, feed, feishu>>

(* Sure after a death, trouble while the worker lives. *)
LeaseEnds(c) ==
    /\ row[c].live
    /\ row' = [row EXCEPT ![c].live = FALSE]
    /\ LET w == row[c].holder IN
       IF desk[w].pc \in {"verify", "apply", "settle"} /\ desk[w].cmd = c
       THEN Spend ELSE UNCHANGED trouble
    /\ UNCHANGED <<request, bound, flowVars, feed, feishu, desk>>

ReplyLeaseEnds(c) ==
    /\ row[c].sending
    /\ row' = [row EXCEPT ![c].sending = FALSE]
    /\ LET w == row[c].sender IN
       IF desk[w].pc \in {"update", "send", "sent"} /\ desk[w].cmd = c
       THEN Spend ELSE UNCHANGED trouble
    /\ UNCHANGED <<request, bound, flowVars, feed, feishu, desk>>

(* The runtime worker ends the open node, or fails it. *)
NodeEnds ==
    /\ flow.version < MaxVersion
    /\ flow.status \in Active /\ flow.open = "work"
    /\ \/ flow' = [flow EXCEPT !.open = "review", !.version = @ + 1]
       \/ flow' = [status |-> "failed", open |-> "none", version |-> flow.version + 1]
    /\ UNCHANGED <<request, row, bound, consumed, drafts, effect, feed, feishu,
                   desk, trouble>>

(* The owner confirms or discards the draft elsewhere. *)
DraftTaken(m) ==
    /\ drafts[m] = "draft"
    /\ drafts' = [drafts EXCEPT ![m] = "taken"]
    /\ UNCHANGED <<request, row, bound, flow, consumed, effect, feed, feishu,
                   desk, trouble>>

Callback(c) == ShowProcessing(c) \/ Release(c) \/ FallsDue(c)

Goes(w) ==
    \/ Verify(w) \/ VerifyFails(w) \/ Apply(w) \/ ApplyFails(w)
    \/ MarkProcessed(w) \/ LostClaim(w)
    \/ UpdateCard(w) \/ SendMessage(w) \/ MarkSent(w) \/ ReplyFails(w)

Starts(w, c) == ClaimVerification(w, c) \/ ClaimCommand(w, c) \/ ClaimReply(w, c)

Next ==
    \/ \E c \in Commands :
          \/ ReceiveText(c) \/ ReceiveRecovery(c) \/ ReceiveDecision(c)
          \/ CallbackDies(c) \/ Callback(c)
          \/ LeaseEnds(c) \/ ReplyLeaseEnds(c)
    \/ \E w \in Workers : Goes(w) \/ Die(w) \/ \E c \in Commands : Starts(w, c)
    \/ NodeEnds \/ \E m \in Messages : DraftTaken(m)

Spec == Init /\ [][Next]_vars

(* Callbacks go on, workers poll for ever, leases run out; people and      *)
(* nodes owe nothing.  Claims are strongly fair: rows are taken in the     *)
(* order in which they fell due, and a failed row falls due later.         *)
FairSpec ==
    /\ Spec
    /\ \A c \in Commands :
          /\ WF_vars(Callback(c)) /\ WF_vars(LeaseEnds(c)) /\ WF_vars(ReplyLeaseEnds(c))
          /\ SF_vars(\E w \in Workers : Starts(w, c))
    /\ \A w \in Workers : WF_vars(Goes(w))

-----------------------------------------------------------------------------
(* Properties. *)

(* The rows, the desks, the cards and the chat hold what the code can put  *)
(* there; a claimed row has a holder, a settled one has none.              *)
TypeOK ==
    /\ \A c \in Commands :
        /\ row[c].verdict \in Verdicts \cup {"none"}
        /\ row[c].tries \in 0 .. MaxTries
        /\ row[c].status \in {"verifying", "processing"} <=> row[c].holder # Nobody
        /\ row[c].reply = "sending" <=> row[c].sender # Nobody
        /\ row[c].status \in {"processed", "exhausted"} <=> row[c].reply # "none"
        /\ used[c] \in 0 .. TokenUses
    /\ \A m \in Messages : card[m] \in {"buttons", "processing", "result"}
    /\ flow.status \in FlowStatus

(* Whatever dies and whoever does it again: a command that is bound to a   *)
(* version or to a message takes effect at most once, and of two clicks    *)
(* on one card only one does.                                              *)
BoundKinds == Kinds \ {"pause", "resume"}
AtMostOnce ==
    TypeOK /\ \A c \in Commands : request[c].kind \in BoundKinds =>
        /\ effect[c] <= 1
        /\ \A d \in Commands \ {c} :
              Message(d) = Message(c) => effect[c] = 0 \/ effect[d] = 0

(* Cancellation, restarts and recorded previews survive a repetition: what *)
(* the chat is told of them is what happened; and once it was told, the    *)
(* clicked card shows it and stays so: the slower picture of the callback  *)
(* never overwrites it.                                                    *)
Replayable == {"cancel", "restart"}
ToldTheTruth ==
    /\ \A c \in Commands : request[c].kind \in Replayable =>
        /\ chat[c] \in {"rejected", "exhausted"} => effect[c] = 0
        /\ chat[c] = "applied" =>
              \E d \in Commands : effect[d] = 1 /\ (d = c \/ request[d].kind = "cancel")
    /\ \A c \in Commands : row[c].reply = "sent" /\ IsCard(c) => card[Message(c)] = "result"

(* "Not executed" means that nothing was executed, for every command.      *)
(* Not what the code does: README, section 7.                              *)
RejectedMeansUndone ==
    \A c \in Commands : chat[c] = "rejected" => effect[c] = 0

(* Every command that is received is answered in the end, in words or by   *)
(* the card for the roles, unless the token of its card is used up or it   *)
(* asks to cancel a draft.                                                 *)
Answered(c) == chat[c] # "none" \/ row[c].verdict = "card"
EventuallyAnswered ==
    \A c \in Commands :
        row[c].status # "absent" ~>
            \/ Answered(c) \/ used[c] = TokenUses
            \/ request[c].kind = "cancel" /\ flow.status = "draft"

(* The same without the exception for a token that is used up.  Not what   *)
(* the code does: README, section 7.                                       *)
EveryCommandAnswered ==
    \A c \in Commands :
        row[c].status # "absent" ~>
            \/ Answered(c)
            \/ request[c].kind = "cancel" /\ flow.status = "draft"
=============================================================================
