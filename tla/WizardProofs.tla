---------------------------- MODULE WizardProofs ----------------------------
(***************************************************************************)
(* Proofs about Wizard.  The strengthening Inv has five parts.  Typed says *)
(* which values every variable takes, with TypeOK.  Once says that the     *)
(* draft under the command's id is made once, and that nothing calls it    *)
(* created before.  Course says how far the action has come: before it is  *)
(* verified there is no progress, before it is decided there is no reply,  *)
(* and before the callback is over nobody claims it.  Exclusive is about   *)
(* the card: as long as no progress lease ran out under its worker, the    *)
(* worker in the progress lane is alone there, works with the stage of the *)
(* revision that was claimed, and nobody shows a result meanwhile.         *)
(* Faithful is the promise itself: progress that counts as sent is the     *)
(* stage the card shows.                                                   *)
(***************************************************************************)
EXTENDS Wizard, TLAPS

(* Where a worker is in its code, by the lane it works in.                 *)
Answers == {"created", "rejected"}
Cards == {"none", "form", "processing", "generating", "repairing"} \cup Answers
CardSteps == {"send", "record"}
GenerateSteps == {"look", "generate", "repaired", "create"}
ActionSteps == {"verify", "bind", "settle"} \cup GenerateSteps
ProgressSteps == {"note", "noted"}
ReplySteps == {"result", "tell", "told"}

LaneOf(pc) ==
    CASE pc = "idle" -> "none" [] pc \in CardSteps -> "card"
      [] pc \in ActionSteps -> "action" [] pc \in ProgressSteps -> "progress"
      [] pc \in ReplySteps -> "reply"

Stages == {"none", "generating", "repairing"}
Pcs == {"idle"} \cup CardSteps \cup ActionSteps \cup ProgressSteps \cup ReplySteps

Memory == [lane: {"none"} \cup Lanes, pc: Pcs, stage: Stages,
           verdict: {"none"} \cup Answers]

Statuses == {"none", "pending", "sending", "failed", "sent", "verifying", "verified",
             "processing", "processed", "rejected"}

(* The values of all variables; a worker is in the lane of its code.       *)
Typed ==
    /\ TypeOK
    /\ kind \in Kinds /\ form \in {"absent", "good", "bad"}
    /\ status \in [Lanes -> Statuses]
    /\ holder \in [Lanes -> Workers \cup {Nobody}] /\ live \in [Lanes -> BOOLEAN]
    /\ due \in BOOLEAN /\ failedIn \in {"none", "verification", "processing"}
    /\ stage \in Stages /\ revision \in Nat /\ claimed \in Nat
    /\ verdict \in {"none"} \cup Answers /\ instance \in {"none", "draft", "taken"}
    /\ feed \in {"off", "feeding", "shown", "over"}
    /\ shown \in Cards /\ message \in {"none"} \cup Answers
    /\ desk \in [Workers -> Memory]
    /\ \A w \in Workers : desk[w].lane = LaneOf(desk[w].pc)
    /\ late \in BOOLEAN

(* One draft under the id of the command, and no word of it before.        *)
Once ==
    /\ made = IF instance = "none" THEN 0 ELSE 1
    /\ verdict = "created" => made = 1
    /\ message = "created" => made = 1
    /\ \A w \in Workers : desk[w].verdict = "created" => made = 1

Decided == status["action"] \in {"processed", "rejected"}
Waiting == status["action"] \in {"none", "pending"}
Unverified ==
    \/ status["action"] \in {"none", "pending", "verifying"}
    \/ status["action"] = "failed" /\ failedIn = "verification"

(* How far the action has come, and what cannot be there before.           *)
Course ==
    /\ form = "absent" <=> status["action"] = "none"
    /\ status["action"] = "none" => feed = "off" /\ shown \in {"none", "form"}
    /\ feed # "over" => ~due
    /\ ~due => Waiting
    /\ status["action"] = "failed" => failedIn # "none"
    /\ Unverified => stage = "none"
    /\ stage = "none" => status["progress"] = "none"
    /\ Decided => verdict \in Answers
    /\ \A w \in Workers :
        /\ desk[w].pc \in GenerateSteps => kind = "wizard"
        /\ desk[w].pc = "settle" => desk[w].verdict \in Answers
        /\ desk[w].lane = "reply" => Decided
        /\ desk[w].lane = "progress" => desk[w].stage # "none" /\ stage # "none"
        /\ desk[w].stage = "repairing" => stage = "repairing"
    /\ shown \in {"generating", "repairing"} => stage # "none"

(* Nobody else has the progress lane, and what its worker has in mind.     *)
Alone(w) ==
    /\ status["progress"] = "sending" /\ holder["progress"] = w /\ live["progress"]
    /\ claimed <= revision
    /\ claimed = revision => stage = desk[w].stage
    /\ shown \notin Answers
    /\ shown = "repairing" => desk[w].stage = "repairing"
    /\ desk[w].pc = "noted" => shown = desk[w].stage
    /\ \A v \in Workers : desk[v].lane # "reply"

(* Without a lapse of a progress lease, one worker writes progress.        *)
Exclusive ==
    ~late =>
        /\ \A w \in Workers : desk[w].lane = "progress" => Alone(w)
        /\ shown = "repairing" => stage = "repairing"
        /\ shown \in Answers => Decided

(* What "sent" means.                                                      *)
Faithful ==
    status["progress"] = "sent" /\ status["action"] \in Active =>
        shown = stage \/ late \/ failedIn = "processing"

Inv == Typed /\ Once /\ Course /\ Exclusive /\ Faithful

-----------------------------------------------------------------------------
(* The lane of every place in a worker's code. *)
LEMMA LaneTable ==
    /\ LaneOf("idle") = "none"
    /\ \A pc \in CardSteps : LaneOf(pc) = "card"
    /\ \A pc \in ActionSteps : LaneOf(pc) = "action"
    /\ \A pc \in ProgressSteps : LaneOf(pc) = "progress"
    /\ \A pc \in ReplySteps : LaneOf(pc) = "reply"
  BY DEF LaneOf, CardSteps, ActionSteps, GenerateSteps, ProgressSteps, ReplySteps

(* What a worker has in mind when it has nothing, and in every step.       *)
LEMMA DeskFacts ==
    ASSUME Typed, NEW w \in Workers
    PROVE  /\ desk[w] \in Memory
           /\ desk[w].pc = "idle" => desk[w].lane = "none"
           /\ desk[w].pc \in CardSteps <=> desk[w].lane = "card"
           /\ desk[w].pc \in ActionSteps <=> desk[w].lane = "action"
           /\ desk[w].pc \in ProgressSteps <=> desk[w].lane = "progress"
           /\ desk[w].pc \in ReplySteps <=> desk[w].lane = "reply"
  <1>1. desk[w] \in Memory /\ desk[w].lane = LaneOf(desk[w].pc)
    BY DEF Typed
  <1>2. desk[w].pc \in {"idle"} \cup CardSteps \cup ActionSteps \cup ProgressSteps
                        \cup ReplySteps
    BY <1>1 DEF Memory, Pcs
  <1> QED
    BY <1>1, <1>2, LaneTable

(* The memory of one worker is written. *)
LEMMA DeskWritten ==
    ASSUME Typed, NEW w \in Workers, NEW r \in Memory, r.lane = LaneOf(r.pc),
           desk' = [desk EXCEPT ![w] = r]
    PROVE  /\ desk' \in [Workers -> Memory]
           /\ \A v \in Workers : desk'[v].lane = LaneOf(desk'[v].pc)
           /\ desk'[w] = r
           /\ \A v \in Workers : v # w => desk'[v] = desk[v]
  BY DEF Typed

(* What a worker without a lane has in mind.                               *)
LEMMA IdleMemory == Idle \in Memory /\ Idle.lane = LaneOf(Idle.pc)
  BY LaneTable DEF Idle, Memory, Pcs, Lanes, Stages

(* What is written when a worker takes a lane, leaves it, or goes on in it. *)
Written(w) ==
    /\ desk' \in [Workers -> Memory]
    /\ \A v \in Workers : desk'[v].lane = LaneOf(desk'[v].pc)
    /\ \A v \in Workers : v # w => desk'[v] = desk[v]

Leased(lane, to, who) ==
    /\ status' \in [Lanes -> Statuses] /\ holder' \in [Lanes -> Workers \cup {Nobody}]
    /\ live' \in [Lanes -> BOOLEAN]
    /\ status'[lane] = to /\ holder'[lane] = who /\ (live'[lane] <=> who # Nobody)
    /\ \A l \in Lanes \ {lane} :
         status'[l] = status[l] /\ holder'[l] = holder[l] /\ live'[l] = live[l]

Takes(w, lane, active, pc) ==
    /\ Written(w) /\ Leased(lane, active, w)
    /\ desk'[w].lane = lane /\ desk'[w].pc = pc /\ desk'[w].stage = stage
    /\ desk'[w].verdict = "none"

Leaves(w, lane, to) == Written(w) /\ desk'[w] = Idle /\ Leased(lane, to, Nobody)

GoesOn(w, pc) ==
    /\ Written(w) /\ desk'[w].pc = pc /\ desk'[w].lane = desk[w].lane
    /\ desk'[w].stage = desk[w].stage /\ desk'[w].verdict = desk[w].verdict

(* A worker that claims a row. *)
LEMMA ClaimFacts ==
    ASSUME Typed, NEW w \in Workers, NEW lane \in Lanes, NEW active \in Statuses,
           NEW pc \in Pcs, LaneOf(pc) = lane, Claim(w, lane, active, pc)
    PROVE  Takes(w, lane, active, pc)
  <1>1. PICK r : r = [Idle EXCEPT !.lane = lane, !.pc = pc, !.stage = stage]
    OBVIOUS
  <1>2. /\ r \in Memory /\ r.lane = lane /\ r.pc = pc /\ r.stage = stage
        /\ r.verdict = Idle.verdict
    BY <1>1, IdleMemory DEF Typed, Memory
  <1>5. Idle.verdict = "none"
    BY DEF Idle
  <1>6. desk' = [desk EXCEPT ![w] = r]
    BY <1>1 DEF Claim
  <1>3. /\ desk' \in [Workers -> Memory]
        /\ \A v \in Workers : desk'[v].lane = LaneOf(desk'[v].pc)
        /\ desk'[w] = r
        /\ \A v \in Workers : v # w => desk'[v] = desk[v]
    BY <1>2, <1>6, DeskWritten
  <1>4. Leased(lane, active, w)
    BY WizardAssumption DEF Leased, Claim, Typed
  <1> QED
    BY <1>2, <1>3, <1>4, <1>5 DEF Takes, Written

(* A worker that settles its row. *)
LEMMA SettleFacts ==
    ASSUME Typed, NEW w \in Workers, NEW lane \in Lanes, NEW to \in Statuses,
           Settle(w, lane, to)
    PROVE  Leaves(w, lane, to)
  <1>1. desk' = [desk EXCEPT ![w] = Idle]
    BY DEF Settle
  <1>2. /\ desk' \in [Workers -> Memory]
        /\ \A v \in Workers : desk'[v].lane = LaneOf(desk'[v].pc)
        /\ desk'[w] = Idle
        /\ \A v \in Workers : v # w => desk'[v] = desk[v]
    BY <1>1, DeskWritten, IdleMemory
  <1>3. Leased(lane, to, Nobody)
    BY DEF Leased, Settle, Free, Typed
  <1> QED
    BY <1>2, <1>3 DEF Leaves, Written

(* A worker that goes on to the next step of its lane. *)
LEMMA GoFacts ==
    ASSUME Typed, NEW w \in Workers, NEW p \in Pcs, LaneOf(p) = LaneOf(desk[w].pc),
           desk' = [desk EXCEPT ![w].pc = p]
    PROVE  GoesOn(w, p)
  <1> DEFINE r == [desk[w] EXCEPT !.pc = p]
  <1>1. desk[w] \in Memory /\ desk[w].lane = LaneOf(desk[w].pc)
    BY DEF Typed
  <1>2. /\ r \in Memory /\ r.lane = desk[w].lane /\ r.pc = p /\ r.stage = desk[w].stage
        /\ r.verdict = desk[w].verdict
    BY <1>1 DEF Memory
  <1>3. desk' = [desk EXCEPT ![w] = r]
    BY DEF r
  <1> HIDE DEF r
  <1> QED
    BY <1>1, <1>2, <1>3, DeskWritten DEF GoesOn, Written
(* A worker takes the card. *)
LEMMA ClaimCardKeeps ==
    ASSUME Inv, NEW w \in Workers, ClaimCard(w)
    PROVE  Inv'
  <1>0. Typed
    BY DEF Inv
  <1>1. /\ Retryable("card") \/ Lapsed("card", "sending")
        /\ Claim(w, "card", "sending", "send")
        /\ UNCHANGED <<kind, form, due, failedIn, verdict, known, stage, revision,
                       claimed, template, instance, made,
                       feed, shown, message, late, trouble>>
    BY DEF ClaimCard, action, progress, domain
  <1>2. desk[w].pc = "idle"
    BY <1>1 DEF Claim
  <1>3. "card" \in Lanes /\ "sending" \in Statuses /\ "send" \in Pcs /\ LaneOf("send") = "card"
    BY LaneTable DEF Lanes, Statuses, Pcs, CardSteps, ActionSteps, GenerateSteps, ProgressSteps,
        ReplySteps
  <1>4. Takes(w, "card", "sending", "send")
    <2>1. Claim(w, "card", "sending", "send")
      BY <1>1
    <2> QED
      BY <1>0, <1>3, <2>1, ClaimFacts
  <1>t. Typed'
    BY <1>0, <1>1, <1>4, WizardAssumption DEF Typed, TypeOK, Lanes, Takes, Written, Leased
  <1>o. Once'
    BY <1>1, <1>4 DEF Inv, Once, Takes, Written
  <1>c. Course'
    BY <1>1, <1>4
    DEF Inv, Course, Decided, Waiting, Unverified, GenerateSteps, Lanes, Takes, Written,
        Leased
  <1>e. Exclusive'
    BY <1>1, <1>4 DEF Inv, Exclusive, Alone, Decided, Lanes, Takes, Written, Leased
  <1>f. Faithful'
    BY <1>1, <1>4 DEF Inv, Faithful, Lanes, Takes, Leased
  <1> QED
    BY <1>t, <1>o, <1>c, <1>e, <1>f DEF Inv

(* A worker takes the action to verify it. *)
LEMMA ClaimVerificationKeeps ==
    ASSUME Inv, NEW w \in Workers, ClaimVerification(w)
    PROVE  Inv'
  <1>0. Typed
    BY DEF Inv
  <1>1. /\ \/ status["action"] = "pending" /\ due
           \/ status["action"] = "failed" /\ failedIn = "verification"
           \/ Lapsed("action", "verifying")
        /\ Claim(w, "action", "verifying", "verify")
        /\ UNCHANGED <<kind, form, due, failedIn, verdict, known, stage, revision,
                       claimed, template, instance, made,
                       feed, shown, message, late, trouble>>
    BY DEF ClaimVerification, action, progress, domain
  <1>2. desk[w].pc = "idle"
    BY <1>1 DEF Claim
  <1>3. "action" \in Lanes /\ "verifying" \in Statuses 
        /\ "verify" \in Pcs /\ LaneOf("verify") = "action"
    BY LaneTable DEF Lanes, Statuses, Pcs, CardSteps, ActionSteps, GenerateSteps, ProgressSteps,
        ReplySteps
  <1>4. Takes(w, "action", "verifying", "verify")
    <2>1. Claim(w, "action", "verifying", "verify")
      BY <1>1
    <2> QED
      BY <1>0, <1>3, <2>1, ClaimFacts
  <1>t. Typed'
    BY <1>0, <1>1, <1>4, WizardAssumption
    DEF Typed, TypeOK, Lanes, Takes, Written, Leased, Lapsed
  <1>o. Once'
    BY <1>1, <1>4 DEF Inv, Once, Takes, Written
  <1>c. Course'
    BY <1>1, <1>4
    DEF Inv, Course, Decided, Waiting, Unverified, GenerateSteps, Lanes, Takes, Written,
        Leased, Lapsed
  <1>e. Exclusive'
    BY <1>1, <1>4 DEF Inv, Exclusive, Decided, Unverified, Course, Takes, Written, Lapsed
  <1>f. Faithful'
    BY <1>4 DEF Faithful, Takes, Leased, Active
  <1> QED
    BY <1>t, <1>o, <1>c, <1>e, <1>f DEF Inv

(* A worker takes the progress. *)
LEMMA ClaimProgressKeeps ==
    ASSUME Inv, NEW w \in Workers, ClaimProgress(w)
    PROVE  Inv'
  <1>0. Typed
    BY DEF Inv
  <1>1. /\ status["action"] \in Active
        /\ Retryable("progress") \/ Lapsed("progress", "sending")
        /\ Claim(w, "progress", "sending", "note") /\ claimed' = revision
        /\ UNCHANGED <<kind, form, due, failedIn, verdict, known, stage, revision,
                       template, instance, made, feed, shown,
                       message, late, trouble>>
    BY DEF ClaimProgress, action, progress, domain
  <1>2. desk[w].pc = "idle"
    BY <1>1 DEF Claim
  <1>3. /\ "progress" \in Lanes /\ "sending" \in Statuses /\ "note" \in Pcs
        /\ LaneOf("note") = "progress"
    BY LaneTable DEF Lanes, Statuses, Pcs, CardSteps, ActionSteps, GenerateSteps, ProgressSteps,
        ReplySteps
  <1>4. Takes(w, "progress", "sending", "note")
    <2>1. Claim(w, "progress", "sending", "note")
      BY <1>1
    <2> QED
      BY <1>0, <1>3, <2>1, ClaimFacts
  <1>t. Typed'
    BY <1>0, <1>1, <1>4, WizardAssumption
    DEF Typed, TypeOK, Lanes, Takes, Written, Leased, Retryable, Lapsed
  <1>o. Once'
    BY <1>1, <1>4 DEF Inv, Once, Takes, Written
  <1>c. Course'
    BY <1>1, <1>2, <1>4, WizardAssumption
    DEF Inv, Course, Decided, Waiting, Unverified, Typed, TypeOK, Lanes, Takes, Written,
        Leased, Retryable, Lapsed
  <1>e. Exclusive'
    BY <1>1, <1>4, WizardAssumption
    DEF Inv, Exclusive, Alone, Decided, Course, Typed, Takes, Written, Leased, Active,
        Retryable, Lapsed
  <1>f. Faithful'
    BY <1>4 DEF Faithful, Takes, Leased
  <1> QED
    BY <1>t, <1>o, <1>c, <1>e, <1>f DEF Inv

(* A worker takes the reply: not while the progress is being shown. *)
LEMMA ClaimReplyKeeps ==
    ASSUME Inv, NEW w \in Workers, ClaimReply(w)
    PROVE  Inv'
  <1>0. Typed
    BY DEF Inv
  <1>1. /\ ~ProgressBusy
        /\ Retryable("reply") \/ Lapsed("reply", "sending")
        /\ Claim(w, "reply", "sending", "result")
        /\ UNCHANGED <<kind, form, due, failedIn, verdict, known, stage, revision,
                       claimed, template, instance, made,
                       feed, shown, message, late, trouble>>
    BY DEF ClaimReply, action, progress, domain
  <1>2. desk[w].pc = "idle"
    BY <1>1 DEF Claim
  <1>3. /\ "reply" \in Lanes /\ "sending" \in Statuses /\ "result" \in Pcs
        /\ LaneOf("result") = "reply"
    BY LaneTable DEF Lanes, Statuses, Pcs, CardSteps, ActionSteps, GenerateSteps, ProgressSteps,
        ReplySteps
  <1>4. Takes(w, "reply", "sending", "result")
    <2>1. Claim(w, "reply", "sending", "result")
      BY <1>1
    <2> QED
      BY <1>0, <1>3, <2>1, ClaimFacts
  <1>t. Typed'
    BY <1>0, <1>1, <1>4, WizardAssumption
    DEF Typed, TypeOK, Lanes, Takes, Written, Leased, Retryable, Lapsed
  <1>o. Once'
    BY <1>1, <1>4 DEF Inv, Once, Takes, Written
  <1>c. Course'
    BY <1>1, <1>4
    DEF Inv, Course, Decided, Waiting, Unverified, Typed, TypeOK, GenerateSteps, Lanes,
        Takes, Written, Leased, Retryable, Lapsed
  <1>e. Exclusive'
    BY <1>1, <1>4
    DEF Inv, Exclusive, Alone, Decided, Lanes, Takes, Written, Leased, ProgressBusy
  <1>f. Faithful'
    BY <1>1, <1>4 DEF Inv, Faithful, Lanes, Takes, Leased
  <1> QED
    BY <1>t, <1>o, <1>c, <1>e, <1>f DEF Inv

(* A worker takes the verified action, or one that it could not finish. *)
LEMMA ClaimActionKeeps ==
    ASSUME Inv, NEW w \in Workers, ClaimAction(w)
    PROVE  Inv'
  <1>0. Typed
    BY DEF Inv
  <1> DEFINE first == IF kind = "template" THEN "bind" ELSE "look"
  <1>1. /\ \/ status["action"] = "verified"
           \/ status["action"] = "failed" /\ failedIn = "processing"
           \/ Lapsed("action", "processing")
        /\ Claim(w, "action", "processing", first)
        /\ UNCHANGED <<kind, form, due, failedIn, verdict, known, stage, revision,
                       claimed, template, instance, made,
                       feed, shown, message, late, trouble>>
    BY DEF ClaimAction, action, progress, domain
  <1>2. desk[w].pc = "idle"
    BY <1>1 DEF Claim
  <1>5. first \in {"bind", "look"} /\ (first = "look" => kind = "wizard")
    BY <1>0, WizardAssumption DEF Typed
  <1> HIDE DEF first
  <1>3. /\ "action" \in Lanes /\ "processing" \in Statuses /\ first \in Pcs
        /\ LaneOf(first) = "action"
    BY <1>5, LaneTable DEF Lanes, Statuses, Pcs, ActionSteps, GenerateSteps
  <1>4. Takes(w, "action", "processing", first)
    <2>1. Claim(w, "action", "processing", first)
      BY <1>1
    <2> QED
      BY <1>0, <1>3, <2>1, ClaimFacts
  <1>t. Typed'
    BY <1>0, <1>1, <1>4, WizardAssumption
    DEF Typed, TypeOK, Lanes, Takes, Written, Leased, Lapsed
  <1>o. Once'
    BY <1>1, <1>4 DEF Inv, Once, Takes, Written
  <1>c. Course'
    BY <1>1, <1>5, <1>4
    DEF Inv, Course, Decided, Waiting, Unverified, GenerateSteps, Lanes, Takes, Written,
        Leased, Lapsed
  <1>e. Exclusive'
    BY <1>1, <1>4 DEF Inv, Exclusive, Alone, Decided, Memory, Takes, Written, Leased, Lapsed
  <1>f. Faithful'
    BY <1>1, <1>4 DEF Inv, Faithful, Active, Lanes, Takes, Leased, Active, Lapsed
  <1> QED
    BY <1>t, <1>o, <1>c, <1>e, <1>f DEF Inv

(* The card's message id is recorded. *)
LEMMA MarkCardSentKeeps ==
    ASSUME Inv, NEW w \in Workers, MarkCardSent(w)
    PROVE  Inv'
  <1>0. Typed
    BY DEF Inv
  <1>1. /\ desk[w].pc = "record" /\ Mine(w, "card", "sending")
        /\ Settle(w, "card", "sent")
        /\ UNCHANGED <<kind, form, due, failedIn, verdict, stage, revision,
                       claimed, template, instance, made,
                       feed, shown, message, late, trouble>>
    BY DEF MarkCardSent, action, progress, domain, Spend
  <1>3. "card" \in Lanes /\ "sent" \in Statuses
    BY DEF Lanes, Statuses
  <1>4. Leaves(w, "card", "sent")
    <2>1. Settle(w, "card", "sent")
      BY <1>1
    <2> QED
      BY <1>0, <1>3, <2>1, SettleFacts
  <1>t. Typed'
    BY <1>0, <1>1, <1>4 DEF Typed, TypeOK, Lanes, Leaves, Written, Leased
  <1>o. Once'
    BY <1>1, <1>4 DEF Inv, Once, Leaves, Idle, Written
  <1>c. Course'
    BY <1>1, <1>4
    DEF Inv, Course, Decided, Waiting, Unverified, GenerateSteps, Lanes, Leaves, Idle,
        Written, Leased
  <1>e. Exclusive'
    BY <1>1, <1>4 DEF Inv, Exclusive, Alone, Decided, Lanes, Leaves, Idle, Written, Leased
  <1>f. Faithful'
    BY <1>1, <1>4 DEF Inv, Faithful, Lanes, Leaves, Leased
  <1> QED
    BY <1>t, <1>o, <1>c, <1>e, <1>f DEF Inv

(* The card could not be sent. *)
LEMMA CardFailsKeeps ==
    ASSUME Inv, NEW w \in Workers, CardFails(w)
    PROVE  Inv'
  <1>0. Typed
    BY DEF Inv
  <1>1. /\ desk[w].pc = "send" /\ Mine(w, "card", "sending")
        /\ Settle(w, "card", "failed")
        /\ UNCHANGED <<kind, form, due, failedIn, verdict, known, stage, revision,
                       claimed, template, instance, made,
                       feed, shown, message, late>>
    BY DEF CardFails, action, progress, domain, Spend
  <1>3. "card" \in Lanes /\ "failed" \in Statuses
    BY DEF Lanes, Statuses
  <1>4. Leaves(w, "card", "failed")
    <2>1. Settle(w, "card", "failed")
      BY <1>1
    <2> QED
      BY <1>0, <1>3, <2>1, SettleFacts
  <1>t. Typed'
    BY <1>0, <1>1, <1>4 DEF Typed, TypeOK, Lanes, Leaves, Written, Leased
  <1>o. Once'
    BY <1>1, <1>4 DEF Inv, Once, Leaves, Idle, Written
  <1>c. Course'
    BY <1>1, <1>4
    DEF Inv, Course, Decided, Waiting, Unverified, GenerateSteps, Lanes, Leaves, Idle,
        Written, Leased
  <1>e. Exclusive'
    BY <1>1, <1>4 DEF Inv, Exclusive, Alone, Decided, Lanes, Leaves, Idle, Written, Leased
  <1>f. Faithful'
    BY <1>1, <1>4 DEF Inv, Faithful, Lanes, Leaves, Leased
  <1> QED
    BY <1>t, <1>o, <1>c, <1>e, <1>f DEF Inv

(* The reply was sent. *)
LEMMA MarkReplySentKeeps ==
    ASSUME Inv, NEW w \in Workers, MarkReplySent(w)
    PROVE  Inv'
  <1>0. Typed
    BY DEF Inv
  <1>1. /\ desk[w].pc = "told" /\ Mine(w, "reply", "sending")
        /\ Settle(w, "reply", "sent")
        /\ UNCHANGED <<kind, form, due, failedIn, verdict, known, stage, revision,
                       claimed, template, instance, made,
                       feed, shown, message, late, trouble>>
    BY DEF MarkReplySent, action, progress, domain, Spend
  <1>3. "reply" \in Lanes /\ "sent" \in Statuses
    BY DEF Lanes, Statuses
  <1>4. Leaves(w, "reply", "sent")
    <2>1. Settle(w, "reply", "sent")
      BY <1>1
    <2> QED
      BY <1>0, <1>3, <2>1, SettleFacts
  <1>t. Typed'
    BY <1>0, <1>1, <1>4 DEF Typed, TypeOK, Lanes, Leaves, Written, Leased, Mine
  <1>o. Once'
    BY <1>1, <1>4 DEF Inv, Once, Leaves, Idle, Written
  <1>c. Course'
    BY <1>1, <1>4
    DEF Inv, Course, Decided, Waiting, Unverified, GenerateSteps, Lanes, Leaves, Idle,
        Written, Leased
  <1>e. Exclusive'
    BY <1>1, <1>4 DEF Inv, Exclusive, Alone, Decided, Lanes, Leaves, Idle, Written, Leased
  <1>f. Faithful'
    BY <1>1, <1>4 DEF Inv, Faithful, Lanes, Leaves, Leased
  <1> QED
    BY <1>t, <1>o, <1>c, <1>e, <1>f DEF Inv

(* The reply could not be sent. *)
LEMMA ReplyFailsKeeps ==
    ASSUME Inv, NEW w \in Workers, ReplyFails(w)
    PROVE  Inv'
  <1>0. Typed
    BY DEF Inv
  <1>1. /\ desk[w].pc = "tell" /\ Mine(w, "reply", "sending")
        /\ Settle(w, "reply", "failed")
        /\ UNCHANGED <<kind, form, due, failedIn, verdict, known, stage, revision,
                       claimed, template, instance, made,
                       feed, shown, message, late>>
    BY DEF ReplyFails, action, progress, domain, Spend
  <1>3. "reply" \in Lanes /\ "failed" \in Statuses
    BY DEF Lanes, Statuses
  <1>4. Leaves(w, "reply", "failed")
    <2>1. Settle(w, "reply", "failed")
      BY <1>1
    <2> QED
      BY <1>0, <1>3, <2>1, SettleFacts
  <1>t. Typed'
    BY <1>0, <1>1, <1>4 DEF Typed, TypeOK, Lanes, Leaves, Written, Leased, Mine
  <1>o. Once'
    BY <1>1, <1>4 DEF Inv, Once, Leaves, Idle, Written
  <1>c. Course'
    BY <1>1, <1>4
    DEF Inv, Course, Decided, Waiting, Unverified, GenerateSteps, Lanes, Leaves, Idle,
        Written, Leased
  <1>e. Exclusive'
    BY <1>1, <1>4 DEF Inv, Exclusive, Alone, Decided, Lanes, Leaves, Idle, Written, Leased
  <1>f. Faithful'
    BY <1>1, <1>4 DEF Inv, Faithful, Lanes, Leaves, Leased
  <1> QED
    BY <1>t, <1>o, <1>c, <1>e, <1>f DEF Inv

(* The stage that was claimed was shown: it counts as sent unless there is a newer one. *)
LEMMA MarkProgressSentKeeps ==
    ASSUME Inv, NEW w \in Workers, MarkProgressSent(w)
    PROVE  Inv'
  <1>0. Typed
    BY DEF Inv
  <1>1. /\ desk[w].pc = "noted" /\ Mine(w, "progress", "sending")
        /\ Settle(w, "progress", (IF Newer THEN "pending" ELSE "sent")) /\ claimed' = 0
        /\ UNCHANGED <<kind, form, due, failedIn, verdict, known, stage, revision,
                       template, instance, made, feed, shown,
                       message, late, trouble>>
    BY DEF MarkProgressSent, action, progress, domain, Spend
  <1>3. "progress" \in Lanes /\ (IF Newer THEN "pending" ELSE "sent") \in Statuses
    BY DEF Lanes, Statuses
  <1>4. Leaves(w, "progress", (IF Newer THEN "pending" ELSE "sent"))
    <2>1. Settle(w, "progress", (IF Newer THEN "pending" ELSE "sent"))
      BY <1>1
    <2> QED
      BY <1>0, <1>3, <2>1, SettleFacts
  <1>t. Typed'
    BY <1>0, <1>1, <1>4 DEF Typed, TypeOK, Lanes, Leaves, Written, Leased, Mine
  <1>o. Once'
    BY <1>1, <1>4 DEF Inv, Once, Leaves, Idle, Written
  <1>c. Course'
    BY <1>1, <1>4, WizardAssumption
    DEF Inv, Course, Decided, Waiting, Unverified, Typed, TypeOK, Lanes, Leaves, Idle,
        Written, Leased, Mine
  <1>e. Exclusive'
    BY <1>1, <1>4
    DEF Inv, Exclusive, Alone, Decided, Lanes, Leaves, Idle, Written, Leased, Mine
  <1>f. Faithful'
    BY <1>1, <1>4, DeskFacts
    DEF Inv, Faithful, Exclusive, Alone, Typed, ProgressSteps, Lanes, Leaves, Leased, Newer
  <1> QED
    BY <1>t, <1>o, <1>c, <1>e, <1>f DEF Inv

(* The stage could not be shown. *)
LEMMA MarkProgressFailedKeeps ==
    ASSUME Inv, NEW w \in Workers, MarkProgressFailed(w)
    PROVE  Inv'
  <1>0. Typed
    BY DEF Inv
  <1>1. /\ desk[w].pc = "note" /\ Mine(w, "progress", "sending")
        /\ Settle(w, "progress", (IF Newer THEN "pending"
             ELSE IF status["action"] \in Active THEN "failed" ELSE "sent")) /\ claimed' = 0
        /\ UNCHANGED <<kind, form, due, failedIn, verdict, known, stage, revision,
                       template, instance, made, feed, shown,
                       message, late>>
    BY DEF MarkProgressFailed, action, progress, domain, Spend
  <1>3. "progress" \in Lanes /\ (IF Newer THEN "pending"
             ELSE IF status["action"] \in Active THEN "failed" ELSE "sent") \in Statuses
    BY DEF Lanes, Statuses
  <1>4. Leaves(w, "progress", (IF Newer THEN "pending"
             ELSE IF status["action"] \in Active THEN "failed" ELSE "sent"))
    <2>1. Settle(w, "progress", (IF Newer THEN "pending"
             ELSE IF status["action"] \in Active THEN "failed" ELSE "sent"))
      BY <1>1
    <2> QED
      BY <1>0, <1>3, <2>1, SettleFacts
  <1>t. Typed'
    BY <1>0, <1>1, <1>4 DEF Typed, TypeOK, Lanes, Leaves, Written, Leased, Mine
  <1>o. Once'
    BY <1>1, <1>4 DEF Inv, Once, Leaves, Idle, Written
  <1>c. Course'
    BY <1>1, <1>4, WizardAssumption
    DEF Inv, Course, Decided, Waiting, Unverified, Typed, TypeOK, Lanes, Leaves, Idle,
        Written, Leased, Mine
  <1>e. Exclusive'
    BY <1>1, <1>4
    DEF Inv, Exclusive, Alone, Decided, Lanes, Leaves, Idle, Written, Leased, Mine
  <1>f. Faithful'
    BY <1>4 DEF Faithful, Lanes, Leaves, Leased
  <1> QED
    BY <1>t, <1>o, <1>c, <1>e, <1>f DEF Inv

(* The verification or the processing fails. *)
LEMMA ActionFailsKeeps ==
    ASSUME Inv, NEW w \in Workers, ActionFails(w)
    PROVE  Inv'
  <1>0. Typed
    BY DEF Inv
  <1>1. /\ \/ desk[w].pc = "verify" /\ Mine(w, "action", "verifying")
           \/ /\ desk[w].pc \in {"bind", "look", "generate", "repaired", "create"}
              /\ Mine(w, "action", "processing")
        /\ Settle(w, "action", "failed")
        /\ failedIn' = IF desk[w].pc = "verify" THEN "verification" ELSE "processing"
        /\ UNCHANGED <<kind, form, due, verdict, known, stage, revision, claimed,
                       template, instance, made, feed, shown,
                       message, late>>
    BY DEF ActionFails, action, progress, domain, Spend
  <1>3. "action" \in Lanes /\ "failed" \in Statuses
    BY DEF Lanes, Statuses
  <1>4. Leaves(w, "action", "failed")
    <2>1. Settle(w, "action", "failed")
      BY <1>1
    <2> QED
      BY <1>0, <1>3, <2>1, SettleFacts
  <1>t. Typed'
    BY <1>0, <1>1, <1>4 DEF Typed, TypeOK, Lanes, Leaves, Written, Leased, Mine
  <1>o. Once'
    BY <1>1, <1>4 DEF Inv, Once, Leaves, Idle, Written
  <1>c. Course'
    BY <1>1, <1>4
    DEF Inv, Course, Decided, Waiting, Unverified, GenerateSteps, Lanes, Leaves, Idle,
        Written, Leased, Mine
  <1>e. Exclusive'
    BY <1>1, <1>4
    DEF Inv, Exclusive, Alone, Decided, Memory, Leaves, Idle, Written, Leased, Mine
  <1>f. Faithful'
    BY <1>4 DEF Faithful, Leaves, Leased, Active
  <1> QED
    BY <1>t, <1>o, <1>c, <1>e, <1>f DEF Inv

(* The card is sent, once. *)
LEMMA SendCardKeeps ==
    ASSUME Inv, NEW w \in Workers, SendCard(w)
    PROVE  Inv'
  <1>0. Typed
    BY DEF Inv
  <1>1. /\ desk[w].pc = "send"
        /\ desk' = [desk EXCEPT ![w].pc = "record"]
        /\ shown' = IF shown = "none" THEN "form" ELSE shown
        /\ UNCHANGED <<kind, form, due, failedIn, verdict, known, status, holder,
                       live, stage, revision, claimed,
                       template, instance, made, feed,
                       message, late, trouble>>
    BY DEF SendCard, action, progress, domain, Spend
  <1>2. "record" \in Pcs /\ LaneOf("record") = LaneOf(desk[w].pc)
    BY <1>1, LaneTable DEF Pcs, CardSteps, ActionSteps, GenerateSteps, ProgressSteps, ReplySteps
  <1>4. GoesOn(w, "record")
    <2>1. desk' = [desk EXCEPT ![w].pc = "record"]
      BY <1>1
    <2> QED
      BY <1>0, <1>2, <2>1, GoFacts
  <1>t. Typed'
    BY <1>0, <1>1, <1>4 DEF Typed, TypeOK, Cards, GoesOn, Written
  <1>o. Once'
    BY <1>1 DEF Inv, Once
  <1>c. Course'
    BY <1>1 DEF Inv, Course, Decided, Waiting, Unverified, GenerateSteps
  <1>e. Exclusive'
    BY <1>1 DEF Inv, Exclusive, Alone, Decided, Course, Answers
  <1>f. Faithful'
    BY <1>1 DEF Inv, Faithful, Course
  <1> QED
    BY <1>t, <1>o, <1>c, <1>e, <1>f DEF Inv

(* The model has answered. *)
LEMMA GenerateKeeps ==
    ASSUME Inv, NEW w \in Workers, Generate(w)
    PROVE  Inv'
  <1>0. Typed
    BY DEF Inv
  <1>1. /\ desk[w].pc \in {"generate", "repaired"}
        /\ desk' = [desk EXCEPT ![w].pc = "create"]
        /\ UNCHANGED <<kind, form, due, failedIn, verdict, known, status, holder,
                       live, stage, revision, claimed,
                       template, instance, made, feed, shown,
                       message, late, trouble>>
    BY DEF Generate, action, progress, domain, Spend
  <1>2. "create" \in Pcs /\ LaneOf("create") = LaneOf(desk[w].pc)
    BY <1>1, LaneTable DEF Pcs, CardSteps, ActionSteps, GenerateSteps, ProgressSteps, ReplySteps
  <1>4. GoesOn(w, "create")
    <2>1. desk' = [desk EXCEPT ![w].pc = "create"]
      BY <1>1
    <2> QED
      BY <1>0, <1>2, <2>1, GoFacts
  <1>t. Typed'
    BY <1>0, <1>1, <1>4 DEF Typed, TypeOK, GoesOn, Written
  <1>o. Once'
    BY <1>1 DEF Inv, Once
  <1>c. Course'
    BY <1>1 DEF Inv, Course, Decided, Waiting, Unverified, GenerateSteps
  <1>e. Exclusive'
    BY <1>1 DEF Inv, Exclusive, Alone, Decided
  <1>f. Faithful'
    BY <1>1 DEF Inv, Faithful
  <1> QED
    BY <1>t, <1>o, <1>c, <1>e, <1>f DEF Inv

(* The answer was not valid: a repair begins. *)
LEMMA RepairKeeps ==
    ASSUME Inv, NEW w \in Workers, Repair(w)
    PROVE  Inv'
  <1>0. Typed
    BY DEF Inv
  <1>1. /\ desk[w].pc = "generate" /\ Mine(w, "action", "processing")
        /\ desk' = [desk EXCEPT ![w].pc = "repaired"]
        /\ stage' = "repairing" /\ revision' = NextRevision("repairing")
        /\ status' = [status EXCEPT !["progress"] = IF @ = "sending" THEN @ ELSE "pending"]
        /\ UNCHANGED <<kind, form, due, failedIn, verdict, known, holder, live,
                       claimed, template, instance, made,
                       feed, shown, message, late, trouble>>
    BY DEF Repair, action, progress, domain, Spend
  <1>2. "repaired" \in Pcs /\ LaneOf("repaired") = LaneOf(desk[w].pc)
    BY <1>1, LaneTable DEF Pcs, CardSteps, ActionSteps, GenerateSteps, ProgressSteps, ReplySteps
  <1>4. GoesOn(w, "repaired")
    <2>1. desk' = [desk EXCEPT ![w].pc = "repaired"]
      BY <1>1
    <2> QED
      BY <1>0, <1>2, <2>1, GoFacts
  <1>t. Typed'
    BY <1>1, <1>4
    DEF Inv, Typed, TypeOK, Course, GenerateSteps, Stages, Statuses, Lanes, GoesOn, Written,
        NextRevision
  <1>o. Once'
    BY <1>1 DEF Inv, Once
  <1>c. Course'
    BY <1>1 DEF Inv, Course, Decided, Waiting, Unverified, GenerateSteps, Mine
  <1>e. Exclusive'
    BY <1>1 DEF Inv, Exclusive, Alone, Decided, Typed, NextRevision
  <1>f. Faithful'
    BY <1>0, <1>1 DEF Faithful, Typed, Lanes
  <1> QED
    BY <1>t, <1>o, <1>c, <1>e, <1>f DEF Inv

(* The card shows the stage that was claimed. *)
LEMMA NoteKeeps ==
    ASSUME Inv, NEW w \in Workers, Note(w)
    PROVE  Inv'
  <1>0. Typed
    BY DEF Inv
  <1>1. /\ desk[w].pc = "note"
        /\ desk' = [desk EXCEPT ![w].pc = "noted"]
        /\ shown' = desk[w].stage
        /\ UNCHANGED <<kind, form, due, failedIn, verdict, known, status, holder,
                       live, stage, revision, claimed,
                       template, instance, made, feed,
                       message, late, trouble>>
    BY DEF Note, action, progress, domain, Spend
  <1>2. "noted" \in Pcs /\ LaneOf("noted") = LaneOf(desk[w].pc)
    BY <1>1, LaneTable DEF Pcs, CardSteps, ActionSteps, GenerateSteps, ProgressSteps, ReplySteps
  <1>4. GoesOn(w, "noted")
    <2>1. desk' = [desk EXCEPT ![w].pc = "noted"]
      BY <1>1
    <2> QED
      BY <1>0, <1>2, <2>1, GoFacts
  <1>5. desk[w].stage \in Stages
    BY <1>0, DeskFacts DEF Memory
  <1>t. Typed'
    BY <1>0, <1>1, <1>4, <1>5 DEF Typed, TypeOK, Cards, Stages, GoesOn, Written
  <1>o. Once'
    BY <1>1 DEF Inv, Once
  <1>c. Course'
    BY <1>1, DeskFacts
    DEF Inv, Course, Decided, Waiting, Unverified, GenerateSteps, ProgressSteps
  <1>e. Exclusive'
    BY <1>1, <1>5, DeskFacts
    DEF Inv, Exclusive, Alone, Course, Answers, ProgressSteps, Stages
  <1>f. Faithful'
    BY <1>1, DeskFacts DEF Inv, Faithful, Exclusive, Alone, ProgressSteps
  <1> QED
    BY <1>t, <1>o, <1>c, <1>e, <1>f DEF Inv

(* The card shows the result, or cannot be updated. *)
LEMMA ShowResultKeeps ==
    ASSUME Inv, NEW w \in Workers, ShowResult(w)
    PROVE  Inv'
  <1>0. Typed
    BY DEF Inv
  <1>1. /\ desk[w].pc = "result"
        /\ desk' = [desk EXCEPT ![w].pc = "tell"]
        /\ shown' \in {shown, verdict}
        /\ UNCHANGED <<kind, form, due, failedIn, verdict, known, status, holder,
                       live, stage, revision, claimed,
                       template, instance, made, feed,
                       message, late>>
    BY DEF ShowResult, action, progress, domain, Spend
  <1>2. "tell" \in Pcs /\ LaneOf("tell") = LaneOf(desk[w].pc)
    BY <1>1, LaneTable DEF Pcs, CardSteps, ActionSteps, GenerateSteps, ProgressSteps, ReplySteps
  <1>4. GoesOn(w, "tell")
    <2>1. desk' = [desk EXCEPT ![w].pc = "tell"]
      BY <1>1
    <2> QED
      BY <1>0, <1>2, <2>1, GoFacts
  <1>t. Typed'
    BY <1>0, <1>1, <1>4 DEF Typed, TypeOK, Cards, GoesOn, Written
  <1>o. Once'
    BY <1>1 DEF Inv, Once
  <1>c. Course'
    BY <1>1, DeskFacts
    DEF Inv, Course, Decided, Waiting, Unverified, Answers, GenerateSteps, ReplySteps
  <1>e. Exclusive'
    BY <1>1, DeskFacts DEF Inv, Exclusive, Alone, Decided, Course, Answers, ReplySteps
  <1>f. Faithful'
    BY <1>1, DeskFacts DEF Inv, Faithful, Active, Decided, Course, ReplySteps, Active
  <1> QED
    BY <1>t, <1>o, <1>c, <1>e, <1>f DEF Inv

(* The message is sent, once. *)
LEMMA TellKeeps ==
    ASSUME Inv, NEW w \in Workers, Tell(w)
    PROVE  Inv'
  <1>0. Typed
    BY DEF Inv
  <1>1. /\ desk[w].pc = "tell"
        /\ desk' = [desk EXCEPT ![w].pc = "told"]
        /\ message' = IF message = "none" THEN verdict ELSE message
        /\ UNCHANGED <<kind, form, due, failedIn, verdict, known, status, holder,
                       live, stage, revision, claimed,
                       template, instance, made, feed, shown,
                       late, trouble>>
    BY DEF Tell, action, progress, domain, Spend
  <1>2. "told" \in Pcs /\ LaneOf("told") = LaneOf(desk[w].pc)
    BY <1>1, LaneTable DEF Pcs, CardSteps, ActionSteps, GenerateSteps, ProgressSteps, ReplySteps
  <1>4. GoesOn(w, "told")
    <2>1. desk' = [desk EXCEPT ![w].pc = "told"]
      BY <1>1
    <2> QED
      BY <1>0, <1>2, <2>1, GoFacts
  <1>t. Typed'
    BY <1>0, <1>1, <1>4 DEF Typed, TypeOK, GoesOn, Written
  <1>o. Once'
    BY <1>1 DEF Inv, Once
  <1>c. Course'
    BY <1>1 DEF Inv, Course, Decided, Waiting, Unverified, GenerateSteps
  <1>e. Exclusive'
    BY <1>1 DEF Inv, Exclusive, Alone, Decided
  <1>f. Faithful'
    BY <1>1 DEF Inv, Faithful
  <1> QED
    BY <1>t, <1>o, <1>c, <1>e, <1>f DEF Inv

(* A draft that an earlier try has left is looked for. *)
LEMMA LookUpKeeps ==
    ASSUME Inv, NEW w \in Workers, LookUp(w)
    PROVE  Inv'
  <1>0. Typed
    BY DEF Inv
  <1>3. PICK p : p = IF instance = "none" THEN "generate" ELSE "create"
    OBVIOUS
  <1>1. /\ desk[w].pc = "look"
        /\ desk' = [desk EXCEPT ![w].pc = p]
        /\ UNCHANGED <<kind, form, due, failedIn, verdict, known, status, holder,
                       live, stage, revision, claimed,
                       template, instance, made, feed, shown,
                       message, late, trouble>>
    BY <1>3 DEF LookUp, action, progress, domain
  <1>2. /\ p \in {"generate", "create"} /\ p \in Pcs /\ LaneOf(p) = LaneOf(desk[w].pc)
    BY <1>1, <1>3, LaneTable DEF Pcs, ActionSteps, GenerateSteps
  <1>4. GoesOn(w, p)
    <2>1. desk' = [desk EXCEPT ![w].pc = p]
      BY <1>1
    <2> QED
      BY <1>0, <1>2, <2>1, GoFacts
  <1>t. Typed'
    BY <1>0, <1>1, <1>4 DEF Typed, TypeOK, GoesOn, Written
  <1>o. Once'
    BY <1>1 DEF Inv, Once
  <1>c. Course'
    BY <1>3, <1>1 DEF Inv, Course, Decided, Waiting, Unverified, GenerateSteps
  <1>e. Exclusive'
    BY <1>3, <1>1 DEF Inv, Exclusive, Alone, Decided
  <1>f. Faithful'
    BY <1>1 DEF Inv, Faithful
  <1> QED
    BY <1>t, <1>o, <1>c, <1>e, <1>f DEF Inv

(* A worker finds that its row is somebody else's. *)
LEMMA LostClaimKeeps ==
    ASSUME Inv, NEW w \in Workers, LostClaim(w)
    PROVE  Inv'
  <1>0. Typed
    BY DEF Inv
  <1>1. /\ desk[w].pc # "idle"
        /\ desk' = [desk EXCEPT ![w] = Idle]
        /\ UNCHANGED <<kind, form, due, failedIn, verdict, known, status, holder,
                       live, stage, revision, claimed,
                       template, instance, made, feed, shown,
                       message, late, trouble>>
    BY DEF LostClaim, action, progress, domain, Spend
  <1>4. Written(w) /\ desk'[w] = Idle
    <2>1. desk' = [desk EXCEPT ![w] = Idle]
      BY <1>1
    <2> QED
      BY <1>0, <2>1, DeskWritten, IdleMemory DEF Written
  <1>t. Typed'
    BY <1>0, <1>1, <1>4 DEF Typed, TypeOK, Written
  <1>o. Once'
    BY <1>1 DEF Inv, Once, Idle
  <1>c. Course'
    BY <1>1 DEF Inv, Course, Decided, Waiting, Unverified, GenerateSteps, Idle
  <1>e. Exclusive'
    BY <1>1 DEF Inv, Exclusive, Alone, Decided, Idle
  <1>f. Faithful'
    BY <1>1 DEF Inv, Faithful
  <1> QED
    BY <1>t, <1>o, <1>c, <1>e, <1>f DEF Inv

(* A worker dies. *)
LEMMA DieKeeps ==
    ASSUME Inv, NEW w \in Workers, Die(w)
    PROVE  Inv'
  <1>0. Typed
    BY DEF Inv
  <1>1. /\ desk[w].pc # "idle"
        /\ desk' = [desk EXCEPT ![w] = Idle]
        /\ UNCHANGED <<kind, form, due, failedIn, verdict, known, status, holder,
                       live, stage, revision, claimed,
                       template, instance, made, feed, shown,
                       message, late>>
    BY DEF Die, action, progress, domain, Spend
  <1>4. Written(w) /\ desk'[w] = Idle
    <2>1. desk' = [desk EXCEPT ![w] = Idle]
      BY <1>1
    <2> QED
      BY <1>0, <2>1, DeskWritten, IdleMemory DEF Written
  <1>t. Typed'
    BY <1>0, <1>1, <1>4 DEF Typed, TypeOK, Written
  <1>o. Once'
    BY <1>1 DEF Inv, Once, Idle
  <1>c. Course'
    BY <1>1 DEF Inv, Course, Decided, Waiting, Unverified, GenerateSteps, Idle
  <1>e. Exclusive'
    BY <1>1 DEF Inv, Exclusive, Alone, Decided, Idle
  <1>f. Faithful'
    BY <1>1 DEF Inv, Faithful
  <1> QED
    BY <1>t, <1>o, <1>c, <1>e, <1>f DEF Inv

(* The template is instantiated; the draft is made, or found. *)
LEMMA BindKeeps ==
    ASSUME Inv, NEW w \in Workers, Bind(w)
    PROVE  Inv'
  <1>0. Typed
    BY DEF Inv
  <1>1. PICK answer \in Answers :
        /\ desk[w].pc = "bind"
        /\ \/ answer = "rejected" /\ UNCHANGED <<instance, made>>
           \/ /\ answer = "created"
              /\ IF Fresh THEN Create ELSE UNCHANGED <<instance, made>>
        /\ desk' = [desk EXCEPT ![w] = [@ EXCEPT !.pc = "settle", !.verdict = answer]]
        /\ UNCHANGED <<kind, form, due, failedIn, verdict, known, status, holder,
                       live, stage, revision, claimed,
                       template, feed, shown, message, late,
                       trouble>>
    BY DEF Bind, Says, Answers, action, progress, domain
  <1>2. PICK r : r = [desk[w] EXCEPT !.pc = "settle", !.verdict = answer]
    OBVIOUS
  <1>3. /\ r \in Memory /\ r.lane = desk[w].lane /\ r.pc = "settle"
        /\ r.stage = desk[w].stage /\ r.verdict = answer
    BY <1>0, <1>1, <1>2, DeskFacts DEF Memory, Pcs, ActionSteps, Answers
  <1>4. /\ Written(w) /\ desk'[w] = r
    <2>1. r.lane = LaneOf(r.pc) /\ desk' = [desk EXCEPT ![w] = r]
      BY <1>0, <1>1, <1>2, <1>3, DeskFacts, LaneTable DEF ActionSteps, GenerateSteps
    <2> QED
      BY <1>0, <1>3, <2>1, DeskWritten DEF Written
  <1>t. Typed'
    BY <1>0, <1>1, <1>4 DEF Typed, TypeOK, Written, Create
  <1>o. Once'
    BY <1>1 DEF Inv, Once, Fresh, Create
  <1>c. Course'
    BY <1>1 DEF Inv, Course, Decided, Waiting, Unverified, GenerateSteps
  <1>e. Exclusive'
    BY <1>1 DEF Inv, Exclusive, Alone, Decided
  <1>f. Faithful'
    BY <1>1 DEF Inv, Faithful
  <1> QED
    BY <1>t, <1>o, <1>c, <1>e, <1>f DEF Inv

(* The request, or the repaired answer, is not valid. *)
LEMMA GivesUpKeeps ==
    ASSUME Inv, NEW w \in Workers, GivesUp(w)
    PROVE  Inv'
  <1>0. Typed
    BY DEF Inv
  <1>1. PICK answer \in Answers :
        /\ answer = "rejected"
        /\ desk[w].pc \in {"generate", "repaired"}
        /\ desk' = [desk EXCEPT ![w] = [@ EXCEPT !.pc = "settle", !.verdict = answer]]
        /\ UNCHANGED <<kind, form, due, failedIn, verdict, known, status, holder,
                       live, stage, revision, claimed,
                       template, instance, made, feed, shown,
                       message, late, trouble>>
    BY DEF GivesUp, Says, Answers, action, progress, domain
  <1>2. PICK r : r = [desk[w] EXCEPT !.pc = "settle", !.verdict = answer]
    OBVIOUS
  <1>3. /\ r \in Memory /\ r.lane = desk[w].lane /\ r.pc = "settle"
        /\ r.stage = desk[w].stage /\ r.verdict = answer
    BY <1>0, <1>1, <1>2, DeskFacts DEF Memory, Pcs, ActionSteps, Answers
  <1>4. /\ Written(w) /\ desk'[w] = r
    <2>1. r.lane = LaneOf(r.pc) /\ desk' = [desk EXCEPT ![w] = r]
      BY <1>0, <1>1, <1>2, <1>3, DeskFacts, LaneTable DEF ActionSteps, GenerateSteps
    <2> QED
      BY <1>0, <1>3, <2>1, DeskWritten DEF Written
  <1>t. Typed'
    BY <1>0, <1>1, <1>4 DEF Typed, TypeOK, Written
  <1>o. Once'
    BY <1>1 DEF Inv, Once
  <1>c. Course'
    BY <1>1 DEF Inv, Course, Decided, Waiting, Unverified, GenerateSteps
  <1>e. Exclusive'
    BY <1>1 DEF Inv, Exclusive, Alone, Decided
  <1>f. Faithful'
    BY <1>1 DEF Inv, Faithful
  <1> QED
    BY <1>t, <1>o, <1>c, <1>e, <1>f DEF Inv

(* The draft is made, or found as an earlier try has left it. *)
LEMMA CreateGeneratedKeeps ==
    ASSUME Inv, NEW w \in Workers, CreateGenerated(w)
    PROVE  Inv'
  <1>0. Typed
    BY DEF Inv
  <1>1. PICK answer \in Answers :
        /\ desk[w].pc = "create"
        /\ IF Fresh THEN Create /\ answer = "created"
           ELSE /\ UNCHANGED <<instance, made>>
                /\ answer = IF instance = "draft" THEN "created" ELSE "rejected"
        /\ desk' = [desk EXCEPT ![w] = [@ EXCEPT !.pc = "settle", !.verdict = answer]]
        /\ UNCHANGED <<kind, form, due, failedIn, verdict, known, status, holder,
                       live, stage, revision, claimed,
                       template, feed, shown, message, late,
                       trouble>>
    BY DEF CreateGenerated, Says, Answers, action, progress, domain
  <1>2. PICK r : r = [desk[w] EXCEPT !.pc = "settle", !.verdict = answer]
    OBVIOUS
  <1>3. /\ r \in Memory /\ r.lane = desk[w].lane /\ r.pc = "settle"
        /\ r.stage = desk[w].stage /\ r.verdict = answer
    BY <1>0, <1>1, <1>2, DeskFacts DEF Memory, Pcs, ActionSteps, Answers
  <1>4. /\ Written(w) /\ desk'[w] = r
    <2>1. r.lane = LaneOf(r.pc) /\ desk' = [desk EXCEPT ![w] = r]
      BY <1>0, <1>1, <1>2, <1>3, DeskFacts, LaneTable DEF ActionSteps, GenerateSteps
    <2> QED
      BY <1>0, <1>3, <2>1, DeskWritten DEF Written
  <1>t. Typed'
    BY <1>0, <1>1, <1>4 DEF Typed, TypeOK, Written, Create
  <1>o. Once'
    BY <1>1 DEF Inv, Once, Fresh, Create
  <1>c. Course'
    BY <1>1 DEF Inv, Course, Decided, Waiting, Unverified, GenerateSteps
  <1>e. Exclusive'
    BY <1>1 DEF Inv, Exclusive, Alone, Decided
  <1>f. Faithful'
    BY <1>1 DEF Inv, Faithful
  <1> QED
    BY <1>t, <1>o, <1>c, <1>e, <1>f DEF Inv

(* The form is not acceptable. *)
LEMMA VerifyRejectsKeeps ==
    ASSUME Inv, NEW w \in Workers, VerifyRejects(w)
    PROVE  Inv'
  <1>0. Typed
    BY DEF Inv
  <1>1. PICK to, answer \in Answers :
        /\ desk[w].pc = "verify" /\ Mine(w, "action", "verifying")
        /\ to = "rejected" /\ answer = "rejected"
        /\ status' = [status EXCEPT !["action"] = to, !["reply"] = "pending",
                                     !["progress"] = Over(@)]
        /\ Free("action") /\ desk' = [desk EXCEPT ![w] = Idle] /\ verdict' = answer
        /\ UNCHANGED <<kind, form, due, failedIn, known, stage, revision, claimed,
                       template, instance, made, feed, shown,
                       message, late, trouble>>
    BY DEF VerifyRejects, Conclude, Answers, action, progress, domain
  <1>4. Written(w) /\ desk'[w] = Idle
    <2>1. desk' = [desk EXCEPT ![w] = Idle]
      BY <1>1
    <2> QED
      BY <1>0, <2>1, DeskWritten, IdleMemory DEF Written
  <1>5. /\ status' \in [Lanes -> Statuses] /\ holder' \in [Lanes -> Workers \cup {Nobody}]
        /\ live' \in [Lanes -> BOOLEAN]
        /\ status'["action"] = to /\ holder'["action"] = Nobody /\ ~live'["action"]
        /\ status'["reply"] = "pending" /\ status'["card"] = status["card"]
        /\ status'["progress"] = Over(status["progress"])
        /\ \A l \in Lanes \ {"action"} : holder'[l] = holder[l] /\ live'[l] = live[l]
    BY <1>0, <1>1 DEF Free, Typed, Lanes, Statuses, Over
  <1>t. Typed'
    BY <1>0, <1>1, <1>4, <1>5 DEF Typed, TypeOK, Written, Mine, Over
  <1>o. Once'
    BY <1>1 DEF Inv, Once, Idle
  <1>c. Course'
    BY <1>1, <1>5
    DEF Inv, Course, Decided, Waiting, Unverified, Typed, GenerateSteps, Idle, Mine, Over
  <1>e. Exclusive'
    BY <1>1 DEF Inv, Exclusive, Decided, Unverified, Course, Idle, Mine
  <1>f. Faithful'
    BY <1>1, <1>5 DEF Faithful, Active
  <1> QED
    BY <1>t, <1>o, <1>c, <1>e, <1>f DEF Inv

(* The action is done, or was refused. *)
LEMMA MarkProcessedKeeps ==
    ASSUME Inv, NEW w \in Workers, MarkProcessed(w)
    PROVE  Inv'
  <1>0. Typed
    BY DEF Inv
  <1>1. PICK to \in {"processed", "rejected"}, answer \in Answers :
        /\ desk[w].pc = "settle" /\ Mine(w, "action", "processing")
        /\ answer = desk[w].verdict
        /\ status' = [status EXCEPT !["action"] = to, !["reply"] = "pending",
                                     !["progress"] = Over(@)]
        /\ Free("action") /\ desk' = [desk EXCEPT ![w] = Idle] /\ verdict' = answer
        /\ failedIn' \in {"none", failedIn}
        /\ UNCHANGED <<kind, form, due, known, stage, revision, claimed, template,
                       instance, made, feed, shown, message,
                       late, trouble>>
    <2>1. desk[w].pc = "settle" => desk[w].verdict \in Answers
      BY DEF Inv, Course
    <2> QED
      BY <2>1 DEF MarkProcessed, Conclude, Answers, action, progress, domain
  <1>4. Written(w) /\ desk'[w] = Idle
    <2>1. desk' = [desk EXCEPT ![w] = Idle]
      BY <1>1
    <2> QED
      BY <1>0, <2>1, DeskWritten, IdleMemory DEF Written
  <1>5. /\ status' \in [Lanes -> Statuses] /\ holder' \in [Lanes -> Workers \cup {Nobody}]
        /\ live' \in [Lanes -> BOOLEAN]
        /\ status'["action"] = to /\ holder'["action"] = Nobody /\ ~live'["action"]
        /\ status'["reply"] = "pending" /\ status'["card"] = status["card"]
        /\ status'["progress"] = Over(status["progress"])
        /\ \A l \in Lanes \ {"action"} : holder'[l] = holder[l] /\ live'[l] = live[l]
    BY <1>0, <1>1 DEF Free, Typed, Lanes, Statuses, Over
  <1>t. Typed'
    BY <1>0, <1>1, <1>4, <1>5 DEF Typed, TypeOK, Written, Mine, Over
  <1>o. Once'
    BY <1>1 DEF Inv, Once, Idle
  <1>c. Course'
    BY <1>1, <1>5
    DEF Inv, Course, Decided, Waiting, Unverified, Typed, GenerateSteps, Idle, Mine, Over
  <1>e. Exclusive'
    BY <1>1, <1>5 DEF Inv, Exclusive, Alone, Decided, Idle, Over
  <1>f. Faithful'
    BY <1>5 DEF Faithful, Active
  <1> QED
    BY <1>t, <1>o, <1>c, <1>e, <1>f DEF Inv

(* The form is accepted; the progress of the generation begins. *)
LEMMA VerifiedKeeps ==
    ASSUME Inv, NEW w \in Workers, Verified(w)
    PROVE  Inv'
  <1>0. Typed
    BY DEF Inv
  <1>1. /\ desk[w].pc = "verify" /\ Mine(w, "action", "verifying")
        /\ status' = [status EXCEPT !["action"] = "verified",
                         !["progress"] = IF kind = "wizard" THEN "pending" ELSE @]
        /\ Free("action") /\ desk' = [desk EXCEPT ![w] = Idle] /\ failedIn' = "none"
        /\ IF kind = "wizard" THEN stage' = "generating" /\ revision' = revision + 1
                              ELSE UNCHANGED <<stage, revision>>
        /\ UNCHANGED <<kind, form, due, verdict, known, claimed, template,
                       instance, made, feed, shown, message,
                       late, trouble>>
    BY DEF Verified, action, progress, domain
  <1>4. Written(w) /\ desk'[w] = Idle
    <2>1. desk' = [desk EXCEPT ![w] = Idle]
      BY <1>1
    <2> QED
      BY <1>0, <2>1, DeskWritten, IdleMemory DEF Written
  <1>5. /\ status' \in [Lanes -> Statuses] /\ holder' \in [Lanes -> Workers \cup {Nobody}]
        /\ live' \in [Lanes -> BOOLEAN]
        /\ status'["action"] = "verified" /\ holder'["action"] = Nobody /\ ~live'["action"]
        /\ \A l \in {"card", "reply"} : status'[l] = status[l]
        /\ status'["progress"] = IF kind = "wizard" THEN "pending" ELSE status["progress"]
        /\ \A l \in Lanes \ {"action"} : holder'[l] = holder[l] /\ live'[l] = live[l]
    BY <1>0, <1>1 DEF Free, Typed, Lanes, Statuses
  <1>t. Typed'
    BY <1>1, <1>4, <1>5 DEF Inv, Typed, TypeOK, Course, Stages, Written, Mine, Unverified
  <1>o. Once'
    BY <1>1 DEF Inv, Once, Idle
  <1>c. Course'
    BY <1>1, <1>5
    DEF Inv, Course, Decided, Waiting, Unverified, Typed, GenerateSteps, Idle, Mine,
        Unverified
  <1>e. Exclusive'
    BY <1>1 DEF Inv, Exclusive, Decided, Unverified, Course, Idle, Mine, Unverified
  <1>f. Faithful'
    BY <1>1, <1>5 DEF Inv, Faithful, Unverified, Course, Mine, Unverified
  <1> QED
    BY <1>t, <1>o, <1>c, <1>e, <1>f DEF Inv

(* The first click on the card is stored. *)
LEMMA ClickKeeps ==
    ASSUME Inv, Click
    PROVE  Inv'
  <1>0. Typed
    BY DEF Inv
  <1>1. /\ shown # "none" /\ form = "absent"
        /\ form' \in {"good", "bad"} /\ feed' = "feeding"
        /\ status' = [status EXCEPT !["action"] = "pending"]
        /\ UNCHANGED <<kind, due, failedIn, verdict, known, holder, live, stage,
                       revision, claimed, template, instance,
                       made, shown, message, desk, late,
                       trouble>>
    BY DEF Click, progress, domain
  <1>2. /\ status' \in [Lanes -> Statuses] /\ status'["action"] = "pending"
        /\ \A l \in Lanes \ {"action"} : status'[l] = status[l]
    BY <1>0, <1>1 DEF Typed, Lanes, Statuses
  <1>3. status["action"] = "none"
    BY <1>1 DEF Inv, Course
  <1>4. /\ shown \in {"none", "form"}
        /\ \A v \in Workers : desk[v].lane # "progress"
    BY <1>3 DEF Inv, Course, Unverified
  <1>t. Typed'
    BY <1>0, <1>1, <1>2, <1>3 DEF Typed, TypeOK
  <1>o. Once'
    BY <1>1 DEF Inv, Once
  <1>c. Course'
    BY <1>1, <1>2 DEF Inv, Course, Decided, Waiting, Unverified
  <1>e. Exclusive'
    BY <1>1, <1>4 DEF Exclusive, Answers
  <1>f. Faithful'
    BY <1>2 DEF Faithful, Active
  <1> QED
    BY <1>t, <1>o, <1>c, <1>e, <1>f DEF Inv

(* The callback shows that the action was received. *)
LEMMA ShowProcessingKeeps ==
    ASSUME Inv, ShowProcessing
    PROVE  Inv'
  <1>0. Typed
    BY DEF Inv
  <1>1. /\ feed = "feeding" /\ feed' = "shown"
        /\ shown' \in {"processing", shown}
        /\ UNCHANGED <<kind, form, due, failedIn, verdict, known, status, holder,
                       live, stage, revision, claimed,
                       template, instance, made, message,
                       desk, late>>
    BY DEF ShowProcessing, Spend, action, progress, domain
  <1>t. Typed'
    BY <1>0, <1>1 DEF Typed, TypeOK, Cards
  <1>o. Once'
    BY <1>1 DEF Inv, Once
  <1>c. Course'
    BY <1>1 DEF Inv, Course, Decided, Waiting, Unverified
  <1>e. Exclusive'
    BY <1>1 DEF Inv, Exclusive, Decided, Waiting, Unverified, Course, Answers
  <1>f. Faithful'
    BY <1>1 DEF Inv, Faithful, Waiting, Unverified, Course
  <1> QED
    BY <1>t, <1>o, <1>c, <1>e, <1>f DEF Inv

(* The callback releases the action. *)
LEMMA ReleaseKeeps ==
    ASSUME Inv, Release
    PROVE  Inv'
  <1>0. Typed
    BY DEF Inv
  <1>1. /\ feed = "shown" /\ feed' = "over"
        /\ due' = (due \/ status["action"] = "pending")
        /\ UNCHANGED <<kind, form, failedIn, verdict, known, status, holder, live,
                       stage, revision, claimed, template,
                       instance, made, shown, message, desk,
                       late, trouble>>
    BY DEF Release, progress, domain
  <1>t. Typed'
    BY <1>0, <1>1 DEF Typed, TypeOK
  <1>o. Once'
    BY <1>1 DEF Inv, Once
  <1>c. Course'
    BY <1>1 DEF Inv, Course, Decided, Waiting, Unverified
  <1>e. Exclusive'
    BY <1>1 DEF Inv, Exclusive, Alone, Decided
  <1>f. Faithful'
    BY <1>1 DEF Inv, Faithful
  <1> QED
    BY <1>t, <1>o, <1>c, <1>e, <1>f DEF Inv

(* The callback dies. *)
LEMMA CallbackDiesKeeps ==
    ASSUME Inv, CallbackDies
    PROVE  Inv'
  <1>0. Typed
    BY DEF Inv
  <1>1. /\ feed \in {"feeding", "shown"} /\ feed' = "over"
        /\ UNCHANGED <<kind, form, due, failedIn, verdict, known, status, holder,
                       live, stage, revision, claimed,
                       template, instance, made, shown,
                       message, desk, late>>
    BY DEF CallbackDies, Spend, action, progress, domain
  <1>t. Typed'
    BY <1>0, <1>1 DEF Typed, TypeOK
  <1>o. Once'
    BY <1>1 DEF Inv, Once
  <1>c. Course'
    BY <1>1 DEF Inv, Course, Decided, Waiting, Unverified
  <1>e. Exclusive'
    BY <1>1 DEF Inv, Exclusive, Alone, Decided
  <1>f. Faithful'
    BY <1>1 DEF Inv, Faithful
  <1> QED
    BY <1>t, <1>o, <1>c, <1>e, <1>f DEF Inv

(* The time in which the callback may still come is over. *)
LEMMA FallsDueKeeps ==
    ASSUME Inv, FallsDue
    PROVE  Inv'
  <1>0. Typed
    BY DEF Inv
  <1>1. /\ feed = "over" /\ ~due /\ due' = TRUE
        /\ UNCHANGED <<kind, form, failedIn, verdict, known, status, holder, live,
                       stage, revision, claimed, template,
                       instance, made, feed, shown, message,
                       desk, late, trouble>>
    BY DEF FallsDue, progress, domain
  <1>t. Typed'
    BY <1>0, <1>1 DEF Typed, TypeOK
  <1>o. Once'
    BY <1>1 DEF Inv, Once
  <1>c. Course'
    BY <1>1 DEF Inv, Course, Decided, Unverified
  <1>e. Exclusive'
    BY <1>1 DEF Inv, Exclusive, Alone, Decided
  <1>f. Faithful'
    BY <1>1 DEF Inv, Faithful
  <1> QED
    BY <1>t, <1>o, <1>c, <1>e, <1>f DEF Inv

(* Others take the draft, or disable the template. *)
LEMMA OthersKeeps ==
    ASSUME Inv, Others
    PROVE  Inv'
  <1>0. Typed
    BY DEF Inv
  <1>1. /\ \/ instance = "draft" /\ instance' = "taken"
           \/ UNCHANGED instance
        /\ UNCHANGED <<kind, form, due, failedIn, verdict, known, status, holder,
                       live, stage, revision, claimed, made,
                       feed, shown, message, desk, late,
                       trouble>>
    BY DEF Others, action, progress
  <1>t. Typed'
    BY <1>0, <1>1 DEF Typed, TypeOK
  <1>o. Once'
    BY <1>1 DEF Inv, Once
  <1>c. Course'
    BY <1>1 DEF Inv, Course, Decided, Waiting, Unverified
  <1>e. Exclusive'
    BY <1>1 DEF Inv, Exclusive, Alone, Decided
  <1>f. Faithful'
    BY <1>1 DEF Inv, Faithful
  <1> QED
    BY <1>t, <1>o, <1>c, <1>e, <1>f DEF Inv

(* A lease runs out. *)
LEMMA LeaseEndsKeeps ==
    ASSUME Inv, NEW lane \in Lanes, LeaseEnds(lane)
    PROVE  Inv'
  <1>0. Typed
    BY DEF Inv
  <1>1. /\ live[lane] /\ live' = [live EXCEPT ![lane] = FALSE]
        /\ \/ desk[holder[lane]].lane = lane /\ late' = (late \/ lane = "progress")
           \/ desk[holder[lane]].lane # lane /\ late' = late
        /\ UNCHANGED <<kind, form, due, failedIn, verdict, known, status, holder,
                       stage, revision, claimed, template,
                       instance, made, feed, shown, message,
                       desk>>
    BY DEF LeaseEnds, Spend, action, progress, domain
  <1>t. Typed'
    BY <1>0, <1>1 DEF Typed, TypeOK
  <1>o. Once'
    BY <1>1 DEF Inv, Once
  <1>c. Course'
    BY <1>1 DEF Inv, Course, Decided, Waiting, Unverified
  <1>e. Exclusive'
    BY <1>1 DEF Inv, Exclusive, Alone, Decided, Typed
  <1>f. Faithful'
    BY <1>1 DEF Inv, Faithful, Typed
  <1> QED
    BY <1>t, <1>o, <1>c, <1>e, <1>f DEF Inv

(* The first state, and every step. *)
LEMMA InitInv ==
    Init => Inv
  <1> SUFFICES ASSUME Init PROVE Inv
    OBVIOUS
  <1>1. \A w \in Workers : desk[w] = Idle
    BY DEF Init
  <1>2. Typed
    BY <1>1, IdleMemory, WizardAssumption
    DEF Init, Typed, TypeOK, Lanes, Statuses, Stages, Cards, Answers
  <1>3. Once /\ Course /\ Exclusive /\ Faithful
    BY <1>1
    DEF Init, Once, Course, Exclusive, Faithful, Active, Decided, Waiting, Unverified, Idle,
        GenerateSteps, Answers, Lanes
  <1> QED
    BY <1>2, <1>3 DEF Inv

(* Every step keeps the invariant.                                         *)
LEMMA NextInv ==
    Inv /\ [Next]_vars => Inv'
  <1> SUFFICES ASSUME Inv, [Next]_vars PROVE Inv'
    OBVIOUS
  <1>1. CASE UNCHANGED vars
    BY <1>1
    DEF vars, action, progress, domain, Inv, Typed, TypeOK, Once, Course, Decided, Waiting,
        Unverified, Exclusive, Alone, Faithful
  <1>2. CASE Click \/ Callback \/ CallbackDies \/ Others
    BY <1>2, ClickKeeps, ShowProcessingKeeps, ReleaseKeeps, FallsDueKeeps,
        CallbackDiesKeeps, OthersKeeps
    DEF Callback
  <1>3. ASSUME NEW lane \in Lanes, LeaseEnds(lane)
        PROVE  Inv'
    BY <1>3, LeaseEndsKeeps
  <1>4. ASSUME NEW w \in Workers, Starts(w)
        PROVE  Inv'
    BY <1>4, ClaimCardKeeps, ClaimVerificationKeeps, ClaimActionKeeps, ClaimProgressKeeps,
        ClaimReplyKeeps
    DEF Starts
  <1>5. ASSUME NEW w \in Workers, Goes(w)
        PROVE  Inv'
    BY <1>5, SendCardKeeps, MarkCardSentKeeps, CardFailsKeeps, VerifyRejectsKeeps,
        VerifiedKeeps,
        ActionFailsKeeps, BindKeeps, LookUpKeeps, GenerateKeeps, RepairKeeps, GivesUpKeeps,
        CreateGeneratedKeeps, MarkProcessedKeeps, NoteKeeps, MarkProgressSentKeeps,
        MarkProgressFailedKeeps, ShowResultKeeps, TellKeeps, MarkReplySentKeeps, ReplyFailsKeeps,
        LostClaimKeeps
    DEF Goes
  <1>6. ASSUME NEW w \in Workers, Die(w)
        PROVE  Inv'
    BY <1>6, DieKeeps
  <1> QED
    BY <1>1, <1>2, <1>3, <1>4, <1>5, <1>6 DEF Next

(* The card is written by four steps only, and each moves it on.           *)
LEMMA StepMovesOn ==
    Inv /\ [Next]_vars => late \/ Rank(shown') >= Rank(shown)
  <1> SUFFICES ASSUME Inv, [Next]_vars, ~late PROVE Rank(shown') >= Rank(shown)
    OBVIOUS
  <1>1. shown \in Cards /\ Rank(shown) \in 0 .. 5
    BY DEF Inv, Typed, Rank, Cards, Answers
  <1>2. CASE UNCHANGED shown
    BY <1>1, <1>2
  <1>3. ASSUME NEW w \in Workers, SendCard(w)
        PROVE  Rank(shown') >= Rank(shown)
    BY <1>1, <1>3 DEF SendCard, Rank, Cards, Answers
  <1>4. CASE ShowProcessing
    <2>1. status["action"] \in {"none", "pending"} /\ stage = "none" /\ ~Decided
      BY <1>4 DEF ShowProcessing, Inv, Course, Waiting, Unverified, Decided, Typed
    <2>2. shown \in {"none", "form", "processing"}
      BY <1>1, <2>1 DEF Inv, Course, Exclusive, Cards, Answers
    <2> QED
      BY <1>1, <1>4, <2>2 DEF ShowProcessing, Rank
  <1>5. ASSUME NEW w \in Workers, Note(w)
        PROVE  Rank(shown') >= Rank(shown)
    <2>1. desk[w] \in Memory /\ desk[w].lane = "progress"
      BY <1>5, DeskFacts DEF Note, Inv, ProgressSteps
    <2>2. /\ desk[w].stage \in {"generating", "repairing"}
          /\ shown \notin Answers /\ (shown = "repairing" => desk[w].stage = "repairing")
      BY <2>1 DEF Inv, Course, Exclusive, Alone, Memory, Stages
    <2> QED
      BY <1>1, <1>5, <2>2 DEF Note, Rank, Cards
  <1>6. ASSUME NEW w \in Workers, ShowResult(w)
        PROVE  Rank(shown') >= Rank(shown)
    <2>1. desk[w].lane = "reply"
      BY <1>6, DeskFacts DEF ShowResult, Inv, ReplySteps
    <2>2. verdict \in Answers
      BY <2>1 DEF Inv, Course, Typed
    <2> QED
      BY <1>1, <1>6, <2>2 DEF ShowResult, Rank, Cards, Answers
  <1>7. CASE UNCHANGED vars
    BY <1>2, <1>7 DEF vars
  <1>8. CASE Click \/ Callback \/ CallbackDies \/ Others
    BY <1>2, <1>4, <1>8 DEF Click, Callback, Release, FallsDue, CallbackDies, Others
  <1>9. ASSUME NEW lane \in Lanes, LeaseEnds(lane)
        PROVE  Rank(shown') >= Rank(shown)
    BY <1>2, <1>9 DEF LeaseEnds
  <1>10. ASSUME NEW w \in Workers, Starts(w)
         PROVE  Rank(shown') >= Rank(shown)
    BY <1>2, <1>10
    DEF Starts, ClaimCard, ClaimVerification, ClaimAction, ClaimProgress, ClaimReply
  <1>11. ASSUME NEW w \in Workers, Goes(w)
         PROVE  Rank(shown') >= Rank(shown)
    BY <1>2, <1>3, <1>5, <1>6, <1>11
    DEF Goes, MarkCardSent, CardFails, VerifyRejects, Verified, ActionFails, Bind, LookUp,
        Generate,
        Repair, GivesUp, CreateGenerated, Says, Conclude, MarkProcessed, MarkProgressSent,
        MarkProgressFailed, Tell, MarkReplySent, ReplyFails, LostClaim
  <1>12. ASSUME NEW w \in Workers, Die(w)
         PROVE  Rank(shown') >= Rank(shown)
    BY <1>2, <1>12 DEF Die
  <1> QED
    BY <1>7, <1>8, <1>9, <1>10, <1>11, <1>12 DEF Next

-----------------------------------------------------------------------------
(* The invariant holds in every state. *)
LEMMA InvAlways ==
    Spec => []Inv
  BY InitInv, NextInv, PTL DEF Spec

(* However often it is tried, a submitted form becomes one draft at most,  *)
(* "created" is never said of a draft that is not there, and a progress    *)
(* that counts as sent is the stage the card shows                         *)
(* (role_binding_worker.py, the four role-binding lanes of postgres.py).   *)
THEOREM ProgressIsShown ==
    Spec => []SentMeansShown
  <1>1. Inv => SentMeansShown
    <2> SUFFICES ASSUME Inv PROVE SentMeansShown
      OBVIOUS
    <2>1. TypeOK
      BY DEF Inv, Typed
    <2>2. made <= 1 /\ (message = "created" => made = 1)
      BY DEF Inv, Once
    <2> QED
      BY <2>1, <2>2 DEF Inv, Faithful, SentMeansShown
  <1> QED
    BY <1>1, InvAlways, PTL

(* The card only moves on, whichever of the callback, the progress and the *)
(* reply writes it next, unless a progress lease ran out under its worker. *)
THEOREM CardOnlyMovesOn ==
    Spec => CardMovesOn
  <1>1. Inv /\ [Next]_vars => [late \/ Rank(shown') >= Rank(shown)]_vars
    BY StepMovesOn
  <1> QED
    BY <1>1, InvAlways, PTL DEF Spec, CardMovesOn

=============================================================================
