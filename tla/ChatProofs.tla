----------------------------- MODULE ChatProofs ------------------------------
(***************************************************************************)
(* A command takes effect once, and what the chat is told of it is true,   *)
(* for any number of commands, messages and workers, and any kinds of      *)
(* commands on one flow.                                                   *)
(*                                                                         *)
(* Several workers may believe that they are to apply a command: nothing   *)
(* is fenced before the settling.  So what protects the flow is what a     *)
(* command leaves behind: a version that is past, a status that does not   *)
(* come back, a preview that is consumed (Done).  And what protects the    *)
(* answer is that a refusal is for good: whoever still tries the command   *)
(* after it was refused is refused as well (Barred), or nobody is left     *)
(* who could try (Untouched).                                              *)
(***************************************************************************)
EXTENDS Chat, TLAPS

Statuses == {"absent", "pending", "verifying", "verifyFailed", "verified", "processing",
             "applyFailed", "processed", "exhausted"}
(* A command that may have been applied is in one of these. *)
Applying == {"processing", "applyFailed", "processed"}
Verdict == Verdicts \cup {"none"}
Flow == [status: FlowStatus, open: {"work", "review", "none"}, version: Nat]
Row == [status: Statuses, due: BOOLEAN, holder: Workers \cup {Nobody}, live: BOOLEAN,
        tries: 0 .. MaxTries, verdict: Verdict,
        reply: {"none", "pending", "failed", "sending", "sent"},
        sender: Workers \cup {Nobody}, sending: BOOLEAN]
Desk == [pc: {"idle", "verify", "apply", "settle", "update", "send", "sent"},
         cmd: Commands \cup {"none"}, verdict: Verdict]

FlowTypes ==
    /\ request \in Requests /\ bound \in [Commands -> Nat] /\ flow \in Flow
    /\ consumed \subseteq Commands /\ drafts \in [Messages -> {"none", "draft", "taken"}]
    /\ effect \in [Commands -> Nat]

RowTypes ==
    /\ row \in [Commands -> Row] /\ desk \in [Workers -> Desk]
    /\ feed \in [Commands -> {"off", "feeding", "shown", "over"}]
    /\ card \in [Messages -> {"buttons", "processing", "result"}]
    /\ used \in [Commands -> 0 .. TokenUses] /\ chat \in [Commands -> Verdict]

(* The row of a command, its callback and its card. *)
RowOK(c) ==
    /\ row[c].status \in {"verifying", "processing"} <=> row[c].holder # Nobody
    /\ row[c].reply = "sending" <=> row[c].sender # Nobody
    /\ row[c].status \in Final <=> row[c].reply # "none"
    /\ row[c].live => row[c].holder # Nobody
    /\ row[c].sending => row[c].sender # Nobody
    /\ IsCard(c) /\ (row[c].status \notin {"absent", "pending"} \/ row[c].due) =>
         feed[c] = "over"
    /\ feed[c] # "off" => row[c].status # "absent"
    /\ feed[c] \in {"off", "feeding"} => used[c] = 0
    /\ row[c].reply = "sent" /\ IsCard(c) => card[Message(c)] = "result"
    /\ chat[c] # "none" => row[c].status # "absent"

(* Of the commands with one message one has a row. *)
OneRow ==
    \A c, d \in Commands :
        /\ Message(c) = Message(d)
        /\ row[c].status # "absent" /\ row[d].status # "absent"
        => c = d

(* What a command that took effect has left behind. *)
Versioned == CardKinds \cup Replayable

Done(c) ==
    /\ request[c].kind \notin {"show", "wizard"}
    /\ request[c].kind = "draft" => drafts[Message(c)] # "none"
    /\ request[c].kind = "confirm" => flow.status # "draft"
    /\ request[c].kind \in Versioned => bound[c] < flow.version
    /\ request[c].kind = "cancel" => flow.status = "canceled"
    /\ request[c].kind \in Replayable => ByOwner(c)

EffectOK(c) ==
    /\ bound[c] <= flow.version
    /\ effect[c] # 0 => row[c].status \in Applying
    /\ effect[c] # 0 /\ request[c].kind \in BoundKinds => effect[c] = 1 /\ Done(c)
    /\ c \in consumed <=> request[c].kind = "restart" /\ effect[c] # 0

CanceledBySomebody ==
    flow.status = "canceled" =>
        \E c \in Commands : request[c].kind = "cancel" /\ effect[c] = 1

(* Nobody is at the command, and nobody will be. *)
Untouched(c) ==
    /\ row[c].status \in Final
    /\ \A w \in Workers : desk[w].cmd = c => desk[w].pc \notin {"apply", "settle"}

(* The command is not possible, and will not be possible. *)
Barred(c) ==
    \/ ~ByOwner(c) \/ bound[c] < flow.version
    \/ request[c].kind = "cancel" /\ flow.status \notin Active
    \/ request[c].kind = "restart" /\ flow.status \notin {"done", "failed"}

Refused(c) == effect[c] = 0 /\ (Untouched(c) \/ Barred(c))

Happened(c) ==
    \E d \in Commands : effect[d] = 1 /\ (d = c \/ request[d].kind = "cancel")

(* An answer is true, and stays true. *)
Truthful(c, verdict) ==
    request[c].kind \in Replayable =>
        /\ verdict \in {"rejected", "exhausted"} => Refused(c)
        /\ verdict = "applied" => Happened(c)

DeskOK(w) ==
    LET c == desk[w].cmd IN
    /\ desk[w].pc # "idle" => c \in Commands /\ row[c].status # "absent"
    /\ desk[w].pc \in {"apply", "settle"} => row[c].status \in Applying
    /\ desk[w].pc = "settle" => desk[w].verdict # "none" /\ Truthful(c, desk[w].verdict)
    /\ desk[w].pc = "update" => IsCard(c)
    /\ desk[w].pc \in {"update", "send", "sent"} => row[c].reply # "none"
    /\ desk[w].pc \in {"send", "sent"} /\ IsCard(c) => card[Message(c)] = "result"

AnswersOK(c) ==
    /\ row[c].status \in Final => Truthful(c, row[c].verdict)
    /\ Truthful(c, chat[c])

RowsInv == RowTypes /\ OneRow /\ \A c \in Commands : RowOK(c)
FlowInv == FlowTypes /\ CanceledBySomebody /\ \A c \in Commands : EffectOK(c)

ChatInv ==
    /\ RowsInv /\ FlowInv
    /\ \A c \in Commands : AnswersOK(c)
    /\ \A w \in Workers : DeskOK(w)

-----------------------------------------------------------------------------
(* What a step has to show *)

(* The flow moves on, and what commands have left behind stays. *)
FlowGrows ==
    /\ UNCHANGED request
    /\ flow'.version >= flow.version
    /\ flow'.version = flow.version => flow' = flow
    /\ flow.status # "draft" => flow'.status # "draft"
    /\ flow.status = "canceled" => flow'.status = "canceled"
    /\ \A m \in Messages : drafts[m] # "none" => drafts'[m] # "none"
    /\ \A c \in Commands :
        /\ effect[c] # 0 => effect'[c] # 0
        /\ request[c].kind \in Replayable /\ Refused(c) => effect'[c] = effect[c]

(* A row goes on, and what was final stays. *)
RowAdvances(c) ==
    /\ row[c].status # "absent" => row'[c].status # "absent" /\ bound'[c] = bound[c]
    /\ row[c].status \in Applying => row'[c].status \in Applying
    /\ row[c].status \in Final =>
         row'[c].status = row[c].status /\ row'[c].verdict = row[c].verdict
    /\ row[c].reply # "none" => row'[c].reply # "none"
    /\ row[c].reply # "none" /\ IsCard(c) /\ card[Message(c)] = "result" =>
         card'[Message(c)] = "result"

(* Nobody starts to apply what is settled. *)
DesksGo ==
    \A w \in Workers : desk'[w].pc \in {"apply", "settle"} =>
        \/ desk[w].pc \in {"apply", "settle"} /\ desk[w].cmd = desk'[w].cmd
        \/ row[desk'[w].cmd].status \notin Final

(* The kinds, and where they belong. *)
LEMMA KindsOfCommands ==
    ASSUME FlowInv, NEW c \in Commands
    PROVE  /\ request[c].kind \in Kinds /\ request[c].message \in Messages
           /\ request[c].byOwner \in BOOLEAN /\ Message(c) \in Messages
           /\ Replayable \subseteq BoundKinds /\ Versioned \subseteq BoundKinds
           /\ Replayable \subseteq Versioned
           /\ bound[c] \in Nat /\ flow.version \in Nat /\ effect[c] \in Nat /\ flow \in Flow
  BY ChatAssumption DEF FlowInv, FlowTypes, Request, Kinds, CardKinds, Replayable, BoundKinds,
     Versioned, Message, Flow

(* A command that is barred stays so. *)
LEMMA BarredStays ==
    ASSUME FlowInv, FlowInv', FlowGrows, NEW c \in Commands, bound'[c] = bound[c], Barred(c)
    PROVE  Barred(c)'
  <1>1. /\ bound[c] \in Nat /\ flow.version \in Nat /\ flow'.version \in Nat
        /\ bound'[c] <= flow'.version
    BY KindsOfCommands DEF FlowInv, FlowTypes, Flow, EffectOK
  <1>2. request' = request /\ flow'.version >= flow.version
        /\ (flow'.version = flow.version => flow' = flow)
    BY DEF FlowGrows
  <1>3. bound[c] <= flow.version
    BY DEF FlowInv, EffectOK
  <1>4. CASE flow'.version = flow.version
    BY <1>2, <1>4 DEF Barred, ByOwner
  <1>5. CASE flow'.version # flow.version
    <2>1. bound'[c] < flow'.version
      BY <1>1, <1>2, <1>3, <1>5
    <2> QED
      BY <2>1 DEF Barred
  <1> QED
    BY <1>4, <1>5

(* A true answer stays true. *)
LEMMA TruthStays ==
    ASSUME FlowInv, FlowInv', FlowGrows, DesksGo, NEW c \in Commands,
           row[c].status # "absent", RowAdvances(c), NEW v, Truthful(c, v)
    PROVE  Truthful(c, v)'
  <1> SUFFICES ASSUME request[c].kind \in Replayable
               PROVE  Truthful(c, v)'
    BY DEF Truthful, FlowGrows
  <1>1. request' = request /\ bound'[c] = bound[c]
    BY DEF FlowGrows, RowAdvances
  <1>2. ASSUME Refused(c)
        PROVE  Refused(c)'
    <2>1. effect'[c] = 0
      BY <1>2 DEF FlowGrows, Refused
    <2>2. Barred(c) => Barred(c)'
      BY <1>1, BarredStays
    <2>3. Untouched(c) => Untouched(c)'
      BY DEF Untouched, DesksGo, RowAdvances
    <2> QED
      BY <1>2, <2>1, <2>2, <2>3 DEF Refused
  <1>3. ASSUME Happened(c)
        PROVE  Happened(c)'
    <2>1. PICK d \in Commands : effect[d] = 1 /\ (d = c \/ request[d].kind = "cancel")
      BY <1>3 DEF Happened
    <2>2. request[d].kind \in BoundKinds
      BY <2>1, KindsOfCommands DEF Replayable
    <2>3. effect'[d] # 0
      BY <2>1 DEF FlowGrows
    <2>4. EffectOK(d)'
      BY DEF FlowInv
    <2>5. effect'[d] = 1
      BY <1>1, <2>2, <2>3, <2>4 DEF EffectOK
    <2> QED
      BY <1>1, <2>1, <2>5 DEF Happened
  <1> QED
    BY <1>1, <1>2, <1>3 DEF Truthful

(* A step has to look after what it writes. *)
LEMMA StepKeeps ==
    ASSUME ChatInv, RowsInv', FlowInv', FlowGrows, DesksGo,
           \A c \in Commands : RowAdvances(c),
           \A c \in Commands : chat'[c] = chat[c] \/ Truthful(c, chat[c])',
           \A c \in Commands : row'[c].status \in Final =>
               row[c].status \in Final \/ Truthful(c, row[c].verdict)',
           \A w \in Workers : desk'[w] = desk[w] \/ DeskOK(w)'
    PROVE  ChatInv'
  <1>1. FlowInv /\ request' = request
    BY DEF ChatInv, FlowGrows
  <1>2. ASSUME NEW c \in Commands
        PROVE  AnswersOK(c)'
    <2>1. PICK a : a = row[c].verdict
      OBVIOUS
    <2>2. PICK b : b = chat[c]
      OBVIOUS
    <2>3. /\ row[c].status \in Final => Truthful(c, a)
          /\ Truthful(c, b) /\ (b # "none" => row[c].status # "absent")
      BY <2>1, <2>2 DEF ChatInv, AnswersOK, RowsInv, RowOK
    <2>4. row[c].status \in Final => Truthful(c, a)' /\ row'[c].verdict = a
      <3>1. row[c].status \in Final => row[c].status # "absent"
        BY DEF Final
      <3> QED
        BY <1>1, <2>1, <2>3, <3>1, TruthStays DEF RowAdvances
    <2>5. Truthful(c, b)'
      <3>1. CASE b = "none"
        BY <3>1 DEF Truthful
      <3>2. CASE b # "none"
        BY <1>1, <2>3, <3>2, TruthStays
      <3> QED
        BY <3>1, <3>2
    <2>6. Truthful(c, chat[c])'
      BY <2>2, <2>5
    <2>7. row'[c].status \in Final => Truthful(c, row[c].verdict)'
      BY <2>4
    <2> QED
      BY <2>6, <2>7 DEF AnswersOK
  <1>3. ASSUME NEW w \in Workers
        PROVE  DeskOK(w)'
    <2>1. CASE desk'[w] = desk[w]
      <3>1. PICK c, v : c = desk[w].cmd /\ v = desk[w].verdict
        OBVIOUS
      <3>2. DeskOK(w)
        BY DEF ChatInv
      <3>3. desk[w].pc # "idle" => RowAdvances(c) /\ c \in Commands /\ row[c].status # "absent"
        BY <3>1, <3>2 DEF DeskOK
      <3>4. desk[w].pc = "settle" => v # "none" /\ Truthful(c, v)'
        BY <1>1, <3>1, <3>2, <3>3, TruthStays DEF DeskOK
      <3> QED
        BY <1>1, <2>1, <3>1, <3>2, <3>3, <3>4 DEF DeskOK, RowAdvances, IsCard, Message
    <2> QED
      BY <2>1
  <1> QED
    BY <1>2, <1>3 DEF ChatInv

(* Nothing happens to the flow. *)
LEMMA FlowStays ==
    ASSUME ChatInv, UNCHANGED <<request, flowVars>>, bound' \in [Commands -> Nat],
           \A c \in Commands : RowAdvances(c) /\ bound'[c] <= flow.version
    PROVE  FlowInv' /\ FlowGrows
  <1>1. UNCHANGED <<request, flow, consumed, drafts, effect>> /\ FlowInv
    BY DEF flowVars, ChatInv
  <1>2. flow.version \in Nat
    BY <1>1 DEF FlowInv, FlowTypes, Flow
  <1>3. FlowGrows
    BY <1>1, <1>2 DEF FlowGrows
  <1>4. ASSUME NEW c \in Commands
        PROVE  EffectOK(c)'
    <2>1. EffectOK(c) /\ RowAdvances(c) /\ bound'[c] <= flow.version
      BY <1>1 DEF FlowInv
    <2>2. row[c].status \in Applying => bound'[c] = bound[c]
      BY <2>1 DEF RowAdvances, Applying
    <2>3. effect[c] # 0 => row'[c].status \in Applying /\ bound'[c] = bound[c]
      BY <2>1, <2>2 DEF EffectOK, RowAdvances
    <2>4. effect[c] # 0 /\ request[c].kind \in BoundKinds => Done(c)'
      BY <1>1, <2>1, <2>3 DEF EffectOK, Done, Message, ByOwner
    <2> QED
      BY <1>1, <2>1, <2>3, <2>4 DEF EffectOK
  <1>5. FlowTypes' /\ CanceledBySomebody'
    BY <1>1 DEF FlowInv, FlowTypes, CanceledBySomebody
  <1> QED
    BY <1>3, <1>4, <1>5 DEF FlowInv

(* The row of one command goes on. *)
LEMMA RowStep ==
    ASSUME ChatInv, NEW c \in Commands, NEW r \in Row, row' = [row EXCEPT ![c] = r],
           UNCHANGED <<request, bound, flowVars, card, used, chat>>,
           feed' \in [Commands -> {"off", "feeding", "shown", "over"}],
           \A d \in Commands \ {c} : feed'[d] = feed[d],
           desk' \in [Workers -> Desk], DesksGo,
           row[c].status # "absent", RowAdvances(c), RowOK(c)',
           r.status \in Final => row[c].status \in Final \/ Truthful(c, r.verdict)',
           \A w \in Workers : desk'[w] = desk[w] \/ DeskOK(w)'
    PROVE  ChatInv'
  <1>1. /\ row \in [Commands -> Row] /\ request' = request /\ bound' = bound
        /\ UNCHANGED <<card, used, chat>> /\ row' \in [Commands -> Row]
        /\ row'[c] = r /\ \A d \in Commands \ {c} : row'[d] = row[d]
    BY DEF ChatInv, RowsInv, RowTypes
  <1>2. \A d \in Commands : RowAdvances(d)
    BY <1>1 DEF RowAdvances
  <1>3. bound' \in [Commands -> Nat] /\ \A d \in Commands : bound'[d] <= flow.version
    BY <1>1 DEF ChatInv, FlowInv, FlowTypes, EffectOK
  <1>4. FlowInv' /\ FlowGrows
    BY <1>2, <1>3, FlowStays
  <1>5. \A d \in Commands : RowOK(d)'
    BY <1>1 DEF ChatInv, RowsInv, RowOK, IsCard, Message
  <1>6. OneRow'
    BY <1>1 DEF ChatInv, RowsInv, OneRow, Message
  <1>7. RowsInv'
    BY <1>1, <1>5, <1>6 DEF RowsInv, RowTypes, ChatInv
  <1>8. \A d \in Commands : chat'[d] = chat[d]
    BY <1>1
  <1>9. \A d \in Commands : row'[d].status \in Final =>
            row[d].status \in Final \/ Truthful(d, row[d].verdict)'
    BY <1>1
  <1> QED
    BY <1>2, <1>4, <1>7, <1>8, <1>9, StepKeeps

(* Desks and what Feishu shows change, rows do not. *)
LEMMA DeskStep ==
    ASSUME ChatInv, RowTypes', UNCHANGED <<request, row, bound, flowVars>>, DesksGo,
           \A c \in Commands : RowOK(c)' /\ RowAdvances(c),
           \A c \in Commands : chat'[c] = chat[c] \/ Truthful(c, chat[c])',
           \A w \in Workers : desk'[w] = desk[w] \/ DeskOK(w)'
    PROVE  ChatInv'
  <1>1. bound' \in [Commands -> Nat] /\ \A d \in Commands : bound'[d] <= flow.version
    BY DEF ChatInv, FlowInv, FlowTypes, EffectOK
  <1>2. FlowInv' /\ FlowGrows
    BY <1>1, FlowStays
  <1>3. RowsInv'
    BY DEF RowsInv, ChatInv, OneRow, Message
  <1> QED
    BY <1>2, <1>3, StepKeeps

(* Nothing has been received. *)
LEMMA InitChat == Init => ChatInv
  <1> SUFFICES ASSUME Init PROVE ChatInv
    OBVIOUS
  <1>1. NoRow \in Row /\ Idle \in Desk
    BY ChatAssumption DEF NoRow, Row, Statuses, Verdict, Idle, Desk
  <1>2. RowTypes
    BY <1>1 DEF Init, RowTypes, TokenUses, Verdict
  <1>3. FlowTypes
    BY DEF Init, FlowTypes, Flow, FlowStatus
  <1>4. \A c \in Commands : /\ row[c] = NoRow /\ feed[c] = "off" /\ used[c] = 0
                           /\ chat[c] = "none" /\ effect[c] = 0 /\ bound[c] = 0
    BY DEF Init
  <1>5. flow.version \in {0} /\ flow.status # "canceled" /\ consumed = {}
    BY DEF Init
  <1>6. RowsInv
    BY <1>2, <1>4 DEF RowsInv, RowOK, OneRow, NoRow, Final
  <1>7. FlowInv
    BY <1>3, <1>4, <1>5 DEF FlowInv, EffectOK, CanceledBySomebody
  <1>8. \A c \in Commands : AnswersOK(c)
    BY <1>4 DEF AnswersOK, Truthful, NoRow, Final
  <1>9. \A w \in Workers : DeskOK(w)
    BY DEF Init, DeskOK, Idle
  <1> QED
    BY <1>6, <1>7, <1>8, <1>9 DEF ChatInv

-----------------------------------------------------------------------------
(* The callbacks *)

(* What a row holds. *)
LEMMA RowFacts ==
    ASSUME ChatInv, NEW c \in Commands
    PROVE  /\ row[c] \in Row /\ RowOK(c) /\ EffectOK(c) /\ AnswersOK(c)
           /\ row \in [Commands -> Row] /\ desk \in [Workers -> Desk]
           /\ feed \in [Commands -> {"off", "feeding", "shown", "over"}]
           /\ Message(c) \in Messages /\ MaxTries \in Nat \ {0}
  BY KindsOfCommands, ChatAssumption DEF ChatInv, RowsInv, RowTypes, FlowInv

(* A command is received once for each message. *)
LEMMA ReceiveStep ==
    ASSUME ChatInv, NEW c \in Commands,
           ReceiveText(c) \/ ReceiveRecovery(c) \/ ReceiveDecision(c)
    PROVE  ChatInv'
  <1>1. /\ New(c) /\ bound' = [bound EXCEPT ![c] = flow.version]
        /\ UNCHANGED <<request, flowVars, card, used, chat, desk>>
    BY DEF ReceiveText, ReceiveRecovery, ReceiveDecision, ReceiveClick, Receive, feishu
  <1>2. PICK due \in BOOLEAN : due = ~IsCard(c)
    OBVIOUS
  <1>3. PICK r : r = [NoRow EXCEPT !.status = "pending", !.due = due]
    OBVIOUS
  <1>4. row' = [row EXCEPT ![c] = r]
    BY <1>2, <1>3 DEF ReceiveText, ReceiveRecovery, ReceiveDecision, ReceiveClick, Receive,
       DueOnArrival
  <1>5. /\ r \in Row /\ r.status = "pending" /\ r.due = due /\ r.holder = Nobody
        /\ r.reply = "none" /\ r.sender = Nobody /\ r.live = FALSE /\ r.sending = FALSE
    <2>1. PICK zero \in 0 .. MaxTries : zero = 0
      BY ChatAssumption
    <2>2. r = [status |-> "pending", due |-> due, holder |-> Nobody, live |-> FALSE,
               tries |-> zero, verdict |-> "none", reply |-> "none",
               sender |-> Nobody, sending |-> FALSE]
      BY <1>3, <2>1 DEF NoRow
    <2> QED
      BY <2>2 DEF Row, Statuses, Verdict
  <1>6. \/ IsCard(c) /\ feed' = [feed EXCEPT ![c] = "feeding"]
        \/ ~IsCard(c) /\ UNCHANGED feed
    BY DEF ReceiveText, ReceiveRecovery, ReceiveDecision, ReceiveClick, IsCard, CardKinds
  <1>7. row[c].status = "absent"
    BY <1>1 DEF New
  <1>8. /\ row \in [Commands -> Row] /\ bound \in [Commands -> Nat] /\ flow.version \in Nat
        /\ feed \in [Commands -> {"off", "feeding", "shown", "over"}]
    BY KindsOfCommands DEF ChatInv, RowsInv, RowTypes, FlowInv, FlowTypes
  <1>9. row'[c] = r /\ \A d \in Commands \ {c} : row'[d] = row[d] /\ bound'[d] = bound[d]
    BY <1>1, <1>4, <1>8
  <1>10. RowOK(c) /\ feed[c] = "off" /\ used[c] = 0 /\ chat[c] = "none"
    <2>1. RowOK(c)
      BY RowFacts
    <2> QED
      BY <1>7, <2>1 DEF RowOK
  <1>11. RowAdvances(c)
    <2>1. row[c].reply = "none"
      BY <1>7, <1>10 DEF RowOK, Final
    <2> QED
      BY <1>7, <2>1 DEF RowAdvances, Applying, Final
  <1>12. \A d \in Commands : RowAdvances(d)
    BY <1>1, <1>9, <1>11 DEF RowAdvances
  <1>13. bound' \in [Commands -> Nat] /\ \A d \in Commands : bound'[d] <= flow.version
    BY <1>1, <1>8 DEF ChatInv, FlowInv, EffectOK
  <1>14. FlowInv' /\ FlowGrows
    BY <1>1, <1>12, <1>13, FlowStays
  <1>15. RowOK(c)'
    BY <1>1, <1>2, <1>5, <1>6, <1>8, <1>9, <1>10 DEF RowOK, Final, IsCard
  <1>16. ASSUME NEW d \in Commands \ {c}
         PROVE  RowOK(d)'
    <2>1. RowOK(d) /\ row'[d] = row[d] /\ feed'[d] = feed[d]
      BY <1>6, <1>8, <1>9 DEF ChatInv, RowsInv
    <2> QED
      BY <1>1, <2>1 DEF RowOK, IsCard, Message
  <1>17. OneRow'
    BY <1>1, <1>9 DEF ChatInv, RowsInv, OneRow, Message, New
  <1>18. RowTypes'
    BY <1>1, <1>4, <1>5, <1>6 DEF ChatInv, RowsInv, RowTypes
  <1>19. RowsInv'
    BY <1>15, <1>16, <1>17, <1>18 DEF RowsInv
  <1>20. DesksGo
    BY <1>1 DEF DesksGo
  <1>21. \A d \in Commands : row'[d].status \in Final => row[d].status \in Final
    BY <1>5, <1>9 DEF Final
  <1> QED
    BY <1>1, <1>12, <1>14, <1>19, <1>20, <1>21, StepKeeps

(* The card shows that the command is on its way: before the row is due. *)
LEMMA ShowStep ==
    ASSUME ChatInv, NEW c \in Commands, ShowProcessing(c)
    PROVE  ChatInv'
  <1>1. /\ feed[c] = "feeding" /\ feed' = [feed EXCEPT ![c] = "shown"]
        /\ UNCHANGED <<request, row, bound, flowVars, chat, desk>>
        /\ \/ /\ card' = [card EXCEPT ![Message(c)] = "processing"]
              /\ used' = [used EXCEPT ![c] = @ + 1]
           \/ UNCHANGED <<card, used>>
    BY DEF ShowProcessing
  <1>2. /\ row[c].status # "absent" /\ used[c] = 0 /\ RowOK(c)
        /\ (IsCard(c) => row[c].status = "pending" /\ ~row[c].due)
    BY <1>1, RowFacts DEF RowOK
  <1>3. /\ feed \in [Commands -> {"off", "feeding", "shown", "over"}]
        /\ used \in [Commands -> 0 .. TokenUses] /\ Message(c) \in Messages
        /\ card \in [Messages -> {"buttons", "processing", "result"}]
    BY RowFacts DEF ChatInv, RowsInv, RowTypes
  <1>4. RowTypes'
    <2>1. 0 + 1 \in 0 .. TokenUses
      BY DEF TokenUses
    <2> QED
      BY <1>1, <1>2, <1>3, <2>1 DEF ChatInv, RowsInv, RowTypes
  <1>5. ASSUME NEW d \in Commands, IsCard(d), row[d].reply # "none"
        PROVE  card'[Message(d)] = card[Message(d)]
    <2>1. row[d].status \in Final /\ feed[d] = "over" /\ Message(d) \in Messages
      BY <1>5, RowFacts DEF RowOK, Final
    <2>2. Message(d) # Message(c)
      BY <1>1, <1>2, <2>1 DEF ChatInv, RowsInv, OneRow, Final
    <2> QED
      BY <1>1, <1>3, <2>1, <2>2
  <1>6. \A d \in Commands : RowAdvances(d)
    BY <1>1, <1>5 DEF RowAdvances
  <1>7. ASSUME NEW d \in Commands
        PROVE  RowOK(d)'
    <2>1. RowOK(d) /\ (d # c => feed'[d] = feed[d] /\ used'[d] = used[d])
      BY <1>1, <1>3, RowFacts
    <2>2. row[d].reply = "sent" /\ IsCard(d) => card'[Message(d)] = "result"
      BY <1>5, <2>1 DEF RowOK
    <2>3. CASE d = c
      BY <1>1, <1>2, <1>3, <2>1, <2>2, <2>3 DEF RowOK, IsCard, Message
    <2>4. CASE d # c
      BY <1>1, <2>1, <2>2, <2>4 DEF RowOK, IsCard, Message
    <2> QED
      BY <2>3, <2>4
  <1>8. DesksGo
    BY <1>1 DEF DesksGo
  <1> QED
    BY <1>1, <1>4, <1>6, <1>7, <1>8, DeskStep

(* A row that keeps its statuses and its answer. *)
LEMMA MarkStep ==
    ASSUME ChatInv, NEW c \in Commands, row[c].status # "absent",
           NEW r \in Row, row' = [row EXCEPT ![c] = r],
           \A x \in {"status", "holder", "verdict", "reply", "sender"} : r[x] = row[c][x],
           r.live => row[c].live, r.sending => row[c].sending,
           NEW f \in {"off", "feeding", "shown", "over"}, feed' = [feed EXCEPT ![c] = f],
           (f = feed[c] /\ r.due = row[c].due) \/ f = "over",
           UNCHANGED <<request, bound, flowVars, card, used, chat, desk>>
    PROVE  ChatInv'
  <1>1. /\ r.status = row[c].status /\ r.holder = row[c].holder /\ r.verdict = row[c].verdict
        /\ r.reply = row[c].reply /\ r.sender = row[c].sender
    OBVIOUS
  <1>2. RowOK(c)
    BY RowFacts
  <1>3. row \in [Commands -> Row] /\ feed \in [Commands -> {"off", "feeding", "shown", "over"}]
    BY RowFacts
  <1>4. row'[c] = r /\ feed'[c] = f
    BY <1>3
  <1>5. RowOK(c)'
    BY <1>1, <1>2, <1>4 DEF RowOK, IsCard, Message
  <1>6. RowAdvances(c)
    BY <1>1, <1>4 DEF RowAdvances
  <1>7. DesksGo /\ desk' \in [Workers -> Desk]
    BY RowFacts DEF DesksGo
  <1>8. /\ feed' \in [Commands -> {"off", "feeding", "shown", "over"}]
        /\ \A d \in Commands \ {c} : feed'[d] = feed[d]
    BY <1>3
  <1> QED
    BY <1>1, <1>5, <1>6, <1>7, <1>8, RowStep

(* The callback releases the row, or dies, or time does it. *)
LEMMA ReleaseStep ==
    ASSUME ChatInv, NEW c \in Commands, Release(c) \/ CallbackDies(c) \/ FallsDue(c)
    PROVE  ChatInv'
  <1>1. /\ row[c] \in Row /\ RowOK(c) /\ row \in [Commands -> Row]
        /\ feed \in [Commands -> {"off", "feeding", "shown", "over"}]
    BY RowFacts
  <1>2. row[c].status # "absent"
    BY <1>1 DEF RowOK, Release, CallbackDies, FallsDue
  <1>3. PICK b \in BOOLEAN :
          b = IF Release(c) \/ FallsDue(c) THEN row[c].due \/ row[c].status = "pending"
              ELSE row[c].due
    BY <1>1 DEF Row
  <1>4. PICK r : r = [row[c] EXCEPT !.due = b]
    OBVIOUS
  <1>5. /\ r \in Row /\ r.due = b /\ r.live = row[c].live /\ r.sending = row[c].sending
        /\ \A x \in {"status", "holder", "verdict", "reply", "sender"} : r[x] = row[c][x]
    BY <1>1, <1>4 DEF Row
  <1>6. row' = [row EXCEPT ![c] = r]
    <2>1. CASE Release(c) \/ FallsDue(c)
      BY <1>1, <1>3, <1>4, <2>1 DEF Release, FallsDue, Row
    <2>2. CASE ~(Release(c) \/ FallsDue(c))
      <3>1. row[c] = [row[c] EXCEPT !.due = row[c].due]
        BY <1>1 DEF Row
      <3> QED
        BY <1>1, <1>3, <1>4, <2>2, <3>1 DEF CallbackDies
    <2> QED
      BY <2>1, <2>2
  <1>7. feed' = [feed EXCEPT ![c] = "over"]
    BY <1>1 DEF Release, CallbackDies, FallsDue
  <1>8. UNCHANGED <<request, bound, flowVars, card, used, chat, desk>>
    BY DEF Release, CallbackDies, FallsDue, feishu
  <1> QED
    BY <1>2, <1>5, <1>6, <1>7, <1>8, MarkStep

(* Leases end. *)
LEMMA LeaseStep ==
    ASSUME ChatInv, NEW c \in Commands, LeaseEnds(c) \/ ReplyLeaseEnds(c)
    PROVE  ChatInv'
  <1>1. /\ row[c] \in Row /\ RowOK(c) /\ row \in [Commands -> Row]
        /\ feed \in [Commands -> {"off", "feeding", "shown", "over"}]
    BY RowFacts
  <1>2. /\ feed' = [feed EXCEPT ![c] = feed[c]]
        /\ UNCHANGED <<request, bound, flowVars, card, used, chat, desk>>
    BY <1>1 DEF LeaseEnds, ReplyLeaseEnds, feishu
  <1>3. PICK r : /\ r = [row[c] EXCEPT !.live = FALSE] \/ r = [row[c] EXCEPT !.sending = FALSE]
                 /\ row' = [row EXCEPT ![c] = r]
    BY DEF LeaseEnds, ReplyLeaseEnds
  <1>4. /\ r \in Row /\ r.due = row[c].due
        /\ (r.live => row[c].live) /\ (r.sending => row[c].sending)
        /\ \A x \in {"status", "holder", "verdict", "reply", "sender"} : r[x] = row[c][x]
    BY <1>1, <1>3 DEF Row
  <1>5. row[c].status # "absent"
    BY <1>1 DEF LeaseEnds, ReplyLeaseEnds, RowOK, Final
  <1> QED
    BY <1>1, <1>2, <1>3, <1>4, <1>5, MarkStep

-----------------------------------------------------------------------------
(* The workers *)

(* What a worker holds. *)
LEMMA DeskFacts ==
    ASSUME ChatInv, NEW w \in Workers
    PROVE  /\ desk[w] \in Desk /\ DeskOK(w) /\ desk \in [Workers -> Desk]
           /\ (desk[w].pc # "idle" => desk[w].cmd \in Commands)
           /\ Idle \in Desk /\ Idle.pc = "idle" /\ Idle.cmd = "none"
  <1>1. desk[w] \in Desk /\ DeskOK(w) /\ desk \in [Workers -> Desk]
    BY DEF ChatInv, RowsInv, RowTypes
  <1>2. Idle \in Desk /\ Idle.pc = "idle" /\ Idle.cmd = "none"
    BY DEF Idle, Desk, Verdict
  <1> QED
    BY <1>1, <1>2 DEF DeskOK

(* A worker drops what it was at. *)
LEMMA DropStep ==
    ASSUME ChatInv, NEW w \in Workers, Die(w) \/ LostClaim(w)
    PROVE  ChatInv'
  <1>1. /\ desk' = [desk EXCEPT ![w] = Idle]
        /\ UNCHANGED <<request, row, bound, flowVars, feed, card, used, chat>>
    BY DEF Die, LostClaim, feishu
  <1>2. /\ desk' \in [Workers -> Desk] /\ desk'[w] = Idle
        /\ \A v \in Workers \ {w} : desk'[v] = desk[v]
    BY <1>1, DeskFacts
  <1>3. DesksGo
    BY <1>2, DeskFacts DEF DesksGo
  <1>4. DeskOK(w)'
    BY <1>2, DeskFacts DEF DeskOK
  <1>5. RowTypes'
    BY <1>1, <1>2 DEF ChatInv, RowsInv, RowTypes
  <1>6. ASSUME NEW c \in Commands
        PROVE  RowOK(c)' /\ RowAdvances(c)
    <2>1. RowOK(c)
      BY RowFacts
    <2> QED
      BY <1>1, <2>1 DEF RowOK, RowAdvances, IsCard, Message
  <1> QED
    BY <1>1, <1>2, <1>3, <1>4, <1>5, <1>6, DeskStep

(* The card shows the result. *)
LEMMA UpdateStep ==
    ASSUME ChatInv, NEW w \in Workers, UpdateCard(w)
    PROVE  ChatInv'
  <1>1. PICK c : c = desk[w].cmd
    OBVIOUS
  <1>2. /\ c \in Commands /\ IsCard(c) /\ row[c].reply # "none" /\ row[c].status # "absent"
        /\ desk[w] \in Desk /\ desk \in [Workers -> Desk]
    BY <1>1, DeskFacts DEF UpdateCard, DeskOK
  <1>3. /\ used[c] < TokenUses /\ used' = [used EXCEPT ![c] = @ + 1]
        /\ card' = [card EXCEPT ![Message(c)] = "result"]
        /\ desk' = [desk EXCEPT ![w].pc = "send"]
        /\ UNCHANGED <<request, row, bound, flowVars, feed, chat>>
    BY <1>1 DEF UpdateCard
  <1>4. PICK k : k = [desk[w] EXCEPT !.pc = "send"]
    OBVIOUS
  <1>5. k \in Desk /\ k.pc = "send" /\ k.cmd = c
    BY <1>1, <1>2, <1>4 DEF Desk
  <1>6. /\ desk' \in [Workers -> Desk] /\ desk'[w] = k
        /\ \A v \in Workers \ {w} : desk'[v] = desk[v]
    BY <1>2, <1>3, <1>4, <1>5
  <1>7. /\ used \in [Commands -> 0 .. TokenUses] /\ Message(c) \in Messages
        /\ card \in [Messages -> {"buttons", "processing", "result"}]
    BY <1>2, RowFacts DEF ChatInv, RowsInv, RowTypes
  <1>8. used' \in [Commands -> 0 .. TokenUses]
    <2>1. PICK n \in 0 .. TokenUses : n = used[c] + 1
      BY <1>2, <1>3, <1>7 DEF TokenUses
    <2> QED
      BY <1>3, <1>7, <2>1
  <1>9. \A m \in Messages : card'[m] = card[m] \/ card'[m] = "result"
    BY <1>3, <1>7
  <1>10. RowTypes'
    BY <1>3, <1>6, <1>7, <1>8 DEF ChatInv, RowsInv, RowTypes
  <1>11. feed[c] = "over"
    <2>1. RowOK(c) /\ row[c].status \in Final
      BY <1>2, RowFacts DEF RowOK
    <2> QED
      BY <1>2, <2>1 DEF RowOK, Final
  <1>12. ASSUME NEW d \in Commands
         PROVE  RowOK(d)' /\ RowAdvances(d)
    <2>1. RowOK(d) /\ Message(d) \in Messages /\ (d # c => used'[d] = used[d])
      BY <1>3, <1>7, RowFacts
    <2> QED
      BY <1>3, <1>9, <1>11, <2>1 DEF RowOK, RowAdvances, IsCard, Message
  <1>13. DesksGo
    BY <1>5, <1>6 DEF DesksGo
  <1>14. DeskOK(w)'
    <2>1. card'[Message(c)] = "result"
      BY <1>3, <1>7
    <2> QED
      BY <1>2, <1>3, <1>5, <1>6, <2>1 DEF DeskOK, Message
  <1> QED
    BY <1>3, <1>6, <1>10, <1>12, <1>13, <1>14, DeskStep

(* The answer is sent, once: what the row says. *)
LEMMA SendStep ==
    ASSUME ChatInv, NEW w \in Workers, SendMessage(w)
    PROVE  ChatInv'
  <1>1. PICK c : c = desk[w].cmd
    OBVIOUS
  <1>2. /\ c \in Commands /\ row[c].reply # "none" /\ row[c].status # "absent"
        /\ desk[w] \in Desk /\ desk \in [Workers -> Desk] /\ desk[w].pc = "send"
        /\ (IsCard(c) => card[Message(c)] = "result")
    BY <1>1, DeskFacts DEF SendMessage, DeskOK
  <1>3. PICK a : a = Sent(c)
    OBVIOUS
  <1>4. /\ chat' = [chat EXCEPT ![c] = a] /\ desk' = [desk EXCEPT ![w].pc = "sent"]
        /\ UNCHANGED <<request, row, bound, flowVars, feed, card, used>>
    BY <1>1, <1>3 DEF SendMessage
  <1>5. PICK k : k = [desk[w] EXCEPT !.pc = "sent"]
    OBVIOUS
  <1>6. k \in Desk /\ k.pc = "sent" /\ k.cmd = c
    BY <1>1, <1>2, <1>5 DEF Desk
  <1>7. /\ desk' \in [Workers -> Desk] /\ desk'[w] = k
        /\ \A v \in Workers \ {w} : desk'[v] = desk[v]
    BY <1>2, <1>4, <1>5, <1>6
  <1>8. chat \in [Commands -> Verdict] /\ row[c].status \in Final /\ a \in Verdict
    <2>1. chat \in [Commands -> Verdict] /\ row[c] \in Row /\ RowOK(c)
      BY <1>2, RowFacts DEF ChatInv, RowsInv, RowTypes
    <2>2. row[c].status \in Final /\ row[c].verdict \in Verdict
      BY <1>2, <2>1 DEF RowOK, Row
    <2> QED
      BY <1>2, <1>3, <2>1, <2>2 DEF Sent
  <1>9. Truthful(c, a)
    <2>1. AnswersOK(c)
      BY <1>2, RowFacts
    <2> QED
      BY <1>3, <1>8, <2>1 DEF AnswersOK, Sent
  <1>10. RowTypes'
    BY <1>4, <1>7, <1>8 DEF ChatInv, RowsInv, RowTypes
  <1>11. /\ \A d \in Commands \ {c} : chat'[d] = chat[d]
         /\ chat'[c] = a
    BY <1>2, <1>4, <1>8
  <1>12. ASSUME NEW d \in Commands
         PROVE  RowOK(d)' /\ RowAdvances(d)
    <2>1. RowOK(d)
      BY RowFacts
    <2> QED
      BY <1>2, <1>4, <1>11, <2>1 DEF RowOK, RowAdvances, IsCard, Message
  <1>13. DesksGo
    BY <1>6, <1>7 DEF DesksGo
  <1>14. FlowInv' /\ FlowGrows
    <2>1. bound' \in [Commands -> Nat] /\ \A d \in Commands : bound'[d] <= flow.version
      BY <1>4 DEF ChatInv, FlowInv, FlowTypes, EffectOK
    <2>2. UNCHANGED <<request, flowVars>>
      BY <1>4
    <2> QED
      BY <1>12, <2>1, <2>2, FlowStays
  <1>15. Truthful(c, a)'
    BY <1>2, <1>9, <1>12, <1>13, <1>14, TruthStays DEF ChatInv
  <1>16. \A d \in Commands : chat'[d] = chat[d] \/ Truthful(d, chat[d])'
    BY <1>11, <1>15
  <1>17. DeskOK(w)'
    BY <1>2, <1>4, <1>6, <1>7 DEF DeskOK, Message, IsCard
  <1> QED
    BY <1>4, <1>7, <1>10, <1>12, <1>13, <1>16, <1>17, DeskStep

(* A command is claimed to verify or to apply it. *)
LEMMA ClaimStep ==
    ASSUME ChatInv, NEW w \in Workers, NEW c \in Commands,
           ClaimVerification(w, c) \/ ClaimCommand(w, c)
    PROVE  ChatInv'
  <1>1. /\ row[c] \in Row /\ RowOK(c) /\ row \in [Commands -> Row]
        /\ feed \in [Commands -> {"off", "feeding", "shown", "over"}]
        /\ desk \in [Workers -> Desk]
    BY RowFacts
  <1>2. PICK st \in {"verifying", "processing"}, pc \in {"verify", "apply"} :
          /\ st = "verifying" <=> pc = "verify"
          /\ Claim(w, c, st, pc)
          /\ st = "verifying" => Verifiable(c)
          /\ st = "processing" => Applicable(c)
    BY DEF ClaimVerification, ClaimCommand
  <1>3. /\ row[c].status \notin Final /\ row[c].status # "absent"
        /\ row[c].status \in Applying => st = "processing"
        /\ row[c].status = "pending" => row[c].due
    BY <1>2 DEF Verifiable, Applicable, Final, Applying
  <1>4. PICK n \in 0 .. MaxTries : n = AtMost(row[c].tries + 1, MaxTries)
    BY <1>1, ChatAssumption DEF AtMost, Row
  <1>5. PICK r : r = [row[c] EXCEPT !.status = st, !.holder = w, !.live = TRUE, !.tries = n]
    OBVIOUS
  <1>6. /\ r \in Row /\ r.status = st /\ r.holder = w /\ r.live = TRUE /\ r.due = row[c].due
        /\ r.reply = row[c].reply /\ r.sender = row[c].sender /\ r.verdict = row[c].verdict
        /\ r.sending = row[c].sending
    BY <1>1, <1>5 DEF Row, Statuses
  <1>7. /\ row' = [row EXCEPT ![c] = r]
        /\ UNCHANGED <<request, bound, flowVars, feed, card, used, chat>>
    <2>1. UNCHANGED <<request, bound, flowVars, feed, card, used, chat>>
      BY <1>2 DEF Claim, feishu
    <2>2. row' = [row EXCEPT ![c] = [row[c] EXCEPT !.status = st, !.holder = w,
                                                   !.live = TRUE, !.tries = n]]
      BY <1>2, <1>4 DEF Claim, AtMost
    <2> QED
      BY <1>5, <2>1, <2>2, Zenon
  <1>8. PICK k : k = [Idle EXCEPT !.pc = pc, !.cmd = c]
    OBVIOUS
  <1>9. k \in Desk /\ k.pc = pc /\ k.cmd = c
    BY <1>8 DEF Idle, Desk, Verdict
  <1>10. desk' = [desk EXCEPT ![w] = k]
    BY <1>2, <1>8 DEF Claim
  <1>11. /\ desk' \in [Workers -> Desk] /\ desk'[w] = k /\ row'[c] = r
         /\ \A v \in Workers \ {w} : desk'[v] = desk[v]
    BY <1>1, <1>7, <1>9, <1>10
  <1>12. RowOK(c)'
    BY <1>1, <1>3, <1>6, <1>7, <1>11, ChatAssumption DEF RowOK, IsCard, Message, Final
  <1>13. RowAdvances(c)
    BY <1>3, <1>6, <1>7, <1>11 DEF RowAdvances, Applying
  <1>14. DesksGo
    BY <1>3, <1>9, <1>11 DEF DesksGo
  <1>15. DeskOK(w)'
    BY <1>2, <1>6, <1>9, <1>11 DEF DeskOK, Applying
  <1>16. r.status \notin Final /\ \A d \in Commands \ {c} : feed'[d] = feed[d]
    BY <1>6, <1>7 DEF Final
  <1> QED
    BY <1>1, <1>3, <1>6, <1>7, <1>11, <1>12, <1>13, <1>14, <1>15, <1>16, RowStep

(* A row is settled by who has claimed it. *)
LEMMA SettleStep ==
    ASSUME ChatInv, NEW w \in Workers, NEW c \in Commands, UNCHANGED flowVars,
           row[c].status \in {"verifying", "processing"},
           NEW s \in {"verified", "verifyFailed", "applyFailed", "processed", "exhausted"},
           NEW v \in Verdict, Settle(w, c, s, v),
           row[c].status = "processing" => s \in Applying,
           s \in Final => \/ Truthful(c, v)
                          \/ row[c].status = "verifying" /\ effect[c] = 0 /\ v # "applied"
    PROVE  ChatInv'
  <1>1. /\ row[c] \in Row /\ RowOK(c) /\ row \in [Commands -> Row] /\ EffectOK(c)
        /\ feed \in [Commands -> {"off", "feeding", "shown", "over"}]
        /\ desk \in [Workers -> Desk] /\ FlowInv
    BY RowFacts DEF ChatInv
  <1>2. PICK p \in {"none", "pending", "failed", "sending", "sent"} :
          p = IF s \in Final THEN "pending" ELSE row[c].reply
    BY <1>1 DEF Row
  <1>3. PICK r : r = [row[c] EXCEPT !.status = s, !.holder = Nobody, !.live = FALSE,
                                    !.verdict = v, !.reply = p]
    OBVIOUS
  <1>4. /\ r \in Row /\ r.status = s /\ r.holder = Nobody /\ r.live = FALSE /\ r.verdict = v
        /\ r.reply = p /\ r.due = row[c].due /\ r.sender = row[c].sender
        /\ r.sending = row[c].sending
    BY <1>1, <1>3 DEF Row, Statuses
  <1>5. /\ row' = [row EXCEPT ![c] = r] /\ desk' = [desk EXCEPT ![w] = Idle]
        /\ UNCHANGED <<request, bound, flowVars, feed, card, used, chat>>
    <2>1. /\ UNCHANGED <<request, bound, flowVars, feed, card, used, chat>>
          /\ desk' = [desk EXCEPT ![w] = Idle]
      BY DEF Settle, feishu
    <2>2. row' = [row EXCEPT ![c] = [row[c] EXCEPT !.status = s, !.holder = Nobody,
                      !.live = FALSE, !.verdict = v, !.reply = p]]
      BY <1>2 DEF Settle
    <2> QED
      BY <1>3, <2>1, <2>2, Zenon
  <1>6. /\ desk' \in [Workers -> Desk] /\ desk'[w] = Idle /\ row'[c] = r
        /\ \A u \in Workers \ {w} : desk'[u] = desk[u]
    BY <1>1, <1>4, <1>5, DeskFacts
  <1>7. /\ row[c].reply = "none" /\ row[c].sender = Nobody
        /\ (IsCard(c) => feed[c] = "over") /\ row[c].status # "absent"
    BY <1>1 DEF RowOK, Final
  <1>8. RowOK(c)'
    BY <1>1, <1>2, <1>4, <1>5, <1>6, <1>7 DEF RowOK, IsCard, Message, Final
  <1>9. \A d \in Commands : RowAdvances(d)
    <2>1. RowAdvances(c)
      BY <1>4, <1>5, <1>6, <1>7 DEF RowAdvances, Applying, Final
    <2>2. \A d \in Commands \ {c} : row'[d] = row[d]
      BY <1>1, <1>5
    <2> QED
      BY <1>5, <2>1, <2>2 DEF RowAdvances
  <1>10. DesksGo
    BY <1>6, DeskFacts DEF DesksGo
  <1>11. DeskOK(w)'
    BY <1>6, DeskFacts DEF DeskOK
  <1>12. FlowInv' /\ FlowGrows
    <2>1. bound' \in [Commands -> Nat] /\ \A d \in Commands : bound'[d] <= flow.version
      BY <1>1, <1>5 DEF FlowInv, FlowTypes, EffectOK
    <2> QED
      BY <1>5, <1>9, <2>1, FlowStays
  <1>13. s \in Final => Truthful(c, v)'
    <2>1. CASE Truthful(c, v)
      BY <1>1, <1>7, <1>9, <1>10, <1>12, <2>1, TruthStays
    <2>2. CASE effect[c] = 0 /\ row[c].status = "verifying" /\ s \in Final /\ v # "applied"
      <3>1. \A u \in Workers : desk[u].cmd = c => desk[u].pc \notin {"apply", "settle"}
        BY <2>2, DeskFacts DEF DeskOK, Applying
      <3>2. Untouched(c)'
        BY <1>4, <1>6, <2>2, <3>1, DeskFacts DEF Untouched
      <3>3. effect'[c] = 0
        BY <1>5, <2>2 DEF flowVars
      <3> QED
        BY <2>2, <3>2, <3>3 DEF Truthful, Refused
    <2> QED
      BY <2>1, <2>2
  <1>14. \A d \in Commands \ {c} : feed'[d] = feed[d]
    BY <1>5
  <1> QED
    BY <1>1, <1>4, <1>5, <1>6, <1>7, <1>8, <1>9, <1>10, <1>11, <1>13, <1>14, RowStep

(* The sender is verified, or refused before anything is applied. *)
LEMMA VerifyStep ==
    ASSUME ChatInv, NEW w \in Workers, Verify(w) \/ VerifyFails(w)
    PROVE  ChatInv'
  <1>1. PICK c : c = desk[w].cmd
    OBVIOUS
  <1>2. c \in Commands /\ row[c].status = "verifying"
    BY <1>1, DeskFacts DEF Verify, VerifyFails, Mine
  <1>3. effect[c] = 0
    BY <1>2, RowFacts DEF EffectOK, Applying
  <1>4. PICK s \in {"verified", "verifyFailed", "processed", "exhausted"},
             v \in {"none", "rejected", "exhausted"} : Settle(w, c, s, v)
    BY <1>1 DEF Verify, VerifyFails
  <1>5. v \in Verdict /\ v # "applied"
    BY <1>4 DEF Verdict, Verdicts
  <1>6. UNCHANGED flowVars
    BY <1>4 DEF Settle
  <1> QED
    BY <1>2, <1>3, <1>4, <1>5, <1>6, SettleStep

(* What was applied is settled, or what could not be. *)
LEMMA ProcessedStep ==
    ASSUME ChatInv, NEW w \in Workers, MarkProcessed(w) \/ ApplyFails(w)
    PROVE  ChatInv'
  <1>1. PICK c : c = desk[w].cmd
    OBVIOUS
  <1>2. c \in Commands /\ row[c].status = "processing"
    BY <1>1, DeskFacts DEF MarkProcessed, ApplyFails, Mine
  <1>3. CASE MarkProcessed(w)
    <2>1. PICK v : v = desk[w].verdict
      OBVIOUS
    <2>2. v \in Verdict /\ Truthful(c, v)
      BY <1>1, <1>3, <2>1, DeskFacts DEF MarkProcessed, DeskOK, Desk
    <2>3. Settle(w, c, "processed", v) /\ UNCHANGED flowVars
      BY <1>1, <1>3, <2>1 DEF MarkProcessed, Settle
    <2> QED
      BY <1>2, <2>2, <2>3, SettleStep DEF Applying
  <1>4. CASE ApplyFails(w)
    <2>1. Settle(w, c, "applyFailed", "none") /\ UNCHANGED flowVars
      BY <1>1, <1>4 DEF ApplyFails, Settle
    <2>2. "none" \in Verdict /\ "applyFailed" \notin Final /\ "applyFailed" \in Applying
      BY DEF Verdict, Final, Applying
    <2> QED
      BY <1>2, <2>1, <2>2, SettleStep
  <1> QED
    BY <1>3, <1>4

(* A reply is claimed, or ends: sent only by who has updated the card. *)
LEMMA ReplyStep ==
    ASSUME ChatInv, NEW w \in Workers, NEW c \in Commands, row[c].status # "absent",
           NEW r \in Row, NEW k \in Desk,
           row' = [row EXCEPT ![c] = r], desk' = [desk EXCEPT ![w] = k],
           UNCHANGED <<request, bound, flowVars, feed, card, used, chat>>,
           \A x \in {"status", "holder", "verdict", "due", "live"} : r[x] = row[c][x],
           r.reply # "none" <=> row[c].reply # "none",
           r.reply = "sending" <=> r.sender # Nobody, r.sending => r.sender # Nobody,
           r.reply = "sent" /\ IsCard(c) => card[Message(c)] = "result",
           k = Idle \/ (/\ k.cmd = c /\ r.reply # "none"
                        /\ k.pc = IF IsCard(c) THEN "update" ELSE "send")
    PROVE  ChatInv'
  <1>1. /\ row \in [Commands -> Row] /\ RowOK(c) /\ desk \in [Workers -> Desk]
        /\ feed \in [Commands -> {"off", "feeding", "shown", "over"}]
    BY RowFacts
  <1>2. /\ r.status = row[c].status /\ r.holder = row[c].holder /\ r.due = row[c].due
        /\ r.verdict = row[c].verdict /\ r.live = row[c].live
    OBVIOUS
  <1>3. /\ desk' \in [Workers -> Desk] /\ desk'[w] = k /\ row'[c] = r
        /\ \A v \in Workers \ {w} : desk'[v] = desk[v]
    BY <1>1
  <1>4. RowOK(c)'
    BY <1>1, <1>2, <1>3 DEF RowOK, IsCard, Message
  <1>5. RowAdvances(c)
    BY <1>2, <1>3 DEF RowAdvances
  <1>6. k.pc \notin {"apply", "settle", "verify", "sent"}
    BY DeskFacts
  <1>7. DesksGo
    BY <1>3, <1>6 DEF DesksGo
  <1>8. DeskOK(w)'
    <2>1. CASE k = Idle
      BY <1>3, <2>1, DeskFacts DEF DeskOK
    <2>2. CASE k # Idle
      BY <1>2, <1>3, <1>6, <2>2 DEF DeskOK, IsCard
    <2> QED
      BY <2>1, <2>2
  <1>9. \A d \in Commands \ {c} : feed'[d] = feed[d]
    OBVIOUS
  <1> QED
    BY <1>1, <1>2, <1>3, <1>4, <1>5, <1>7, <1>8, <1>9, RowStep

(* A reply is claimed. *)
LEMMA ClaimReplyStep ==
    ASSUME ChatInv, NEW w \in Workers, NEW c \in Commands, ClaimReply(w, c)
    PROVE  ChatInv'
  <1>1. /\ row[c] \in Row /\ RowOK(c) /\ row[c].reply # "none" /\ row[c].status # "absent"
    BY RowFacts DEF ClaimReply, RowOK, Final
  <1>2. PICK r : r = [row[c] EXCEPT !.reply = "sending", !.sender = w, !.sending = TRUE]
    OBVIOUS
  <1>3. /\ r \in Row /\ r.reply = "sending" /\ r.sender = w
        /\ \A x \in {"status", "holder", "verdict", "due", "live"} : r[x] = row[c][x]
    BY <1>1, <1>2 DEF Row
  <1>4. PICK pc \in {"update", "send"} : pc = IF IsCard(c) THEN "update" ELSE "send"
    OBVIOUS
  <1>5. PICK k : k = [Idle EXCEPT !.cmd = c, !.pc = pc]
    OBVIOUS
  <1>6. k \in Desk /\ k.cmd = c /\ k.pc = pc
    BY <1>5 DEF Idle, Desk, Verdict
  <1>7. /\ row' = [row EXCEPT ![c] = r] /\ desk' = [desk EXCEPT ![w] = k]
        /\ UNCHANGED <<request, bound, flowVars, feed, card, used, chat>>
    BY <1>2, <1>4, <1>5 DEF ClaimReply, feishu
  <1> QED
    BY <1>1, <1>3, <1>4, <1>6, <1>7, ChatAssumption, ReplyStep

(* A reply ends. *)
LEMMA FinishStep ==
    ASSUME ChatInv, NEW w \in Workers, MarkSent(w) \/ ReplyFails(w)
    PROVE  ChatInv'
  <1>1. PICK c : c = desk[w].cmd
    OBVIOUS
  <1>2. /\ c \in Commands /\ row[c].reply # "none" /\ row[c].status # "absent"
        /\ row[c] \in Row /\ RowOK(c) /\ row \in [Commands -> Row] /\ Idle \in Desk
        /\ (MarkSent(w) /\ IsCard(c) => card[Message(c)] = "result")
    BY <1>1, DeskFacts, RowFacts DEF MarkSent, ReplyFails, DeskOK
  <1>3. PICK reply \in {"sent", "failed"} :
          FinishReply(w, c, reply) /\ (reply = "sent" => MarkSent(w))
    BY <1>1 DEF MarkSent, ReplyFails
  <1>4. /\ desk' = [desk EXCEPT ![w] = Idle]
        /\ UNCHANGED <<request, bound, flowVars, feed, card, used, chat>>
    BY <1>3 DEF FinishReply, feishu
  <1>5. CASE Sending(w, c)
    <2>1. PICK r : r = [row[c] EXCEPT !.reply = reply, !.sender = Nobody, !.sending = FALSE]
      OBVIOUS
    <2>2. /\ r \in Row /\ r.reply = reply /\ r.sender = Nobody /\ r.sending = FALSE
          /\ \A x \in {"status", "holder", "verdict", "due", "live"} : r[x] = row[c][x]
      BY <1>2, <2>1 DEF Row
    <2>3. row' = [row EXCEPT ![c] = r]
      BY <1>3, <1>5, <2>1 DEF FinishReply
    <2> QED
      BY <1>2, <1>3, <1>4, <2>2, <2>3, ReplyStep
  <1>6. CASE ~Sending(w, c)
    <2>1. PICK r : r = row[c]
      OBVIOUS
    <2>2. row' = [row EXCEPT ![c] = r]
      BY <1>2, <1>3, <1>6, <2>1 DEF FinishReply
    <2>3. /\ r.reply = "sending" <=> r.sender # Nobody
          /\ r.sending => r.sender # Nobody
          /\ r.reply = "sent" /\ IsCard(c) => card[Message(c)] = "result"
      BY <1>2, <2>1 DEF RowOK
    <2> QED
      BY <1>2, <1>4, <2>1, <2>2, <2>3, ReplyStep
  <1> QED
    BY <1>5, <1>6

-----------------------------------------------------------------------------
(* What a command does to the flow *)

(* The flow goes on, and the rows stay as they are. *)
LEMMA FlowStep ==
    ASSUME ChatInv, FlowInv', FlowGrows, UNCHANGED <<row, bound, feed, card, used, chat>>,
           desk' \in [Workers -> Desk], DesksGo,
           \A w \in Workers : desk'[w] = desk[w] \/ DeskOK(w)'
    PROVE  ChatInv'
  <1>1. request' = request
    BY DEF FlowGrows
  <1>2. RowsInv'
    BY <1>1 DEF ChatInv, RowsInv, RowTypes, RowOK, OneRow, IsCard, Message
  <1>3. \A c \in Commands : RowAdvances(c)
    BY DEF RowAdvances
  <1> QED
    BY <1>2, <1>3, StepKeeps

(* What a command has done stays done. *)
LEMMA DoneStays ==
    ASSUME FlowInv, FlowTypes', NEW c \in Commands, UNCHANGED <<request, bound>>, Done(c),
           \/ flow' = flow
           \/ /\ flow'.version = flow.version + 1
              /\ flow.status # "canceled" /\ flow'.status # "draft",
           \A m \in Messages : drafts[m] # "none" => drafts'[m] # "none"
    PROVE  Done(c)'
  <1>1. /\ bound[c] \in Nat /\ flow.version \in Nat /\ Message(c) \in Messages
        /\ flow' = flow \/ flow'.version = flow.version + 1
    BY KindsOfCommands
  <1>2. Message(c)' = Message(c) /\ ByOwner(c)' = ByOwner(c)
    BY DEF Message, ByOwner
  <1>3. bound[c] < flow.version => bound'[c] < flow'.version
    BY <1>1
  <1> QED
    BY <1>1, <1>2, <1>3 DEF Done

(* A command takes effect: it was not barred, and it leaves something behind. *)
LEMMA EffectStep ==
    ASSUME ChatInv, NEW c \in Commands, row[c].status \in Applying, FlowTypes',
           UNCHANGED <<request, row, bound>>,
           effect' = [effect EXCEPT ![c] = effect[c] + 1],
           \/ flow' = flow
           \/ /\ flow'.version = flow.version + 1
              /\ flow.status # "canceled" /\ flow'.status # "draft",
           \A m \in Messages : drafts[m] # "none" => drafts'[m] # "none",
           request[c].kind \in BoundKinds => ~Done(c) /\ Done(c)',
           IF request[c].kind = "restart" THEN consumed' = consumed \cup {c}
                                          ELSE consumed' = consumed,
           flow'.status = "canceled" => flow.status = "canceled" \/ request[c].kind = "cancel",
           request[c].kind \in Replayable => ~Barred(c), ~Untouched(c)
    PROVE  FlowInv' /\ FlowGrows
  <1>1. /\ FlowInv /\ flow.version \in Nat /\ effect \in [Commands -> Nat] /\ effect[c] \in Nat
        /\ Replayable \subseteq BoundKinds /\ flow' \in Flow
    BY KindsOfCommands DEF ChatInv, FlowInv, FlowTypes
  <1>2. effect'[c] = effect[c] + 1 /\ \A d \in Commands \ {c} : effect'[d] = effect[d]
    BY <1>1
  <1>3. flow'.version >= flow.version /\ (flow'.version = flow.version => flow' = flow)
    BY <1>1
  <1>4. request[c].kind \in BoundKinds => effect[c] = 0 /\ effect'[c] = 1
    BY <1>1, <1>2, RowFacts DEF EffectOK
  <1>5. ASSUME NEW d \in Commands
        PROVE  /\ effect[d] # 0 => effect'[d] # 0
               /\ request[d].kind \in Replayable /\ Refused(d) => effect'[d] = effect[d]
    <2>1. CASE d = c
      BY <1>1, <1>2, <2>1 DEF Refused
    <2> QED
      BY <1>2, <2>1
  <1>6. FlowGrows
    BY <1>3, <1>5 DEF FlowGrows
  <1>7. ASSUME NEW d \in Commands
        PROVE  EffectOK(d)'
    <2>1. EffectOK(d) /\ bound[d] \in Nat /\ bound'[d] = bound[d] /\ bound[d] <= flow.version
      BY <1>1, KindsOfCommands, RowFacts DEF EffectOK
    <2>2. bound'[d] <= flow'.version
      BY <1>1, <2>1
    <2>3. effect'[d] # 0 => row'[d].status \in Applying
      BY <1>2, <2>1 DEF EffectOK
    <2>4. effect'[d] # 0 /\ request[d].kind \in BoundKinds => effect'[d] = 1 /\ Done(d)'
      <3>1. CASE d = c
        BY <1>4, <3>1
      <3>2. CASE d # c
        BY <1>1, <1>2, <2>1, <3>2, DoneStays DEF EffectOK
      <3> QED
        BY <3>1, <3>2
    <2>5. d \in consumed' <=> request[d].kind = "restart" /\ effect'[d] # 0
      <3>1. CASE d = c
        BY <1>1, <1>2, <2>1, <3>1 DEF EffectOK
      <3>2. CASE d # c
        BY <1>2, <2>1, <3>2 DEF EffectOK
      <3> QED
        BY <3>1, <3>2
    <2> QED
      BY <2>2, <2>3, <2>4, <2>5 DEF EffectOK
  <1>8. CanceledBySomebody'
    <2>1. CASE flow.status = "canceled"
      <3>1. PICK d \in Commands : request[d].kind = "cancel" /\ effect[d] = 1
        BY <1>1, <2>1 DEF FlowInv, CanceledBySomebody
      <3>2. request[d].kind \in BoundKinds
        BY <1>1, <3>1 DEF Replayable
      <3>3. effect'[d] = 1
        BY <1>2, <1>4, <3>1, <3>2
      <3> QED
        BY <3>1, <3>3 DEF CanceledBySomebody
    <2>2. CASE request[c].kind = "cancel"
      BY <1>1, <1>4, <2>2 DEF CanceledBySomebody, Replayable
    <2> QED
      BY <2>1, <2>2 DEF CanceledBySomebody
  <1> QED
    BY <1>6, <1>7, <1>8 DEF FlowInv

(* What a worker that is to apply a command may count on. *)
LEMMA ApplyFacts ==
    ASSUME ChatInv, NEW w \in Workers, desk[w].pc = "apply",
           NEW c, c = desk[w].cmd
    PROVE  /\ c \in Commands /\ row[c].status \in Applying /\ row[c].status # "absent"
           /\ ~Untouched(c) /\ EffectOK(c)
  <1>1. c \in Commands /\ row[c].status \in Applying
    BY DeskFacts DEF DeskOK
  <1> QED
    BY <1>1, RowFacts DEF Applying, Untouched

(* The worker has its answer. *)
LEMMA SaysFacts ==
    ASSUME ChatInv, NEW w \in Workers, desk[w].pc = "apply", NEW v \in Verdicts, Says(w, v)
    PROVE  /\ desk' \in [Workers -> Desk] /\ DesksGo
           /\ desk'[w].pc = "settle" /\ desk'[w].cmd = desk[w].cmd /\ desk'[w].verdict = v
           /\ \A u \in Workers \ {w} : desk'[u] = desk[u]
  <1>1. desk[w] \in Desk /\ desk \in [Workers -> Desk] /\ v \in Verdict
    BY DeskFacts DEF Verdict
  <1>2. PICK k : k = [desk[w] EXCEPT !.pc = "settle", !.verdict = v]
    OBVIOUS
  <1>3. k \in Desk /\ k.pc = "settle" /\ k.cmd = desk[w].cmd /\ k.verdict = v
    BY <1>1, <1>2 DEF Desk
  <1>4. desk' = [desk EXCEPT ![w] = k]
    BY <1>2 DEF Says
  <1>5. /\ desk' \in [Workers -> Desk] /\ desk'[w] = k
        /\ \A u \in Workers \ {w} : desk'[u] = desk[u]
    BY <1>1, <1>3, <1>4
  <1>6. DesksGo
    BY <1>3, <1>5 DEF DesksGo
  <1> QED
    BY <1>3, <1>5, <1>6

(* The answer that a worker has is true. *)
LEMMA SaysStep ==
    ASSUME ChatInv, NEW w \in Workers, desk[w].pc = "apply", NEW v \in Verdicts, Says(w, v),
           FlowInv', FlowGrows, UNCHANGED <<row, bound, feed, card, used, chat>>,
           NEW c, c = desk[w].cmd, Truthful(c, v)'
    PROVE  ChatInv'
  <1>1. c \in Commands /\ row[c].status \in Applying /\ row[c].status # "absent"
    BY ApplyFacts
  <1>2. v # "none"
    BY DEF Verdicts
  <1>3. DeskOK(w)'
    BY <1>1, <1>2, SaysFacts DEF DeskOK
  <1> QED
    BY <1>3, SaysFacts, FlowStep

(* A command is answered that does nothing. *)
LEMMA AnswerStep ==
    ASSUME ChatInv, NEW w \in Workers, desk[w].pc = "apply", NEW v \in Verdicts, Answer(w, v),
           UNCHANGED <<request, row, bound, feed, card, used, chat>>,
           NEW c, c = desk[w].cmd, Truthful(c, v)
    PROVE  ChatInv'
  <1>1. Says(w, v) /\ UNCHANGED flowVars /\ FlowInv
    BY DEF Answer, ChatInv
  <1>2. \A d \in Commands : RowAdvances(d)
    BY DEF RowAdvances
  <1>3. bound' \in [Commands -> Nat] /\ \A d \in Commands : bound'[d] <= flow.version
    BY DEF ChatInv, FlowInv, FlowTypes, EffectOK
  <1>4. FlowInv' /\ FlowGrows
    BY <1>1, <1>2, <1>3, FlowStays
  <1>5. DesksGo
    BY <1>1, SaysFacts
  <1>6. c \in Commands /\ row[c].status # "absent"
    BY ApplyFacts
  <1>7. Truthful(c, v)'
    BY <1>1, <1>2, <1>4, <1>5, <1>6, TruthStays
  <1> QED
    BY <1>1, <1>4, <1>7, SaysStep

(* A command changes the flow, or makes a draft. *)
LEMMA AppliedStep ==
    ASSUME ChatInv, NEW w \in Workers, desk[w].pc = "apply", NEW c, c = desk[w].cmd,
           UNCHANGED <<request, row, bound, feed, card, used, chat>>,
           Says(w, "applied"), effect' = [effect EXCEPT ![c] = @ + 1], FlowTypes',
           \/ flow' = flow
           \/ /\ flow'.version = flow.version + 1
              /\ flow.status # "canceled" /\ flow'.status # "draft",
           \A m \in Messages : drafts[m] # "none" => drafts'[m] # "none",
           request[c].kind \in BoundKinds => ~Done(c) /\ Done(c)',
           IF request[c].kind = "restart" THEN consumed' = consumed \cup {c}
                                          ELSE consumed' = consumed,
           flow'.status = "canceled" => flow.status = "canceled" \/ request[c].kind = "cancel",
           request[c].kind \in Replayable => ~Barred(c)
    PROVE  ChatInv'
  <1>1. c \in Commands /\ row[c].status \in Applying /\ ~Untouched(c)
    BY ApplyFacts
  <1>2. FlowInv' /\ FlowGrows
    BY <1>1, EffectStep
  <1>3. ASSUME request[c].kind \in Replayable
        PROVE  effect'[c] = 1
    <2>1. effect \in [Commands -> Nat] /\ effect[c] \in Nat /\ request[c].kind \in BoundKinds
      BY <1>1, <1>3, KindsOfCommands DEF ChatInv, FlowInv, FlowTypes
    <2>2. effect'[c] = effect[c] + 1
      BY <1>1, <2>1
    <2>3. effect'[c] # 0
      BY <2>1, <2>2
    <2>4. EffectOK(c)'
      BY <1>1, <1>2 DEF FlowInv
    <2> QED
      BY <2>1, <2>3, <2>4 DEF EffectOK
  <1>4. Truthful(c, "applied")'
    BY <1>1, <1>3 DEF Truthful, Happened
  <1>5. "applied" \in Verdicts
    BY DEF Verdicts
  <1> QED
    BY <1>2, <1>4, <1>5, SaysStep

(* The flow is changed: a change of the version, under what the command asks. *)
LEMMA ChangeStep ==
    ASSUME ChatInv, NEW w \in Workers, desk[w].pc = "apply", NEW c, c = desk[w].cmd,
           UNCHANGED <<request, row, bound, feed, card, used, chat, drafts>>,
           NEW status \in FlowStatus \ {"draft"}, NEW open \in {"work", "review", "none"},
           Change(w, c, status, open), flow.status # "canceled",
           IF request[c].kind = "restart" THEN consumed' = consumed \cup {c}
                                          ELSE consumed' = consumed,
           request[c].kind \notin {"show", "wizard", "draft"},
           request[c].kind = "confirm" => flow.status = "draft",
           request[c].kind \in Versioned => Current(c) /\ ByOwner(c),
           request[c].kind = "cancel" <=> status = "canceled",
           request[c].kind \in Replayable => ~Barred(c)
    PROVE  ChatInv'
  <1>1. /\ c \in Commands /\ FlowInv /\ flow.version \in Nat /\ bound[c] \in Nat
        /\ flow \in Flow
        /\ Replayable \subseteq Versioned
    BY ApplyFacts, KindsOfCommands DEF ChatInv
  <1>2. PICK n \in Nat : n = flow.version + 1
    BY <1>1
  <1>3. /\ flow' = [status |-> status, open |-> open, version |-> n]
        /\ effect' = [effect EXCEPT ![c] = @ + 1] /\ Says(w, "applied")
    BY <1>2 DEF Change
  <1>4. flow' \in Flow /\ flow'.status = status /\ flow'.version = flow.version + 1
    BY <1>2, <1>3 DEF Flow
  <1>5. FlowTypes'
    <2>1. effect' \in [Commands -> Nat]
      BY <1>1, <1>3 DEF FlowInv, FlowTypes
    <2> QED
      BY <1>1, <1>4, <2>1 DEF FlowInv, FlowTypes
  <1>6. request[c].kind \in BoundKinds => ~Done(c)
    <2>1. CASE request[c].kind \in Versioned
      BY <1>1, <2>1 DEF Done, Current
    <2>2. CASE request[c].kind = "confirm"
      BY <2>2 DEF Done
    <2> QED
      BY <1>1, <2>1, <2>2, KindsOfCommands DEF BoundKinds, Kinds, Versioned, Replayable
  <1>7. Done(c)'
    BY <1>1, <1>4 DEF Done, Current, ByOwner
  <1>8. flow'.status = "canceled" => request[c].kind = "cancel"
    BY <1>4
  <1> QED
    BY <1>3, <1>4, <1>5, <1>6, <1>7, <1>8, AppliedStep

(* Commands that ask for nothing of the flow. *)
LEMMA AskStep ==
    ASSUME ChatInv, NEW w \in Workers, desk[w].pc = "apply", NEW c, c = desk[w].cmd,
           UNCHANGED <<request, row, bound, feed, card, used, chat>>,
           NEW v \in Verdicts, Answer(w, v), request[c].kind \notin Replayable
    PROVE  ChatInv'
  <1>1. Truthful(c, v)
    BY DEF Truthful
  <1> QED
    BY <1>1, AnswerStep

(* A draft is made for a message. *)
LEMMA CreateDraftStep ==
    ASSUME ChatInv, NEW w \in Workers, desk[w].pc = "apply", NEW c, c = desk[w].cmd,
           UNCHANGED <<request, row, bound, feed, card, used, chat>>, CreateDraft(w, c)
    PROVE  ChatInv'
  <1>1. /\ request[c].kind = "draft" /\ c \in Commands /\ Message(c) \in Messages /\ FlowInv
        /\ "applied" \in Verdicts /\ "rejected" \in Verdicts
    BY ApplyFacts, RowFacts DEF CreateDraft, Verdicts, ChatInv
  <1>2. request[c].kind \notin Replayable \cup Versioned
    BY <1>1 DEF Replayable, Versioned, CardKinds
  <1>3. CASE Fresh(c)
    <2>1. /\ drafts' = [drafts EXCEPT ![Message(c)] = "draft"] /\ UNCHANGED <<flow, consumed>>
          /\ effect' = [effect EXCEPT ![c] = @ + 1] /\ Says(w, "applied")
      BY <1>3 DEF CreateDraft
    <2>2. FlowTypes' /\ drafts'[Message(c)] = "draft"
      BY <1>1, <2>1 DEF FlowInv, FlowTypes
    <2>3. \A m \in Messages : drafts[m] # "none" => drafts'[m] # "none"
      BY <1>1, <2>1 DEF FlowInv, FlowTypes
    <2>4. ~Done(c) /\ Done(c)'
      BY <1>1, <1>2, <1>3, <2>2 DEF Done, Fresh, Message, Replayable, Versioned
    <2> QED
      BY <1>1, <1>2, <2>1, <2>2, <2>3, <2>4, AppliedStep
  <1>4. CASE ~Fresh(c)
    <2>1. Answer(w, "applied") \/ Answer(w, "rejected")
      BY <1>4 DEF CreateDraft
    <2> QED
      BY <1>1, <1>2, <2>1, AskStep
  <1> QED
    BY <1>3, <1>4

(* The commands that move the flow, and may come again. *)
LEMMA MoveStep ==
    ASSUME ChatInv, NEW w \in Workers, desk[w].pc = "apply", NEW c, c = desk[w].cmd,
           UNCHANGED <<request, row, bound, feed, card, used, chat>>,
           Confirm(w, c) \/ Pause(w, c) \/ Resume(w, c)
    PROVE  ChatInv'
  <1>1. /\ request[c].kind \in {"confirm", "pause", "resume"} /\ flow \in Flow
        /\ "applied" \in Verdicts /\ "rejected" \in Verdicts
    BY ApplyFacts, KindsOfCommands DEF Confirm, Pause, Resume, Move, Verdicts, ChatInv
  <1>2. request[c].kind \notin Replayable \cup Versioned
    BY <1>1 DEF Replayable, Versioned, CardKinds
  <1>3. ASSUME NEW v, v \in {"applied", "rejected"}, Answer(w, v)
        PROVE  ChatInv'
    BY <1>1, <1>2, <1>3, AskStep
  <1>4. ASSUME NEW status \in {"running", "paused"}, NEW open \in {"work", flow.open},
               Change(w, c, status, open), UNCHANGED <<consumed, drafts>>,
               flow.status # "canceled", request[c].kind = "confirm" => flow.status = "draft"
        PROVE  ChatInv'
    <2>1. status \in FlowStatus \ {"draft"} /\ open \in {"work", "review", "none"}
      BY <1>1, <1>4 DEF FlowStatus, Flow
    <2>2. status # "canceled"
      BY <1>4
    <2> QED
      BY <1>1, <1>2, <1>4, <2>1, <2>2, ChangeStep
  <1>5. CASE Confirm(w, c)
    BY <1>3, <1>4, <1>5 DEF Confirm
  <1>6. CASE Pause(w, c)
    BY <1>3, <1>4, <1>6 DEF Pause, Move
  <1>7. CASE Resume(w, c)
    BY <1>3, <1>4, <1>7 DEF Resume, Move
  <1> QED
    BY <1>5, <1>6, <1>7

(* A cancellation: refused for good, or the flow is canceled. *)
LEMMA CancelStep ==
    ASSUME ChatInv, NEW w \in Workers, desk[w].pc = "apply", NEW c, c = desk[w].cmd,
           UNCHANGED <<request, row, bound, feed, card, used, chat>>, Cancel(w, c)
    PROVE  ChatInv'
  <1>1. /\ request[c].kind = "cancel" /\ c \in Commands /\ EffectOK(c) /\ FlowInv
        /\ bound[c] \in Nat /\ flow.version \in Nat
        /\ "applied" \in Verdicts /\ "rejected" \in Verdicts
    BY ApplyFacts, KindsOfCommands DEF Cancel, Verdicts, ChatInv
  <1>2. CASE ByOwner(c) /\ flow.status \in Active /\ Current(c)
    <2>1. Change(w, c, "canceled", "none") /\ UNCHANGED <<consumed, drafts>>
      BY <1>2 DEF Cancel
    <2>2. flow.status # "canceled" /\ "canceled" \in FlowStatus \ {"draft"}
      BY <1>2 DEF Active, FlowStatus
    <2>3. ~Barred(c)
      BY <1>1, <1>2 DEF Barred, Current
    <2> QED
      BY <1>1, <1>2, <2>1, <2>2, <2>3, ChangeStep
  <1>3. CASE /\ ~(ByOwner(c) /\ flow.status \in Active /\ Current(c))
             /\ ByOwner(c) /\ flow.status = "canceled"
    <2>1. Answer(w, "applied")
      BY <1>3 DEF Cancel
    <2>2. Truthful(c, "applied")
      BY <1>1, <1>3 DEF Truthful, Happened, FlowInv, CanceledBySomebody
    <2> QED
      BY <1>1, <2>1, <2>2, AnswerStep
  <1>4. CASE /\ ~(ByOwner(c) /\ flow.status \in Active /\ Current(c))
             /\ ~(ByOwner(c) /\ flow.status = "canceled")
    <2>1. Answer(w, "rejected")
      BY <1>4 DEF Cancel
    <2>2. effect[c] = 0
      BY <1>1, <1>4, KindsOfCommands DEF EffectOK, Done, Replayable
    <2>3. Barred(c)
      BY <1>1, <1>4 DEF Barred, Current, EffectOK
    <2>4. Truthful(c, "rejected")
      BY <2>2, <2>3 DEF Truthful, Refused
    <2> QED
      BY <1>1, <2>1, <2>4, AnswerStep
  <1> QED
    BY <1>2, <1>3, <1>4

(* A restart: its preview is consumed with it. *)
LEMMA RestartStep ==
    ASSUME ChatInv, NEW w \in Workers, desk[w].pc = "apply", NEW c, c = desk[w].cmd,
           UNCHANGED <<request, row, bound, feed, card, used, chat>>, Restart(w, c)
    PROVE  ChatInv'
  <1>1. /\ request[c].kind = "restart" /\ c \in Commands /\ EffectOK(c) /\ FlowInv
        /\ bound[c] \in Nat /\ flow.version \in Nat /\ request[c].kind \in BoundKinds
        /\ "applied" \in Verdicts /\ "rejected" \in Verdicts
    BY ApplyFacts, KindsOfCommands DEF Restart, Verdicts, ChatInv, Replayable
  <1>2. CASE /\ ByOwner(c) /\ flow.status \in {"done", "failed"} /\ Current(c)
             /\ c \notin consumed
    <2>1. Change(w, c, "running", "work") /\ consumed' = consumed \cup {c} /\ UNCHANGED drafts
      BY <1>2 DEF Restart, Consumed
    <2>2. flow.status # "canceled" /\ "running" \in FlowStatus \ {"draft"}
      BY <1>2 DEF FlowStatus
    <2>3. ~Barred(c)
      BY <1>1, <1>2 DEF Barred, Current
    <2> QED
      BY <1>1, <1>2, <2>1, <2>2, <2>3, ChangeStep
  <1>3. CASE ByOwner(c) /\ c \in consumed
    <2>1. Answer(w, "applied")
      BY <1>3 DEF Restart
    <2>2. effect[c] = 1
      BY <1>1, <1>3 DEF EffectOK
    <2>3. Truthful(c, "applied")
      BY <1>1, <2>2 DEF Truthful, Happened
    <2> QED
      BY <1>1, <2>1, <2>3, AnswerStep
  <1>4. CASE /\ ~(/\ ByOwner(c) /\ flow.status \in {"done", "failed"} /\ Current(c)
                  /\ c \notin consumed)
             /\ ~(ByOwner(c) /\ c \in consumed)
    <2>1. Answer(w, "rejected")
      BY <1>4 DEF Restart
    <2>2. effect[c] = 0
      BY <1>1, <1>4 DEF EffectOK, Done, Replayable
    <2>3. Barred(c)
      BY <1>1, <1>4 DEF Barred, Current, EffectOK
    <2>4. Truthful(c, "rejected")
      BY <2>2, <2>3 DEF Truthful, Refused
    <2> QED
      BY <1>1, <2>1, <2>4, AnswerStep
  <1> QED
    BY <1>2, <1>3, <1>4

(* The buttons: for the version that the card was made at. *)
LEMMA ButtonStep ==
    ASSUME ChatInv, NEW w \in Workers, desk[w].pc = "apply", NEW c, c = desk[w].cmd,
           UNCHANGED <<request, row, bound, feed, card, used, chat>>,
           Recover(w, c) \/ Decide(w, c)
    PROVE  ChatInv'
  <1>1. request[c].kind \in CardKinds /\ "rejected" \in Verdicts
    BY DEF Recover, Decide, CardKinds, Verdicts
  <1>2. /\ request[c].kind \notin Replayable
        /\ request[c].kind \notin {"show", "wizard", "draft", "confirm", "cancel", "restart"}
    BY <1>1 DEF CardKinds, Replayable
  <1>3. CASE Answer(w, "rejected")
    BY <1>1, <1>2, <1>3, AskStep
  <1>4. CASE ~Answer(w, "rejected")
    <2>1. PICK status \in {"running", "done", "failed"}, open \in {"work", "none"} :
            /\ Change(w, c, status, open) /\ UNCHANGED <<consumed, drafts>>
            /\ ByOwner(c) /\ Current(c) /\ flow.status # "canceled"
      BY <1>4 DEF Recover, Decide, Active
    <2>2. status \in FlowStatus \ {"draft"} /\ open \in {"work", "review", "none"}
      BY <2>1 DEF FlowStatus
    <2>3. status # "canceled"
      BY <2>1
    <2> QED
      BY <1>2, <2>1, <2>2, <2>3, ChangeStep
  <1> QED
    BY <1>3, <1>4

(* A command is applied: as often as somebody believes that it is to be. *)
LEMMA ApplyStep ==
    ASSUME ChatInv, NEW w \in Workers, Apply(w)
    PROVE  ChatInv'
  <1>1. PICK c : c = desk[w].cmd
    OBVIOUS
  <1>2. /\ desk[w].pc = "apply" /\ UNCHANGED <<request, row, bound, feed, card, used, chat>>
        /\ \/ Show(w, c) \/ AskForRoles(w, c) \/ CreateDraft(w, c) \/ Confirm(w, c)
           \/ Pause(w, c) \/ Resume(w, c) \/ Cancel(w, c) \/ Restart(w, c)
           \/ Recover(w, c) \/ Decide(w, c)
    BY <1>1 DEF Apply, feishu
  <1>3. CASE Show(w, c) \/ AskForRoles(w, c)
    <2>1. PICK v \in Verdicts : Answer(w, v) /\ request[c].kind \notin Replayable
      BY <1>3 DEF Show, AskForRoles, Verdicts, Replayable
    <2> QED
      BY <1>1, <1>2, <2>1, AskStep
  <1> QED
    BY <1>1, <1>2, <1>3, CreateDraftStep, MoveStep, CancelStep, RestartStep, ButtonStep

-----------------------------------------------------------------------------
(* What others do to the flow *)

(* The flow goes on without a command. *)
LEMMA FlowMoves ==
    ASSUME ChatInv, FlowTypes',
           UNCHANGED <<request, row, bound, consumed, effect, feed, card, used, chat, desk>>,
           \/ flow' = flow
           \/ /\ flow'.version = flow.version + 1 /\ flow.status \in Active
              /\ flow'.status \notin {"draft", "canceled"},
           \A m \in Messages : drafts[m] # "none" => drafts'[m] # "none"
    PROVE  ChatInv'
  <1>1. FlowInv /\ flow.version \in Nat /\ flow' \in Flow
    BY DEF ChatInv, FlowInv, FlowTypes, Flow
  <1>2. /\ flow'.version >= flow.version /\ (flow'.version = flow.version => flow' = flow)
        /\ \/ flow' = flow
           \/ /\ flow'.version = flow.version + 1
              /\ flow.status # "canceled" /\ flow'.status \notin {"draft", "canceled"}
    BY <1>1 DEF Active
  <1>3. FlowGrows
    BY <1>2 DEF FlowGrows
  <1>4. ASSUME NEW c \in Commands
        PROVE  EffectOK(c)'
    <2>1. EffectOK(c) /\ bound[c] \in Nat
      BY <1>1, RowFacts, KindsOfCommands
    <2>2. Done(c) => Done(c)'
      BY <1>1, <1>2, DoneStays
    <2>3. bound'[c] <= flow'.version
      BY <1>1, <1>2, <2>1 DEF EffectOK
    <2> QED
      BY <2>1, <2>2, <2>3 DEF EffectOK
  <1>5. CanceledBySomebody'
    BY <1>1, <1>2 DEF FlowInv, CanceledBySomebody
  <1>6. FlowInv'
    BY <1>4, <1>5 DEF FlowInv
  <1>7. desk' \in [Workers -> Desk] /\ DesksGo
    BY DEF ChatInv, RowsInv, RowTypes, DesksGo
  <1> QED
    BY <1>3, <1>6, <1>7, FlowStep

(* Nodes end, drafts are taken elsewhere. *)
LEMMA OthersStep ==
    ASSUME ChatInv, NodeEnds \/ \E m \in Messages : DraftTaken(m)
    PROVE  ChatInv'
  <1>1. FlowTypes /\ flow \in Flow /\ flow.version \in Nat
    BY DEF ChatInv, FlowInv, FlowTypes, Flow
  <1>2. CASE NodeEnds
    <2>1. PICK n \in Nat : n = flow.version + 1
      BY <1>1
    <2>2. /\ flow.status \in Active
          /\ \/ flow' = [flow EXCEPT !.open = "review", !.version = n]
             \/ flow' = [status |-> "failed", open |-> "none", version |-> n]
          /\ UNCHANGED <<request, row, bound, consumed, drafts, effect, feed, card, used,
                         chat, desk>>
      BY <1>2, <2>1 DEF NodeEnds, feishu
    <2>3. /\ flow' \in Flow /\ flow'.version = flow.version + 1
          /\ flow'.status \notin {"draft", "canceled"}
      <3>1. CASE flow' = [status |-> "failed", open |-> "none", version |-> n]
        BY <2>1, <3>1 DEF Flow, FlowStatus
      <3>2. CASE flow' = [flow EXCEPT !.open = "review", !.version = n]
        <4>1. flow.status \in FlowStatus \ {"draft", "canceled"}
          BY <2>2 DEF Active, FlowStatus
        <4>2. flow' = [status |-> flow.status, open |-> "review", version |-> n]
          BY <1>1, <3>2 DEF Flow
        <4> QED
          BY <2>1, <4>1, <4>2 DEF Flow
      <3> QED
        BY <2>2, <3>1, <3>2
    <2>4. FlowTypes'
      BY <1>1, <2>2, <2>3 DEF FlowTypes
    <2> QED
      BY <2>2, <2>3, <2>4, FlowMoves
  <1>3. ASSUME NEW m \in Messages, DraftTaken(m)
        PROVE  ChatInv'
    <2>1. /\ drafts' = [drafts EXCEPT ![m] = "taken"] /\ flow' = flow
          /\ UNCHANGED <<request, row, bound, consumed, effect, feed, card, used, chat, desk>>
      BY <1>3 DEF DraftTaken, feishu
    <2>2. FlowTypes' /\ \A n \in Messages : drafts[n] # "none" => drafts'[n] # "none"
      BY <1>1, <2>1 DEF FlowTypes
    <2> QED
      BY <2>1, <2>2, FlowMoves
  <1> QED
    BY <1>2, <1>3

-----------------------------------------------------------------------------
(* The theorems *)

(* Every step keeps the invariant. *)
LEMMA NextChat == ChatInv /\ [Next]_vars => ChatInv'
  <1> SUFFICES ASSUME ChatInv, [Next]_vars PROVE ChatInv'
    OBVIOUS
  <1>1. CASE UNCHANGED vars
    <2>1. UNCHANGED <<request, row, bound, consumed, effect, feed, card, used, chat, desk>>
      BY <1>1 DEF vars
    <2>2. /\ flow' = flow /\ FlowTypes'
          /\ \A m \in Messages : drafts[m] # "none" => drafts'[m] # "none"
      BY <1>1 DEF vars, ChatInv, FlowInv, FlowTypes
    <2> QED
      BY <2>1, <2>2, FlowMoves
  <1>2. ASSUME NEW c \in Commands,
               \/ ReceiveText(c) \/ ReceiveRecovery(c) \/ ReceiveDecision(c)
               \/ CallbackDies(c) \/ Callback(c) \/ LeaseEnds(c) \/ ReplyLeaseEnds(c)
        PROVE  ChatInv'
    BY <1>2, ReceiveStep, ShowStep, ReleaseStep, LeaseStep DEF Callback
  <1>3. ASSUME NEW w \in Workers, Goes(w) \/ Die(w)
        PROVE  ChatInv'
    BY <1>3, VerifyStep, ApplyStep, ProcessedStep, DropStep, UpdateStep, SendStep, FinishStep
       DEF Goes
  <1>4. ASSUME NEW w \in Workers, NEW c \in Commands, Starts(w, c)
        PROVE  ChatInv'
    BY <1>4, ClaimStep, ClaimReplyStep DEF Starts
  <1> QED
    BY <1>1, <1>2, <1>3, <1>4, OthersStep DEF Next

(* Rows, cards and answers in order: of the commands of a message one has  *)
(* a row, a command that took effect has left what bars its repetition,    *)
(* and what workers are about to answer is true.                           *)
THEOREM ChatIsInOrder == Spec => []ChatInv
  <1> QED
    BY InitChat, NextChat, PTL DEF Spec

(* Whatever dies and whoever does it again, a command that is bound to a   *)
(* version or to a message takes effect at most once, and of two commands  *)
(* with one message, two clicks on one card, at most one does.             *)
THEOREM CommandsTakeEffectOnce == Spec => []AtMostOnce
  <1>1. ASSUME ChatInv
        PROVE  AtMostOnce
    <2>1. ASSUME NEW c \in Commands
          PROVE  /\ row[c].verdict \in Verdicts \cup {"none"}
                 /\ row[c].tries \in 0 .. MaxTries
                 /\ row[c].status \in {"verifying", "processing"} <=> row[c].holder # Nobody
                 /\ row[c].reply = "sending" <=> row[c].sender # Nobody
                 /\ row[c].status \in {"processed", "exhausted"} <=> row[c].reply # "none"
                 /\ used[c] \in 0 .. TokenUses
      BY <1>1, RowFacts DEF RowOK, Row, Verdict, Final, ChatInv, RowsInv, RowTypes
    <2>2. /\ \A m \in Messages : card[m] \in {"buttons", "processing", "result"}
          /\ flow.status \in FlowStatus
      BY <1>1 DEF ChatInv, RowsInv, RowTypes, FlowInv, FlowTypes, Flow
    <2>3. TypeOK
      BY <2>1, <2>2 DEF TypeOK
    <2>4. ASSUME NEW c \in Commands, request[c].kind \in BoundKinds
          PROVE  effect[c] \in {0, 1}
      BY <1>1, <2>4, RowFacts, KindsOfCommands DEF EffectOK, ChatInv
    <2>5. ASSUME NEW c \in Commands, NEW d \in Commands \ {c}, Message(d) = Message(c)
          PROVE  effect[c] = 0 \/ effect[d] = 0
      <3>1. EffectOK(c) /\ EffectOK(d)
        BY <1>1, RowFacts
      <3> QED
        BY <1>1, <2>5, <3>1 DEF EffectOK, Applying, ChatInv, RowsInv, OneRow
    <2> QED
      BY <2>3, <2>4, <2>5 DEF AtMostOnce
  <1> QED
    BY <1>1, ChatIsInOrder, PTL

(* What the chat is told of a cancellation or a restart is what happened,  *)
(* and a clicked card whose answer was sent shows the result: the reply    *)
(* worker's update is never overwritten by the callback's.                 *)
THEOREM AnswersAreTrue == Spec => []ToldTheTruth
  <1>1. ASSUME ChatInv
        PROVE  ToldTheTruth
    <2>1. ASSUME NEW c \in Commands, request[c].kind \in Replayable
          PROVE  /\ chat[c] \in {"rejected", "exhausted"} => effect[c] = 0
                 /\ chat[c] = "applied" =>
                      \E d \in Commands : effect[d] = 1 /\ (d = c \/ request[d].kind = "cancel")
      BY <1>1, <2>1, RowFacts DEF AnswersOK, Truthful, Refused, Happened
    <2>2. \A c \in Commands : row[c].reply = "sent" /\ IsCard(c) => card[Message(c)] = "result"
      BY <1>1, RowFacts DEF RowOK
    <2> QED
      BY <2>1, <2>2 DEF ToldTheTruth
  <1> QED
    BY <1>1, ChatIsInOrder, PTL

=============================================================================
