----------------------------- MODULE Templates -----------------------------
(***************************************************************************)
(* One template: its authors, who write versions, enable, disable and      *)
(* delete it, and the people who start instances from it meanwhile, from   *)
(* the command line or from a chat.                                        *)
(*                                                                         *)
(* TemplateService reads the template, often its latest version too, and   *)
(* commits against the template version it read.  Whoever starts an        *)
(* instance reads only: in the chat once for the roles to fill, then the   *)
(* status, then the latest version.  When several roles are open the chat  *)
(* asks with a card, which keeps the version of the first read.            *)
(***************************************************************************)
EXTENDS Definitions, Sequences, Naturals

CONSTANTS Authors, Starters,
          Documents,    \* the definitions authors write
          Turns,        \* bound: operations of all authors
          Trouble       \* bound: deaths of the worker of a chat command

ASSUME TemplatesAssumption == Turns \in Nat /\ Trouble \in Nat

VARIABLES
    status, version,    \* the row of the template
    versions,           \* the immutable versions, by number
    log,                \* workflow_template_events
    author, start,      \* what everybody is at
    drafts,             \* of each starter: the instance made, or NoDraft
    turns, trouble

template == <<status, version, versions, log>>
vars == <<template, author, start, drafts, turns, trouble>>

NoDraft == [version |-> 0, owners |-> << >>]
Idle == [pc |-> "idle"]
NoStart == [pc |-> "idle", way |-> "chat", named |-> {}, given |-> {}, pinned |-> 0,
            owners |-> << >>, card |-> FALSE]

Init ==
    /\ status = "absent" /\ version = 0 /\ versions = << >> /\ log = << >>
    /\ author = [a \in Authors |-> Idle] /\ start = [s \in Starters |-> NoStart]
    /\ drafts = [s \in Starters |-> NoDraft]
    /\ turns = Turns /\ trouble = Trouble

Latest == versions[Len(versions)]

-----------------------------------------------------------------------------
(* TemplateService, the authors *)

Event(kind, at, about) == [kind |-> kind, at |-> at, about |-> about]

(* parse_template_document: number is the one the author wrote down. *)
Accepted(d, number) == ValidDefinition(d) /\ number = Len(versions) + 1

CreateTemplate(d) ==
    /\ Accepted(d, 1) /\ status = "absent"
    /\ status' = "draft" /\ versions' = <<d>> /\ log' = <<Event("created", 0, 1)>>
    /\ UNCHANGED <<version, author>>

(* What each operation asks of the status it reads. *)
Open(op) == status \in IF op = "disabled" THEN {"enabled"} ELSE {"draft", "disabled"}

ReadTemplate(a, op) ==
    /\ author[a] = Idle /\ Open(op)
    /\ author' = [author EXCEPT ![a] =
          [pc |-> IF op \in {"version_added", "enabled"} THEN "latest" ELSE "commit",
           op |-> op, saw |-> version, about |-> 0, doc |-> {}]]
    /\ UNCHANGED template

(* The document carries the number that follows, and differs from the      *)
(* version it follows; else the author is refused. *)
ReadLatest(a) ==
    /\ author[a].pc = "latest"
    /\ \/ /\ author[a].op = "enabled"
          /\ author' = [author EXCEPT ![a].pc = "commit", ![a].about = Len(versions)]
       \/ /\ author[a].op = "version_added"
          /\ \E d \in Documents, number \in {Len(versions), Len(versions) + 1} :
              IF Accepted(d, number) /\ d # Latest
              THEN author' = [author EXCEPT ![a].pc = "commit", ![a].doc = d,
                                            ![a].about = Len(versions) + 1]
              ELSE author' = [author EXCEPT ![a] = Idle]
    /\ UNCHANGED template

(* A slip: the status is set whatever happened since it was read. *)
AnySince(a) == TRUE

UnchangedSince(a) == version = author[a].saw

Written(a) ==
    /\ version' = version + 1
    /\ log' = Append(log, Event(author[a].op, author[a].saw + 1, author[a].about))

AddVersion(a) ==
    /\ author[a].op = "version_added"
    /\ versions' = Append(versions, author[a].doc) /\ UNCHANGED status

SetStatus(a) ==
    /\ author[a].op # "version_added"
    /\ status' = author[a].op /\ UNCHANGED versions

(* One transaction, or ConcurrentTemplateUpdateError. *)
Commit(a) ==
    /\ author[a].pc = "commit"
    /\ author' = [author EXCEPT ![a] = Idle]
    /\ IF UnchangedSince(a) THEN Written(a) /\ (AddVersion(a) \/ SetStatus(a))
       ELSE UNCHANGED template

Author(a) ==
    /\ UNCHANGED <<start, drafts, trouble>>
    /\ \/ /\ turns > 0 /\ turns' = turns - 1
          /\ \/ author[a] = Idle /\ \E d \in Documents : CreateTemplate(d)
             \/ \E op \in {"version_added", "enabled", "disabled", "deleted"} :
                   ReadTemplate(a, op)
       \/ UNCHANGED turns /\ (ReadLatest(a) \/ Commit(a))

-----------------------------------------------------------------------------
(* Starting an instance *)

Go(s, pc) == start' = [start EXCEPT ![s].pc = pc]

(* The sender fills every role, except for those the message names. *)
OwnersFor(roles, named) ==
    [r \in roles \cup named |-> IF r \in named THEN "named" ELSE "sender"]

(* create-from-template: the file binds the roles. *)
Call(s) ==
    /\ start[s].pc = "idle"
    /\ \E given \in SUBSET Params, named \in SUBSET Roles :
        start' = [start EXCEPT ![s].pc = "status", ![s].way = "file",
                               ![s].given = given, ![s].named = named,
                               ![s].owners = OwnersFor({}, named)]
    /\ UNCHANGED drafts

(* /larkflow start *)
Say(s) ==
    /\ start[s].pc = "idle"
    /\ \E given \in SUBSET Params, named \in SUBSET Roles :
        start' = [start EXCEPT ![s].pc = "roles", ![s].given = given, ![s].named = named]
    /\ UNCHANGED drafts

ReadRoles(s) ==
    /\ start[s].pc = "roles"
    /\ IF versions = << >> THEN Go(s, "rejected")
       ELSE start' = [start EXCEPT
               ![s].pc = "status", ![s].pinned = Len(versions),
               ![s].owners = OwnersFor(RolesOf(Latest), start[s].named)]
    /\ UNCHANGED drafts

(* TemplateService.instantiate, and the same look before a card is applied *)
ReadStatus(s) ==
    /\ start[s].pc \in {"status", "answered"}
    /\ Go(s, IF status # "enabled" THEN "rejected"
             ELSE IF start[s].pc = "status" THEN "latest" ELSE "bind")
    /\ UNCHANGED drafts

(* create_draft with an id made of the message: a retry finds what it made *)
CreateDraft(s, n) ==
    drafts' = [drafts EXCEPT ![s] = IF @ = NoDraft
                                    THEN [version |-> n, owners |-> start[s].owners]
                                    ELSE @]

(* Several roles and nobody named: the chat asks. *)
MustAsk(s) ==
    /\ start[s].way = "chat" /\ start[s].named = {}
    /\ Cardinality(RolesOf(versions[start[s].pinned])) > 1

Instantiate(s) ==
    /\ start[s].pc = "latest"
    /\ IF ~CanInstantiate(Latest, start[s].given, start[s].owners)
       THEN Go(s, "rejected") /\ UNCHANGED drafts
       ELSE IF MustAsk(s) THEN Go(s, "asked") /\ UNCHANGED drafts
       ELSE Go(s, "made") /\ CreateDraft(s, Len(versions))

(* The starter fills in the card: one person for every role. *)
Answer(s) ==
    /\ start[s].pc = "asked"
    /\ start' = [start EXCEPT
            ![s].pc = "answered", ![s].card = TRUE,
            ![s].owners = OwnersFor({}, RolesOf(versions[start[s].pinned]))]
    /\ UNCHANGED drafts

(* RoleBindingActionWorker._apply: the version the card was made for. *)
Bind(s) ==
    /\ start[s].pc = "bind"
    /\ LET n == start[s].pinned
           made == [version |-> n, owners |-> start[s].owners] IN
       IF CanInstantiate(versions[n], start[s].given, start[s].owners)
          /\ drafts[s] \in {NoDraft, made}
       THEN Go(s, "made") /\ CreateDraft(s, n)
       ELSE Go(s, "rejected") /\ UNCHANGED drafts

Settle(s) == start[s].pc = "made" /\ Go(s, "done") /\ UNCHANGED drafts

(* The worker dies: its command or its card is applied again from the start. *)
Die(s) ==
    /\ trouble > 0 /\ trouble' = trouble - 1
    /\ start[s].way = "chat" /\ start[s].pc \in {"status", "latest", "bind", "made"}
    /\ Go(s, IF start[s].card THEN "answered" ELSE "roles")
    /\ UNCHANGED <<template, author, drafts, turns>>

Starter(s) ==
    /\ UNCHANGED <<template, author, turns, trouble>>
    /\ \/ Call(s) \/ Say(s) \/ ReadRoles(s) \/ ReadStatus(s) \/ Instantiate(s)
       \/ Answer(s) \/ Bind(s) \/ Settle(s)

Next ==
    \/ \E a \in Authors : Author(a)
    \/ \E s \in Starters : Starter(s) \/ Die(s)

Spec == Init /\ [][Next]_vars

-----------------------------------------------------------------------------
(* Types of all variables. *)
TypeOK ==
    /\ status \in {"absent", "draft", "enabled", "disabled", "deleted"}
    /\ version \in Nat /\ versions \in Seq(Documents)
    /\ \A s \in Starters :
        /\ drafts[s].version \in 0 .. Len(versions)
        /\ start[s].pinned \in 0 .. Len(versions)
    /\ turns \in 0 .. Turns /\ trouble \in 0 .. Trouble

(* The status the first n events of the log lead to. *)
StatusAfter(n) ==
    LET moves == {i \in 1 .. n : log[i].kind # "version_added"} IN
    LET last == CHOOSE i \in moves : \A j \in moves : j <= i IN
    IF log[last].kind = "created" THEN "draft" ELSE log[last].kind

(* The audit log tells the life of the template: whatever authors do at    *)
(* the same time, its events are numbered without gaps, each one was legal *)
(* where it stands, nothing follows a deletion, and together they lead to  *)
(* the row and to the versions there are; while it is enabled, what a new  *)
(* instance is made from is the version its author enabled and the log     *)
(* announced, not one that came later (template_service.py, the            *)
(* expected_template_version of postgres.py). *)
LogTellsTheLife ==
    /\ TypeOK
    /\ Len(log) = IF status = "absent" THEN 0 ELSE version + 1
    /\ \A i \in 1 .. Len(log) :
        /\ log[i].at = i - 1
        /\ i > 1 => StatusAfter(i - 1) \in IF log[i].kind = "disabled" THEN {"enabled"}
                                            ELSE {"draft", "disabled"}
    /\ status # "absent" =>
        /\ status = StatusAfter(Len(log))
        /\ Len(versions) =
              Cardinality({i \in 1 .. Len(log) : log[i].kind \in {"created", "version_added"}})
    /\ \A n \in 1 .. Len(versions) - 1 : versions[n] # versions[n + 1]
    /\ status = "enabled" => log[Len(log)] = Event("enabled", version, Len(versions))

(* Nobody gets a role behind the starter's back: the roles of an instance  *)
(* are exactly those its owners were chosen for, and with several roles    *)
(* somebody was named, in the message or on the card, even if the template *)
(* gets other roles while the chat command is under way or retried. *)
EveryRoleAnswered ==
    \A s \in Starters : drafts[s] # NoDraft =>
        LET roles == RolesOf(versions[drafts[s].version]) IN
        /\ DOMAIN drafts[s].owners = roles
        /\ Cardinality(roles) > 1 =>
              \E r \in roles : drafts[s].owners[r] = "named"

=============================================================================
