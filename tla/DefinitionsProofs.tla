-------------------------- MODULE DefinitionsProofs --------------------------
(***************************************************************************)
(* Proofs about the two components that make definitions: the templates    *)
(* authors write and others start instances from (Templates), and the plans*)
(* a model makes for a request (Planning).  They share what a definition is*)
(* and no state; each part has its own invariant.                          *)
(***************************************************************************)
EXTENDS Templates, Planning, FiniteSetTheorems, TLAPS

-----------------------------------------------------------------------------
(***************************************************************************)
(* The log of a template tells its life, and nobody gets a role behind the *)
(* starter's back: for any authors, starters, documents and bounds.        *)
(*                                                                         *)
(* The log is right because an author commits only against the version read*)
(* (ReadsHold): then everything read is still so, and the event that is    *)
(* written is legal.  Owners fit because versions only grow: the version a *)
(* starter pinned keeps its roles (Chosen), whatever authors do meanwhile, *)
(* and what is made of it is compared with those owners before (Fits).     *)
(***************************************************************************)

Ops == {"version_added", "enabled", "disabled", "deleted"}
Kinds == {"created"} \cup Ops
Statuses == {"absent", "draft", "enabled", "disabled", "deleted"}

Task == [pc: {"latest", "commit"}, op: Ops, saw: Nat, about: Nat, doc: Documents \cup {{}}]

Steps == {"idle", "roles", "status", "latest", "asked", "answered", "bind", "made", "done",
          "rejected"}
Fields == {"pc", "way", "named", "given", "pinned", "owners", "card"}

Typed ==
    /\ TypeOK
    /\ log \in Seq([kind: Kinds, at: Nat, about: Nat])
    /\ author \in [Authors -> {Idle} \cup Task]
    /\ start = [s \in Starters |-> start[s]] /\ drafts = [s \in Starters |-> drafts[s]]
    /\ \A s \in Starters : /\ DOMAIN start[s] = Fields
                          /\ start[s].pc \in Steps /\ start[s].way \in {"chat", "file"}
                          /\ start[s].card \in BOOLEAN

(* Versions are only added: what was read of them remains true.            *)
Grown ==
    /\ status = "absent" <=> Len(versions) = 0
    /\ status = "absent" => version = 0
    /\ \A n \in 1 .. Len(versions) - 1 : versions[n] # versions[n + 1]

(* What an author has read is still so if the template version is.         *)
ReadsHold ==
    \A a \in Authors : author[a] # Idle =>
        /\ status # "absent" /\ author[a].saw <= version
        /\ author[a].saw = version =>
            /\ Open(author[a].op)
            /\ author[a].pc = "commit" /\ author[a].op = "version_added" =>
                  author[a].doc # Latest /\ author[a].doc \in Documents
            /\ author[a].pc = "commit" /\ author[a].op = "enabled" =>
                  author[a].about = Len(versions)

Moves(n) == {i \in 1 .. n : log[i].kind # "version_added"}
HasLast(n) == \E m \in Moves(n) : \A j \in Moves(n) : j <= m

Told ==
    /\ Len(log) = IF status = "absent" THEN 0 ELSE version + 1
    /\ \A i \in 1 .. Len(log) :
        /\ log[i].at = i - 1 /\ HasLast(i)
        /\ i > 1 => StatusAfter(i - 1) \in IF log[i].kind = "disabled" THEN {"enabled"}
                                            ELSE {"draft", "disabled"}
    /\ status # "absent" =>
        /\ status = StatusAfter(Len(log))
        /\ Len(versions) =
              Cardinality({i \in 1 .. Len(log) : log[i].kind \in {"created", "version_added"}})
    /\ status = "enabled" => log[Len(log)] = Event("enabled", version, Len(versions))

(* For whom the owners of a starter were chosen. *)
Chosen(t) ==
    /\ t.card => t.way = "chat" /\ t.pc \in {"answered", "bind", "made", "done", "rejected"}
    /\ t.pc \in {"idle", "roles"} => t.way = "chat"
    /\ t.pc \in {"asked", "answered", "bind"} => t.way = "chat" /\ t.pinned > 0
    /\ t.pc \in {"answered", "bind"} => t.card
    /\ t.card => t.pinned > 0
    /\ t.pc \in {"status", "latest"} /\ t.way = "chat" => t.pinned > 0
    /\ t.pc = "latest" => versions # << >>
    /\ t.card => t.owners = OwnersFor({}, RolesOf(versions[t.pinned]))
    /\ t.pc \in {"status", "latest"} =>
          t.owners = IF t.way = "file" THEN OwnersFor({}, t.named)
                     ELSE OwnersFor(RolesOf(versions[t.pinned]), t.named)

StartsInv == \A s \in Starters : Chosen(start[s])

(* The owners of a draft are those its version asks for. *)
Fits(d) ==
    /\ d.version > 0
    /\ DOMAIN d.owners = RolesOf(versions[d.version])
    /\ Cardinality(RolesOf(versions[d.version])) > 1 =>
          \E r \in RolesOf(versions[d.version]) : d.owners[r] = "named"

DraftsInv == \A s \in Starters : drafts[s] # NoDraft => Fits(drafts[s])

BookInv == Typed /\ Grown /\ ReadsHold /\ Told
Inv == BookInv /\ StartsInv /\ DraftsInv

-----------------------------------------------------------------------------
(* Starting an instance. *)

(* What a starter may write: a legal step, and a draft that fits. *)
LEMMA StarterWrites ==
    ASSUME Inv, NEW s \in Starters, NEW r, start' = [start EXCEPT ![s] = r],
           DOMAIN r = Fields, r.pc \in Steps, r.way \in {"chat", "file"}, r.card \in BOOLEAN,
           r.pinned \in 0 .. Len(versions), Chosen(r),
           UNCHANGED <<template, author, turns>>, trouble' \in 0 .. Trouble,
           NEW d, d = drafts[s] \/ (Fits(d) /\ d.version \in 0 .. Len(versions)),
           drafts' = [drafts EXCEPT ![s] = d]
    PROVE  Inv'
  <1>1. /\ UNCHANGED <<status, version, versions, log, author, turns>>
        /\ start = [v \in Starters |-> start[v]] /\ drafts = [v \in Starters |-> drafts[v]]
    BY DEF template, Inv, BookInv, Typed
  <1>2. /\ start' = [v \in Starters |-> start'[v]] /\ start'[s] = r
        /\ \A u \in Starters \ {s} : start'[u] = start[u]
    BY <1>1
  <1>3. /\ drafts' = [v \in Starters |-> drafts'[v]] /\ drafts'[s] = d
        /\ \A u \in Starters \ {s} : drafts'[u] = drafts[u]
    BY <1>1
  <1>4. ASSUME NEW u \in Starters
        PROVE  /\ DOMAIN start'[u] = Fields /\ start'[u].pc \in Steps
               /\ start'[u].way \in {"chat", "file"} /\ start'[u].card \in BOOLEAN
               /\ start'[u].pinned \in 0 .. Len(versions')
               /\ drafts'[u].version \in 0 .. Len(versions')
    BY <1>1, <1>2, <1>3 DEF Inv, BookInv, Typed, TypeOK
  <1>5. Typed'
    BY <1>1, <1>2, <1>3, <1>4 DEF Inv, BookInv, Typed, TypeOK
  <1>6. Grown' /\ ReadsHold' /\ Told'
    <2>1. Grown' /\ ReadsHold'
      BY <1>1 DEF Inv, BookInv, Grown, ReadsHold, Open, Latest
    <2>2. \A n : StatusAfter(n)' = StatusAfter(n) /\ HasLast(n)' = HasLast(n)
      BY <1>1 DEF StatusAfter, HasLast, Moves
    <2>3. Told'
      BY <1>1, <2>2 DEF Inv, BookInv, Told, Event
    <2> QED
      BY <2>1, <2>3
  <1>7. StartsInv'
    BY <1>1, <1>2 DEF Inv, StartsInv, Chosen
  <1>8. DraftsInv'
    <2>1. \A e : Fits(e)' <=> Fits(e)
      BY <1>1 DEF Fits
    <2>2. ASSUME NEW u \in Starters, drafts'[u] # NoDraft
          PROVE  Fits(drafts'[u])
      BY <1>3, <2>2 DEF Inv, DraftsInv
    <2> QED
      BY <2>1, <2>2 DEF DraftsInv
  <1> QED
    BY <1>5, <1>6, <1>7, <1>8 DEF Inv, BookInv

(* The same without a draft. *)
LEMMA StarterGoes ==
    ASSUME Inv, NEW s \in Starters, NEW r, start' = [start EXCEPT ![s] = r],
           DOMAIN r = Fields, r.pc \in Steps, r.way \in {"chat", "file"}, r.card \in BOOLEAN,
           r.pinned \in 0 .. Len(versions), Chosen(r),
           UNCHANGED <<template, author, turns, drafts>>, trouble' \in 0 .. Trouble
    PROVE  Inv'
  <1>1. drafts' = [drafts EXCEPT ![s] = drafts[s]]
    BY DEF Inv, BookInv, Typed
  <1> QED
    BY <1>1, StarterWrites

(* What is known of a starter. *)
LEMMA StarterFacts ==
    ASSUME Inv, NEW s \in Starters
    PROVE  /\ DOMAIN start[s] = Fields /\ start[s].pc \in Steps
           /\ start[s].way \in {"chat", "file"} /\ start[s].card \in BOOLEAN
           /\ start[s].pinned \in 0 .. Len(versions) /\ Chosen(start[s])
           /\ Len(versions) \in Nat /\ trouble \in 0 .. Trouble
  BY DEF Inv, BookInv, Typed, TypeOK, StartsInv

(* A starter that only moves on, to a step that asks nothing of it. *)
LEMMA GoKeeps ==
    ASSUME Inv, NEW s \in Starters, NEW to \in Steps, Go(s, to), trouble' \in 0 .. Trouble,
           UNCHANGED <<template, author, turns, drafts>>,
           NEW r, r = [start[s] EXCEPT !.pc = to], Chosen(r)
    PROVE  Inv'
  <1>1. start' = [start EXCEPT ![s] = r]
    BY DEF Go
  <1>2. /\ DOMAIN r = Fields /\ r.pc = to /\ r.way = start[s].way /\ r.card = start[s].card
        /\ r.pinned = start[s].pinned
    BY StarterFacts DEF Fields
  <1> QED
    BY <1>1, <1>2, StarterFacts, StarterGoes

(* A step that is legal for everybody who is not in the middle of a choice *)
LEMMA ChosenGoes ==
    ASSUME NEW t, DOMAIN t = Fields, Chosen(t), NEW to \in Steps, NEW r, r = [t EXCEPT !.pc = to]
    PROVE  /\ r.pc = to /\ r.way = t.way /\ r.named = t.named /\ r.given = t.given
           /\ r.pinned = t.pinned /\ r.owners = t.owners /\ r.card = t.card
           /\ DOMAIN r = Fields
           /\ to \in {"made", "done", "rejected"} => Chosen(r)
  <1>1. /\ r.pc = to /\ r.way = t.way /\ r.named = t.named /\ r.given = t.given
        /\ r.pinned = t.pinned /\ r.owners = t.owners /\ r.card = t.card
        /\ DOMAIN r = Fields
    BY DEF Fields
  <1>2. to \in {"made", "done", "rejected"} => Chosen(r)
    BY <1>1 DEF Chosen
  <1> QED
    BY <1>1, <1>2

(* The command line begins: its owners are the ones the file names. *)
LEMMA CallKeeps ==
    ASSUME Inv, NEW s \in Starters, Call(s), UNCHANGED <<template, author, turns, trouble>>
    PROVE  Inv'
  <1>1. PICK given \in SUBSET Params, named \in SUBSET Roles :
          start' = [start EXCEPT ![s].pc = "status", ![s].way = "file",
                               ![s].given = given, ![s].named = named,
                               ![s].owners = OwnersFor({}, named)]
    BY DEF Call
  <1>2. PICK r : r = [start[s] EXCEPT !.pc = "status", !.way = "file", !.given = given,
                        !.named = named, !.owners = OwnersFor({}, named)]
    OBVIOUS
  <1>3. start' = [start EXCEPT ![s] = r]
    BY <1>1, <1>2
  <1>4. /\ DOMAIN r = Fields /\ r.pc = "status" /\ r.way = "file" /\ r.named = named
        /\ r.pinned = start[s].pinned /\ r.card = start[s].card
        /\ r.owners = OwnersFor({}, named)
    BY <1>2, StarterFacts DEF Fields
  <1>5. start[s].pc = "idle"
    BY DEF Call
  <1>6. Chosen(r)
    BY <1>4, <1>5, StarterFacts DEF Chosen
  <1>7. UNCHANGED <<template, author, turns, drafts>> /\ trouble' \in 0 .. Trouble
    BY StarterFacts DEF Call
  <1> QED
    BY <1>3, <1>4, <1>6, <1>7, StarterFacts, StarterGoes DEF Steps

(* The chat begins: no owner is chosen yet. *)
LEMMA SayKeeps ==
    ASSUME Inv, NEW s \in Starters, Say(s), UNCHANGED <<template, author, turns, trouble>>
    PROVE  Inv'
  <1>1. PICK given \in SUBSET Params, named \in SUBSET Roles :
          start' = [start EXCEPT ![s].pc = "roles", ![s].given = given, ![s].named = named]
    BY DEF Say
  <1>2. PICK r : r = [start[s] EXCEPT !.pc = "roles", !.given = given, !.named = named]
    OBVIOUS
  <1>3. start' = [start EXCEPT ![s] = r]
    BY <1>1, <1>2
  <1>4. /\ DOMAIN r = Fields /\ r.pc = "roles" /\ r.way = start[s].way
        /\ r.pinned = start[s].pinned /\ r.card = start[s].card
    BY <1>2, StarterFacts DEF Fields
  <1>5. start[s].pc = "idle"
    BY DEF Say
  <1>6. Chosen(r)
    BY <1>4, <1>5, StarterFacts DEF Chosen
  <1>7. UNCHANGED <<template, author, turns, drafts>> /\ trouble' \in 0 .. Trouble
    BY StarterFacts DEF Say
  <1> QED
    BY <1>3, <1>4, <1>6, <1>7, StarterFacts, StarterGoes DEF Steps

(* The chat reads the roles and pins the version it read them from. *)
LEMMA ReadRolesKeeps ==
    ASSUME Inv, NEW s \in Starters, ReadRoles(s), UNCHANGED <<template, author, turns, trouble>>
    PROVE  Inv'
  <1>1. start[s].pc = "roles" /\ UNCHANGED <<template, author, turns, drafts>>
        /\ trouble' \in 0 .. Trouble /\ "rejected" \in Steps
    BY StarterFacts DEF ReadRoles, Steps
  <1>2. CASE Go(s, "rejected")
    <2>1. PICK r : r = [start[s] EXCEPT !.pc = "rejected"]
      OBVIOUS
    <2>2. Chosen(r)
      BY <1>1, <2>1, StarterFacts, ChosenGoes
    <2> QED
      BY <1>1, <1>2, <2>1, <2>2, GoKeeps
  <1>3. CASE /\ versions # << >>
             /\ start' = [start EXCEPT ![s].pc = "status", ![s].pinned = Len(versions),
                            ![s].owners = OwnersFor(RolesOf(Latest), start[s].named)]
    <2>1. PICK r : r = [start[s] EXCEPT !.pc = "status", !.pinned = Len(versions),
                          !.owners = OwnersFor(RolesOf(Latest), start[s].named)]
      OBVIOUS
    <2>2. start' = [start EXCEPT ![s] = r]
      BY <1>3, <2>1
    <2>3. /\ DOMAIN r = Fields /\ r.pc = "status" /\ r.way = start[s].way
          /\ r.pinned = Len(versions) /\ r.card = start[s].card /\ r.named = start[s].named
          /\ r.owners = OwnersFor(RolesOf(Latest), start[s].named)
      BY <2>1, StarterFacts DEF Fields
    <2>4. Len(versions) > 0
      BY <1>3 DEF Inv, BookInv, Typed, TypeOK
    <2>5. ~start[s].card /\ start[s].way = "chat"
      BY <1>1, StarterFacts DEF Chosen
    <2>6. Chosen(r)
      BY <2>3, <2>4, <2>5 DEF Chosen, Latest
    <2>7. /\ r.pc \in Steps /\ r.way \in {"chat", "file"} /\ r.card \in BOOLEAN
          /\ r.pinned \in 0 .. Len(versions)
      BY <2>3, StarterFacts DEF Steps
    <2> QED
      BY <1>1, <2>2, <2>3, <2>6, <2>7, StarterGoes
  <1> QED
    BY <1>2, <1>3 DEF ReadRoles

(* The look at the status changes nothing a choice depends on. *)
LEMMA ReadStatusKeeps ==
    ASSUME Inv, NEW s \in Starters, ReadStatus(s), UNCHANGED <<template, author, turns, trouble>>
    PROVE  Inv'
  <1>1. /\ start[s].pc \in {"status", "answered"}
        /\ UNCHANGED <<template, author, turns, drafts>>
        /\ trouble' \in 0 .. Trouble /\ {"rejected", "latest", "bind"} \subseteq Steps
    BY StarterFacts DEF ReadStatus, Steps
  <1>2. CASE Go(s, "rejected")
    <2>1. PICK r : r = [start[s] EXCEPT !.pc = "rejected"]
      OBVIOUS
    <2>2. Chosen(r)
      BY <1>1, <2>1, StarterFacts, ChosenGoes
    <2> QED
      BY <1>1, <1>2, <2>1, <2>2, GoKeeps
  <1>3. CASE status = "enabled" /\ start[s].pc = "status" /\ Go(s, "latest")
    <2>1. PICK r : r = [start[s] EXCEPT !.pc = "latest"]
      OBVIOUS
    <2>2. versions # << >>
      BY <1>3 DEF Inv, BookInv, Grown
    <2>3. /\ r.pc = "latest" /\ r.way = start[s].way /\ r.named = start[s].named
          /\ r.pinned = start[s].pinned /\ r.owners = start[s].owners /\ r.card = start[s].card
      BY <1>1, <2>1, StarterFacts, ChosenGoes
    <2>4. Chosen(r)
      BY <1>3, <2>2, <2>3, StarterFacts DEF Chosen
    <2> QED
      BY <1>1, <1>3, <2>1, <2>4, GoKeeps
  <1>4. CASE start[s].pc = "answered" /\ Go(s, "bind")
    <2>1. PICK r : r = [start[s] EXCEPT !.pc = "bind"]
      OBVIOUS
    <2>2. /\ r.pc = "bind" /\ r.way = start[s].way /\ r.named = start[s].named
          /\ r.pinned = start[s].pinned /\ r.owners = start[s].owners /\ r.card = start[s].card
      BY <1>1, <2>1, StarterFacts, ChosenGoes
    <2>3. Chosen(r)
      BY <1>4, <2>2, StarterFacts DEF Chosen
    <2> QED
      BY <1>1, <1>4, <2>1, <2>3, GoKeeps
  <1> QED
    BY <1>1, <1>2, <1>3, <1>4 DEF ReadStatus

(* Owners chosen one by one, or for at most one role, fit a draft. *)
LEMMA NamedFit ==
    ASSUME NEW n \in 1 .. Len(versions), NEW owners, DOMAIN owners = RolesOf(versions[n]),
           NEW named, \A r \in named : owners[r] = "named",
           named \subseteq RolesOf(versions[n]),
           named # {} \/ ~(Cardinality(RolesOf(versions[n])) > 1)
    PROVE  Fits([version |-> n, owners |-> owners])
  BY DEF Fits

(* The draft is made only when the latest version has the roles chosen for. *)
LEMMA InstantiateKeeps ==
    ASSUME Inv, NEW s \in Starters, Instantiate(s), UNCHANGED <<template, author, turns, trouble>>
    PROVE  Inv'
  <1>1. /\ start[s].pc = "latest" /\ UNCHANGED <<template, author, turns>>
        /\ trouble' \in 0 .. Trouble /\ {"rejected", "asked", "made"} \subseteq Steps
    BY StarterFacts DEF Instantiate, Steps
  <1>2. CASE Go(s, "rejected") /\ UNCHANGED drafts
    <2>1. PICK r : r = [start[s] EXCEPT !.pc = "rejected"]
      OBVIOUS
    <2>2. Chosen(r)
      BY <1>1, <2>1, StarterFacts, ChosenGoes
    <2> QED
      BY <1>1, <1>2, <2>1, <2>2, GoKeeps
  <1>3. CASE MustAsk(s) /\ Go(s, "asked") /\ UNCHANGED drafts
    <2>1. PICK r : r = [start[s] EXCEPT !.pc = "asked"]
      OBVIOUS
    <2>2. /\ r.pc = "asked" /\ r.way = start[s].way /\ r.named = start[s].named
          /\ r.pinned = start[s].pinned /\ r.owners = start[s].owners /\ r.card = start[s].card
      BY <1>1, <2>1, StarterFacts, ChosenGoes
    <2>3. Chosen(r)
      BY <1>1, <1>3, <2>2, StarterFacts DEF Chosen, MustAsk
    <2> QED
      BY <1>1, <1>3, <2>1, <2>3, GoKeeps
  <1>4. CASE /\ CanInstantiate(Latest, start[s].given, start[s].owners) /\ ~MustAsk(s)
             /\ Go(s, "made") /\ CreateDraft(s, Len(versions))
    <2>1. PICK r : r = [start[s] EXCEPT !.pc = "made"]
      OBVIOUS
    <2>2. /\ r.pc = "made" /\ r.way = start[s].way /\ r.pinned = start[s].pinned
          /\ r.card = start[s].card /\ DOMAIN r = Fields /\ Chosen(r)
          /\ start' = [start EXCEPT ![s] = r]
      BY <1>1, <1>4, <2>1, StarterFacts, ChosenGoes DEF Go
    <2>3. /\ Len(versions) \in 1 .. Len(versions) /\ Chosen(start[s])
          /\ start[s].way \in {"chat", "file"}
      BY <1>1, StarterFacts DEF Chosen, Inv, BookInv, Typed, TypeOK
    <2>4. DOMAIN start[s].owners = RolesOf(versions[Len(versions)])
      BY <1>4 DEF CanInstantiate, FitsRoles, Latest
    <2>5. Fits([version |-> Len(versions), owners |-> start[s].owners])
      <3>1. CASE start[s].way = "file"
        <4>1. start[s].owners = OwnersFor({}, start[s].named)
          BY <1>1, <2>3, <3>1 DEF Chosen
        <4>2. /\ start[s].named = RolesOf(versions[Len(versions)])
              /\ \A q \in start[s].named : start[s].owners[q] = "named"
          <5>1. /\ DOMAIN start[s].owners = {} \cup start[s].named
                /\ \A q \in start[s].named : start[s].owners[q] = "named"
            BY <4>1 DEF OwnersFor
          <5> QED
            BY <2>4, <5>1
        <4>3. start[s].named # {} \/ ~(Cardinality(RolesOf(versions[Len(versions)])) > 1)
          <5>1. start[s].named = {} => Cardinality(RolesOf(versions[Len(versions)])) = 0
            BY <4>2, FS_EmptySet
          <5> QED
            BY <5>1
        <4> QED
          BY <2>3, <2>4, <4>2, <4>3, NamedFit
      <3>2. CASE start[s].way = "chat"
        <4>1. start[s].owners = OwnersFor(RolesOf(versions[start[s].pinned]), start[s].named)
          BY <1>1, <2>3, <3>2 DEF Chosen
        <4>2. /\ RolesOf(versions[start[s].pinned]) \cup start[s].named
                   = RolesOf(versions[Len(versions)])
              /\ \A q \in start[s].named : start[s].owners[q] = "named"
          <5>1. /\ DOMAIN start[s].owners
                       = RolesOf(versions[start[s].pinned]) \cup start[s].named
                /\ \A q \in start[s].named : start[s].owners[q] = "named"
            BY <4>1 DEF OwnersFor
          <5> QED
            BY <2>4, <5>1
        <4>3. start[s].named # {} \/ ~(Cardinality(RolesOf(versions[Len(versions)])) > 1)
          <5>1. CASE start[s].named = {}
            <6>1. RolesOf(versions[start[s].pinned]) = RolesOf(versions[Len(versions)])
              BY <4>2, <5>1
            <6> QED
              BY <1>4, <3>2, <5>1, <6>1 DEF MustAsk
          <5> QED
            BY <5>1
        <4> QED
          BY <2>3, <2>4, <4>2, <4>3, NamedFit
      <3> QED
        BY <2>3, <3>1, <3>2
    <2>6. PICK d : /\ d = IF drafts[s] = NoDraft
                          THEN [version |-> Len(versions), owners |-> start[s].owners]
                          ELSE drafts[s]
                   /\ drafts' = [drafts EXCEPT ![s] = d]
      BY <1>4 DEF CreateDraft
    <2>7. d = drafts[s] \/ (Fits(d) /\ d.version \in 0 .. Len(versions))
      BY <2>3, <2>5, <2>6
    <2>8. /\ r.pc \in Steps /\ r.way \in {"chat", "file"} /\ r.card \in BOOLEAN
          /\ r.pinned \in 0 .. Len(versions)
      BY <1>1, <2>2, StarterFacts
    <2> QED
      BY <1>1, <2>2, <2>6, <2>7, <2>8, StarterWrites
  <1> QED
    BY <1>2, <1>3, <1>4 DEF Instantiate

(* The card fills every role of the pinned version. *)
LEMMA AnswerKeeps ==
    ASSUME Inv, NEW s \in Starters, Answer(s), UNCHANGED <<template, author, turns, trouble>>
    PROVE  Inv'
  <1>1. PICK owners : owners = OwnersFor({}, RolesOf(versions[start[s].pinned]))
    OBVIOUS
  <1>2. PICK r : r = [start[s] EXCEPT !.pc = "answered", !.card = TRUE, !.owners = owners]
    OBVIOUS
  <1>3. start' = [start EXCEPT ![s] = r]
    BY <1>1, <1>2 DEF Answer
  <1>4. /\ DOMAIN r = Fields /\ r.pc = "answered" /\ r.way = start[s].way
        /\ r.pinned = start[s].pinned /\ r.card /\ r.card \in BOOLEAN /\ r.owners = owners
    BY <1>2, StarterFacts DEF Fields
  <1>5. start[s].pc = "asked"
    BY DEF Answer
  <1>6. Chosen(r)
    BY <1>1, <1>4, <1>5, StarterFacts DEF Chosen
  <1>7. UNCHANGED <<template, author, turns, drafts>> /\ trouble' \in 0 .. Trouble
    BY StarterFacts DEF Answer
  <1>8. /\ r.pc \in Steps /\ r.way \in {"chat", "file"} /\ r.pinned \in 0 .. Len(versions)
    BY <1>4, StarterFacts DEF Steps
  <1> QED
    BY <1>3, <1>4, <1>6, <1>7, <1>8, StarterGoes

(* The card is applied to the version it was made for. *)
LEMMA BindKeeps ==
    ASSUME Inv, NEW s \in Starters, Bind(s), UNCHANGED <<template, author, turns, trouble>>
    PROVE  Inv'
  <1>1. /\ start[s].pc = "bind" /\ UNCHANGED <<template, author, turns>>
        /\ trouble' \in 0 .. Trouble /\ {"rejected", "made"} \subseteq Steps
    BY StarterFacts DEF Bind, Steps
  <1>2. CASE Go(s, "rejected") /\ UNCHANGED drafts
    <2>1. PICK r : r = [start[s] EXCEPT !.pc = "rejected"]
      OBVIOUS
    <2>2. Chosen(r)
      BY <1>1, <2>1, StarterFacts, ChosenGoes
    <2> QED
      BY <1>1, <1>2, <2>1, <2>2, GoKeeps
  <1>3. CASE Go(s, "made") /\ CreateDraft(s, start[s].pinned)
    <2>1. PICK r : r = [start[s] EXCEPT !.pc = "made"]
      OBVIOUS
    <2>2. /\ r.pc = "made" /\ r.way = start[s].way /\ r.pinned = start[s].pinned
          /\ r.card = start[s].card /\ DOMAIN r = Fields /\ Chosen(r)
          /\ start' = [start EXCEPT ![s] = r]
      BY <1>1, <1>3, <2>1, StarterFacts, ChosenGoes DEF Go
    <2>3. start[s].pinned \in 1 .. Len(versions)
      BY <1>1, StarterFacts DEF Chosen
    <2>4. start[s].owners = OwnersFor({}, RolesOf(versions[start[s].pinned]))
      BY <1>1, StarterFacts DEF Chosen
    <2>5. /\ DOMAIN start[s].owners = RolesOf(versions[start[s].pinned])
          /\ \A q \in RolesOf(versions[start[s].pinned]) : start[s].owners[q] = "named"
      <3>1. /\ DOMAIN start[s].owners = {} \cup RolesOf(versions[start[s].pinned])
            /\ \A q \in RolesOf(versions[start[s].pinned]) : start[s].owners[q] = "named"
        BY <2>4 DEF OwnersFor
      <3> QED
        BY <3>1
    <2>6. \/ RolesOf(versions[start[s].pinned]) # {}
          \/ ~(Cardinality(RolesOf(versions[start[s].pinned])) > 1)
      BY FS_EmptySet
    <2>7. Fits([version |-> start[s].pinned, owners |-> start[s].owners])
      BY <2>3, <2>5, <2>6, NamedFit
    <2>8. PICK d : /\ d = IF drafts[s] = NoDraft
                          THEN [version |-> start[s].pinned, owners |-> start[s].owners]
                          ELSE drafts[s]
                   /\ drafts' = [drafts EXCEPT ![s] = d]
      BY <1>3 DEF CreateDraft
    <2>9. d = drafts[s] \/ (Fits(d) /\ d.version \in 0 .. Len(versions))
      BY <2>3, <2>7, <2>8
    <2>10. /\ r.pc \in Steps /\ r.way \in {"chat", "file"} /\ r.card \in BOOLEAN
           /\ r.pinned \in 0 .. Len(versions)
      BY <1>1, <2>2, StarterFacts
    <2> QED
      BY <1>1, <2>2, <2>8, <2>9, <2>10, StarterWrites
  <1> QED
    BY <1>2, <1>3 DEF Bind

(* The command ends. *)
LEMMA SettleKeeps ==
    ASSUME Inv, NEW s \in Starters, Settle(s), UNCHANGED <<template, author, turns, trouble>>
    PROVE  Inv'
  <1>1. PICK r : r = [start[s] EXCEPT !.pc = "done"]
    OBVIOUS
  <1>2. Chosen(r)
    BY <1>1, StarterFacts, ChosenGoes DEF Steps
  <1> QED
    BY <1>1, <1>2, StarterFacts, GoKeeps DEF Settle, Steps

(* The worker dies: the card keeps its choice, a command without one starts over. *)
LEMMA DieKeeps ==
    ASSUME Inv, NEW s \in Starters, Die(s)
    PROVE  Inv'
  <1>1. /\ UNCHANGED <<template, author, drafts, turns>> /\ trouble' \in 0 .. Trouble
        /\ start[s].way = "chat" /\ start[s].pc \in {"status", "latest", "bind", "made"}
        /\ {"answered", "roles"} \subseteq Steps
    BY StarterFacts, TemplatesAssumption DEF Die, Steps
  <1>2. CASE start[s].card /\ Go(s, "answered")
    <2>1. PICK r : r = [start[s] EXCEPT !.pc = "answered"]
      OBVIOUS
    <2>2. /\ r.pc = "answered" /\ r.way = start[s].way /\ r.named = start[s].named
          /\ r.pinned = start[s].pinned /\ r.owners = start[s].owners /\ r.card = start[s].card
      BY <1>1, <2>1, StarterFacts, ChosenGoes
    <2>3. Chosen(r)
      BY <1>1, <1>2, <2>2, StarterFacts DEF Chosen
    <2> QED
      BY <1>1, <1>2, <2>1, <2>3, GoKeeps
  <1>3. CASE ~start[s].card /\ Go(s, "roles")
    <2>1. PICK r : r = [start[s] EXCEPT !.pc = "roles"]
      OBVIOUS
    <2>2. /\ r.pc = "roles" /\ r.way = start[s].way /\ r.named = start[s].named
          /\ r.pinned = start[s].pinned /\ r.owners = start[s].owners /\ r.card = start[s].card
      BY <1>1, <2>1, StarterFacts, ChosenGoes
    <2>3. Chosen(r)
      BY <1>1, <1>3, <2>2, StarterFacts DEF Chosen
    <2> QED
      BY <1>1, <1>3, <2>1, <2>3, GoKeeps
  <1> QED
    BY <1>2, <1>3 DEF Die

-----------------------------------------------------------------------------
(* The log. *)

MovesOf(l, n) == {i \in 1 .. n : l[i].kind # "version_added"}
Ends(l, n) == \E m \in MovesOf(l, n) : \A j \in MovesOf(l, n) : j <= m
Last(moves) == CHOOSE i \in moves : \A j \in moves : j <= i
After(l, n) ==
    IF l[Last(MovesOf(l, n))].kind = "created" THEN "draft" ELSE l[Last(MovesOf(l, n))].kind
Brought(l) == {i \in 1 .. Len(l) : l[i].kind \in {"created", "version_added"}}

(* The names of the model for the log there is, and for the next one. *)
LEMMA LogNames ==
    \A n : StatusAfter(n) = After(log, n) /\ (HasLast(n) <=> Ends(log, n))
  BY DEF StatusAfter, After, Last, HasLast, Ends, Moves, MovesOf

(* The same for the log after a step. *)
LEMMA LogNamesNext ==
    \A n : StatusAfter(n)' = After(log', n) /\ (HasLast(n)' <=> Ends(log', n))
  BY DEF StatusAfter, After, Last, HasLast, Ends, Moves, MovesOf

(* The last of them is one of them. *)
LEMMA LastIs ==
    ASSUME NEW l, NEW n, Ends(l, n)
    PROVE  Last(MovesOf(l, n)) \in MovesOf(l, n)
  BY DEF Ends, Last

(* The status after some events depends on them alone. *)
LEMMA SameBefore ==
    ASSUME NEW l, NEW m, NEW n \in Nat, \A i \in 1 .. n : m[i] = l[i], Ends(l, n)
    PROVE  Ends(m, n) /\ After(m, n) = After(l, n)
  <1>1. MovesOf(m, n) = MovesOf(l, n)
    BY DEF MovesOf
  <1>2. m[Last(MovesOf(l, n))] = l[Last(MovesOf(l, n))]
    BY LastIs DEF MovesOf
  <1> QED
    BY <1>1, <1>2 DEF Ends, After

(* A version that is added leaves the status as it is. *)
LEMMA AddLeaves ==
    ASSUME NEW l, NEW n \in Nat, l[n + 1].kind = "version_added", Ends(l, n)
    PROVE  Ends(l, n + 1) /\ After(l, n + 1) = After(l, n)
  <1>1. MovesOf(l, n + 1) = MovesOf(l, n)
    BY DEF MovesOf
  <1> QED
    BY <1>1 DEF Ends, After

(* Every other event decides it. *)
LEMMA MoveDecides ==
    ASSUME NEW l, NEW n \in Nat, l[n + 1].kind # "version_added"
    PROVE  /\ Ends(l, n + 1)
           /\ After(l, n + 1) = IF l[n + 1].kind = "created" THEN "draft" ELSE l[n + 1].kind
  <1>1. n + 1 \in MovesOf(l, n + 1) /\ \A j \in MovesOf(l, n + 1) : j <= n + 1 /\ j \in Int
    BY DEF MovesOf
  <1>2. n + 1 = Last(MovesOf(l, n + 1))
    BY <1>1 DEF Last
  <1> QED
    BY <1>1, <1>2 DEF Ends, After

(* How many events brought a version. *)
LEMMA BroughtCounts ==
    ASSUME NEW l \in Seq([kind: Kinds, at: Nat, about: Nat]),
           NEW e \in [kind: Kinds, at: Nat, about: Nat]
    PROVE  Cardinality(Brought(Append(l, e))) =
             IF e.kind \in {"created", "version_added"} THEN Cardinality(Brought(l)) + 1
             ELSE Cardinality(Brought(l))
  <1>1. /\ Len(Append(l, e)) = Len(l) + 1 /\ Append(l, e)[Len(l) + 1] = e /\ Len(l) \in Nat
        /\ \A i \in 1 .. Len(l) : Append(l, e)[i] = l[i]
    OBVIOUS
  <1>2. CASE e.kind \in {"created", "version_added"}
    <2>1. Brought(Append(l, e)) = Brought(l) \cup {Len(l) + 1} /\ Len(l) + 1 \notin Brought(l)
      BY <1>1, <1>2 DEF Brought
    <2>2. IsFiniteSet(1 .. Len(l)) /\ Brought(l) \subseteq 1 .. Len(l)
      BY <1>1, FS_Interval DEF Brought
    <2>3. IsFiniteSet(Brought(l))
      BY <2>2, FS_Subset
    <2> QED
      BY <1>2, <2>1, <2>3, FS_AddElement
  <1>3. CASE ~(e.kind \in {"created", "version_added"})
    <2>1. Brought(Append(l, e)) = Brought(l)
      BY <1>1, <1>3 DEF Brought
    <2> QED
      BY <1>3, <2>1
  <1> QED
    BY <1>2, <1>3

-----------------------------------------------------------------------------
(* The authors. *)

(* Who starts an instance is not disturbed by new versions. *)
LEMMA GrowingKeeps ==
    ASSUME Inv, UNCHANGED <<start, drafts, trouble>>, versions' \in Seq(Documents),
           Len(versions) <= Len(versions'),
           \A n \in 1 .. Len(versions) : versions'[n] = versions[n]
    PROVE  /\ \A s \in Starters : /\ DOMAIN start'[s] = Fields
                                  /\ start'[s].pc \in Steps /\ start'[s].way \in {"chat", "file"}
                                  /\ start'[s].card \in BOOLEAN
                                  /\ drafts'[s].version \in 0 .. Len(versions')
                                  /\ start'[s].pinned \in 0 .. Len(versions')
           /\ start' = [s \in Starters |-> start'[s]] /\ drafts' = [s \in Starters |-> drafts'[s]]
           /\ StartsInv' /\ DraftsInv' /\ trouble' \in 0 .. Trouble
  <1>1. versions \in Seq(Documents) /\ Len(versions) \in Nat /\ Len(versions') \in Nat
    BY DEF Inv, BookInv, Typed, TypeOK
  <1>2. ASSUME NEW s \in Starters
        PROVE  /\ DOMAIN start'[s] = Fields
               /\ start'[s].pc \in Steps /\ start'[s].way \in {"chat", "file"}
               /\ start'[s].card \in BOOLEAN
               /\ drafts'[s].version \in 0 .. Len(versions')
               /\ start'[s].pinned \in 0 .. Len(versions')
    BY <1>1 DEF Inv, BookInv, Typed, TypeOK
  <1>3. StartsInv'
    <2>1. SUFFICES ASSUME NEW s \in Starters PROVE Chosen(start[s])'
      BY DEF StartsInv
    <2>2. /\ start'[s] = start[s] /\ Chosen(start[s]) /\ start[s].pinned \in 0 .. Len(versions)
          /\ start[s].way \in {"chat", "file"}
      BY DEF Inv, StartsInv, BookInv, Typed, TypeOK
    <2>3. start[s].pinned > 0 => versions'[start[s].pinned] = versions[start[s].pinned]
      BY <1>1, <2>2
    <2>4. versions # << >> => versions' # << >>
      BY <1>1
    <2>5. PICK t : t = start[s]
      OBVIOUS
    <2>6. Chosen(t) /\ (t.pinned > 0 => versions'[t.pinned] = versions[t.pinned])
      BY <2>2, <2>3, <2>5
    <2>7. Chosen(t)'
      <3>1. CASE t.pinned > 0
        <4>1. PICK d, e : d = versions[t.pinned] /\ e = RolesOf(d)
          OBVIOUS
        <4>2. RolesOf(versions[t.pinned]) = e /\ RolesOf(versions'[t.pinned]) = e
          BY <2>6, <3>1, <4>1
        <4> QED
          BY <2>4, <2>6, <3>1, <4>2 DEF Chosen
      <3>2. CASE ~(t.pinned > 0)
        <4>1. /\ ~(t.pc \in {"asked", "answered", "bind"}) /\ ~t.card
              /\ t.pc \in {"status", "latest"} => t.way # "chat" /\ t.owners
                    = IF t.way = "file" THEN OwnersFor({}, t.named)
                      ELSE OwnersFor(RolesOf(versions[t.pinned]), t.named)
          BY <2>6, <3>2 DEF Chosen
        <4>2. t.pc \in {"status", "latest"} => t.way = "file"
          BY <2>2, <2>5, <4>1
        <4> QED
          BY <2>4, <2>6, <3>2, <4>1, <4>2 DEF Chosen
      <3> QED
        BY <3>1, <3>2
    <2> QED
      BY <2>2, <2>5, <2>7
  <1>4. DraftsInv'
    <2>1. SUFFICES ASSUME NEW s \in Starters, drafts[s] # NoDraft PROVE Fits(drafts[s])'
      BY DEF DraftsInv
    <2>2. Fits(drafts[s]) /\ drafts[s].version \in 0 .. Len(versions)
      BY <2>1 DEF Inv, DraftsInv, BookInv, Typed, TypeOK
    <2>3. versions'[drafts[s].version] = versions[drafts[s].version]
      BY <1>1, <2>2 DEF Fits
    <2> QED
      BY <2>2, <2>3 DEF Fits
  <1> QED
    BY <1>2, <1>3, <1>4 DEF Inv, BookInv, Typed, TypeOK

(* A template is created: its log is the one event. *)
LEMMA CreateKeeps ==
    ASSUME Inv, NEW a \in Authors, author[a] = Idle, NEW d \in Documents, CreateTemplate(d),
           turns' \in 0 .. Turns, UNCHANGED <<start, drafts, trouble>>
    PROVE  Inv'
  <1>1. /\ status' = "draft" /\ versions' = <<d>> /\ log' = <<Event("created", 0, 1)>>
        /\ version' = 0 /\ UNCHANGED author /\ status = "absent" /\ version = 0
        /\ Len(versions) = 0 /\ version \in Nat /\ versions \in Seq(Documents)
    BY DEF CreateTemplate, Inv, BookInv, Grown, Typed, TypeOK
  <1>2. /\ log' \in Seq([kind: Kinds, at: Nat, about: Nat]) /\ versions' \in Seq(Documents)
        /\ Len(log') = 1 /\ Len(versions') = 1
        /\ log'[1].kind = "created" /\ log'[1].at = 0
    BY <1>1 DEF Event, Kinds
  <1>3. /\ \A s \in Starters : /\ DOMAIN start'[s] = Fields
                               /\ start'[s].pc \in Steps /\ start'[s].way \in {"chat", "file"}
                               /\ start'[s].card \in BOOLEAN
                               /\ drafts'[s].version \in 0 .. Len(versions')
                               /\ start'[s].pinned \in 0 .. Len(versions')
        /\ start' = [s \in Starters |-> start'[s]] /\ drafts' = [s \in Starters |-> drafts'[s]]
        /\ StartsInv' /\ DraftsInv' /\ trouble' \in 0 .. Trouble
    BY <1>1, <1>2, GrowingKeeps
  <1>4. Typed'
    BY <1>1, <1>2, <1>3 DEF Inv, BookInv, Typed, TypeOK
  <1>5. Grown' /\ ReadsHold'
    BY <1>1, <1>2 DEF Inv, BookInv, Grown, ReadsHold
  <1>6. Told'
    <2>1. \A n : StatusAfter(n)' = After(log', n) /\ (HasLast(n)' <=> Ends(log', n))
      BY LogNamesNext
    <2>2. Ends(log', 1) /\ After(log', 1) = "draft"
      <3>1. log'[0 + 1].kind # "version_added" /\ log'[0 + 1].kind = "created" /\ 0 + 1 = 1
        BY <1>2
      <3>2. Ends(log', 0 + 1) /\ After(log', 0 + 1) = "draft"
        BY <3>1, MoveDecides
      <3> QED
        BY <3>2
    <2>3. Brought(log') = {1}
      BY <1>2 DEF Brought
    <2>4. Cardinality(Brought(log')) = 1
      BY <2>3, FS_Singleton
    <2> QED
      BY <1>1, <1>2, <2>1, <2>2, <2>4 DEF Told, Brought
  <1> QED
    BY <1>3, <1>4, <1>5, <1>6 DEF Inv, BookInv

(* An author that only reads: what it takes away holds as long as nobody   *)
(* commits. *)
LEMMA ReadingKeeps ==
    ASSUME Inv, NEW a \in Authors, NEW r \in {Idle} \cup Task, author' = [author EXCEPT ![a] = r],
           r # Idle =>
             /\ status # "absent" /\ r.saw <= version
             /\ r.saw = version =>
                  /\ Open(r.op)
                  /\ r.pc = "commit" /\ r.op = "version_added" =>
                        r.doc # Latest /\ r.doc \in Documents
                  /\ r.pc = "commit" /\ r.op = "enabled" => r.about = Len(versions),
           UNCHANGED template, turns' \in 0 .. Turns, UNCHANGED <<start, drafts, trouble>>
    PROVE  Inv'
  <1>1. /\ UNCHANGED <<status, version, versions, log>>
        /\ author \in [Authors -> {Idle} \cup Task]
    BY DEF template, Inv, BookInv, Typed
  <1>2. author' \in [Authors -> {Idle} \cup Task] /\ author'[a] = r
        /\ \A b \in Authors \ {a} : author'[b] = author[b]
    BY <1>1
  <1>3. Typed' /\ Grown'
    BY <1>1, <1>2 DEF Inv, BookInv, Typed, TypeOK, Grown
  <1>4. ReadsHold'
    BY <1>1, <1>2 DEF Inv, BookInv, ReadsHold, Open, Latest
  <1>5. \A n : StatusAfter(n)' = StatusAfter(n) /\ HasLast(n)' = HasLast(n)
    BY <1>1 DEF StatusAfter, HasLast, Moves
  <1>6. Told'
    BY <1>1, <1>5 DEF Inv, BookInv, Told, Event
  <1>7. StartsInv' /\ DraftsInv'
    BY <1>1 DEF Inv, StartsInv, Chosen, DraftsInv, Fits
  <1> QED
    BY <1>3, <1>4, <1>6, <1>7 DEF Inv, BookInv

(* An author reads the template: what the operation asks of it is so. *)
LEMMA ReadTemplateKeeps ==
    ASSUME Inv, NEW a \in Authors, NEW op \in Ops, ReadTemplate(a, op), turns' \in 0 .. Turns,
           UNCHANGED <<start, drafts, trouble>>
    PROVE  Inv'
  <1>1. PICK r : r = [pc |-> IF op \in {"version_added", "enabled"} THEN "latest" ELSE "commit",
                      op |-> op, saw |-> version, about |-> 0, doc |-> {}]
    OBVIOUS
  <1>2. author' = [author EXCEPT ![a] = r] /\ Open(op) /\ UNCHANGED template
    BY <1>1 DEF ReadTemplate
  <1>3. /\ r \in Task /\ r.op = op /\ r.saw = version /\ version \in Nat
        /\ r.pc = "commit" => r.op # "version_added" /\ r.op # "enabled"
    BY <1>1 DEF Task, Inv, BookInv, Typed, TypeOK
  <1>4. status # "absent"
    BY <1>2 DEF Open
  <1>5. /\ r.saw <= version /\ Open(r.op)
        /\ r.pc = "commit" /\ r.op = "version_added" =>
              r.doc # Latest /\ r.doc \in Documents
        /\ r.pc = "commit" /\ r.op = "enabled" => r.about = Len(versions)
    BY <1>2, <1>3
  <1> QED
    BY <1>2, <1>3, <1>4, <1>5, ReadingKeeps

(* An author reads the latest version, and is refused or goes on to commit. *)
LEMMA ReadLatestKeeps ==
    ASSUME Inv, NEW a \in Authors, ReadLatest(a), turns' = turns,
           UNCHANGED <<start, drafts, trouble>>
    PROVE  Inv'
  <1>1. /\ author[a].pc = "latest" /\ UNCHANGED template /\ turns' \in 0 .. Turns
        /\ author[a] \in {Idle} \cup Task
    BY DEF ReadLatest, Inv, BookInv, Typed, TypeOK
  <1>2. author[a] \in Task /\ author[a] # Idle /\ Len(versions) \in Nat
    BY <1>1 DEF Idle, Task, Inv, BookInv, Typed, TypeOK
  <1>3. /\ status # "absent" /\ author[a].saw <= version
        /\ author[a].saw = version => Open(author[a].op)
    BY <1>2 DEF Inv, BookInv, ReadsHold
  <1>4. CASE author' = [author EXCEPT ![a] = Idle]
    BY <1>1, <1>4, ReadingKeeps
  <1>5. CASE /\ author[a].op = "enabled"
             /\ author' = [author EXCEPT ![a].pc = "commit", ![a].about = Len(versions)]
    <2>1. PICK r : r = [author[a] EXCEPT !.pc = "commit", !.about = Len(versions)]
      OBVIOUS
    <2>2. /\ r \in Task /\ r.op = "enabled" /\ r.saw = author[a].saw /\ r.about = Len(versions)
      BY <1>2, <1>5, <2>1 DEF Task
    <2>3. author' = [author EXCEPT ![a] = r]
      BY <1>5, <2>1
    <2> QED
      BY <1>1, <1>3, <1>5, <2>2, <2>3, ReadingKeeps
  <1>6. ASSUME NEW d \in Documents, d # Latest, author[a].op = "version_added",
               author' = [author EXCEPT ![a].pc = "commit", ![a].doc = d,
                                        ![a].about = Len(versions) + 1]
        PROVE  Inv'
    <2>1. PICK r : r = [author[a] EXCEPT !.pc = "commit", !.doc = d,
                                         !.about = Len(versions) + 1]
      OBVIOUS
    <2>2. r \in Task /\ r.op = "version_added" /\ r.saw = author[a].saw /\ r.doc = d
      <3>1. DOMAIN author[a] = {"pc", "op", "saw", "about", "doc"}
        BY <1>2 DEF Task
      <3>2. /\ r.pc = "commit" /\ r.doc = d /\ r.about = Len(versions) + 1
            /\ r.op = author[a].op /\ r.saw = author[a].saw
            /\ r = [f \in {"pc", "op", "saw", "about", "doc"} |-> r[f]]
        BY <2>1, <3>1
      <3>3. author[a].op \in Ops /\ author[a].saw \in Nat
        BY <1>2 DEF Task
      <3> QED
        BY <1>2, <1>6, <3>2, <3>3 DEF Task
    <2>3. author' = [author EXCEPT ![a] = r]
      BY <1>6, <2>1
    <2> QED
      BY <1>1, <1>3, <1>6, <2>2, <2>3, ReadingKeeps
  <1> QED
    BY <1>4, <1>5, <1>6 DEF ReadLatest

(* An author that comes too late changes nothing. *)
LEMMA LateKeeps ==
    ASSUME Inv, NEW a \in Authors, author' = [author EXCEPT ![a] = Idle], UNCHANGED template,
           turns' = turns, UNCHANGED <<start, drafts, trouble>>
    PROVE  Inv'
  <1>1. turns' \in 0 .. Turns
    BY DEF Inv, BookInv, Typed, TypeOK
  <1> QED
    BY <1>1, ReadingKeeps

(* The log after a commit. *)
LEMMA WrittenTells ==
    ASSUME Inv, NEW a \in Authors, author[a] # Idle, UnchangedSince(a), Written(a),
           NEW e, e = Event(author[a].op, author[a].saw + 1, author[a].about)
    PROVE  /\ log' \in Seq([kind: Kinds, at: Nat, about: Nat]) /\ Len(log) = version + 1
           /\ Len(log') = version' + 1 /\ version' = version + 1 /\ version \in Nat
           /\ e \in [kind: Kinds, at: Nat, about: Nat] /\ log' = Append(log, e)
           /\ log'[version + 2] = e /\ e.kind = author[a].op /\ author[a].op \in Ops
           /\ \A i \in 1 .. version + 1 :
                 /\ log'[i] = log[i] /\ HasLast(i)'
                 /\ StatusAfter(i)' = StatusAfter(i)
  <1>1. /\ status # "absent" /\ author[a] \in Task /\ author[a].saw = version
        /\ version \in Nat /\ log \in Seq([kind: Kinds, at: Nat, about: Nat])
        /\ Len(log) = version + 1
    BY DEF Inv, BookInv, ReadsHold, Typed, TypeOK, Told, UnchangedSince
  <1>2. author[a].op \in Ops /\ author[a].about \in Nat
    BY <1>1 DEF Task
  <1>3. /\ e \in [kind: Kinds, at: Nat, about: Nat] /\ e.kind = author[a].op
        /\ e.at = version + 1
    BY <1>1, <1>2 DEF Event, Kinds
  <1>4. /\ log' = Append(log, e) /\ version' = version + 1
    BY DEF Written
  <1>5. /\ log' \in Seq([kind: Kinds, at: Nat, about: Nat]) /\ Len(log') = version' + 1
        /\ log'[version + 2] = e
        /\ \A i \in 1 .. version + 1 : log'[i] = log[i]
    BY <1>1, <1>3, <1>4
  <1>6. ASSUME NEW i \in 1 .. version + 1
        PROVE  HasLast(i)' /\ StatusAfter(i)' = StatusAfter(i)
    <2>1. HasLast(i)
      BY <1>1 DEF Inv, BookInv, Told
    <2>2. i \in Nat /\ Ends(log, i) /\ \A j \in 1 .. i : log'[j] = log[j]
      BY <1>1, <1>5, <2>1, LogNames
    <2>3. Ends(log', i) /\ After(log', i) = After(log, i)
      BY <2>2, SameBefore
    <2> QED
      BY <2>3, LogNames, LogNamesNext
  <1> QED
    BY <1>1, <1>2, <1>3, <1>4, <1>5, <1>6

(* What a commit disturbs beside the log and the versions. *)
LEMMA CommitRest ==
    ASSUME Inv, NEW a \in Authors, author[a] # Idle, UnchangedSince(a), Written(a),
           author' = [author EXCEPT ![a] = Idle], turns' = turns,
           UNCHANGED <<start, drafts, trouble>>,
           status' \in {"draft", "enabled", "disabled", "deleted"},
           versions' \in Seq(Documents), Len(versions') \in {Len(versions), Len(versions) + 1},
           \A n \in 1 .. Len(versions) : versions'[n] = versions[n],
           Len(versions') > Len(versions) => versions'[Len(versions) + 1] # Latest
    PROVE  Typed' /\ Grown' /\ ReadsHold' /\ StartsInv' /\ DraftsInv'
  <1>1. PICK e : e = Event(author[a].op, author[a].saw + 1, author[a].about)
    OBVIOUS
  <1>2. /\ version' = version + 1 /\ version \in Nat
        /\ log' \in Seq([kind: Kinds, at: Nat, about: Nat])
    BY <1>1, WrittenTells
  <1>3. /\ versions \in Seq(Documents) /\ Len(versions) \in Nat /\ status # "absent"
        /\ author \in [Authors -> {Idle} \cup Task] /\ turns \in 0 .. Turns
        /\ Len(versions) # 0 /\ \A n \in 1 .. Len(versions) - 1 : versions[n] # versions[n + 1]
    BY DEF Inv, BookInv, Typed, TypeOK, ReadsHold, Grown
  <1>4. Len(versions) <= Len(versions')
    BY <1>3
  <1>5. /\ \A s \in Starters : /\ DOMAIN start'[s] = Fields
                               /\ start'[s].pc \in Steps /\ start'[s].way \in {"chat", "file"}
                               /\ start'[s].card \in BOOLEAN
                               /\ drafts'[s].version \in 0 .. Len(versions')
                               /\ start'[s].pinned \in 0 .. Len(versions')
        /\ start' = [s \in Starters |-> start'[s]] /\ drafts' = [s \in Starters |-> drafts'[s]]
        /\ StartsInv' /\ DraftsInv' /\ trouble' \in 0 .. Trouble
    BY <1>4, GrowingKeeps
  <1>6. author' \in [Authors -> {Idle} \cup Task]
    BY <1>3
  <1>7. Typed'
    BY <1>2, <1>3, <1>5, <1>6 DEF Typed, TypeOK
  <1>8. Grown'
    <2>1. ASSUME NEW n \in 1 .. Len(versions') - 1
          PROVE  versions'[n] # versions'[n + 1]
      <3>1. CASE n < Len(versions)
        <4>1. n \in 1 .. Len(versions) - 1 /\ n \in 1 .. Len(versions) /\ n + 1 \in 1 .. Len(versions)
          BY <1>3, <2>1, <3>1
        <4>2. versions'[n] = versions[n] /\ versions'[n + 1] = versions[n + 1]
          BY <4>1
        <4> QED
          BY <1>3, <4>1, <4>2
      <3>2. CASE n = Len(versions) /\ Len(versions') > Len(versions)
        BY <1>3, <3>2 DEF Latest
      <3> QED
        BY <1>3, <1>4, <2>1, <3>1, <3>2
    <2>2. status' # "absent"
      OBVIOUS
    <2>3. Len(versions') # 0
      BY <1>3, <1>4
    <2> QED
      BY <2>1, <2>2, <2>3 DEF Grown
  <1>9. ReadsHold'
    <2>1. ASSUME NEW b \in Authors, author'[b] # Idle
          PROVE  status' # "absent" /\ author'[b].saw < version'
      <3>1. b # a /\ author'[b] = author[b] /\ author[b] \in Task
        BY <1>3, <2>1
      <3>2. author[b].saw <= version /\ author[b].saw \in Nat
        BY <2>1, <3>1 DEF Inv, BookInv, ReadsHold, Task
      <3> QED
        BY <1>2, <3>1, <3>2
    <2>2. ASSUME NEW b \in Authors, author'[b] # Idle
          PROVE  author'[b].saw <= version' /\ ~(author'[b].saw = version')
      <3>1. author'[b] \in Task /\ author'[b].saw < version'
        BY <1>6, <2>1, <2>2
      <3>2. author'[b].saw \in Nat
        BY <3>1 DEF Task
      <3> QED
        BY <1>2, <3>1, <3>2
    <2> QED
      BY <2>1, <2>2 DEF ReadsHold
  <1> QED
    BY <1>5, <1>7, <1>8, <1>9

(* A version is added to the template the author has read. *)
LEMMA AddVersionKeeps ==
    ASSUME Inv, NEW a \in Authors, author[a].pc = "commit", UnchangedSince(a), Written(a),
           AddVersion(a), author' = [author EXCEPT ![a] = Idle], turns' = turns,
           UNCHANGED <<start, drafts, trouble>>
    PROVE  Inv'
  <1>1. PICK e : e = Event(author[a].op, author[a].saw + 1, author[a].about)
    OBVIOUS
  <1>2. author[a] # Idle /\ author[a].op = "version_added"
    BY DEF AddVersion, Idle
  <1>3. /\ log' \in Seq([kind: Kinds, at: Nat, about: Nat]) /\ Len(log) = version + 1
        /\ Len(log') = version' + 1 /\ version' = version + 1 /\ version \in Nat
        /\ e \in [kind: Kinds, at: Nat, about: Nat] /\ log' = Append(log, e)
        /\ log'[version + 2] = e /\ e.kind = "version_added"
        /\ \A i \in 1 .. version + 1 :
              /\ log'[i] = log[i] /\ HasLast(i)'
              /\ StatusAfter(i)' = StatusAfter(i)
    BY <1>1, <1>2, WrittenTells
  <1>0. PICK p : p = version + 1
    OBVIOUS
  <1>4. /\ author[a].doc # Latest /\ author[a].doc \in Documents /\ author[a].saw = version
        /\ status \in {"draft", "disabled"} /\ versions \in Seq(Documents)
        /\ log \in Seq([kind: Kinds, at: Nat, about: Nat])
    BY <1>2 DEF Inv, BookInv, ReadsHold, Open, UnchangedSince, Typed, TypeOK
  <1>5. /\ versions' \in Seq(Documents) /\ Len(versions') = Len(versions) + 1
        /\ \A n \in 1 .. Len(versions) : versions'[n] = versions[n]
        /\ versions'[Len(versions) + 1] = author[a].doc /\ status' = status
    BY <1>4 DEF AddVersion
  <1>6. Typed' /\ Grown' /\ ReadsHold' /\ StartsInv' /\ DraftsInv'
    BY <1>2, <1>4, <1>5, CommitRest
  <1>7. Told'
    <2>1. /\ status = StatusAfter(p) /\ HasLast(p)
          /\ Len(versions) = Cardinality(Brought(log))
      <3>1. Len(log) = p /\ p \in 1 .. Len(log)
        BY <1>0, <1>3
      <3>2. status # "absent" /\ Told
        BY <1>4 DEF Inv, BookInv
      <3>3. HasLast(p)
        BY <3>1, <3>2 DEF Told
      <3>4. status = StatusAfter(p)
        BY <3>1, <3>2 DEF Told
      <3>5. Len(versions) = Cardinality(Brought(log))
        BY <3>2 DEF Told, Brought
      <3> QED
        BY <3>3, <3>4, <3>5
    <2>2. HasLast(p + 1)' /\ StatusAfter(p + 1)' = status
      <3>1. Ends(log', p) /\ After(log', p) = status
        <4>1. p \in 1 .. version + 1
          BY <1>0, <1>3
        <4>2. HasLast(p)' /\ StatusAfter(p)' = status
          BY <1>3, <2>1, <4>1
        <4> QED
          BY <4>2, LogNamesNext
      <3>2. p \in Nat
        BY <1>0, <1>3
      <3>3. log'[p + 1].kind = "version_added"
        BY <1>0, <1>3, <3>2
      <3>4. Ends(log', p + 1) /\ After(log', p + 1) = status
        BY <1>0, <3>1, <3>2, <3>3, AddLeaves
      <3> QED
        BY <1>0, <3>2, <3>4, LogNamesNext
    <2>3. Len(versions') = Cardinality(Brought(log'))
      BY <1>0, <1>3, <1>4, <1>5, <2>1, BroughtCounts
    <2>4. ASSUME NEW i \in 1 .. p + 1
          PROVE  /\ log'[i].at = i - 1 /\ HasLast(i)'
                 /\ i > 1 => StatusAfter(i - 1)' \in IF log'[i].kind = "disabled" THEN {"enabled"}
                                                     ELSE {"draft", "disabled"}
      <3>1. CASE i \in 1 .. p
        <4>1. /\ log[i].at = i - 1
              /\ i > 1 => StatusAfter(i - 1) \in IF log[i].kind = "disabled" THEN {"enabled"}
                                                 ELSE {"draft", "disabled"}
          BY <1>0, <1>3, <1>4, <3>1 DEF Inv, BookInv, Told
        <4>2. i > 1 => StatusAfter(i - 1)' = StatusAfter(i - 1)
          <5>1. i > 1 => i - 1 \in 1 .. version + 1
            BY <1>0, <1>3, <3>1
          <5> QED
            BY <1>3, <5>1
        <4> QED
          BY <1>0, <1>3, <3>1, <4>1, <4>2
      <3>2. CASE i = p + 1
        <4>1. e.at = p
          BY <1>0, <1>1, <1>4 DEF Event
        <4>2. StatusAfter(p)' = status /\ i - 1 = p
          <5>1. p \in 1 .. version + 1 /\ i - 1 = p
            BY <1>0, <1>3, <3>2
          <5>2. StatusAfter(p)' = StatusAfter(p)
            BY <1>3, <5>1
          <5> QED
            BY <2>1, <5>1, <5>2
        <4> QED
          BY <1>0, <1>3, <1>4, <2>2, <3>2, <4>1, <4>2
      <3> QED
        BY <1>0, <1>3, <2>4, <3>1, <3>2
    <2>5. status' # "absent" /\ status' # "enabled" /\ Len(log') = p + 1
      BY <1>0, <1>3, <1>4, <1>5
    <2> QED
      BY <1>0, <1>3, <1>5, <2>2, <2>3, <2>4, <2>5 DEF Told, Brought
  <1> QED
    BY <1>0, <1>6, <1>7 DEF Inv, BookInv

(* The status of the template the author has read is set. *)
LEMMA SetStatusKeeps ==
    ASSUME Inv, NEW a \in Authors, author[a].pc = "commit", UnchangedSince(a), Written(a),
           SetStatus(a), author' = [author EXCEPT ![a] = Idle], turns' = turns,
           UNCHANGED <<start, drafts, trouble>>
    PROVE  Inv'
  <1>1. PICK e : e = Event(author[a].op, author[a].saw + 1, author[a].about)
    OBVIOUS
  <1>2. author[a] # Idle /\ author[a].op # "version_added"
    BY DEF SetStatus, Idle
  <1>3. /\ log' \in Seq([kind: Kinds, at: Nat, about: Nat]) /\ Len(log) = version + 1
        /\ Len(log') = version' + 1 /\ version' = version + 1 /\ version \in Nat
        /\ e \in [kind: Kinds, at: Nat, about: Nat] /\ log' = Append(log, e)
        /\ log'[version + 2] = e /\ e.kind = author[a].op /\ author[a].op \in Ops
        /\ \A i \in 1 .. version + 1 :
              /\ log'[i] = log[i] /\ HasLast(i)'
              /\ StatusAfter(i)' = StatusAfter(i)
    BY <1>1, <1>2, WrittenTells
  <1>0. PICK p : p = version + 1
    OBVIOUS
  <1>4. /\ author[a].saw = version /\ Open(author[a].op) /\ status # "absent"
        /\ author[a].op = "enabled" => author[a].about = Len(versions)
        /\ versions \in Seq(Documents)
        /\ log \in Seq([kind: Kinds, at: Nat, about: Nat])
    BY <1>2 DEF Inv, BookInv, ReadsHold, UnchangedSince, Typed, TypeOK
  <1>5. /\ versions' = versions /\ status' = author[a].op
        /\ e.kind \in {"enabled", "disabled", "deleted"}
    BY <1>2, <1>3 DEF SetStatus, Ops
  <1>6. Typed' /\ Grown' /\ ReadsHold' /\ StartsInv' /\ DraftsInv'
    <2>1. /\ status' \in {"draft", "enabled", "disabled", "deleted"}
          /\ versions' \in Seq(Documents)
          /\ Len(versions') \in {Len(versions), Len(versions) + 1}
          /\ \A n \in 1 .. Len(versions) : versions'[n] = versions[n]
          /\ ~(Len(versions') > Len(versions))
      BY <1>3, <1>4, <1>5
    <2> QED
      BY <1>2, <2>1, CommitRest
  <1>7. Told'
    <2>1. /\ status = StatusAfter(p)
          /\ Len(versions) = Cardinality(Brought(log))
      <3>1. Len(log) = p /\ p \in 1 .. Len(log)
        BY <1>0, <1>3
      <3>2. status # "absent" /\ Told
        BY <1>4 DEF Inv, BookInv
      <3>3. HasLast(p)
        BY <3>1, <3>2 DEF Told
      <3>4. status = StatusAfter(p)
        BY <3>1, <3>2 DEF Told
      <3>5. Len(versions) = Cardinality(Brought(log))
        BY <3>2 DEF Told, Brought
      <3> QED
        BY <3>3, <3>4, <3>5
    <2>2. HasLast(p + 1)' /\ StatusAfter(p + 1)' = status'
      <3>1. p \in Nat
        BY <1>0, <1>3
      <3>2. log'[p + 1].kind = e.kind
        BY <1>0, <1>3, <3>1
      <3>3. Ends(log', p + 1) /\ After(log', p + 1) = e.kind
        BY <1>0, <1>5, <3>1, <3>2, MoveDecides
      <3> QED
        BY <1>0, <1>3, <1>5, <3>1, <3>3, LogNamesNext
    <2>3. Len(versions') = Cardinality(Brought(log'))
      BY <1>0, <1>3, <1>4, <1>5, <2>1, BroughtCounts
    <2>4. ASSUME NEW i \in 1 .. p + 1
          PROVE  /\ log'[i].at = i - 1 /\ HasLast(i)'
                 /\ i > 1 => StatusAfter(i - 1)' \in IF log'[i].kind = "disabled" THEN {"enabled"}
                                                     ELSE {"draft", "disabled"}
      <3>1. CASE i \in 1 .. p
        <4>1. /\ log[i].at = i - 1
              /\ i > 1 => StatusAfter(i - 1) \in IF log[i].kind = "disabled" THEN {"enabled"}
                                                 ELSE {"draft", "disabled"}
          BY <1>0, <1>3, <1>4, <3>1 DEF Inv, BookInv, Told
        <4>2. i > 1 => StatusAfter(i - 1)' = StatusAfter(i - 1)
          <5>1. i > 1 => i - 1 \in 1 .. version + 1
            BY <1>0, <1>3, <3>1
          <5> QED
            BY <1>3, <5>1
        <4> QED
          BY <1>0, <1>3, <3>1, <4>1, <4>2
      <3>2. CASE i = p + 1
        <4>1. e.at = p
          BY <1>0, <1>1, <1>4 DEF Event
        <4>2. StatusAfter(p)' = status /\ i - 1 = p
          <5>1. p \in 1 .. version + 1 /\ i - 1 = p
            BY <1>0, <1>3, <3>2
          <5>2. StatusAfter(p)' = StatusAfter(p)
            BY <1>3, <5>1
          <5> QED
            BY <2>1, <5>1, <5>2
        <4>3. status \in IF e.kind = "disabled" THEN {"enabled"} ELSE {"draft", "disabled"}
          BY <1>0, <1>3, <1>4 DEF Open
        <4> QED
          BY <1>0, <1>3, <2>2, <3>2, <4>1, <4>2, <4>3
      <3> QED
        BY <1>0, <1>3, <2>4, <3>1, <3>2
    <2>5. status' # "absent" /\ Len(log') = p + 1
      BY <1>0, <1>3, <1>5
    <2>6. status' = "enabled" => log'[Len(log')] = Event("enabled", version', Len(versions'))
      BY <1>0, <1>1, <1>3, <1>4, <1>5, <2>5 DEF Event
    <2> QED
      BY <1>0, <1>3, <1>5, <2>2, <2>3, <2>4, <2>5, <2>6 DEF Told, Brought
  <1> QED
    BY <1>0, <1>6, <1>7 DEF Inv, BookInv

-----------------------------------------------------------------------------
(* Everybody. *)

(* Nobody has begun, and there is no template. *)
LEMMA InitInv == Init => Inv
  <1> SUFFICES ASSUME Init PROVE Inv
    OBVIOUS
  <1>1. ASSUME NEW s \in Starters
        PROVE  /\ DOMAIN start[s] = Fields /\ start[s].pc = "idle" /\ start[s].way = "chat"
               /\ start[s].pinned = 0 /\ ~start[s].card /\ start[s].card \in BOOLEAN
               /\ drafts[s] = NoDraft /\ drafts[s].version = 0
    BY DEF Init, NoStart, NoDraft, Fields
  <1>2. Len(versions) = 0 /\ Len(log) = 0
    BY DEF Init
  <1>3. start = [s \in Starters |-> start[s]] /\ drafts = [s \in Starters |-> drafts[s]]
    BY DEF Init
  <1>4. Typed
    <2>1. /\ status = "absent" /\ version = 0 /\ versions = << >> /\ turns = Turns
          /\ trouble = Trouble
      BY DEF Init
    <2>2. TypeOK
      <3>1. versions \in Seq(Documents)
        BY <2>1
      <3>2. turns \in 0 .. Turns /\ trouble \in 0 .. Trouble
        BY <2>1, TemplatesAssumption
      <3>3. \A s \in Starters : drafts[s].version \in 0 .. Len(versions)
                               /\ start[s].pinned \in 0 .. Len(versions)
        BY <1>1, <1>2
      <3> QED
        BY <2>1, <3>1, <3>2, <3>3 DEF TypeOK
    <2>3. log \in Seq([kind: Kinds, at: Nat, about: Nat])
      BY DEF Init
    <2>4. author \in [Authors -> {Idle} \cup Task]
      BY DEF Init
    <2>5. \A s \in Starters : /\ DOMAIN start[s] = Fields
                              /\ start[s].pc \in Steps /\ start[s].way \in {"chat", "file"}
                              /\ start[s].card \in BOOLEAN
      BY <1>1 DEF Steps
    <2> QED
      BY <1>3, <2>2, <2>3, <2>4, <2>5 DEF Typed
  <1>5. Grown /\ ReadsHold /\ Told
    BY <1>2 DEF Init, Grown, ReadsHold, Told
  <1>6. StartsInv
    BY <1>1 DEF StartsInv, Chosen
  <1>7. DraftsInv
    BY <1>1 DEF DraftsInv
  <1> QED
    BY <1>4, <1>5, <1>6, <1>7 DEF Inv, BookInv

(* Every step of an author, of a starter and of a dying worker keeps the invariant. *)
LEMMA NextInv == Inv /\ [Next]_vars => Inv'
  <1> SUFFICES ASSUME Inv, [Next]_vars PROVE Inv'
    OBVIOUS
  <1>1. CASE UNCHANGED vars
    <2>1. UNCHANGED <<status, version, versions, log, author, start, drafts, turns, trouble>>
      BY <1>1 DEF vars, template
    <2>2. \A n : StatusAfter(n)' = StatusAfter(n) /\ HasLast(n)' = HasLast(n)
      BY <2>1 DEF StatusAfter, HasLast, Moves
    <2>3. Typed' /\ Grown' /\ ReadsHold'
      BY <2>1 DEF Inv, BookInv, Typed, TypeOK, Grown, ReadsHold, Open, Latest
    <2>4. Told'
      BY <2>1, <2>2 DEF Inv, BookInv, Told, Event
    <2>5. StartsInv' /\ DraftsInv'
      BY <2>1 DEF Inv, StartsInv, Chosen, DraftsInv, Fits
    <2> QED
      BY <2>3, <2>4, <2>5 DEF Inv, BookInv
  <1>2. ASSUME NEW a \in Authors, Author(a) PROVE Inv'
    <2>1. UNCHANGED <<start, drafts, trouble>> /\ turns \in 0 .. Turns
      BY <1>2 DEF Author, Inv, BookInv, Typed, TypeOK
    <2>2. ASSUME turns > 0, turns' = turns - 1 PROVE turns' \in 0 .. Turns
      BY <2>1, <2>2, TemplatesAssumption
    <2>3. ASSUME turns > 0, turns' = turns - 1, author[a] = Idle, NEW d \in Documents,
                 CreateTemplate(d)
          PROVE  Inv'
      BY <2>1, <2>2, <2>3, CreateKeeps
    <2>4. ASSUME turns > 0, turns' = turns - 1,
                 NEW op \in {"version_added", "enabled", "disabled", "deleted"}, ReadTemplate(a, op)
          PROVE  Inv'
      BY <2>1, <2>2, <2>4, ReadTemplateKeeps DEF Ops
    <2>5. CASE turns' = turns /\ ReadLatest(a)
      BY <2>1, <2>5, ReadLatestKeeps
    <2>6. CASE turns' = turns /\ Commit(a)
      <3>1. author[a].pc = "commit" /\ author' = [author EXCEPT ![a] = Idle]
        BY <2>6 DEF Commit
      <3>2. CASE UnchangedSince(a) /\ Written(a) /\ AddVersion(a)
        BY <2>1, <2>6, <3>1, <3>2, AddVersionKeeps
      <3>3. CASE UnchangedSince(a) /\ Written(a) /\ SetStatus(a)
        BY <2>1, <2>6, <3>1, <3>3, SetStatusKeeps
      <3>4. CASE UNCHANGED template
        BY <2>1, <2>6, <3>1, <3>4, LateKeeps
      <3> QED
        BY <2>6, <3>2, <3>3, <3>4 DEF Commit
    <2> QED
      BY <1>2, <2>3, <2>4, <2>5, <2>6 DEF Author
  <1>3. ASSUME NEW s \in Starters, Starter(s) PROVE Inv'
    <2>1. UNCHANGED <<template, author, turns, trouble>>
      BY <1>3 DEF Starter
    <2> QED
      BY <1>3, <2>1, CallKeeps, SayKeeps, ReadRolesKeeps, ReadStatusKeeps, InstantiateKeeps,
         AnswerKeeps, BindKeeps, SettleKeeps DEF Starter
  <1>4. ASSUME NEW s \in Starters, Die(s) PROVE Inv'
    BY <1>4, DieKeeps
  <1> QED
    BY <1>1, <1>2, <1>3, <1>4 DEF Next

(* So it always holds. *)
LEMMA Always == Spec => []Inv
  BY InitInv, NextInv, PTL DEF Spec

(* The audit log of a template tells its life, for any number of authors,  *)
(* documents and versions, and of people who start instances meanwhile:    *)
(* the events are numbered without gaps, each was legal where it stands,   *)
(* and together they lead to the row and to the versions                   *)
(* (template_service.py, postgres.py expected_template_version). *)
THEOREM LogIsTheLife == Spec => []LogTellsTheLife
  <1>1. Inv => LogTellsTheLife
    BY DEF Inv, BookInv, Typed, Grown, Told, LogTellsTheLife
  <1> QED
    BY <1>1, Always, PTL

(* An instance started from a template has exactly the roles its owners    *)
(* were chosen for, and with several roles somebody was named, whatever    *)
(* becomes of the template while the chat command is under way or is       *)
(* retried (im_commands.py, role_bindings.py RoleBindingActionWorker). *)
THEOREM RolesWereAnswered == Spec => []EveryRoleAnswered
  <1>1. Inv => EveryRoleAnswered
    BY DEF Inv, DraftsInv, Fits, EveryRoleAnswered
  <1> QED
    BY <1>1, Always, PTL

-----------------------------------------------------------------------------
(***************************************************************************)
(* Proofs about Planning.  The validator's rules are local: they speak of  *)
(* first nodes, last nodes and direct neighbours.  The lemmas about graphs *)
(* say what they amount to along every chain, and PlanInv that only what   *)
(* the validator accepts is kept.                                          *)
(***************************************************************************)
(* Whoever made the plan that is being checked has written its nodes down, *)
(* the travel plan is the template's, and a plan that is kept has passed.  *)
FromTemplate ==
    /\ plan.nodes = TravelPlan.nodes /\ plan.deps = TravelPlan.deps
    /\ plan.asks = TravelPlan.asks

PlanInv ==
    /\ request \in Requests /\ calls \in 0 .. MaxCalls
    /\ pc \in {"asked", "model", "proposed", "planned", "saved", "rejected", "failed"}
    /\ pc = "asked" => calls = 0
    /\ pc = "model" => calls < MaxCalls
    /\ pc \in {"model", "proposed", "planned", "saved"} => ~Refused(request) /\ ~Unavailable(request)
    /\ pc = "model" => ~Deterministic(request)
    /\ pc \in {"proposed", "planned", "saved"} =>
        /\ "nodes" \in DOMAIN plan /\ plan.nodes \subseteq Keys
        /\ Deterministic(request) => {"nodes", "deps", "asks"} \subseteq DOMAIN plan /\ FromTemplate
    /\ pc \in {"planned", "saved"} => Acceptable(plan, request)

-----------------------------------------------------------------------------
(* A node is affected by each of its dependencies. *)
LEMMA DependencyAffects ==
    ASSUME NEW d, NEW x \in d.nodes, NEW k \in d.deps[x]
    PROVE  x \in Affected(d, k)
  BY DEF Affected, SuccessorClosed

(* What is affected by a node is affected by its dependencies, too. *)
LEMMA AffectedFurther ==
    ASSUME NEW d, NEW x \in d.nodes, NEW y \in d.deps[x], NEW k \in Affected(d, x)
    PROVE  k \in Affected(d, y)
  <1>1. k \in d.nodes
    BY DEF Affected
  <1>2. ASSUME NEW C \in SUBSET d.nodes, y \in C, SuccessorClosed(d, C)
        PROVE  k \in C
    <2>1. x \in C
      BY <1>2 DEF SuccessorClosed
    <2> QED
      BY <1>2, <2>1 DEF Affected
  <1> QED
    BY <1>1, <1>2 DEF Affected

(* Sending work back to a node never affects another root. *)
LEMMA RootsStay ==
    ASSUME NEW d, NEW t \in d.nodes, d.deps[t] # {}
    PROVE  Affected(d, t) \cap Roots(d) = {}
  <1> SUFFICES ASSUME NEW r \in Affected(d, t), r \in Roots(d)
               PROVE  FALSE
    OBVIOUS
  <1> DEFINE C == d.nodes \ {r}
  <1>1. r \in d.nodes /\ d.deps[r] = {}
    BY DEF Roots
  <1>2. t \in C
    BY <1>1
  <1>3. SuccessorClosed(d, C)
    BY <1>1 DEF SuccessorClosed
  <1>4. r \in C
    BY <1>2, <1>3 DEF Affected
  <1> QED
    BY <1>4

(* Above every node of a graph without cycles there is a root. *)
LEMMA RootAbove ==
    ASSUME NEW d, Valid(d), NEW k \in d.nodes
    PROVE  \E r \in Roots(d) : k \in Affected(d, r)
  <1> DEFINE A == {x \in d.nodes : k \in Affected(d, x)}
  <1>1. k \in A
    BY DEF Affected
  <1>2. PICK x \in A : d.deps[x] \cap A = {}
    BY <1>1 DEF Valid, Acyclic
  <1>3. d.deps[x] = {}
    <2> SUFFICES ASSUME NEW y \in d.deps[x]
                 PROVE  FALSE
      OBVIOUS
    <2>1. y \in d.nodes
      BY <1>2 DEF Valid
    <2>2. k \in Affected(d, y)
      BY <1>2, AffectedFurther
    <2> QED
      BY <1>2, <2>1, <2>2
  <1> QED
    BY <1>2, <1>3 DEF Roots

-----------------------------------------------------------------------------
(* In an acceptable plan agents work for people, whatever its shape. *)
LEMMA AcceptableServesPeople ==
    ASSUME NEW d, NEW r, Acceptable(d, r), NEW a \in Agents(d)
    PROVE  /\ \E k \in d.nodes \ {a} : a \in Affected(d, k)
           /\ \A k \in Roots(d) : Plain(d, k)
           /\ \A k \in Affected(d, a) : Successors(d, k) = {} =>
                /\ k \in Decisions(d)
                /\ d.executor[d.rejectTarget[k]] = "agent"
                /\ k \in Affected(d, d.rejectTarget[k])
                /\ Affected(d, d.rejectTarget[k]) \cap Roots(d) = {}
  <1>1. /\ Valid(d) /\ WellFormed(d, r)
        /\ StartsWithPeople(d) /\ EndsWithPeople(d)
    BY DEF Acceptable, Supervised, ValidDefinition
  <1>2. a \in d.nodes /\ d.deps[a] # {}
    BY <1>1 DEF WellFormed, Agents
  <1>3. \E k \in d.nodes \ {a} : a \in Affected(d, k)
    <2>1. PICK k \in d.deps[a] : TRUE
      BY <1>2
    <2>2. k \in d.nodes \ {a}
      BY <1>1, <1>2 DEF Valid
    <2> QED
      BY <1>2, <2>1, <2>2, DependencyAffects
  <1>4. ASSUME NEW k \in Affected(d, a), Successors(d, k) = {}
        PROVE  /\ k \in Decisions(d)
               /\ d.executor[d.rejectTarget[k]] = "agent"
               /\ k \in Affected(d, d.rejectTarget[k])
               /\ Affected(d, d.rejectTarget[k]) \cap Roots(d) = {}
    <2>1. k \in Decisions(d)
      BY <1>1, <1>4 DEF EndsWithPeople, Terminals, Affected
    <2> DEFINE t == d.rejectTarget[k]
    <2>2. k \in d.nodes /\ t \in d.deps[k] /\ t \in d.nodes
      BY <1>1, <2>1 DEF Decisions, Valid
    <2>3. d.executor[t] = "agent"
      BY <1>1, <2>1 DEF WellFormed
    <2>4. d.deps[t] # {}
      BY <1>1, <2>2, <2>3 DEF WellFormed, Agents
    <2> HIDE DEF t
    <2>5. k \in Affected(d, t) /\ Affected(d, t) \cap Roots(d) = {}
      BY <2>2, <2>4, DependencyAffects, RootsStay
    <2> QED
      BY <2>1, <2>3, <2>5 DEF t
  <1> QED
    BY <1>1, <1>3, <1>4 DEF StartsWithPeople

(* In an acceptable travel plan without the web every result was made from *)
(* sources a person handed over.                                           *)
LEMMA AcceptableReadsSources ==
    ASSUME NEW d, NEW r, Acceptable(d, r), r.travel, r.noWeb
    PROVE  /\ Tools(d) = {}
           /\ \A k \in Decisions(d) :
                \E s \in Sources(d) : d.rejectTarget[k] \in Affected(d, s)
  <1>1. Valid(d) /\ Tools(d) = {} /\ ReviewedReadSources(d)
    BY DEF Acceptable, Suits, ValidDefinition
  <1>2. ASSUME NEW k \in Decisions(d)
        PROVE  \E s \in Sources(d) : d.rejectTarget[k] \in Affected(d, s)
    <2>1. d.rejectTarget[k] \in d.nodes
      BY <1>1 DEF Decisions, Valid
    <2>2. PICK s \in Sources(d) : s \in d.deps[d.rejectTarget[k]]
      BY <1>1, <1>2 DEF ReviewedReadSources
    <2> QED
      BY <2>1, <2>2, DependencyAffects
  <1> QED
    BY <1>1, <1>2

(* In an acceptable travel plan with the web both topics were researched   *)
(* for an agent, below some root. *)
LEMMA AcceptableResearches ==
    ASSUME NEW d, NEW r, Acceptable(d, r), r.travel, ~r.noWeb, NEW t \in Topics
    PROVE  \E k \in Tools(d) :
              /\ t \in d.topics[k]
              /\ Affected(d, k) \cap Agents(d) # {}
              /\ \E s \in Roots(d) : k \in Affected(d, s)
  <1>1. Valid(d) /\ Researched(d)
    BY DEF Acceptable, Suits, ValidDefinition
  <1>2. PICK k \in Tools(d), a \in Agents(d) : t \in d.topics[k] /\ k \in d.deps[a]
    BY <1>1 DEF Researched
  <1>3. a \in Affected(d, k)
    BY <1>2, DependencyAffects DEF Agents
  <1>4. \E s \in Roots(d) : k \in Affected(d, s)
    BY <1>1, <1>2, RootAbove DEF Tools
  <1> QED
    BY <1>2, <1>3, <1>4

(* An acceptable plan can be made into a draft for its two people. *)
LEMMA AcceptableIsUsable ==
    ASSUME NEW d, NEW r, Acceptable(d, r)
    PROVE  /\ RolesOf(d) \subseteq Roles
           /\ CanInstantiate(d, d.takes, [q \in RolesOf(d) |-> q])
  BY DEF Acceptable, WellFormed, KnownOwners, ValidDefinition, CanInstantiate, FitsRoles

-----------------------------------------------------------------------------
(* Binding the inputs changes no part of the graph. *)
LEMMA BoundGraph ==
    ASSUME NEW d, NEW r
    PROVE  /\ DOMAIN Bound(d, r) = DOMAIN d
           /\ "nodes" \in DOMAIN d => Bound(d, r).nodes = d.nodes
           /\ {"nodes", "deps", "asks"} \subseteq DOMAIN d =>
                Bound(d, r).deps = d.deps /\ Bound(d, r).asks = d.asks
  BY DEF Bound

(* A request comes in. *)
LEMMA InitPlan == PlanInit => PlanInv
  BY DEF PlanInit, PlanInv, MaxCalls

(* The request is refused, goes to a model, or gets the travel plan. *)
LEMMA AskKeeps ==
    ASSUME PlanInv, Ask
    PROVE  PlanInv'
  <1>1. request' = request /\ calls' = calls
    BY DEF Ask, Goto
  <1>2. CASE pc' = "rejected"
    BY <1>1, <1>2 DEF PlanInv
  <1>4. CASE /\ pc' = "model"
             /\ ~Refused(request) /\ ~Unavailable(request) /\ ~Deterministic(request)
    BY <1>1, <1>4 DEF PlanInv, Ask, Refused, Unavailable, Deterministic, MaxCalls
  <1>3. CASE /\ pc' = "proposed" /\ plan' = TravelPlan
             /\ ~Refused(request) /\ ~Unavailable(request)
    BY <1>1, <1>3, PlanAssumption
    DEF PlanInv, FromTemplate, Refused, Unavailable, Deterministic
  <1> QED
    BY <1>2, <1>3, <1>4 DEF Ask, Goto

(* A model has answered: only what the validator accepts is proposed. *)
LEMMA AnsweredKeeps ==
    ASSUME PlanInv, Answered
    PROVE  PlanInv'
  <1>1. /\ pc = "model" /\ calls' = calls + 1 /\ request' = request
        /\ calls \in 0 .. MaxCalls /\ calls < MaxCalls
        /\ request \in Requests /\ ~Refused(request) /\ ~Unavailable(request)
        /\ ~Deterministic(request)
    BY DEF Answered, PlanInv
  <1>2. calls' \in 0 .. MaxCalls
    BY <1>1 DEF MaxCalls
  <1>3. CASE pc' = (IF calls' < MaxCalls THEN "model" ELSE "rejected")
    BY <1>1, <1>2, <1>3 DEF PlanInv, Refused, Unavailable, Deterministic
  <1>4. CASE /\ pc' = "proposed"
             /\ plan' \in {d \in {Bound(c, request) : c \in Candidates(request)} :
                              Acceptable(d, request)}
    <2>1. PICK c \in Candidates(request) : plan' = Bound(c, request)
      BY <1>4
    <2>2. "nodes" \in DOMAIN plan' /\ plan'.nodes \subseteq Keys
      BY <1>1, <2>1, BoundGraph, PlanAssumption
    <2> QED
      BY <1>1, <1>2, <1>4, <2>2 DEF PlanInv, Refused, Unavailable, Deterministic
  <1> QED
    BY <1>3, <1>4 DEF Answered

(* The plan is bound and checked again, the travel plan like any other. *)
LEMMA CheckKeeps ==
    ASSUME PlanInv, Check
    PROVE  PlanInv'
  <1>1. /\ pc = "proposed" /\ request' = request /\ calls' = calls
        /\ plan' = Bound(plan, request)
        /\ pc' = IF Acceptable(plan', request') THEN "planned" ELSE "rejected"
    BY DEF Check
  <1>2. /\ "nodes" \in DOMAIN plan' /\ plan'.nodes \subseteq Keys
        /\ Deterministic(request) => {"nodes", "deps", "asks"} \subseteq DOMAIN plan' /\ FromTemplate'
    BY <1>1, BoundGraph DEF PlanInv, FromTemplate
  <1> QED
    BY <1>1, <1>2 DEF PlanInv, Refused, Unavailable, Deterministic

(* An accepted plan can be made into a draft: the worker knows its roles. *)
LEMMA MaterializeKeeps ==
    ASSUME PlanInv, Materialize
    PROVE  PlanInv'
  <1>1. Acceptable(plan, request) /\ pc = "planned"
    BY DEF PlanInv, Materialize
  <1>2. pc' = "saved" /\ UNCHANGED <<request, calls, plan>>
    BY <1>1, AcceptableIsUsable DEF Materialize, Goto
  <1> QED
    BY <1>1, <1>2 DEF PlanInv, FromTemplate, Refused, Unavailable, Deterministic

(* Every step of the planning keeps the invariant. *)
LEMMA NextPlan == PlanInv /\ [PlanNext]_planVars => PlanInv'
  <1> SUFFICES ASSUME PlanInv, [PlanNext]_planVars
               PROVE  PlanInv'
    OBVIOUS
  <1>1. CASE UNCHANGED planVars
    BY <1>1 DEF planVars, PlanInv, FromTemplate, Refused, Unavailable, Deterministic
  <1>2. CASE Unreachable
    BY <1>2 DEF Unreachable, Goto, PlanInv
  <1> QED
    BY <1>1, <1>2, AskKeeps, AnsweredKeeps, CheckKeeps, MaterializeKeeps DEF PlanNext

(* A kept travel plan that uses the web is the template: its only way in   *)
(* is the form. *)
LEMMA TemplateAsks ==
    ASSUME PlanInv, pc \in {"planned", "saved"}, request.travel, ~request.noWeb,
           NEW s \in Roots(plan)
    PROVE  plan.asks[s] # {}
  <1>1. request \in Request /\ ~Unavailable(request)
    BY RequestAssumption DEF PlanInv
  <1>2. Deterministic(request)
    BY <1>1 DEF Unavailable, Deterministic, Request
  <1>3. FromTemplate
    BY <1>2 DEF PlanInv
  <1> QED
    BY <1>3, PlanAssumption DEF FromTemplate, Roots

-----------------------------------------------------------------------------
(* Agents work for people: in a plan that is kept, however it branches,    *)
(* every chain to an agent starts with a person who only gives input, and  *)
(* every chain on from it ends with a person who accepts or sends work     *)
(* back to an agent, never to the start; and somebody is known for every   *)
(* role (the local checks of draft_validation.py 195-385).                 *)
THEOREM PlansServePeople == PlanSpec => []AgentsAnswerToPeople
  <1>1. PlanInv => AgentsAnswerToPeople
    <2> SUFFICES ASSUME PlanInv
                 PROVE  AgentsAnswerToPeople
      OBVIOUS
    <2>1. PlanTypeOK
      BY RequestAssumption DEF PlanInv, PlanTypeOK
    <2>2. pc # "unusable"
      BY DEF PlanInv
    <2>3. ASSUME pc \in {"planned", "saved"}, NEW a \in Agents(plan)
          PROVE  /\ \E k \in plan.nodes \ {a} : a \in Affected(plan, k)
                 /\ \A k \in Roots(plan) : Plain(plan, k)
                 /\ \A k \in Affected(plan, a) : Successors(plan, k) = {} =>
                      /\ k \in Decisions(plan)
                      /\ plan.executor[plan.rejectTarget[k]] = "agent"
                      /\ k \in Affected(plan, plan.rejectTarget[k])
                      /\ Affected(plan, plan.rejectTarget[k]) \cap Roots(plan) = {}
      BY <2>3, AcceptableServesPeople DEF PlanInv
    <2> QED
      BY <2>1, <2>2, <2>3 DEF AgentsAnswerToPeople
  <1> QED
    BY <1>1, InitPlan, NextPlan, PTL DEF PlanSpec

(* A travel plan that is kept rests on sources: on what a person handed    *)
(* over where the web is forbidden, else on research for both topics after *)
(* people were asked (draft_validation.py 445-593, travel.py 63-270).      *)
THEOREM TravelPlansHaveSources == PlanSpec => []TravelRestsOnSources
  <1>1. PlanInv => TravelRestsOnSources
    <2> SUFFICES ASSUME PlanInv, pc \in {"planned", "saved"}, request.travel
                 PROVE  IF request.noWeb
                        THEN /\ Tools(plan) = {} /\ request.material = "complete"
                             /\ \A k \in Decisions(plan) :
                                 \E s \in Sources(plan) :
                                    plan.rejectTarget[k] \in Affected(plan, s)
                        ELSE \A t \in Topics : \E k \in Tools(plan) :
                                /\ t \in plan.topics[k]
                                /\ Affected(plan, k) \cap Agents(plan) # {}
                                /\ \E s \in Roots(plan) :
                                    plan.asks[s] # {} /\ k \in Affected(plan, s)
      BY DEF TravelRestsOnSources
    <2>1. Acceptable(plan, request) /\ ~Refused(request)
      BY DEF PlanInv
    <2>2. CASE request.noWeb
      BY <2>1, <2>2, AcceptableReadsSources DEF Refused
    <2>3. CASE ~request.noWeb
      <3> SUFFICES ASSUME NEW t \in Topics
                   PROVE  \E k \in Tools(plan) :
                            /\ t \in plan.topics[k]
                            /\ Affected(plan, k) \cap Agents(plan) # {}
                            /\ \E s \in Roots(plan) :
                                 plan.asks[s] # {} /\ k \in Affected(plan, s)
        BY <2>3
      <3>1. \A s \in Roots(plan) : plan.asks[s] # {}
        BY <2>3, TemplateAsks
      <3>2. \E k \in Tools(plan) :
              /\ t \in plan.topics[k]
              /\ Affected(plan, k) \cap Agents(plan) # {}
              /\ \E s \in Roots(plan) : k \in Affected(plan, s)
        BY <2>1, <2>3, AcceptableResearches
      <3> QED
        BY <3>1, <3>2
    <2> QED
      BY <2>2, <2>3
  <1> QED
    BY <1>1, InitPlan, NextPlan, PTL DEF PlanSpec

=============================================================================
