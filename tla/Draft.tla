-------------------------------- MODULE Draft --------------------------------
(***************************************************************************)
(* A flow that is drafted on the web console.  Its owner collects files    *)
(* and selects shared knowledge, on several pages, and asks for the draft; *)
(* that freezes both.  Workers with leases build the context, have a       *)
(* candidate generated, freeze it with the request, create the instance    *)
(* and give it the files, while the owner may cancel and the administrator *)
(* may revoke what was selected.                                           *)
(*                                                                         *)
(* One request is modelled.  The catalog is Knowledge.tla's.  Trouble      *)
(* bounds deaths, failures and leases that run out under a worker.         *)
(***************************************************************************)
EXTENDS Knowledge, FiniteSets

CONSTANTS Files, Pages, Workers, Scopes, MaxTries, MaxFiles

ASSUME DraftAssumption ==
    /\ Nobody \notin Workers
    /\ MaxTries \in Nat \ {0} /\ MaxFiles \in Nat
    /\ Scopes \subseteq [sources: SUBSET Sources, files: SUBSET Files,
                         edits: Nat, catalog: BOOLEAN, trouble: Nat]

VARIABLES
    scope,      \* bounds: sources, files, edits of the selection, trouble
    request,    \* the row of the request
    page,       \* selection and its version, as each page shows them
    file,       \* upload and row of each file
    blobs,      \* files whose text is in the blob store
    bound,      \* files whose row names the instance
    instance,   \* what the instance under this request's id was made of
    job,        \* memory of the workers
    made,       \* history: candidates generated
    trouble

collecting == <<page, file, blobs>>
vars == <<scope, catalog, request, collecting, bound, instance, job, made, trouble>>

Working == {"generating", "repairing", "creating"}
Over == {"ready", "rejected", "exhausted", "canceled"}
NoInstance == [definition |-> 0, files |-> {}, refs |-> {}]
Idle == [pc |-> "idle", definition |-> 0, tries |-> 0]
Spend == trouble > 0 /\ trouble' = trouble - 1

(* A deferred request collects first; any other is queued as it comes.  A  *)
(* second POST of the same request finds the row and changes nothing. *)
NewRequests ==
    [status: {"collecting", "pending"}, selection: {{}}, version: {0}, files: {{}},
     refs: {{}}, definition: {0}, holder: {Nobody}, live: {FALSE}, tries: {0}]

Init ==
    /\ CatalogInit
    /\ scope \in Scopes
    /\ request \in NewRequests
    /\ page = [p \in Pages |-> [selection |-> {}, version |-> 0]]
    /\ file = [f \in Files |-> "absent"]
    /\ blobs = {} /\ bound = {} /\ instance = NoInstance
    /\ job = [w \in Workers |-> Idle]
    /\ made = 0 /\ trouble = scope.trouble

-----------------------------------------------------------------------------
(* The owner *)

(* GET knowledge-selection *)
Open(p) ==
    /\ request.status = "collecting"
    /\ page' = [page EXCEPT ![p] = [selection |-> request.selection,
                                    version |-> request.version]]
    /\ UNCHANGED <<catalog, request, file, blobs, bound, instance, job, made, trouble>>

(* Sources that cannot be seen may stay selected, but are not added. *)
Selectable == {s \in scope.sources : Published(s) # {}} \cup request.selection

(* A slip: the last page to save wins. *)
AnyPage(p) == TRUE

UpToDate(p) == page[p].version = request.version

(* save_selection; saving what is selected already changes nothing. *)
Select(p, chosen) ==
    /\ request.status = "collecting" /\ request.version < scope.edits
    /\ chosen # request.selection /\ chosen \subseteq Selectable /\ UpToDate(p)
    /\ request' = [request EXCEPT !.selection = chosen, !.version = @ + 1]
    /\ page' = [page EXCEPT ![p] = [selection |-> chosen, version |-> request.version + 1]]
    /\ UNCHANGED <<catalog, file, blobs, bound, instance, job, made, trouble>>

(* upload: the request is asked, the body stored, and the row created if   *)
(* the request still collects and the quota allows. *)
Authorize(f) ==
    /\ f \in scope.files /\ file[f] = "absent" /\ request.status = "collecting"
    /\ file' = [file EXCEPT ![f] = "authorized"]
    /\ UNCHANGED <<catalog, request, page, blobs, bound, instance, job, made, trouble>>

StoreBody(f) ==
    /\ file[f] = "authorized"
    /\ file' = [file EXCEPT ![f] = "stored"] /\ blobs' = blobs \cup {f}
    /\ UNCHANGED <<catalog, request, page, bound, instance, job, made, trouble>>

(* The quota of the request counts what was revoked, too. *)
HasRoom == Cardinality({f \in Files : file[f] \in {"ready", "revoked"}}) < MaxFiles

Admits == request.status = "collecting" /\ HasRoom

(* When the row is refused, or its commit not answered, the body is deleted. *)
CreateRow(f) ==
    /\ file[f] = "stored"
    /\ \/ /\ Admits
          /\ file' = [file EXCEPT ![f] = "ready"]
          /\ UNCHANGED <<blobs, trouble>>
       \/ /\ ~Admits
          /\ file' = [file EXCEPT ![f] = "gone"]
          /\ blobs' = blobs \ {f}
          /\ UNCHANGED trouble
       \/ /\ Spend
          /\ file' = [file EXCEPT ![f] = IF Admits THEN "ready" ELSE "gone"]
          /\ blobs' = blobs \ {f}
    /\ UNCHANGED <<catalog, request, page, bound, instance, job, made>>

(* The process that uploads dies; a body it stored stays. *)
UploadDies(f) ==
    /\ file[f] \in {"authorized", "stored"} /\ Spend
    /\ file' = [file EXCEPT ![f] = "gone"]
    /\ UNCHANGED <<catalog, request, page, blobs, bound, instance, job, made>>

RevokeFile(f) ==
    /\ file[f] = "ready" /\ request.status = "collecting"
    /\ file' = [file EXCEPT ![f] = "revoked"]
    /\ UNCHANGED <<catalog, request, page, blobs, bound, instance, job, made, trouble>>

ReadyFiles == {f \in Files : file[f] = "ready"}

Current(s) == CHOOSE v \in Published(s) : TRUE

(* freeze_and_queue: everything selected must be published right now. *)
FreezeAndQueue ==
    /\ request.status = "collecting"
    /\ \A s \in request.selection : Published(s) # {}
    /\ request' = [request EXCEPT !.status = "pending", !.files = ReadyFiles,
                                  !.refs = {<<s, Current(s)>> : s \in request.selection}]
    /\ UNCHANGED <<catalog, collecting, bound, instance, job, made, trouble>>

Released(status) ==
    [request EXCEPT !.status = status, !.holder = Nobody, !.live = FALSE]

Cancelable == {"pending", "generating", "repairing", "failed"}

Cancel ==
    /\ request.status \in Cancelable
    /\ request' = Released("canceled")
    /\ UNCHANGED <<catalog, collecting, bound, instance, job, made, trouble>>

Owner ==
    \/ \E p \in Pages : Open(p) \/ \E chosen \in SUBSET scope.sources : Select(p, chosen)
    \/ \E f \in Files : \/ Authorize(f) \/ StoreBody(f) \/ CreateRow(f)
                        \/ UploadDies(f) \/ RevokeFile(f)
    \/ FreezeAndQueue \/ Cancel

Administrator ==
    /\ scope.catalog
    /\ \/ CatalogStep /\ UNCHANGED trouble
       \/ Spend /\ \E a \in Admins : InsertFails(a)
    /\ UNCHANGED <<request, collecting, bound, instance, job, made>>

-----------------------------------------------------------------------------
(* Leases *)

(* A slip: a worker that died while it repaired is not missed. *)
ForgottenRepair ==
    \/ request.status \in {"pending", "failed"}
    \/ request.status \in {"generating", "creating"} /\ ~request.live

Claimable ==
    \/ request.status \in {"pending", "failed"}
    \/ request.status \in Working /\ ~request.live

(* With a candidate there is nothing left to generate.  Tries count on     *)
(* after MaxTries when workers die, to no effect. *)
Claim(w) ==
    LET tries == IF request.tries < MaxTries THEN request.tries + 1 ELSE MaxTries IN
    /\ job[w].pc = "idle" /\ Claimable
    /\ request' = [request EXCEPT !.status = IF request.definition = 0 THEN "generating"
                                             ELSE "creating",
                                  !.holder = w, !.live = TRUE, !.tries = tries]
    /\ job' = [job EXCEPT ![w] = [pc |-> "claimed", definition |-> request.definition,
                                  tries |-> tries]]
    /\ UNCHANGED <<catalog, collecting, bound, instance, made, trouble>>

Goto(w, pc) ==
    /\ job' = [job EXCEPT ![w] = IF pc = "idle" THEN Idle ELSE [@ EXCEPT !.pc = pc]]
    /\ UNCHANGED <<catalog, collecting, bound, instance>>

Holds(w) == request.status \in Working /\ request.holder = w

(* InvalidConsoleDraftClaimError, at an assertion or a write; whether the  *)
(* request was canceled decides only what is reported. *)
LostClaim(w) ==
    /\ \/ job[w].pc \in {"claimed", "issued", "generated", "promoted", "rejected", "failed"}
          /\ ~Holds(w)
       \/ job[w].pc = "generated" /\ request.definition # 0
    /\ Goto(w, "idle") /\ UNCHANGED <<request, made, trouble>>

LeaseEnds ==
    /\ request.live
    /\ request' = [request EXCEPT !.live = FALSE]
    /\ IF job[request.holder].pc # "idle" THEN Spend ELSE UNCHANGED trouble
    /\ UNCHANGED <<catalog, collecting, bound, instance, job, made>>

Die(w) ==
    /\ job[w].pc # "idle" /\ Spend
    /\ Goto(w, "idle") /\ UNCHANGED <<request, made>>

-----------------------------------------------------------------------------
(* ConsoleDraftWorker._apply *)

Check(w) ==
    /\ job[w].pc = "claimed" /\ Holds(w)
    /\ Goto(w, "gather") /\ UNCHANGED <<request, made, trouble>>

(* _authorize_current: exactly the frozen version must be published. *)
Authorized(refs) == \A x \in refs : row[x].status = "published"

(* resolve_for_planning: every frozen file still has its row. *)
Resolved ==
    \/ request.files = {}
    \/ request.status \in Working \cup {"pending", "failed"} /\ request.files \subseteq ReadyFiles

(* AttachmentBlobStore.get *)
FilesReadable == request.files \subseteq blobs

Readable == FilesReadable /\ request.refs \subseteq bodies

(* build_for_planning: a body that is missing rejects the request. *)
Gather(w) ==
    /\ job[w].pc = "gather"
    /\ Goto(w, IF Resolved /\ Authorized(request.refs) /\ Readable THEN "gathered"
               ELSE "rejected")
    /\ UNCHANGED <<request, made, trouble>>

(* authorize_for_context, under the lock a revoke takes: the issuance. *)
MayIssue(refs) == Authorized(refs)

AuthorizeFinal(w) ==
    /\ job[w].pc = "gathered"
    /\ Goto(w, IF MayIssue(request.refs) THEN "issued" ELSE "rejected")
    /\ UNCHANGED <<request, made, trouble>>

Recheck(w) ==
    /\ job[w].pc = "issued" /\ Holds(w)
    /\ Goto(w, IF job[w].definition = 0 THEN "generate" ELSE "create")
    /\ UNCHANGED <<request, made, trouble>>

(* The first candidate is invalid; on_repair says so, or finds the claim   *)
(* lost. *)
Repair(w) ==
    /\ job[w].pc = "generate"
    /\ IF Holds(w) /\ request.status = "generating"
       THEN /\ request' = [request EXCEPT !.status = "repairing"]
            /\ Goto(w, "repair")
       ELSE Goto(w, "idle") /\ UNCHANGED request
    /\ UNCHANGED <<made, trouble>>

(* Whatever the model answers, no candidate equals an earlier one. *)
Generate(w) ==
    /\ job[w].pc \in {"generate", "repair"}
    /\ \/ /\ made' = made + 1
          /\ job' = [job EXCEPT ![w].pc = "generated", ![w].definition = made + 1]
          /\ UNCHANGED <<catalog, collecting, bound, instance>>
       \/ Goto(w, "rejected") /\ UNCHANGED made
    /\ UNCHANGED <<request, trouble>>

(* A slip: the candidate of a worker that was replaced is saved too. *)
SavesLate(w) == request.status \in Working

Saves(w) == /\ Holds(w)
            /\ request.status \in {"generating", "repairing"} /\ request.definition = 0

(* save_candidate *)
SaveCandidate(w) ==
    /\ job[w].pc = "generated" /\ Saves(w)
    /\ request' = [request EXCEPT !.status = "creating",
                                  !.definition = job[w].definition]
    /\ Goto(w, "create") /\ UNCHANGED <<made, trouble>>

(* create_draft under the id of the request; one that exists must be equal. *)
CreateInstance(w) ==
    LET draft == [definition |-> job[w].definition, files |-> request.files,
                  refs |-> request.refs] IN
    /\ job[w].pc = "create"
    /\ instance' = IF instance = NoInstance THEN draft ELSE instance
    /\ job' = [job EXCEPT ![w].pc = IF instance' = draft THEN "created" ELSE "failed"]
    /\ UNCHANGED <<catalog, request, collecting, bound, made, trouble>>

(* promote *)
Promote(w) ==
    /\ job[w].pc = "created"
    /\ bound' = bound \cup request.files
    /\ job' = [job EXCEPT ![w].pc = "promoted"]
    /\ UNCHANGED <<catalog, request, collecting, instance, made, trouble>>

Settle(w, status) ==
    /\ Holds(w)
    /\ request' = Released(status)
    /\ Goto(w, "idle") /\ UNCHANGED <<made, trouble>>

(* A slip: ready before the files are given over. *)
StepBefore == "created"

(* mark_ready is the last step. *)
LastStep == "promoted"

MarkReady(w) == job[w].pc = LastStep /\ request.status = "creating" /\ Settle(w, "ready")

MarkRejected(w) == job[w].pc = "rejected" /\ Settle(w, "rejected")

MarkFailed(w) ==
    /\ job[w].pc = "failed"
    /\ Settle(w, IF job[w].tries >= MaxTries THEN "exhausted" ELSE "failed")

(* The model, the directory, a store or the database fails for now. *)
Fails(w) ==
    /\ job[w].pc \in {"claimed", "gather", "gathered", "issued", "generate", "repair",
                      "generated", "create", "created", "promoted"}
    /\ Spend /\ Goto(w, "failed") /\ UNCHANGED <<request, made>>

-----------------------------------------------------------------------------
Work(w) ==
    \/ Claim(w) \/ Check(w) \/ Gather(w) \/ AuthorizeFinal(w) \/ Recheck(w) \/ Generate(w)
    \/ SaveCandidate(w) \/ CreateInstance(w) \/ Promote(w)
    \/ MarkReady(w) \/ MarkRejected(w) \/ MarkFailed(w) \/ LostClaim(w)

Step ==
    \/ Owner \/ Administrator \/ LeaseEnds
    \/ \E w \in Workers : Work(w) \/ Repair(w) \/ Die(w) \/ Fails(w)

Next == Step /\ UNCHANGED scope

Spec == Init /\ [][Next]_vars

(* Workers run in loops, leases end; owners and administrators need not    *)
(* do anything. *)
Fairness ==
    /\ WF_vars(LeaseEnds /\ UNCHANGED scope)
    /\ WF_vars((\E w \in Workers : Claim(w)) /\ UNCHANGED scope)
    /\ \A w \in Workers : WF_vars(job[w].pc # "idle" /\ Work(w) /\ UNCHANGED scope)

FairSpec == Spec /\ Fairness

-----------------------------------------------------------------------------
(* The types; a row that nobody works on carries no claim. *)
TypeOK ==
    /\ CatalogTypeOK
    /\ scope \in Scopes
    /\ request \in [status: {"collecting", "pending", "failed"} \cup Working \cup Over,
                    selection: SUBSET Sources, version: 0..scope.edits,
                    files: SUBSET Files, refs: SUBSET Versions, definition: 0..made,
                    holder: Workers \cup {Nobody}, live: BOOLEAN, tries: 0..MaxTries]
    /\ request.status \in Working <=> request.holder # Nobody
    /\ page \in [Pages -> [selection: SUBSET Sources, version: 0..scope.edits]]
    /\ file \in [Files -> {"absent", "authorized", "stored", "gone", "ready", "revoked"}]
    /\ blobs \subseteq Files /\ bound \subseteq Files
    /\ instance \in [definition: 0..made, files: SUBSET Files, refs: SUBSET Versions]
    /\ job \in [Workers ->
                [pc: {"idle", "claimed", "gather", "gathered", "issued", "generate",
                      "repair", "generated", "create", "created", "promoted",
                      "rejected", "failed"},
                 definition: 0..made, tries: 0..MaxTries]]
    /\ made \in Nat /\ trouble \in 0..scope.trouble

(* There is one candidate and one draft: whichever workers overlap, fail   *)
(* or take over, the instance is made of the candidate and the context     *)
(* that are frozen with the request (save_candidate, create_draft); and    *)
(* what was frozen is what is there: no upload or revocation that began    *)
(* while the request was collecting slips in behind the freeze             *)
(* (create_for_request, revoke_for_owner, freeze_and_queue). *)
OneDraft ==
    /\ TypeOK
    /\ instance # NoInstance =>
        instance = [definition |-> request.definition, files |-> request.files,
                    refs |-> request.refs]
    /\ request.status # "collecting" => request.files = ReadyFiles

(* Nobody's selection is overwritten unseen: a page that changes it has    *)
(* shown what it changes (save_selection). *)
NoLostSelection ==
    [][request'.selection # request.selection =>
        \E p \in Pages : page'[p] # page[p] /\ page[p].selection = request.selection]_vars

(* A request that was queued comes to an end. *)
EventuallyOver == request.status = "pending" ~> request.status \in Over

(* What a test says of a canceled request: there is no instance.  Not what *)
(* the code does: README, section 7.                                       *)
CanceledMeansNoDraft == request.status = "canceled" => instance = NoInstance

=============================================================================
