---------------------------- MODULE ConsoleProofs ----------------------------
(***************************************************************************)
(* Proofs about three components that share no state and that people meet  *)
(* at the web console: the drafts they describe and the agents that read   *)
(* what a draft was made of (AgentContext, on top of Draft), the sessions  *)
(* they sign in to (Sessions), and the commands they give, each in one     *)
(* transaction of the repository (Store).  Each part has its own invariant *)
(* and says first why it is inductive.                                     *)
(***************************************************************************)
EXTENDS AgentContext, Sessions, Store, SequenceTheorems, FiniteSetTheorems, TLAPS

-----------------------------------------------------------------------------
(***************************************************************************)
(* One candidate and one draft, no selection lost, and agents that read    *)
(* what the flow was planned from: for any catalog, any number of files,   *)
(* pages, administrators and workers.                                      *)
(*                                                                         *)
(* What makes them true is what no step of any other can take away once    *)
(* the request is queued: its files and versions are frozen, a candidate   *)
(* is saved once, a file that is ready keeps its row and its body, and a   *)
(* version that was published is published or revoked for ever.  So what a *)
(* worker has checked stays checked while it works, and a draft that is    *)
(* ready was made of files that are bound and readable.                    *)
(***************************************************************************)
Statuses == {"collecting", "pending", "failed"} \cup Working \cup Over
Requests == [status: Statuses, selection: SUBSET Sources, version: 0 .. scope.edits,
             files: SUBSET Files, refs: SUBSET Versions, definition: Nat,
             holder: Workers \cup {Nobody}, live: BOOLEAN, tries: 0 .. MaxTries]
PageView == [selection: SUBSET Sources, version: 0 .. scope.edits]
FileStates == {"absent", "authorized", "stored", "gone", "ready", "revoked"}
Drafts == [definition: Nat, files: SUBSET Files, refs: SUBSET Versions]
Job == [pc: {"idle", "claimed", "gather", "gathered", "issued", "generate", "repair",
             "generated", "create", "created", "promoted", "rejected", "failed"},
        definition: Nat, tries: 0 .. MaxTries]
Attempt == [pc: {"idle", "files", "refs", "issue", "given", "refused"}, early: BOOLEAN,
            files: SUBSET Files, refs: SUBSET Versions]

(* An administrator at work has a version in hand. *)
CatalogInv ==
    /\ CatalogTypeOK
    /\ \A a \in Admins : desk[a].pc # "idle" => desk[a].item \in Versions

Bounds == scope \in Scopes /\ trouble \in 0 .. scope.trouble /\ made \in Nat

(* A page that shows the version of the selection shows the selection. *)
PageInv ==
    /\ page \in [Pages -> PageView]
    /\ \A p \in Pages :
        /\ page[p].version <= request.version
        /\ page[p].version = request.version => page[p].selection = request.selection

(* What is frozen when a request is queued stays as it was. *)
RequestInv ==
    /\ request \in Requests /\ request.definition <= made
    /\ request.status \in Working <=> request.holder # Nobody
    /\ request.status \in {"collecting", "pending", "generating", "repairing"} =>
         request.definition = 0
    /\ request.status = "creating" => request.definition # 0
    /\ request.status # "collecting" => request.files = ReadyFiles
    /\ \A x \in request.refs : row[x].status # "none"
    /\ request.status = "ready" => request.files \subseteq bound \cap blobs

FileInv == file \in [Files -> FileStates] /\ blobs \subseteq Files /\ bound \subseteq Files

TheDraft == [definition |-> request.definition, files |-> request.files,
             refs |-> request.refs]

(* The draft is made of the candidate that was saved. *)
InstanceInv ==
    /\ instance \in Drafts
    /\ request.definition = 0 => instance = NoInstance
    /\ instance # NoInstance => instance = TheDraft

(* A worker that has built the context, or has a candidate. *)
Informed == {"gathered", "issued", "generate", "repair", "generated", "create",
             "created", "promoted"}

JobFits(j) ==
    /\ j.pc # "idle" => request.status # "collecting"
    /\ j.pc \in {"claimed", "gather", "gathered", "issued"} =>
         j.definition \in {0, request.definition}
    /\ j.pc = "generated" => j.definition # 0
    /\ j.pc \in {"create", "created", "promoted"} =>
         j.definition = request.definition /\ request.definition # 0
    /\ j.pc \in Informed => request.files \subseteq blobs
    /\ j.pc = "promoted" => request.files \subseteq bound

JobOK(j) == j.definition <= made /\ JobFits(j)

JobInv == job \in [Workers -> Job] /\ \A w \in Workers : JobOK(job[w])

DraftInv == /\ CatalogInv /\ Bounds /\ PageInv /\ RequestInv /\ FileInv
            /\ InstanceInv /\ JobInv

(* An agent that was given files and versions was given those of the draft. *)
AgentInv ==
    /\ agent \in Attempt
    /\ agent.pc # "idle" =>
         instance # NoInstance /\ (~agent.early => request.status = "ready")
    /\ agent.pc \in {"refs", "issue"} => agent.files = instance.files
    /\ agent.pc = "issue" => agent.refs = instance.refs

ContextInv == DraftInv /\ AgentInv

(* A version that has a row keeps one. *)
RowsStay == \A x \in Versions : row[x].status # "none" => row'[x].status # "none"

(* What no step takes away. *)
Kept ==
    /\ request.status # "collecting" =>
        /\ request'.status # "collecting"
        /\ request'.files = request.files /\ request'.refs = request.refs
        /\ request.files \subseteq blobs => request.files \subseteq blobs'
    /\ request.definition # 0 => request'.definition = request.definition
    /\ request.status = "ready" => request'.status = "ready"
    /\ instance # NoInstance => instance' = instance
    /\ bound \subseteq bound' /\ made <= made'
    /\ RowsStay


-----------------------------------------------------------------------------
(* The catalog *)

(* The first version of each source is published. *)
LEMMA CatalogStarts == CatalogInit => CatalogInv
  <1> SUFFICES ASSUME CatalogInit PROVE CatalogInv
    OBVIOUS
  <1>1. PICK a : a = CHOOSE b \in Admins : TRUE
    OBVIOUS
  <1>2. a \in Admins
    BY <1>1, KnowledgeAssumption
  <1>3. row = [x \in Versions |-> IF x[2] = 1 THEN [status |-> "published", by |-> a]
                                  ELSE NoRow]
    BY <1>1 DEF CatalogInit
  <1>4. row \in [Versions -> [status: {"none", "published", "revoked"},
                              by: Admins \cup {Nobody}]]
    BY <1>2, <1>3 DEF NoRow
  <1>5. desk \in [Admins -> [pc: {"idle", "insert", "compare", "undo"},
                             item: Versions \cup {NoRequest.item}, created: BOOLEAN]]
    BY DEF CatalogInit, NoRequest
  <1>6. \A b \in Admins : desk[b].pc = "idle"
    BY DEF CatalogInit, NoRequest
  <1> QED
    BY <1>4, <1>5, <1>6 DEF CatalogInit, CatalogInv, CatalogTypeOK

(* Requests of administrators and their failures keep the catalog in order; *)
(* no row ever goes. *)
LEMMA CatalogKeeps ==
    ASSUME CatalogInv, CatalogStep \/ (\E a \in Admins : InsertFails(a))
    PROVE  CatalogInv' /\ RowsStay
  <1> DEFINE Row == [status: {"none", "published", "revoked"}, by: Admins \cup {Nobody}]
             Desk == [pc: {"idle", "insert", "compare", "undo"},
                      item: Versions \cup {NoRequest.item}, created: BOOLEAN]
  <1>1. /\ row \in [Versions -> Row] /\ bodies \subseteq Versions
        /\ desk \in [Admins -> Desk]
        /\ \A a \in Admins : desk[a].pc # "idle" => desk[a].item \in Versions
    BY DEF CatalogInv, CatalogTypeOK
  <1>2. NoRequest \in Desk /\ NoRequest.pc = "idle"
    BY DEF NoRequest
  <1>3. ASSUME NEW a \in Admins, NEW d \in Desk, d.pc # "idle" => d.item \in Versions,
               desk' = [desk EXCEPT ![a] = d]
        PROVE  /\ desk' \in [Admins -> Desk]
               /\ \A b \in Admins : desk'[b].pc # "idle" => desk'[b].item \in Versions
    BY <1>1, <1>3
  <1>4. ASSUME NEW x \in Versions, NEW r \in Row, row' = [row EXCEPT ![x] = r],
               r.status # "none"
        PROVE  row' \in [Versions -> Row] /\ RowsStay
    BY <1>1, <1>4 DEF RowsStay
  <1>5. row' = row => RowsStay
    BY DEF RowsStay
  <1>6. ASSUME NEW a \in Admins, NEW x \in Versions, PutBody(a, x)
        PROVE  CatalogInv' /\ RowsStay
    <2>1. PICK d : d = [pc |-> "insert", item |-> x, created |-> x \notin bodies]
      OBVIOUS
    <2>2. d \in Desk /\ d.item = x
      BY <2>1
    <2>3. desk' = [desk EXCEPT ![a] = d] /\ bodies' = bodies \cup {x} /\ row' = row
      BY <1>6, <2>1 DEF PutBody
    <2> QED
      BY <1>1, <1>3, <1>5, <2>2, <2>3 DEF CatalogInv, CatalogTypeOK
  <1>7. ASSUME NEW a \in Admins, desk[a].pc # "idle", NEW wanted \in BOOLEAN,
               TakeBack(a, wanted)
        PROVE  /\ desk' \in [Admins -> Desk]
               /\ \A b \in Admins : desk'[b].pc # "idle" => desk'[b].item \in Versions
    <2>1. PICK d : d = IF wanted /\ desk[a].created THEN [desk[a] EXCEPT !.pc = "undo"]
                       ELSE NoRequest
      OBVIOUS
    <2>2. d \in Desk /\ (d.pc # "idle" => d.item \in Versions)
      BY <1>1, <1>2, <1>7, <2>1
    <2>3. desk' = [desk EXCEPT ![a] = d]
      BY <1>7, <2>1 DEF TakeBack
    <2> QED
      BY <1>3, <2>2, <2>3
  <1>8. ASSUME NEW a \in Admins, InsertRow(a)
        PROVE  CatalogInv' /\ RowsStay
    <2>1. desk[a].pc = "insert" /\ desk[a].item \in Versions /\ bodies' = bodies
      BY <1>1, <1>8 DEF InsertRow
    <2>2. PICK x \in Versions : x = desk[a].item
      BY <2>1
    <2>3. CASE Refuses(x)
      <3>1. PICK d : d = [desk[a] EXCEPT !.pc = "compare"]
        OBVIOUS
      <3>2. d \in Desk /\ d.item \in Versions
        BY <1>1, <2>1, <3>1
      <3>3. desk' = [desk EXCEPT ![a] = d] /\ row' = row
        BY <1>8, <2>2, <2>3, <3>1 DEF InsertRow
      <3> QED
        BY <1>1, <1>3, <1>5, <2>1, <3>2, <3>3 DEF CatalogInv, CatalogTypeOK
    <2>4. CASE ~Refuses(x)
      <3>1. PICK r : r = [status |-> "published", by |-> a]
        OBVIOUS
      <3>2. r \in Row /\ r.status # "none"
        BY <3>1
      <3>3. PICK d : d = NoRequest
        OBVIOUS
      <3>4. row' = [row EXCEPT ![x] = r] /\ desk' = [desk EXCEPT ![a] = d]
        BY <1>8, <2>2, <2>4, <3>1, <3>3 DEF InsertRow
      <3> QED
        BY <1>1, <1>2, <1>3, <1>4, <2>1, <3>2, <3>3, <3>4 DEF CatalogInv, CatalogTypeOK
    <2> QED
      BY <2>3, <2>4
  <1>9. ASSUME NEW a \in Admins, InsertFails(a)
        PROVE  CatalogInv' /\ RowsStay
    <2>1. /\ desk[a].pc # "idle" /\ desk[a].item \in Versions /\ bodies' = bodies
          /\ TakeBack(a, TRUE)
      BY <1>1, <1>9 DEF InsertFails
    <2>2. PICK x \in Versions : x = desk[a].item
      BY <2>1
    <2>3. PICK r : r = [status |-> "published", by |-> a]
      OBVIOUS
    <2>4. r \in Row /\ r.status # "none"
      BY <2>3
    <2>5. row' = row \/ row' = [row EXCEPT ![x] = r]
      BY <1>9, <2>2, <2>3 DEF InsertFails
    <2>6. row' \in [Versions -> Row] /\ RowsStay
      BY <1>1, <1>4, <1>5, <2>4, <2>5
    <2> QED
      BY <1>1, <1>7, <2>1, <2>6 DEF CatalogInv, CatalogTypeOK
  <1>10. ASSUME NEW a \in Admins, Compare(a)
         PROVE  CatalogInv' /\ RowsStay
    <2>1. PICK wanted \in BOOLEAN :
            wanted = (row[desk[a].item] # [status |-> "published", by |-> a])
      OBVIOUS
    <2>2. desk[a].pc # "idle" /\ TakeBack(a, wanted) /\ UNCHANGED <<row, bodies>>
      BY <1>10, <2>1 DEF Compare, TakeBack
    <2> QED
      BY <1>1, <1>5, <1>7, <2>2 DEF CatalogInv, CatalogTypeOK
  <1>11. ASSUME NEW a \in Admins, DeleteOrphan(a)
         PROVE  CatalogInv' /\ RowsStay
    <2>1. PICK d : d = NoRequest
      OBVIOUS
    <2>2. desk' = [desk EXCEPT ![a] = d] /\ bodies' \subseteq Versions /\ row' = row
      BY <1>1, <1>11, <2>1 DEF DeleteOrphan
    <2> QED
      BY <1>1, <1>2, <1>3, <1>5, <2>1, <2>2 DEF CatalogInv, CatalogTypeOK
  <1>12. ASSUME NEW x \in Versions, Revoke(x)
         PROVE  CatalogInv' /\ RowsStay
    <2>1. PICK r : r = [row[x] EXCEPT !.status = "revoked"]
      OBVIOUS
    <2>2. r \in Row /\ r.status # "none"
      BY <1>1, <2>1
    <2>3. row' = [row EXCEPT ![x] = r] /\ UNCHANGED <<bodies, desk>>
      BY <1>12, <2>1 DEF Revoke
    <2> QED
      BY <1>1, <1>4, <2>2, <2>3 DEF CatalogInv, CatalogTypeOK
  <1> QED
    BY <1>6, <1>8, <1>9, <1>10, <1>11, <1>12 DEF CatalogStep

-----------------------------------------------------------------------------
(* The start *)

(* The bounds are numbers. *)
LEMMA Numbers ==
    ASSUME scope \in Scopes
    PROVE  /\ scope.edits \in Nat /\ scope.trouble \in Nat /\ MaxTries \in Nat
           /\ 1 <= MaxTries /\ scope.sources \subseteq Sources
           /\ Idle \in Job /\ Idle.pc = "idle" /\ Idle.definition = 0
  BY DraftAssumption DEF Idle, Job

(* Nothing has been asked for. *)
LEMMA DraftStarts == Init => DraftInv
  <1> SUFFICES ASSUME Init PROVE DraftInv
    OBVIOUS
  <1>1. CatalogInv
    BY CatalogStarts DEF Init
  <1>2. /\ scope \in Scopes /\ scope.edits \in Nat /\ scope.trouble \in Nat
        /\ MaxTries \in Nat /\ 0 \in 0 .. scope.edits /\ 0 \in 0 .. MaxTries
    BY Numbers DEF Init
  <1>3. Bounds
    BY <1>2 DEF Init, Bounds
  <1>4. /\ request \in Requests /\ request.status \in {"collecting", "pending"}
        /\ request.selection = {} /\ request.version = 0 /\ request.files = {}
        /\ request.refs = {} /\ request.definition = 0 /\ request.holder = Nobody
    <2>1. request \in NewRequests
      BY DEF Init
    <2>2. /\ request.status \in {"collecting", "pending"} /\ request.selection = {}
          /\ request.version = 0 /\ request.files = {} /\ request.refs = {}
          /\ request.definition = 0 /\ request.holder = Nobody /\ request.live = FALSE
          /\ request.tries = 0
      BY <2>1 DEF NewRequests
    <2>3. request = [status |-> request.status, selection |-> {}, version |-> 0,
                     files |-> {}, refs |-> {}, definition |-> 0, holder |-> Nobody,
                     live |-> FALSE, tries |-> 0]
      BY <2>1, <2>2 DEF NewRequests
    <2>4. request.status \in Statuses
      BY <2>2 DEF Statuses
    <2>5. request \in Requests
      <3>1. PICK s \in Statuses : s = request.status
        BY <2>4
      <3>2. [status |-> s, selection |-> {}, version |-> 0, files |-> {}, refs |-> {},
             definition |-> 0, holder |-> Nobody, live |-> FALSE, tries |-> 0] \in Requests
        BY <1>2 DEF Requests
      <3> QED
        BY <2>3, <3>1, <3>2
    <2> QED
      BY <2>2, <2>5
  <1>5. PageInv
    <2>1. page = [p \in Pages |-> [selection |-> {}, version |-> 0]]
      BY DEF Init
    <2>2. page \in [Pages -> PageView]
      BY <1>2, <2>1 DEF PageView
    <2> QED
      BY <1>4, <2>1, <2>2 DEF PageInv
  <1>6. FileInv /\ ReadyFiles = {}
    BY DEF Init, FileInv, FileStates, ReadyFiles
  <1>7. RequestInv
    <2>1. request.definition <= made
      BY <1>4 DEF Init
    <2>2. request.status \in Working <=> request.holder # Nobody
      BY <1>4 DEF Working
    <2> QED
      BY <1>4, <1>6, <2>1, <2>2 DEF RequestInv
  <1>8. InstanceInv
    BY DEF Init, InstanceInv, NoInstance, Drafts
  <1>9. JobInv
    <2>1. \A w \in Workers : job[w] = Idle
      BY DEF Init
    <2>2. JobOK(Idle)
      BY <1>2, Numbers DEF Init, JobOK, JobFits, Informed
    <2>3. job \in [Workers -> Job]
      BY <1>2, Numbers DEF Init
    <2> QED
      BY <2>1, <2>2, <2>3 DEF JobInv
  <1> QED
    BY <1>1, <1>3, <1>5, <1>6, <1>7, <1>8, <1>9 DEF DraftInv

-----------------------------------------------------------------------------
(* What a step has to show *)

(* What a worker has checked stays checked. *)
LEMMA JobStays ==
    ASSUME Kept, NEW j \in Job, JobOK(j), made \in Nat, made' \in Nat
    PROVE  JobOK(j)'
  <1>1. j.definition <= made'
    BY DEF Kept, JobOK, Job
  <1>2. JobFits(j)'
    <2>1. CASE j.pc = "idle"
      BY <2>1 DEF JobFits, Informed
    <2>2. CASE j.pc # "idle"
      <3>1. /\ request.status # "collecting" /\ request'.status # "collecting"
            /\ request'.files = request.files
            /\ request.files \subseteq blobs => request.files \subseteq blobs'
            /\ request.definition # 0 => request'.definition = request.definition
            /\ bound \subseteq bound'
        BY <2>2 DEF JobOK, JobFits, Kept
      <3> QED
        BY <3>1 DEF JobOK, JobFits
    <2> QED
      BY <2>1, <2>2
  <1> QED
    BY <1>1, <1>2 DEF JobOK

(* A step that keeps what is frozen has only to look after what it writes. *)
LEMMA StepKeeps ==
    ASSUME DraftInv, Kept, CatalogInv', Bounds', PageInv', RequestInv', FileInv',
           InstanceInv', job' \in [Workers -> Job],
           \A w \in Workers : job'[w] = job[w] \/ JobOK(job[w])'
    PROVE  DraftInv'
  <1>1. made \in Nat /\ made' \in Nat
    BY DEF DraftInv, Bounds
  <1>2. ASSUME NEW w \in Workers
        PROVE  JobOK(job[w])'
    <2>1. CASE job'[w] = job[w]
      <3>1. PICK j \in Job : j = job[w]
        BY DEF DraftInv, JobInv
      <3>2. JobOK(j)'
        BY <1>1, <3>1, JobStays DEF DraftInv, JobInv
      <3> QED
        BY <2>1, <3>1, <3>2
    <2> QED
      BY <2>1
  <1> QED
    BY <1>2 DEF DraftInv, JobInv

(* Trouble stays within its bound. *)
LEMMA TroubleStays ==
    ASSUME Bounds, UNCHANGED scope, Spend \/ UNCHANGED trouble
    PROVE  trouble' \in 0 .. scope'.trouble
  BY Numbers DEF Bounds, Spend

(* A step of a worker that changes its memory. *)
LEMMA MemoryStep ==
    ASSUME DraftInv, UNCHANGED <<scope, catalog, request, collecting, bound, instance>>,
           Spend \/ UNCHANGED trouble, made' \in Nat, made <= made',
           NEW w \in Workers, NEW j \in Job, job' = [job EXCEPT ![w] = j],
           j.definition <= made', JobFits(j)
    PROVE  DraftInv' /\ Kept
  <1>1. /\ UNCHANGED <<scope, row, bodies, desk, request, page, file, blobs, bound, instance>>
        /\ made \in Nat
    BY DEF DraftInv, Bounds, catalog, collecting
  <1>2. Kept
    BY <1>1 DEF Kept, RowsStay
  <1>3. CatalogInv' /\ PageInv' /\ FileInv' /\ InstanceInv'
    BY <1>1
    DEF DraftInv, CatalogInv, CatalogTypeOK, PageInv, PageView, FileInv, InstanceInv,
        TheDraft
  <1>4. Bounds'
    BY <1>1, TroubleStays DEF DraftInv, Bounds
  <1>5. RequestInv'
    <2>1. request.definition \in Nat /\ request.definition <= made
      BY DEF DraftInv, RequestInv, Requests
    <2>2. request'.definition <= made'
      BY <1>1, <2>1
    <2> QED
      BY <1>1, <2>2 DEF DraftInv, RequestInv, Requests, ReadyFiles
  <1>6. JobOK(j)'
    BY <1>1 DEF JobOK, JobFits
  <1>7. /\ job' \in [Workers -> Job]
        /\ \A v \in Workers : job'[v] = job[v] \/ JobOK(job[v])'
    BY <1>6 DEF DraftInv, JobInv
  <1> QED
    BY <1>2, <1>3, <1>4, <1>5, <1>7, StepKeeps

(* A step that changes the row of a queued request. *)
LEMMA RequestStep ==
    ASSUME DraftInv, UNCHANGED <<scope, catalog, collecting, bound, instance, made>>,
           Spend \/ UNCHANGED trouble, NEW r \in Requests, request' = r,
           request.status \notin {"collecting", "ready"},
           r.status \notin {"collecting", "pending"},
           r.selection = request.selection, r.version = request.version,
           r.files = request.files, r.refs = request.refs,
           r.definition = request.definition \/ request.definition = 0,
           r.definition <= made,
           r.status \in Working <=> r.holder # Nobody,
           r.status \in {"generating", "repairing"} => r.definition = 0,
           r.status = "creating" => r.definition # 0,
           r.status = "ready" => r.files \subseteq bound \cap blobs,
           job' \in [Workers -> Job],
           \A v \in Workers : job'[v] = job[v] \/ JobOK(job[v])'
    PROVE  DraftInv' /\ Kept
  <1>1. UNCHANGED <<scope, row, bodies, desk, page, file, blobs, bound, instance, made>>
    BY DEF catalog, collecting
  <1>2. Kept
    <2>1. made <= made'
      BY <1>1 DEF DraftInv, Bounds
    <2> QED
      BY <1>1, <2>1 DEF Kept, RowsStay
  <1>3. CatalogInv' /\ FileInv'
    BY <1>1 DEF DraftInv, CatalogInv, CatalogTypeOK, FileInv
  <1>4. PageInv'
    BY <1>1 DEF DraftInv, PageInv, PageView
  <1>5. Bounds'
    BY <1>1, TroubleStays DEF DraftInv, Bounds
  <1>6. InstanceInv'
    BY <1>1 DEF DraftInv, InstanceInv, TheDraft
  <1>7. RequestInv'
    BY <1>1 DEF DraftInv, RequestInv, Requests, ReadyFiles
  <1> QED
    BY <1>2, <1>3, <1>4, <1>5, <1>6, <1>7, StepKeeps

-----------------------------------------------------------------------------
(* The owner and the administrator *)

(* While a request is collecting nobody works on it and there is no draft. *)
LEMMA NobodyWorks ==
    ASSUME DraftInv, request.status = "collecting"
    PROVE  /\ request.definition = 0 /\ instance = NoInstance
           /\ \A w \in Workers : job[w].pc = "idle"
  BY DEF DraftInv, RequestInv, InstanceInv, JobInv, JobOK, JobFits

(* A page shows the selection. *)
LEMMA OpenStep ==
    ASSUME DraftInv, UNCHANGED scope, NEW p \in Pages, Open(p)
    PROVE  DraftInv' /\ Kept
  <1>1. /\ UNCHANGED <<scope, row, bodies, desk, request, file, blobs, bound, instance,
                       job, made, trouble>>
        /\ page' = [page EXCEPT ![p] = [selection |-> request.selection,
                                        version |-> request.version]]
    BY DEF Open, catalog
  <1>2. Kept
    <2>1. made <= made'
      BY <1>1 DEF DraftInv, Bounds
    <2> QED
      BY <1>1, <2>1 DEF Kept, RowsStay
  <1>3. CatalogInv' /\ FileInv' /\ InstanceInv' /\ Bounds' /\ RequestInv'
    BY <1>1 DEF DraftInv, CatalogInv, CatalogTypeOK, FileInv, InstanceInv, TheDraft, Bounds,
                RequestInv, Requests, ReadyFiles
  <1>4. PageInv'
    <2>1. /\ request.selection \in SUBSET Sources /\ request.version \in 0 .. scope.edits
          /\ scope.edits \in Nat
      BY Numbers DEF DraftInv, RequestInv, Requests, Bounds
    <2>2. [selection |-> request.selection, version |-> request.version] \in PageView
      BY <2>1 DEF PageView
    <2> QED
      BY <1>1, <2>1, <2>2 DEF DraftInv, PageInv, PageView
  <1> QED
    BY <1>1, <1>2, <1>3, <1>4, StepKeeps DEF DraftInv, JobInv

(* save_selection: the other pages are out of date now. *)
LEMMA SelectStep ==
    ASSUME DraftInv, UNCHANGED scope, NEW p \in Pages, NEW chosen \in SUBSET scope.sources,
           Select(p, chosen)
    PROVE  DraftInv' /\ Kept
  <1>1. /\ UNCHANGED <<scope, row, bodies, desk, file, blobs, bound, instance,
                       job, made, trouble>>
        /\ request.status = "collecting" /\ request.version < scope.edits
    BY DEF Select, catalog
  <1>2. /\ request \in Requests /\ request.version \in Nat /\ scope.edits \in Nat
        /\ chosen \subseteq Sources /\ made \in Nat /\ request.definition = 0
    BY Numbers, NobodyWorks, <1>1 DEF DraftInv, RequestInv, Requests, Bounds
  <1>3. PICK v \in 0 .. scope.edits : v = request.version + 1
    BY <1>1, <1>2
  <1>4. PICK r : r = [request EXCEPT !.selection = chosen, !.version = v]
    OBVIOUS
  <1>5. /\ r \in Requests /\ r.status = "collecting" /\ r.selection = chosen
        /\ r.version = v /\ r.files = request.files /\ r.refs = request.refs
        /\ r.definition = request.definition /\ r.holder = request.holder
    BY <1>1, <1>2, <1>4 DEF Requests
  <1>6. /\ request' = r
        /\ page' = [page EXCEPT ![p] = [selection |-> chosen, version |-> v]]
    BY <1>2, <1>3, <1>4 DEF Select, Requests
  <1>7. Kept
    BY <1>1, <1>2, <1>5, <1>6 DEF Kept, RowsStay
  <1>8. CatalogInv' /\ FileInv' /\ Bounds' /\ InstanceInv'
    BY <1>1, <1>5, <1>6 DEF DraftInv, CatalogInv, CatalogTypeOK, FileInv, InstanceInv,
                            TheDraft, Bounds
  <1>9. RequestInv'
    BY <1>1, <1>2, <1>5, <1>6 DEF DraftInv, RequestInv, Requests, ReadyFiles, Working
  <1>10. PageInv'
    <2>1. [selection |-> chosen, version |-> v] \in PageView
      BY <1>2 DEF PageView
    <2>2. page' \in [Pages -> PageView]
      BY <1>6, <2>1 DEF DraftInv, PageInv
    <2>3. \A q \in Pages : page[q].version \in Nat /\ page[q].version <= request.version
      BY <1>2 DEF DraftInv, PageInv, PageView
    <2>4. v \in Nat /\ v = request.version + 1 /\ PageView' = PageView
      BY <1>1, <1>2, <1>3 DEF PageView
    <2>5. ASSUME NEW q \in Pages
          PROVE  /\ page'[q].version <= v
                 /\ page'[q].version = v => page'[q].selection = chosen
      <3>1. CASE q = p
        BY <1>6, <2>4, <3>1 DEF DraftInv, PageInv
      <3>2. CASE q # p
        <4>1. page'[q] = page[q]
          BY <1>6, <3>2 DEF DraftInv, PageInv
        <4>2. page[q].version < v
          BY <1>2, <2>3, <2>4
        <4> QED
          BY <2>3, <2>4, <4>1, <4>2
      <3> QED
        BY <3>1, <3>2
    <2> QED
      BY <1>5, <1>6, <2>2, <2>4, <2>5 DEF PageInv
  <1> QED
    BY <1>1, <1>7, <1>8, <1>9, <1>10, StepKeeps DEF DraftInv, JobInv

(* A file moves on.  Once the request is queued none becomes ready, and    *)
(* only a body is taken back whose file was not. *)
LEMMA FileStep ==
    ASSUME DraftInv, UNCHANGED <<scope, catalog, request, page, bound, instance, job, made>>,
           Spend \/ UNCHANGED trouble, NEW f \in Files, NEW s \in FileStates,
           file' = [file EXCEPT ![f] = s], blobs' \subseteq Files, blobs \ {f} \subseteq blobs',
           request.status = "collecting" \/ (file[f] # "ready" /\ s # "ready")
    PROVE  DraftInv' /\ Kept
  <1>1. UNCHANGED <<scope, row, bodies, desk, request, page, bound, instance, job, made>>
    BY DEF catalog
  <1>2. /\ file \in [Files -> FileStates] /\ made \in Nat
    BY DEF DraftInv, FileInv, Bounds
  <1>3. request.status # "collecting" =>
          ReadyFiles' = ReadyFiles /\ request.files = ReadyFiles /\ f \notin request.files
    BY <1>1, <1>2 DEF DraftInv, RequestInv, ReadyFiles
  <1>4. Kept
    BY <1>1, <1>2, <1>3 DEF Kept, RowsStay
  <1>5. CatalogInv' /\ FileInv' /\ InstanceInv' /\ PageInv'
    BY <1>1, <1>2 DEF DraftInv, CatalogInv, CatalogTypeOK, FileInv, InstanceInv, TheDraft,
                PageInv, PageView
  <1>6. Bounds'
    BY <1>1, TroubleStays DEF DraftInv, Bounds
  <1>7. RequestInv'
    <2>1. request.status = "ready" => request.files \subseteq blobs'
      BY <1>1, <1>3 DEF DraftInv, RequestInv
    <2> QED
      BY <1>1, <1>3, <2>1 DEF DraftInv, RequestInv, Requests
  <1> QED
    BY <1>1, <1>4, <1>5, <1>6, <1>7, StepKeeps DEF DraftInv, JobInv

(* What the owner and the upload do with a file. *)
LEMMA UploadStep ==
    ASSUME DraftInv, UNCHANGED scope, NEW f \in Files,
           \/ Authorize(f) \/ StoreBody(f) \/ CreateRow(f) \/ UploadDies(f) \/ RevokeFile(f)
    PROVE  DraftInv' /\ Kept
  <1>1. blobs \subseteq Files /\ file \in [Files -> FileStates]
    BY DEF DraftInv, FileInv
  <1>2. "authorized" \in FileStates /\ "stored" \in FileStates /\ "gone" \in FileStates
        /\ "ready" \in FileStates /\ "revoked" \in FileStates
    BY DEF FileStates
  <1>3. CASE Authorize(f)
    BY <1>1, <1>2, <1>3, FileStep DEF Authorize
  <1>4. CASE StoreBody(f)
    BY <1>1, <1>2, <1>4, FileStep DEF StoreBody
  <1>5. CASE CreateRow(f)
    <2>1. PICK s \in {"ready", "gone"} :
            /\ file' = [file EXCEPT ![f] = s] /\ (s = "ready" => Admits)
            /\ blobs' \in {blobs, blobs \ {f}} /\ (Spend \/ UNCHANGED trouble)
      <3>1. CASE Admits
        BY <1>5, <3>1 DEF CreateRow
      <3>2. CASE ~Admits
        BY <1>5, <3>2 DEF CreateRow
      <3> QED
        BY <3>1, <3>2
    <2>2. request.status = "collecting" \/ (file[f] # "ready" /\ s # "ready")
      BY <1>5, <2>1 DEF CreateRow, Admits
    <2>3. UNCHANGED <<scope, catalog, request, page, bound, instance, job, made>>
      BY <1>5 DEF CreateRow
    <2> QED
      BY <1>1, <1>2, <2>1, <2>2, <2>3, FileStep
  <1>6. CASE UploadDies(f)
    BY <1>1, <1>2, <1>6, FileStep DEF UploadDies
  <1>7. CASE RevokeFile(f)
    BY <1>1, <1>2, <1>7, FileStep DEF RevokeFile
  <1> QED
    BY <1>3, <1>4, <1>5, <1>6, <1>7

(* freeze_and_queue: the files that are ready, and versions that are       *)
(* published. *)
LEMMA FreezeStep ==
    ASSUME DraftInv, UNCHANGED scope, FreezeAndQueue
    PROVE  DraftInv' /\ Kept
  <1>1. /\ UNCHANGED <<scope, row, bodies, desk, page, file, blobs, bound, instance,
                       job, made, trouble>>
        /\ request.status = "collecting"
        /\ \A s \in request.selection : Published(s) # {}
    BY DEF FreezeAndQueue, catalog, collecting
  <1>2. /\ request \in Requests /\ made \in Nat
        /\ request.definition = 0 /\ instance = NoInstance
        /\ \A w \in Workers : job[w].pc = "idle"
    BY NobodyWorks, <1>1 DEF DraftInv, RequestInv, Bounds
  <1>3. PICK refs : refs = {<<s, Current(s)>> : s \in request.selection}
    OBVIOUS
  <1>4. ASSUME NEW s \in request.selection
        PROVE  <<s, Current(s)>> \in Versions /\ row[<<s, Current(s)>>].status = "published"
    <2>1. Current(s) \in Published(s)
      BY <1>1 DEF Current
    <2>2. s \in Sources
      BY <1>2 DEF Requests
    <2> QED
      BY <2>1, <2>2 DEF Published, Versions
  <1>5. refs \subseteq Versions /\ \A x \in refs : row[x].status # "none"
    BY <1>3, <1>4
  <1>6. ReadyFiles \subseteq Files
    BY DEF ReadyFiles
  <1>7. PICK files : files = ReadyFiles
    OBVIOUS
  <1>8. PICK r : r = [request EXCEPT !.status = "pending", !.files = files, !.refs = refs]
    OBVIOUS
  <1>9. /\ r \in Requests /\ r.status = "pending" /\ r.files = files /\ r.refs = refs
        /\ r.selection = request.selection /\ r.version = request.version
        /\ r.definition = 0 /\ r.holder = request.holder
    BY <1>2, <1>5, <1>6, <1>7, <1>8 DEF Requests, Statuses
  <1>10. request' = r
    BY <1>3, <1>7, <1>8 DEF FreezeAndQueue
  <1>11. Kept
    BY <1>1, <1>2, <1>9, <1>10 DEF Kept, RowsStay
  <1>12. CatalogInv' /\ FileInv' /\ InstanceInv' /\ PageInv' /\ Bounds'
    BY <1>1, <1>2, <1>9, <1>10 DEF DraftInv, CatalogInv, CatalogTypeOK, FileInv, InstanceInv,
                PageInv, PageView, Bounds
  <1>13. RequestInv'
    <2>1. ReadyFiles' = files
      BY <1>1, <1>7 DEF ReadyFiles
    <2>2. r.holder = Nobody
      BY <1>1, <1>9 DEF DraftInv, RequestInv, Working
    <2>3. \A x \in refs : row'[x].status # "none"
      BY <1>1, <1>5
    <2>4. r \in Requests'
      BY <1>1, <1>9 DEF Requests
    <2> QED
      BY <1>1, <1>2, <1>9, <1>10, <2>1, <2>2, <2>3, <2>4 DEF RequestInv, Working
  <1> QED
    BY <1>1, <1>11, <1>12, <1>13, StepKeeps DEF DraftInv, JobInv

(* An administrator's step, or one that fails. *)
LEMMA AdministratorStep ==
    ASSUME DraftInv, UNCHANGED scope, Administrator
    PROVE  DraftInv' /\ Kept
  <1>1. /\ UNCHANGED <<scope, request, page, file, blobs, bound, instance, job, made>>
        /\ Spend \/ UNCHANGED trouble
        /\ CatalogStep \/ (\E a \in Admins : InsertFails(a))
    BY DEF Administrator, collecting
  <1>2. CatalogInv' /\ RowsStay
    BY <1>1, CatalogKeeps DEF DraftInv
  <1>3. Kept
    BY <1>1, <1>2 DEF Kept, DraftInv, Bounds
  <1>4. FileInv' /\ InstanceInv' /\ PageInv'
    BY <1>1 DEF DraftInv, FileInv, InstanceInv, TheDraft, PageInv, PageView
  <1>5. Bounds'
    BY <1>1, TroubleStays DEF DraftInv, Bounds
  <1>6. RequestInv'
    <2>1. \A x \in request.refs : row'[x].status # "none"
      BY <1>2 DEF RowsStay, DraftInv, RequestInv, Requests
    <2> QED
      BY <1>1, <2>1 DEF DraftInv, RequestInv, Requests, ReadyFiles
  <1> QED
    BY <1>1, <1>2, <1>3, <1>4, <1>5, <1>6, StepKeeps DEF DraftInv, JobInv

-----------------------------------------------------------------------------
(* The workers *)

(* A worker and the request it works on. *)
LEMMA AtWork ==
    ASSUME DraftInv, NEW w \in Workers
    PROVE  /\ job \in [Workers -> Job] /\ job[w] \in Job /\ JobOK(job[w])
           /\ scope \in Scopes /\ made \in Nat /\ request \in Requests
           /\ request.definition \in Nat /\ request.definition <= made
           /\ job[w].definition \in Nat /\ job[w].definition <= made
           /\ job[w].pc # "idle" => request.status # "collecting"
  BY DEF DraftInv, JobInv, JobOK, JobFits, Job, Bounds, RequestInv, Requests

(* Who holds the request does so while it is worked on. *)
LEMMA Holder ==
    ASSUME DraftInv, NEW w \in Workers, Holds(w)
    PROVE  /\ request.status \in Working /\ request.holder = w
           /\ request.status \notin {"collecting", "pending", "failed"} \cup Over
  BY DEF Holds, Working, Over

(* A worker goes on with its memory, or forgets everything. *)
LEMMA GoStep ==
    ASSUME DraftInv, UNCHANGED <<scope, request, made>>, Spend \/ UNCHANGED trouble,
           NEW w \in Workers, NEW pc \in {"idle", "gather", "gathered", "issued", "generate",
                                          "repair", "create", "rejected", "failed"},
           job[w].pc # "idle" \/ pc = "idle", Goto(w, pc),
           pc \in {"gather", "gathered", "issued"} =>
             job[w].definition \in {0, request.definition},
           pc = "create" => job[w].definition = request.definition /\ request.definition # 0,
           pc \in Informed => request.files \subseteq blobs
    PROVE  DraftInv' /\ Kept
  <1>1. /\ job \in [Workers -> Job] /\ job[w] \in Job /\ job[w].definition <= made
        /\ Idle \in Job /\ Idle.pc = "idle" /\ Idle.definition = 0 /\ made \in Nat
        /\ job[w].pc # "idle" => request.status # "collecting"
    BY AtWork, Numbers
  <1>2. PICK j : j = IF pc = "idle" THEN Idle ELSE [job[w] EXCEPT !.pc = pc]
    OBVIOUS
  <1>3. /\ j \in Job /\ j.pc = pc
        /\ pc = "idle" => j.definition = 0
        /\ pc # "idle" => j.definition = job[w].definition
    BY <1>1, <1>2 DEF Job
  <1>4. job' = [job EXCEPT ![w] = j]
    BY <1>2 DEF Goto
  <1>5. JobFits(j)
    BY <1>1, <1>3 DEF JobFits, Informed
  <1>6. j.definition <= made' /\ made <= made' /\ made' \in Nat
    BY <1>1, <1>3
  <1> QED
    BY <1>3, <1>4, <1>5, <1>6, MemoryStep DEF Goto

(* Looking at the claim, building the context, and giving up. *)
LEMMA LookStep ==
    ASSUME DraftInv, UNCHANGED scope, NEW w \in Workers,
           \/ Check(w) \/ Gather(w) \/ AuthorizeFinal(w) \/ Recheck(w)
           \/ LostClaim(w) \/ Die(w) \/ Fails(w)
    PROVE  DraftInv' /\ Kept
  <1>1. JobFits(job[w])
    BY AtWork DEF JobOK
  <1>2. CASE Check(w)
    BY <1>1, <1>2, GoStep DEF Check, JobFits, Informed
  <1>3. CASE Gather(w)
    <2>1. PICK pc \in {"gathered", "rejected"} :
            Goto(w, pc) /\ (pc = "gathered" => request.files \subseteq blobs)
      BY <1>3 DEF Gather, Readable, FilesReadable
    <2> QED
      BY <1>1, <1>3, <2>1, GoStep DEF Gather, JobFits, Informed
  <1>4. CASE AuthorizeFinal(w)
    <2>1. PICK pc \in {"issued", "rejected"} : Goto(w, pc)
      BY <1>4 DEF AuthorizeFinal
    <2>2. request.files \subseteq blobs
      BY <1>1, <1>4 DEF AuthorizeFinal, JobFits, Informed
    <2> QED
      BY <1>1, <1>4, <2>1, <2>2, GoStep DEF AuthorizeFinal, JobFits, Informed
  <1>5. CASE Recheck(w)
    <2>1. PICK pc \in {"generate", "create"} :
            Goto(w, pc) /\ (pc = "create" => job[w].definition # 0)
      BY <1>5 DEF Recheck
    <2>2. /\ request.files \subseteq blobs
          /\ job[w].definition \in {0, request.definition}
      BY <1>1, <1>5 DEF Recheck, JobFits, Informed
    <2> QED
      BY <1>5, <2>1, <2>2, GoStep DEF Recheck
  <1>6. CASE LostClaim(w)
    BY <1>6, GoStep DEF LostClaim, Informed
  <1>7. CASE Die(w)
    BY <1>7, GoStep DEF Die, Informed
  <1>8. CASE Fails(w)
    BY <1>8, GoStep DEF Fails, Informed
  <1> QED
    BY <1>2, <1>3, <1>4, <1>5, <1>6, <1>7, <1>8

(* A candidate is generated. *)
LEMMA GenerateStep ==
    ASSUME DraftInv, UNCHANGED scope, NEW w \in Workers, Generate(w)
    PROVE  DraftInv' /\ Kept
  <1>1. /\ job \in [Workers -> Job] /\ job[w] \in Job /\ JobFits(job[w]) /\ made \in Nat
        /\ job[w].pc \in {"generate", "repair"} /\ UNCHANGED <<scope, request, trouble>>
    BY AtWork DEF JobOK, Generate
  <1>2. CASE Goto(w, "rejected") /\ UNCHANGED made
    BY <1>1, <1>2, GoStep DEF Informed
  <1>3. CASE /\ made' = made + 1
             /\ job' = [job EXCEPT ![w].pc = "generated", ![w].definition = made + 1]
             /\ UNCHANGED <<catalog, collecting, bound, instance>>
    <2>1. PICK n \in Nat : n = made + 1
      BY <1>1
    <2>2. PICK j : j = [job[w] EXCEPT !.pc = "generated", !.definition = n]
      OBVIOUS
    <2>3. j \in Job /\ j.pc = "generated" /\ j.definition = n
      BY <1>1, <2>1, <2>2 DEF Job
    <2>4. job' = [job EXCEPT ![w] = j]
      BY <1>1, <1>3, <2>1, <2>2 DEF Job
    <2>5. JobFits(j)
      BY <1>1, <2>1, <2>3 DEF JobFits, Informed
    <2>6. made' \in Nat /\ made <= made' /\ j.definition <= made'
      BY <1>1, <1>3, <2>1, <2>3
    <2> QED
      BY <1>1, <1>3, <2>3, <2>4, <2>5, <2>6, MemoryStep
  <1> QED
    BY <1>2, <1>3 DEF Generate

(* A worker takes the request: with a candidate there is only to create. *)
LEMMA ClaimStep ==
    ASSUME DraftInv, UNCHANGED scope, NEW w \in Workers, Claim(w)
    PROVE  DraftInv' /\ Kept
  <1>1. /\ job \in [Workers -> Job] /\ scope \in Scopes /\ made \in Nat
        /\ request \in Requests /\ request.definition \in Nat /\ request.definition <= made
        /\ request.status \notin {"collecting", "ready"}
        /\ request.tries \in 0 .. MaxTries /\ MaxTries \in Nat
    BY AtWork, Numbers DEF Claim, Claimable, Working, Requests
  <1>2. PICK t \in 0 .. MaxTries :
          t = IF request.tries < MaxTries THEN request.tries + 1 ELSE MaxTries
    BY <1>1
  <1>3. PICK s \in Working : s = IF request.definition = 0 THEN "generating" ELSE "creating"
    BY DEF Working
  <1>4. PICK r : r = [request EXCEPT !.status = s, !.holder = w, !.live = TRUE, !.tries = t]
    OBVIOUS
  <1>5. /\ r \in Requests /\ r.status = s /\ r.holder = w
        /\ r.selection = request.selection /\ r.version = request.version
        /\ r.files = request.files /\ r.refs = request.refs
        /\ r.definition = request.definition
    BY <1>1, <1>3, <1>4 DEF Requests, Statuses
  <1>6. PICK j : j = [pc |-> "claimed", definition |-> request.definition, tries |-> t]
    OBVIOUS
  <1>7. j \in Job /\ j.pc = "claimed" /\ j.definition = request.definition
    BY <1>1, <1>6 DEF Job
  <1>8. /\ request' = r /\ job' = [job EXCEPT ![w] = j]
        /\ UNCHANGED <<scope, catalog, collecting, bound, instance, made, trouble>>
    BY <1>2, <1>3, <1>4, <1>6 DEF Claim
  <1>9. s \notin {"collecting", "pending", "ready", "repairing"} /\ w # Nobody
    BY <1>3, DraftAssumption
  <1>10. JobOK(j)'
    BY <1>1, <1>5, <1>7, <1>8, <1>9 DEF JobOK, JobFits, Informed
  <1>11. /\ job' \in [Workers -> Job]
         /\ \A v \in Workers : job'[v] = job[v] \/ JobOK(job[v])'
    BY <1>1, <1>7, <1>8, <1>10
  <1> QED
    BY <1>1, <1>3, <1>5, <1>8, <1>9, <1>11, RequestStep

(* on_repair *)
LEMMA RepairStep ==
    ASSUME DraftInv, UNCHANGED scope, NEW w \in Workers, Repair(w)
    PROVE  DraftInv' /\ Kept
  <1>1. /\ job \in [Workers -> Job] /\ job[w] \in Job /\ JobOK(job[w]) /\ made \in Nat
        /\ request \in Requests /\ request.definition <= made
        /\ job[w].pc = "generate" /\ UNCHANGED <<scope, made, trouble>>
    BY AtWork DEF Repair
  <1>2. CASE Goto(w, "idle") /\ UNCHANGED request
    BY <1>1, <1>2, GoStep DEF Informed
  <1>3. CASE /\ request.status = "generating"
             /\ request' = [request EXCEPT !.status = "repairing"]
             /\ Goto(w, "repair")
    <2>1. PICK r : r = [request EXCEPT !.status = "repairing"]
      OBVIOUS
    <2>2. /\ r \in Requests /\ r.status = "repairing" /\ r.holder = request.holder
          /\ r.selection = request.selection /\ r.version = request.version
          /\ r.files = request.files /\ r.refs = request.refs
          /\ r.definition = request.definition
      BY <1>1, <2>1 DEF Requests, Statuses, Working
    <2>3. PICK j : j = [job[w] EXCEPT !.pc = "repair"]
      OBVIOUS
    <2>4. j \in Job /\ j.pc = "repair" /\ j.definition = job[w].definition
      BY <1>1, <2>3 DEF Job
    <2>5. /\ request' = r /\ job' = [job EXCEPT ![w] = j]
          /\ UNCHANGED <<catalog, collecting, bound, instance>>
      BY <1>3, <2>1, <2>3 DEF Goto
    <2>6. blobs' = blobs
      BY <2>5 DEF collecting
    <2>7. JobOK(j)'
      BY <1>1, <2>2, <2>4, <2>5, <2>6 DEF JobOK, JobFits, Informed
    <2>8. /\ job' \in [Workers -> Job]
          /\ \A v \in Workers : job'[v] = job[v] \/ JobOK(job[v])'
      BY <1>1, <2>4, <2>5, <2>7
    <2>9. r.holder # Nobody /\ r.definition = 0
      BY <1>3, <2>2 DEF DraftInv, RequestInv, Working
    <2> QED
      BY <1>1, <1>3, <2>2, <2>5, <2>8, <2>9, RequestStep DEF Working
  <1> QED
    BY <1>2, <1>3 DEF Repair

(* save_candidate: the first candidate is the only one. *)
LEMMA SaveStep ==
    ASSUME DraftInv, UNCHANGED scope, NEW w \in Workers, SaveCandidate(w)
    PROVE  DraftInv' /\ Kept
  <1>1. /\ job \in [Workers -> Job] /\ job[w] \in Job /\ JobOK(job[w]) /\ made \in Nat
        /\ request \in Requests /\ request.definition = 0 /\ request.holder = w
        /\ request.status \in {"generating", "repairing"} /\ w # Nobody
        /\ job[w].pc = "generated" /\ UNCHANGED <<scope, made, trouble>>
    BY AtWork, DraftAssumption DEF SaveCandidate, Saves, Holds
  <1>2. PICK d \in Nat : d = job[w].definition
    BY AtWork
  <1>3. d # 0 /\ d <= made
    BY <1>1, <1>2 DEF JobOK, JobFits
  <1>4. PICK r : r = [request EXCEPT !.status = "creating", !.definition = d]
    OBVIOUS
  <1>5. /\ r \in Requests /\ r.status = "creating" /\ r.holder = w
        /\ r.selection = request.selection /\ r.version = request.version
        /\ r.files = request.files /\ r.refs = request.refs /\ r.definition = d
    BY <1>1, <1>4 DEF Requests, Statuses, Working
  <1>6. PICK j : j = [job[w] EXCEPT !.pc = "create"]
    OBVIOUS
  <1>7. j \in Job /\ j.pc = "create" /\ j.definition = d
    BY <1>1, <1>2, <1>6 DEF Job
  <1>8. /\ request' = r /\ job' = [job EXCEPT ![w] = j]
        /\ UNCHANGED <<catalog, collecting, bound, instance>>
    BY <1>2, <1>4, <1>6 DEF SaveCandidate, Goto
  <1>9. blobs' = blobs
    BY <1>8 DEF collecting
  <1>10. JobOK(j)'
    BY <1>1, <1>3, <1>5, <1>7, <1>8, <1>9 DEF JobOK, JobFits, Informed
  <1>11. /\ job' \in [Workers -> Job]
         /\ \A v \in Workers : job'[v] = job[v] \/ JobOK(job[v])'
    BY <1>1, <1>7, <1>8, <1>10
  <1> QED
    BY <1>1, <1>3, <1>5, <1>8, <1>11, RequestStep DEF Working

(* The row is released with its outcome. *)
LEMMA SettleStep ==
    ASSUME DraftInv, UNCHANGED <<scope, catalog, collecting, bound, instance, made, trouble>>,
           request.status \notin {"collecting", "ready"},
           NEW s \in {"failed"} \cup Over, request' = Released(s),
           s = "ready" => request.files \subseteq bound \cap blobs,
           job' = job \/ (\E w \in Workers : job' = [job EXCEPT ![w] = Idle])
    PROVE  DraftInv' /\ Kept
  <1>1. /\ request \in Requests /\ scope \in Scopes /\ request.definition <= made
        /\ made \in Nat /\ job \in [Workers -> Job]
    BY DEF DraftInv, RequestInv, Bounds, JobInv
  <1>2. PICK r : r = Released(s)
    OBVIOUS
  <1>3. /\ r \in Requests /\ r.status = s /\ r.holder = Nobody
        /\ r.selection = request.selection /\ r.version = request.version
        /\ r.files = request.files /\ r.refs = request.refs
        /\ r.definition = request.definition
    BY <1>1, <1>2 DEF Released, Requests, Statuses
  <1>4. s \notin Working \cup {"collecting", "pending"}
    BY DEF Working, Over
  <1>5. JobOK(Idle)'
    BY <1>1, Numbers DEF JobOK, JobFits, Informed
  <1>6. /\ job' \in [Workers -> Job]
        /\ \A v \in Workers : job'[v] = job[v] \/ JobOK(job[v])'
    <2>1. CASE job' = job
      BY <1>1, <2>1
    <2>2. CASE \E w \in Workers : job' = [job EXCEPT ![w] = Idle]
      <3>1. PICK w \in Workers : job' = [job EXCEPT ![w] = Idle]
        BY <2>2
      <3>2. \A v \in Workers : job'[v] = job[v] \/ job'[v] = Idle
        BY <1>1, <3>1
      <3> QED
        BY <1>1, <1>5, <3>1, <3>2, Numbers
    <2> QED
      BY <2>1, <2>2
  <1>7. request' = r
    BY <1>2
  <1> QED
    BY <1>1, <1>3, <1>4, <1>6, <1>7, RequestStep DEF Working

(* mark_ready, mark_rejected, mark_failed, and the owner who cancels. *)
LEMMA MarkStep ==
    ASSUME DraftInv, UNCHANGED scope,
           \/ Cancel
           \/ \E w \in Workers : MarkReady(w) \/ MarkRejected(w) \/ MarkFailed(w)
    PROVE  DraftInv' /\ Kept
  <1>1. CASE Cancel
    BY <1>1, SettleStep DEF Cancel, Cancelable, Over
  <1>2. ASSUME NEW w \in Workers, NEW s \in {"failed"} \cup Over, Settle(w, s),
               s = "ready" => request.files \subseteq bound \cap blobs
        PROVE  DraftInv' /\ Kept
    <2>1. /\ request.status \notin {"collecting", "ready"}
          /\ request' = Released(s) /\ job' = [job EXCEPT ![w] = Idle]
          /\ UNCHANGED <<catalog, collecting, bound, instance, made, trouble>>
      BY <1>2 DEF Settle, Goto, Holds, Working
    <2> QED
      BY <1>2, <2>1, SettleStep
  <1>3. ASSUME NEW w \in Workers, MarkReady(w)
        PROVE  DraftInv' /\ Kept
    <2>1. request.files \subseteq bound \cap blobs
      BY <1>3, AtWork DEF MarkReady, LastStep, JobOK, JobFits, Informed
    <2> QED
      BY <1>2, <1>3, <2>1 DEF MarkReady, Over
  <1>4. ASSUME NEW w \in Workers, MarkRejected(w)
        PROVE  DraftInv' /\ Kept
    BY <1>2, <1>4 DEF MarkRejected, Over
  <1>5. ASSUME NEW w \in Workers, MarkFailed(w)
        PROVE  DraftInv' /\ Kept
    BY <1>2, <1>5 DEF MarkFailed, Over
  <1> QED
    BY <1>1, <1>3, <1>4, <1>5

(* The lease of the request runs out. *)
LEMMA LeaseStep ==
    ASSUME DraftInv, UNCHANGED scope, LeaseEnds
    PROVE  DraftInv' /\ Kept
  <1>1. /\ request \in Requests /\ request.definition <= made /\ made \in Nat
        /\ job \in [Workers -> Job] /\ (Spend \/ UNCHANGED trouble)
    BY DEF DraftInv, RequestInv, Bounds, JobInv, LeaseEnds
  <1>2. PICK r : r = [request EXCEPT !.live = FALSE]
    OBVIOUS
  <1>3. /\ r \in Requests /\ r.status = request.status /\ r.holder = request.holder
        /\ r.selection = request.selection /\ r.version = request.version
        /\ r.files = request.files /\ r.refs = request.refs
        /\ r.definition = request.definition
    BY <1>1, <1>2 DEF Requests
  <1>4. /\ UNCHANGED <<row, bodies, desk, page, file, blobs, bound, instance, job, made>>
        /\ request' = r
    BY <1>2 DEF LeaseEnds, catalog, collecting
  <1>5. Kept
    BY <1>1, <1>3, <1>4 DEF Kept, RowsStay
  <1>6. CatalogInv' /\ FileInv' /\ PageInv' /\ InstanceInv'
    BY <1>3, <1>4 DEF DraftInv, CatalogInv, CatalogTypeOK, FileInv, PageInv, PageView,
                      InstanceInv, TheDraft
  <1>7. Bounds'
    BY <1>1, <1>4, TroubleStays DEF DraftInv, Bounds
  <1>8. RequestInv'
    BY <1>3, <1>4 DEF DraftInv, RequestInv, Requests, ReadyFiles
  <1> QED
    BY <1>4, <1>5, <1>6, <1>7, <1>8, StepKeeps DEF DraftInv, JobInv

(* create_draft: under the id of the request there is this draft or none. *)
LEMMA CreateStep ==
    ASSUME DraftInv, UNCHANGED scope, NEW w \in Workers, CreateInstance(w)
    PROVE  DraftInv' /\ Kept
  <1>1. /\ job \in [Workers -> Job] /\ job[w] \in Job /\ JobOK(job[w]) /\ made \in Nat
        /\ request \in Requests /\ request.definition \in Nat
        /\ job[w].pc = "create" /\ job[w].definition = request.definition
        /\ request.definition # 0
        /\ UNCHANGED <<scope, row, bodies, desk, request, page, file, blobs, bound,
                       made, trouble>>
    BY AtWork DEF CreateInstance, JobOK, JobFits, catalog, collecting
  <1>2. PICK d : d = TheDraft
    OBVIOUS
  <1>3. d \in Drafts
    BY <1>1, <1>2 DEF TheDraft, Drafts, Requests
  <1>4. instance = NoInstance \/ instance = d
    BY <1>2 DEF DraftInv, InstanceInv
  <1>5. instance' = d
    BY <1>1, <1>2, <1>4 DEF CreateInstance, TheDraft
  <1>6. PICK j : j = [job[w] EXCEPT !.pc = "created"]
    OBVIOUS
  <1>7. j \in Job /\ j.pc = "created" /\ j.definition = job[w].definition
    BY <1>1, <1>6 DEF Job
  <1>8. job' = [job EXCEPT ![w] = j]
    BY <1>1, <1>2, <1>5, <1>6 DEF CreateInstance, TheDraft
  <1>9. JobOK(j)'
    BY <1>1, <1>7 DEF JobOK, JobFits, Informed
  <1>10. Kept
    BY <1>1, <1>4, <1>5 DEF Kept, RowsStay
  <1>11. CatalogInv' /\ FileInv' /\ PageInv' /\ Bounds' /\ RequestInv'
    BY <1>1 DEF DraftInv, CatalogInv, CatalogTypeOK, FileInv, PageInv, PageView, Bounds,
                RequestInv, Requests, ReadyFiles
  <1>12. InstanceInv'
    BY <1>1, <1>2, <1>3, <1>5 DEF InstanceInv, TheDraft
  <1>13. /\ job' \in [Workers -> Job]
         /\ \A v \in Workers : job'[v] = job[v] \/ JobOK(job[v])'
    BY <1>1, <1>7, <1>8, <1>9
  <1> QED
    BY <1>10, <1>11, <1>12, <1>13, StepKeeps

(* promote *)
LEMMA PromoteStep ==
    ASSUME DraftInv, UNCHANGED scope, NEW w \in Workers, Promote(w)
    PROVE  DraftInv' /\ Kept
  <1>1. /\ job \in [Workers -> Job] /\ job[w] \in Job /\ JobOK(job[w]) /\ made \in Nat
        /\ job[w].pc = "created" /\ bound' = bound \cup request.files
        /\ request.files \subseteq Files
        /\ UNCHANGED <<scope, row, bodies, desk, request, page, file, blobs, instance,
                       made, trouble>>
    BY AtWork DEF Promote, Requests, catalog, collecting
  <1>2. PICK j : j = [job[w] EXCEPT !.pc = "promoted"]
    OBVIOUS
  <1>3. j \in Job /\ j.pc = "promoted" /\ j.definition = job[w].definition
    BY <1>1, <1>2 DEF Job
  <1>4. job' = [job EXCEPT ![w] = j]
    BY <1>2 DEF Promote
  <1>5. JobOK(j)'
    BY <1>1, <1>3 DEF JobOK, JobFits, Informed
  <1>6. Kept
    BY <1>1 DEF Kept, RowsStay
  <1>7. CatalogInv' /\ FileInv' /\ PageInv' /\ Bounds' /\ InstanceInv'
    BY <1>1 DEF DraftInv, CatalogInv, CatalogTypeOK, FileInv, PageInv, PageView, Bounds,
                InstanceInv, TheDraft
  <1>8. RequestInv'
    BY <1>1 DEF DraftInv, RequestInv, Requests, ReadyFiles
  <1>9. /\ job' \in [Workers -> Job]
        /\ \A v \in Workers : job'[v] = job[v] \/ JobOK(job[v])'
    BY <1>1, <1>3, <1>4, <1>5
  <1> QED
    BY <1>6, <1>7, <1>8, <1>9, StepKeeps

-----------------------------------------------------------------------------
(* Every step of the request keeps the invariant and what was frozen. *)
LEMMA NextDraft ==
    ASSUME DraftInv, [Next]_vars
    PROVE  DraftInv' /\ Kept
  <1>1. CASE UNCHANGED vars
    <2>1. UNCHANGED <<scope, row, bodies, desk, request, page, file, blobs, bound, instance,
                      job, made, trouble>>
      BY <1>1 DEF vars, catalog, collecting
    <2>2. Kept
      BY <2>1 DEF Kept, RowsStay, DraftInv, Bounds
    <2>3. CatalogInv' /\ FileInv' /\ PageInv' /\ Bounds' /\ RequestInv' /\ InstanceInv'
      BY <2>1 DEF DraftInv, CatalogInv, CatalogTypeOK, FileInv, PageInv, PageView, Bounds,
                  RequestInv, Requests, ReadyFiles, InstanceInv, TheDraft
    <2> QED
      BY <2>1, <2>2, <2>3, StepKeeps DEF DraftInv, JobInv
  <1>2. CASE Next
    <2>1. UNCHANGED scope /\ Step
      BY <1>2 DEF Next
    <2>2. CASE Owner
      <3>1. ASSUME NEW p \in Pages, Open(p) \/ \E chosen \in SUBSET scope.sources :
                                                  Select(p, chosen)
            PROVE  DraftInv' /\ Kept
        BY <2>1, <3>1, OpenStep, SelectStep
      <3>2. ASSUME NEW f \in Files,
                   \/ Authorize(f) \/ StoreBody(f) \/ CreateRow(f)
                   \/ UploadDies(f) \/ RevokeFile(f)
            PROVE  DraftInv' /\ Kept
        BY <2>1, <3>2, UploadStep
      <3>3. CASE FreezeAndQueue
        BY <2>1, <3>3, FreezeStep
      <3>4. CASE Cancel
        BY <2>1, <3>4, MarkStep
      <3> QED
        BY <2>2, <3>1, <3>2, <3>3, <3>4 DEF Owner
    <2>3. CASE Administrator \/ LeaseEnds
      BY <2>1, <2>3, AdministratorStep, LeaseStep
    <2>4. ASSUME NEW w \in Workers, Work(w) \/ Repair(w) \/ Die(w) \/ Fails(w)
          PROVE  DraftInv' /\ Kept
      <3>1. CASE \/ Check(w) \/ Gather(w) \/ AuthorizeFinal(w) \/ Recheck(w)
                 \/ LostClaim(w) \/ Die(w) \/ Fails(w)
        BY <2>1, <3>1, LookStep
      <3>2. CASE Claim(w) \/ Generate(w) \/ Repair(w) \/ SaveCandidate(w)
        BY <2>1, <3>2, ClaimStep, GenerateStep, RepairStep, SaveStep
      <3>3. CASE CreateInstance(w) \/ Promote(w)
        BY <2>1, <3>3, CreateStep, PromoteStep
      <3>4. CASE MarkReady(w) \/ MarkRejected(w) \/ MarkFailed(w)
        BY <2>1, <3>4, MarkStep
      <3> QED
        BY <2>4, <3>1, <3>2, <3>3, <3>4 DEF Work
    <2> QED
      BY <2>1, <2>2, <2>3, <2>4 DEF Step
  <1> QED
    BY <1>1, <1>2

-----------------------------------------------------------------------------
(* The agent *)

(* No agent has been asked. *)
LEMMA ContextStarts == ContextInit => ContextInv
  BY DraftStarts DEF ContextInit, ContextInv, AgentInv, NotAsked, Attempt

(* The draft an agent reads is that of the request, in full. *)
LEMMA DraftRead ==
    ASSUME DraftInv, instance # NoInstance
    PROVE  /\ instance.files = request.files /\ instance.refs = request.refs
           /\ instance.files \subseteq Files /\ instance.refs \subseteq Versions
           /\ request.files = ReadyFiles
           /\ \A x \in request.refs : row[x].status \in {"published", "revoked"}
  <1>1. instance = TheDraft /\ request \in Requests /\ request.definition # 0
    BY DEF DraftInv, InstanceInv, RequestInv
  <1>2. request.status # "collecting"
    BY <1>1, NobodyWorks
  <1>3. ASSUME NEW x \in request.refs
        PROVE  row[x].status \in {"published", "revoked"}
    <2>1. x \in Versions /\ row[x].status # "none"
      BY <1>1 DEF DraftInv, RequestInv, Requests
    <2> QED
      BY <2>1 DEF DraftInv, CatalogInv, CatalogTypeOK
  <1> QED
    BY <1>1, <1>2, <1>3 DEF TheDraft, DraftInv, RequestInv, Requests

(* One step of the attempt. *)
LEMMA ReadingStep ==
    ASSUME ContextInv, Reading, UNCHANGED vars
    PROVE  AgentInv'
  <1>1. UNCHANGED <<request, instance>> /\ agent \in Attempt
    BY DEF vars, ContextInv, AgentInv
  <1>2. CASE Ask
    <2>1. instance.files \in SUBSET Files
      BY <1>2, DraftRead DEF Ask, ContextInv
    <2>2. PICK e \in BOOLEAN : e = (request.status # "ready")
      OBVIOUS
    <2>3. agent' = [pc |-> "files", early |-> e, files |-> {}, refs |-> {}]
      BY <1>2, <2>2 DEF Ask, NotAsked
    <2>4. agent' \in Attempt
      BY <2>3 DEF Attempt
    <2> QED
      BY <1>1, <1>2, <2>2, <2>3, <2>4 DEF AgentInv, Ask
  <1>3. CASE ReadFiles
    <2>1. /\ agent.pc = "files" /\ instance # NoInstance
          /\ ~agent.early => request.status = "ready"
      BY <1>3 DEF ReadFiles, ContextInv, AgentInv
    <2>2. PICK fs \in SUBSET Files : fs = instance.files \cap bound
      BY <2>1, DraftRead DEF ContextInv
    <2>3. PICK pc \in {"refs", "refused"} :
            /\ agent' = [agent EXCEPT !.pc = pc, !.files = fs]
            /\ pc = "refs" => ResolvedForAgent
      BY <1>1, <1>3, <2>2 DEF ReadFiles, GoOn, Attempt
    <2>4. /\ agent' \in Attempt /\ agent'.pc = pc /\ agent'.files = fs
          /\ agent'.early = agent.early
      BY <1>1, <2>3 DEF Attempt
    <2>5. pc = "refs" => fs = instance.files
      BY <2>2, <2>3 DEF ResolvedForAgent
    <2> QED
      BY <1>1, <2>1, <2>3, <2>4, <2>5 DEF AgentInv
  <1>4. CASE ReadKnowledge
    <2>1. /\ agent.pc = "refs" /\ instance # NoInstance /\ agent.files = instance.files
          /\ ~agent.early => request.status = "ready"
      BY <1>4 DEF ReadKnowledge, ContextInv, AgentInv
    <2>2. PICK xs \in SUBSET Versions : xs = instance.refs \cap bodies
      BY <2>1, DraftRead DEF ContextInv
    <2>3. PICK pc \in {"issue", "refused"} :
            /\ agent' = [agent EXCEPT !.pc = pc, !.refs = xs]
            /\ pc = "issue" => instance.refs \subseteq bodies
      BY <1>1, <1>4, <2>2 DEF ReadKnowledge, GoOn, Attempt
    <2>4. /\ agent' \in Attempt /\ agent'.pc = pc /\ agent'.refs = xs
          /\ agent'.early = agent.early /\ agent'.files = agent.files
      BY <1>1, <2>3 DEF Attempt
    <2>5. pc = "issue" => xs = instance.refs
      BY <2>2, <2>3
    <2> QED
      BY <1>1, <2>1, <2>3, <2>4, <2>5 DEF AgentInv
  <1>5. CASE IssueToAgent
    <2>1. /\ agent.pc = "issue" /\ instance # NoInstance
          /\ ~agent.early => request.status = "ready"
      BY <1>5 DEF IssueToAgent, ContextInv, AgentInv
    <2>2. PICK pc \in {"given", "refused"} : agent' = [agent EXCEPT !.pc = pc]
      BY <1>5 DEF IssueToAgent, GoOn
    <2>3. agent' \in Attempt /\ agent'.pc = pc /\ agent'.early = agent.early
      BY <1>1, <2>2 DEF Attempt
    <2> QED
      BY <1>1, <2>1, <2>2, <2>3 DEF AgentInv
  <1> QED
    BY <1>2, <1>3, <1>4, <1>5 DEF Reading

(* The agent's draft stays as it is while everything else moves on. *)
LEMMA NextContext ==
    ContextInv /\ [ContextNext]_contextVars => ContextInv'
  <1> SUFFICES ASSUME ContextInv, [ContextNext]_contextVars PROVE ContextInv'
    OBVIOUS
  <1>1. CASE UNCHANGED agent /\ [Next]_vars
    <2>1. DraftInv' /\ Kept
      BY <1>1, NextDraft DEF ContextInv
    <2>2. AgentInv'
      BY <1>1, <2>1 DEF ContextInv, AgentInv, Kept
    <2> QED
      BY <2>1, <2>2 DEF ContextInv
  <1>2. CASE Reading /\ UNCHANGED vars
    <2>1. DraftInv'
      BY <1>2, NextDraft DEF ContextInv
    <2> QED
      BY <1>2, <2>1, ReadingStep DEF ContextInv
  <1> QED
    BY <1>1, <1>2 DEF ContextNext, contextVars

(* What is true of the request in particular. *)
LEMMA InvIsOneDraft == DraftInv => OneDraft
  <1> SUFFICES ASSUME DraftInv PROVE OneDraft
    OBVIOUS
  <1>1. /\ made \in Nat /\ request \in Requests /\ request.definition \in 0 .. made
        /\ instance \in Drafts /\ instance.definition \in 0 .. made
    BY DEF DraftInv, Bounds, RequestInv, Requests, InstanceInv, Drafts, NoInstance, TheDraft
  <1>2. \A w \in Workers : job[w] \in Job /\ job[w].definition \in 0 .. made
    BY <1>1 DEF DraftInv, JobInv, JobOK, Job
  <1>3. request \in [status: {"collecting", "pending", "failed"} \cup Working \cup Over,
                    selection: SUBSET Sources, version: 0..scope.edits,
                    files: SUBSET Files, refs: SUBSET Versions, definition: 0..made,
                    holder: Workers \cup {Nobody}, live: BOOLEAN, tries: 0..MaxTries]
    BY <1>1 DEF Requests, Statuses
  <1>4. instance \in [definition: 0..made, files: SUBSET Files, refs: SUBSET Versions]
    BY <1>1 DEF Drafts
  <1>5. job \in [Workers ->
                [pc: {"idle", "claimed", "gather", "gathered", "issued", "generate",
                      "repair", "generated", "create", "created", "promoted",
                      "rejected", "failed"},
                 definition: 0..made, tries: 0..MaxTries]]
    BY <1>2 DEF DraftInv, JobInv, Job
  <1>6. TypeOK
    BY <1>1, <1>3, <1>4, <1>5
       DEF TypeOK, DraftInv, CatalogInv, Bounds, RequestInv, PageInv, PageView, FileInv,
           FileStates
  <1> QED
    BY <1>6 DEF OneDraft, DraftInv, InstanceInv, RequestInv, TheDraft

(* There is one candidate and one draft: whichever workers overlap, fail   *)
(* or take over, the instance is made of what is frozen with the request,  *)
(* and no upload or revocation slips in behind the freeze (save_candidate, *)
(* create_draft, freeze_and_queue). *)
THEOREM ThereIsOneDraft == ContextSpec => []OneDraft
  <1>1. ContextInv => OneDraft
    BY InvIsOneDraft DEF ContextInv
  <1> QED
    BY <1>1, ContextStarts, NextContext, PTL DEF ContextSpec

(* Only save_selection changes the selection, from the page it shows. *)
LEMMA SelectionKept ==
    DraftInv /\ [Next]_vars =>
        [request'.selection # request.selection =>
            \E p \in Pages : page'[p] # page[p] /\ page[p].selection = request.selection]_vars
  <1> SUFFICES ASSUME DraftInv, [Next]_vars, request'.selection # request.selection
               PROVE  \E p \in Pages : page'[p] # page[p]
                                       /\ page[p].selection = request.selection
    OBVIOUS
  <1>1. Step
    BY DEF Next, vars
  <1>2. request \in Requests
    BY DEF DraftInv, RequestInv
  <1>3. \E p \in Pages, chosen \in SUBSET scope.sources : Select(p, chosen)
    <2>1. ASSUME NEW s, request' = Released(s)
          PROVE  FALSE
      BY <1>2, <2>1 DEF Released, Requests
    <2>2. Owner \/ \E w \in Workers : Work(w) \/ Repair(w)
      BY <1>1, <1>2 DEF Step, Administrator, LeaseEnds, Die, Fails, Requests
    <2>3. ASSUME NEW w \in Workers, Work(w) \/ Repair(w)
          PROVE  FALSE
      BY <1>2, <2>1, <2>3
      DEF Work, Repair, Claim, Check, Gather, AuthorizeFinal, Recheck, Generate,
            SaveCandidate, CreateInstance, Promote, MarkReady, MarkRejected, MarkFailed,
            Settle, LostClaim, Requests
    <2>4. Owner => \E p \in Pages, chosen \in SUBSET scope.sources : Select(p, chosen)
      BY <1>2, <2>1 DEF Owner, Open, Authorize, StoreBody, CreateRow, UploadDies, RevokeFile,
            FreezeAndQueue, Cancel, Requests
    <2> QED
      BY <2>2, <2>3, <2>4
  <1>4. PICK p \in Pages, chosen \in SUBSET scope.sources : Select(p, chosen)
    BY <1>3
  <1>5. page[p].selection = request.selection /\ page[p].version = request.version
    BY <1>4 DEF Select, UpToDate, DraftInv, PageInv
  <1>6. page'[p].version = request.version + 1
    BY <1>4 DEF Select, DraftInv, PageInv
  <1>7. request.version \in Nat
    BY <1>2, Numbers DEF Requests, DraftInv, Bounds
  <1> QED
    BY <1>5, <1>6, <1>7

(* Nobody's selection is overwritten unseen: a page that changes it has    *)
(* shown what it changes, however many pages are open (save_selection).    *)
THEOREM NoSelectionIsLost == ContextSpec => NoLostSelection
  <1>1. ContextInv /\ [ContextNext]_contextVars => [Next]_vars /\ DraftInv
    BY DEF ContextInv, ContextNext, contextVars, vars
  <1>2. ContextInv /\ [ContextNext]_contextVars =>
          [request'.selection # request.selection =>
              \E p \in Pages : page'[p] # page[p]
                               /\ page[p].selection = request.selection]_vars
    BY <1>1, SelectionKept
  <1> QED
    BY <1>2, ContextStarts, NextContext, PTL DEF ContextSpec, NoLostSelection

(* A step of the agent that ends its attempt. *)
LEMMA AttemptEnds ==
    ASSUME ContextInv, [ContextNext]_contextVars, agent.pc # agent'.pc
    PROVE  /\ agent'.pc = "given" =>
                agent'.files = request.files /\ agent'.refs = request.refs
           /\ agent'.pc = "refused" /\ ~agent.early =>
                \E x \in request.refs : row[x].status = "revoked" \/ x \notin bodies
  <1>1. Reading /\ agent \in Attempt
    BY DEF ContextNext, contextVars, ContextInv, AgentInv
  <1>2. CASE Ask
    BY <1>2 DEF Ask, NotAsked
  <1>3. CASE ReadFiles
    <2>1. agent.pc = "files" /\ instance # NoInstance
          /\ (~agent.early => request.status = "ready")
      BY <1>3 DEF ReadFiles, ContextInv, AgentInv
    <2>2. /\ instance.files = request.files /\ request.files = ReadyFiles
          /\ request.status = "ready" => request.files \subseteq bound \cap blobs
      BY <2>1, DraftRead DEF ContextInv, DraftInv, RequestInv
    <2>3. ~agent.early => ResolvedForAgent /\ instance.files \subseteq blobs
      BY <2>1, <2>2 DEF ResolvedForAgent
    <2>4. agent'.pc = IF ResolvedForAgent /\ instance.files \subseteq blobs
                      THEN "refs" ELSE "refused"
      BY <1>1, <1>3 DEF ReadFiles, GoOn, Attempt
    <2> QED
      BY <2>3, <2>4
  <1>4. CASE ReadKnowledge
    <2>1. agent.pc = "refs" /\ instance # NoInstance
      BY <1>4 DEF ReadKnowledge, ContextInv, AgentInv
    <2>2. /\ instance.refs = request.refs
          /\ \A x \in request.refs : row[x].status \in {"published", "revoked"}
      BY <2>1, DraftRead DEF ContextInv
    <2>3. agent'.pc = IF Authorized(instance.refs) /\ instance.refs \subseteq bodies
                      THEN "issue" ELSE "refused"
      BY <1>1, <1>4 DEF ReadKnowledge, GoOn, Attempt
    <2> QED
      BY <2>2, <2>3 DEF Authorized
  <1>5. CASE IssueToAgent
    <2>1. /\ agent.pc = "issue" /\ instance # NoInstance
          /\ agent.files = instance.files /\ agent.refs = instance.refs
      BY <1>5 DEF IssueToAgent, ContextInv, AgentInv
    <2>2. /\ instance.refs = request.refs /\ instance.files = request.files
          /\ \A x \in request.refs : row[x].status \in {"published", "revoked"}
      BY <2>1, DraftRead DEF ContextInv
    <2>3. agent'.pc = IF MayIssue(instance.refs) THEN "given" ELSE "refused"
      BY <1>1, <1>5, <2>1 DEF IssueToAgent, GoOn, MatchesManifest, Attempt
    <2>4. agent'.files = agent.files /\ agent'.refs = agent.refs
      BY <1>1, <1>5 DEF IssueToAgent, GoOn, Attempt
    <2> QED
      BY <2>1, <2>2, <2>3, <2>4 DEF MayIssue, Authorized
  <1> QED
    BY <1>1, <1>2, <1>3, <1>4, <1>5 DEF Reading

(* An agent reads what its flow was planned from, the same files and the   *)
(* same versions; and once the draft is ready only a version that was      *)
(* revoked, or whose text was taken back, has its context refused          *)
(* (promote, mark_ready, resolve_for_agent,                                *)
(* _validate_frozen_planning_manifest). *)
THEOREM AgentsReadWhatWasPlanned == ContextSpec => AgentsReadThePlan
  <1>1. ContextInv /\ [ContextNext]_contextVars =>
          [agent.pc # agent'.pc =>
            /\ agent'.pc = "given" =>
                 agent'.files = request.files /\ agent'.refs = request.refs
            /\ agent'.pc = "refused" /\ ~agent.early =>
                 \E x \in request.refs : row[x].status = "revoked"
                                         \/ x \notin bodies]_contextVars
    BY AttemptEnds
  <1> QED
    BY <1>1, ContextStarts, NextContext, PTL DEF ContextSpec, AgentsReadThePlan

-----------------------------------------------------------------------------
(***************************************************************************)
(* One session for each sign-in, and a true audit of revocations, for any  *)
(* number of browsers, people, logins, sessions and previews, any limits   *)
(* and any lifetimes.                                                      *)
(*                                                                         *)
(* A state is in one place: not used yet, in one login under way, or in    *)
(* one session.  That is what the single sign-in rests on.  The audit      *)
(* rests on the identity of a session: no two rows have it, and a row in   *)
(* the table has not ended, so that one that is revoked ends just then.    *)
(***************************************************************************)
Begun == 1 .. Len(begun)
Ids == 1 .. Len(issued)
Fate == {"live", "evicted", "expired", "logout", "revoked"}
Session == [id: Ids, person: People, created: Nat, expires: Nat]
Whole == [op: {"preview", "confirm"}, of: Nat, current: Nat]

ClockInv == clock \in 0 .. MaxTime

(* The memory of the login flow, and what browsers carry. *)
LoginInv ==
    /\ begun \in Seq(Browsers)
    /\ IsFiniteSet(pending) /\ Cardinality(pending) <= MaxStates
    /\ \A p \in pending : p.state \in Begun
    /\ logins \subseteq [state: Begun, visit: Nat, pc: {"exchange", "issue"}, at: Nat]
    /\ visits \in [States -> Nat]
    /\ cookies \in [Browsers -> [state: Nat, session: 0 .. Len(issued)]]

(* The table of sessions and its history. *)
TableInv ==
    /\ issued \in Seq(Nat) /\ ended \in [Ids -> Fate]
    /\ IsFiniteSet(sessions) /\ Cardinality(sessions) <= MaxSessions
    /\ sessions \subseteq Session
    /\ \A x, y \in sessions : x.id = y.id => x = y
    /\ \A i \in Ids : ended[i] = "live" <=> \E x \in sessions : x.id = i

(* A state is in one place. *)
OnePlace ==
    /\ \A p, q \in pending : p.state = q.state => p = q
    /\ \A c, d \in logins : c.state = d.state => c = d
    /\ \A p \in pending, c \in logins : p.state # c.state
    /\ \A i \in Ids :
        /\ issued[i] \in Begun
        /\ \A p \in pending : p.state # issued[i]
        /\ \A c \in logins : c.state # issued[i]
        /\ \A j \in Ids : issued[i] = issued[j] => i = j

(* A browser carries a session of its own. *)
OwnCookies ==
    \A b \in Browsers :
        cookies[b].session # 0 => begun[issued[cookies[b].session]] = b

SignInInv == ClockInv /\ LoginInv /\ TableInv /\ OnePlace /\ OwnCookies

(* A confirmation names a preview. *)
WorkInv ==
    /\ work \in [Browsers -> {NoWork} \cup Whole]
    /\ \A b \in Browsers : work[b].op = "confirm" => work[b].of \in DOMAIN previews

(* Requests, previews and events name what exists. *)
GovernanceInv ==
    /\ WorkInv
    /\ previews \in Seq([actor: People, target: Session, expires: Nat,
                         consumed: BOOLEAN])
    /\ Len(previews) <= MaxPreviews
    /\ events \in Seq([actor: People, target: Ids, preview: DOMAIN previews])
    /\ \A i \in DOMAIN events : events[i].target = previews[events[i].preview].target.id

SessionsInv == SignInInv /\ GovernanceInv /\ AuditIsTrue

-----------------------------------------------------------------------------
(* A function on 1 .. n is a sequence of length n. *)
LEMMA FunctionIsSeq ==
    ASSUME NEW S, NEW n \in Nat, NEW f \in [1 .. n -> S]
    PROVE  f \in Seq(S) /\ Len(f) = n /\ DOMAIN f = 1 .. n
  <1>1. f \in Seq(S)
    BY SeqDef
  <1>2. DOMAIN f = 1 .. Len(f) /\ Len(f) \in Nat
    BY <1>1, LenProperties
  <1> QED
    BY <1>1, <1>2

(* The sequences of the state have their lengths. *)
LEMMA Lengths ==
    ASSUME SignInInv
    PROVE  /\ Len(begun) \in Nat /\ DOMAIN begun = Begun
           /\ \A s \in Begun : begun[s] \in Browsers
           /\ Len(issued) \in Nat /\ DOMAIN issued = Ids
           /\ \A i \in Ids : issued[i] \in Begun
           /\ clock \in Nat
  <1>1. Len(begun) \in Nat /\ DOMAIN begun = Begun /\ begun \in [Begun -> Browsers]
    BY LenProperties DEF SignInInv, LoginInv, Begun
  <1>2. Len(issued) \in Nat /\ DOMAIN issued = Ids
    BY LenProperties DEF SignInInv, TableInv, Ids
  <1>3. \A i \in Ids : issued[i] \in Begun
    BY DEF SignInInv, OnePlace
  <1>4. clock \in Nat
    BY SessionsAssumption DEF SignInInv, ClockInv
  <1> QED
    BY <1>1, <1>2, <1>3, <1>4

(* Nobody is signed in and nothing has begun. *)
LEMMA InitSessions == SessionsInit => SessionsInv
  <1> SUFFICES ASSUME SessionsInit PROVE SessionsInv
    OBVIOUS
  <1>1. /\ begun \in Seq(Browsers) /\ Len(begun) = 0 /\ begun = << >>
        /\ issued \in Seq(Nat) /\ Len(issued) = 0 /\ issued = << >>
        /\ ended = << >> /\ events = << >> /\ previews = << >> /\ Len(previews) = 0
    BY EmptySeq DEF SessionsInit
  <1>2. Begun = {} /\ Ids = {} /\ DOMAIN issued = {} /\ DOMAIN events = {}
        /\ DOMAIN previews = {}
    BY <1>1, SMT DEF Begun, Ids
  <1>3. ClockInv
    BY SessionsAssumption DEF SessionsInit, ClockInv
  <1>4. LoginInv
    <2>1. IsFiniteSet(pending) /\ Cardinality(pending) <= MaxStates
      BY FS_EmptySet, SessionsAssumption DEF SessionsInit
    <2>2. cookies \in [Browsers -> [state: Nat, session: 0 .. Len(issued)]]
      BY <1>1 DEF SessionsInit
    <2> QED
      BY <1>1, <2>1, <2>2 DEF SessionsInit, LoginInv
  <1>5. TableInv
    <2>1. IsFiniteSet(sessions) /\ Cardinality(sessions) <= MaxSessions
      BY FS_EmptySet, SessionsAssumption DEF SessionsInit
    <2>2. ended \in [Ids -> Fate]
      BY <1>1, <1>2
    <2> QED
      BY <1>1, <1>2, <2>1, <2>2 DEF SessionsInit, TableInv
  <1>6. OnePlace /\ OwnCookies
    BY <1>2 DEF SessionsInit, OnePlace, OwnCookies
  <1>7. GovernanceInv
    <2>1. WorkInv
      BY DEF SessionsInit, WorkInv, NoWork
    <2>2. /\ previews \in Seq([actor: People, target: Session, expires: Nat,
                               consumed: BOOLEAN])
          /\ events \in Seq([actor: People, target: Ids, preview: DOMAIN previews])
      BY <1>1, EmptySeq
    <2> QED
      BY <1>1, <1>2, <2>1, <2>2, SessionsAssumption DEF GovernanceInv
  <1>8. AuditIsTrue
    BY <1>2 DEF AuditIsTrue
  <1> QED
    BY <1>3, <1>4, <1>5, <1>6, <1>7, <1>8 DEF SessionsInv, SignInInv

-----------------------------------------------------------------------------
(* The table *)

(* Rows that go, go for a reason. *)
LEMMA DropTable ==
    ASSUME SignInInv, NEW S, S \subseteq sessions, NEW why \in Fate \ {"live"},
           Drop(S, why)
    PROVE  /\ TableInv' /\ Ids' = Ids
           /\ \A i \in Ids : ended'[i] = IF \E x \in S : x.id = i THEN why ELSE ended[i]
  <1>1. /\ sessions' = sessions \ S /\ issued' = issued
        /\ ended' = [i \in DOMAIN ended |->
                        IF \E x \in S : x.id = i THEN why ELSE ended[i]]
    BY DEF Drop
  <1>2. TableInv
    BY DEF SignInInv
  <1>3. Ids' = Ids /\ Session' = Session
    BY <1>1 DEF Ids, Session
  <1>4. /\ ended' \in [Ids -> Fate]
        /\ \A i \in Ids : ended'[i] = IF \E x \in S : x.id = i THEN why ELSE ended[i]
    BY <1>1, <1>2 DEF TableInv
  <1>5. IsFiniteSet(sessions') /\ Cardinality(sessions') <= MaxSessions
    <2>1. IsFiniteSet(sessions) /\ Cardinality(sessions) <= MaxSessions
      BY <1>2 DEF TableInv
    <2> DEFINE rest == sessions \ S
    <2>2. IsFiniteSet(rest) /\ Cardinality(rest) <= Cardinality(sessions)
      BY <2>1, FS_Subset
    <2>3. Cardinality(sessions) \in Nat /\ Cardinality(rest) \in Nat /\ MaxSessions \in Nat
      BY <2>1, <2>2, FS_CardinalityType, SessionsAssumption
    <2>4. sessions' = rest
      BY <1>1
    <2> HIDE DEF rest
    <2>5. Cardinality(rest) <= MaxSessions
      BY <2>1, <2>2, <2>3
    <2> QED
      BY <2>2, <2>4, <2>5
  <1>6. ASSUME NEW i \in Ids
        PROVE  ended'[i] = "live" <=> \E x \in sessions' : x.id = i
    <2>1. ended[i] = "live" <=> \E x \in sessions : x.id = i
      BY <1>2 DEF TableInv
    <2>2. \A x, y \in sessions : x.id = y.id => x = y
      BY <1>2 DEF TableInv
    <2>3. ended'[i] = IF \E x \in S : x.id = i THEN why ELSE ended[i]
      BY <1>4
    <2>4. CASE \E x \in S : x.id = i
      BY <1>1, <2>2, <2>3, <2>4
    <2>5. CASE ~ \E x \in S : x.id = i
      BY <1>1, <2>1, <2>3, <2>5
    <2> QED
      BY <2>4, <2>5
  <1> QED
    BY <1>1, <1>2, <1>3, <1>4, <1>5, <1>6 DEF TableInv

(* A new row takes the next number; the oldest make room for it. *)
LEMMA StoreTable ==
    ASSUME SignInInv, NEW s \in Begun, NEW now \in Nat, Store(s, now)
    PROVE  /\ TableInv'
           /\ issued' = Append(issued, s)
           /\ Ids' = Ids \cup {Len(issued')} /\ Len(issued') = Len(issued) + 1
           /\ \A i \in Ids : ended'[i] # ended[i] =>
                  ended[i] = "live" /\ ended'[i] \in {"evicted", "expired"}
           /\ ended'[Len(issued')] = "live"
  <1> DEFINE kept == sessions \ Expired(now)
             id == Len(issued) + 1
             room == Cardinality(kept) + 1 - MaxSessions
             new == [id |-> id, person |-> OwnerOf[begun[s]],
                     created |-> now, expires |-> now + SessionLife]
  <1>1. PICK V \in Oldest(kept, IF room > 0 THEN room ELSE 0) :
            /\ sessions' = (kept \ V) \cup {new}
            /\ issued' = Append(issued, s)
            /\ ended' = Append([i \in DOMAIN ended |->
                           IF \E x \in V : x.id = i THEN "evicted"
                           ELSE IF \E x \in Expired(now) : x.id = i THEN "expired"
                           ELSE ended[i]], "live")
    BY DEF Store
  <1>a. new.id = id /\ V \in Oldest(kept, IF room > 0 THEN room ELSE 0)
    OBVIOUS
  <1> HIDE DEF kept, id, room, new
  <1>b. sessions' = (kept \ V) \cup {new}
    BY <1>1
  <1>c. kept \subseteq sessions
    BY DEF kept
  <1>2. TableInv /\ Len(issued) \in Nat /\ s \in Nat
    BY Lengths DEF SignInInv, Begun
  <1>3. /\ issued' \in Seq(Nat) /\ Len(issued') = id /\ id \in Nat
        /\ Ids' = Ids \cup {id} /\ id \notin Ids
    <2>1. issued' \in Seq(Nat) /\ Len(issued') = id
      <3>1. issued' = Append(issued, s) /\ issued \in Seq(Nat)
        BY <1>1, <1>2 DEF TableInv
      <3> QED
        BY <1>2, <3>1, AppendProperties DEF id
    <2> QED
      BY <1>2, <2>1 DEF Ids, id
  <1>4. V \subseteq kept /\ Cardinality(V) = (IF room > 0 THEN room ELSE 0)
    BY <1>a DEF Oldest
  <1>5. new \in Session'
    <2>1. OwnerOf[begun[s]] \in People
      BY Lengths, SessionsAssumption
    <2>2. now + SessionLife \in Nat
      BY SessionsAssumption
    <2> QED
      BY <1>3, <2>1, <2>2 DEF new, Session
  <1>6. sessions' \subseteq Session'
    <2>1. sessions \subseteq Session'
      BY <1>2, <1>3 DEF TableInv, Session
    <2> QED
      BY <1>1, <1>5, <2>1 DEF kept
  <1>7. IsFiniteSet(sessions') /\ Cardinality(sessions') <= MaxSessions
    <2>1. IsFiniteSet(kept) /\ Cardinality(kept) \in Nat /\ MaxSessions \in Nat
      BY <1>2, FS_Difference, FS_CardinalityType, SessionsAssumption
      DEF TableInv, kept
    <2>2. kept \cap V = V
      BY <1>4
    <2>3. /\ IsFiniteSet(kept \ V)
          /\ Cardinality(kept \ V) = Cardinality(kept) - Cardinality(V)
      BY <2>1, <2>2, FS_Difference
    <2>4. IsFiniteSet(kept \ V) /\ Cardinality(kept \ V) \in Nat
          /\ Cardinality(kept \ V) + 1 <= MaxSessions
      BY <1>4, <2>1, <2>3, FS_CardinalityType DEF room
    <2>5. /\ IsFiniteSet((kept \ V) \cup {new})
          /\ Cardinality((kept \ V) \cup {new}) =
               IF new \in kept \ V THEN Cardinality(kept \ V)
               ELSE Cardinality(kept \ V) + 1
      BY <2>4, FS_AddElement
    <2> QED
      BY <1>b, <2>1, <2>4, <2>5
  <1>8. \A x \in sessions : x.id \in Ids
    BY <1>2 DEF TableInv, Session
  <1>9. \A x, y \in sessions' : x.id = y.id => x = y
    <2>1. \A x, y \in sessions : x.id = y.id => x = y
      BY <1>2 DEF TableInv
    <2>2. \A x \in sessions' : x = new \/ x \in sessions
      BY <1>b, <1>c
    <2>3. id \notin Ids
      BY <1>3
    <2> QED
      BY <1>a, <1>8, <2>1, <2>2, <2>3
  <1>10. /\ ended' \in [Ids' -> Fate] /\ ended'[id] = "live"
         /\ \A i \in Ids : ended'[i] =
                IF \E x \in V : x.id = i THEN "evicted"
                ELSE IF \E x \in Expired(now) : x.id = i THEN "expired"
                ELSE ended[i]
    <2> DEFINE older == [i \in DOMAIN ended |->
                           IF \E x \in V : x.id = i THEN "evicted"
                           ELSE IF \E x \in Expired(now) : x.id = i THEN "expired"
                           ELSE ended[i]]
    <2>1. DOMAIN ended = Ids
      BY <1>2 DEF TableInv
    <2>2. older \in [Ids -> Fate]
      BY <1>2, <2>1 DEF TableInv, Fate
    <2>3. \A i \in Ids : older[i] =
                IF \E x \in V : x.id = i THEN "evicted"
                ELSE IF \E x \in Expired(now) : x.id = i THEN "expired"
                ELSE ended[i]
      BY <2>1
    <2> HIDE DEF older
    <2>4. older \in Seq(Fate) /\ Len(older) = Len(issued)
      BY <1>2, <2>2, FunctionIsSeq DEF Ids
    <2>5. ended' = Append(older, "live") /\ "live" \in Fate
      BY <1>1 DEF older, Fate
    <2>6. /\ ended' \in Seq(Fate) /\ Len(ended') = id /\ ended'[id] = "live"
          /\ \A i \in Ids : ended'[i] = older[i]
      <3>1. /\ Append(older, "live") \in Seq(Fate)
            /\ Len(Append(older, "live")) = Len(older) + 1
            /\ \A i \in 1 .. Len(older) : Append(older, "live")[i] = older[i]
            /\ Append(older, "live")[Len(older) + 1] = "live"
        BY <2>4, <2>5, AppendProperties
      <3> QED
        BY <2>4, <2>5, <3>1 DEF Ids, id
    <2>7. ended' \in [1 .. id -> Fate]
      BY <2>6, LenProperties
    <2> QED
      BY <1>3, <2>3, <2>6, <2>7 DEF Ids
  <1>11. ASSUME NEW i \in Ids'
         PROVE  ended'[i] = "live" <=> \E x \in sessions' : x.id = i
    <2>1. CASE i = id
      BY <1>a, <1>b, <1>10, <2>1
    <2>2. CASE i \in Ids
      <3>1. ended[i] = "live" <=> \E x \in sessions : x.id = i
        BY <1>2, <2>2 DEF TableInv
      <3>2. (\E x \in sessions' : x.id = i) <=> \E x \in kept \ V : x.id = i
        BY <1>a, <1>b, <1>3, <2>2
      <3>3. \A x, y \in sessions : x.id = y.id => x = y
        BY <1>2 DEF TableInv
      <3>4. ended'[i] = IF \E x \in V : x.id = i THEN "evicted"
                        ELSE IF \E x \in Expired(now) : x.id = i THEN "expired"
                        ELSE ended[i]
        BY <1>10, <2>2
      <3>5. Expired(now) \subseteq sessions /\ V \subseteq sessions
        BY <1>4 DEF kept, Expired
      <3>6. CASE \E x \in V \cup Expired(now) : x.id = i
        <4>1. ended'[i] # "live"
          BY <3>4, <3>6
        <4>2. \A x \in kept \ V : x.id # i
          BY <3>3, <3>5, <3>6 DEF kept
        <4> QED
          BY <3>2, <4>1, <4>2
      <3>7. CASE ~ \E x \in V \cup Expired(now) : x.id = i
        <4>1. ended'[i] = ended[i]
          BY <3>4, <3>7
        <4>2. (\E x \in kept \ V : x.id = i) <=> \E x \in sessions : x.id = i
          BY <3>7 DEF kept
        <4> QED
          BY <3>1, <3>2, <4>1, <4>2
      <3> QED
        BY <3>6, <3>7
    <2> QED
      BY <1>3, <2>1, <2>2
  <1>12. ASSUME NEW i \in Ids, ended'[i] # ended[i]
         PROVE  ended[i] = "live" /\ ended'[i] \in {"evicted", "expired"}
    <2>1. ended[i] = "live" <=> \E x \in sessions : x.id = i
      BY <1>2 DEF TableInv
    <2> QED
      BY <1>4, <1>10, <1>12, <2>1 DEF kept, Expired
  <1> QED
    BY <1>1, <1>3, <1>6, <1>7, <1>9, <1>10, <1>11, <1>12 DEF TableInv, id

-----------------------------------------------------------------------------
(* Signing in *)

(* States that are used up, logins that end: each is still in one place. *)
LEMMA OnePlaceShrinks ==
    ASSUME SignInInv, UNCHANGED <<begun, issued>>,
           pending' \subseteq pending, logins' \subseteq logins
    PROVE  OnePlace'
  <1>1. Begun' = Begun /\ Ids' = Ids
    BY DEF Begun, Ids
  <1> QED
    BY <1>1 DEF SignInInv, OnePlace

(* A new state takes the place of an old one when there is no room. *)
LEMMA LoginStep ==
    ASSUME SignInInv, NEW b \in Browsers, Login(b)
    PROVE  SignInInv'
  <1> DEFINE s == Len(begun) + 1
             kept == {p \in pending : p.expires > clock}
             room == Cardinality(kept) >= MaxStates
             new == [state |-> s, expires |-> clock + StateLife]
             S == {x \in sessions : x.id = cookies[b].session}
  <1>1. PICK old \in IF room THEN {p \in kept : \A q \in kept : p.expires <= q.expires}
                     ELSE {[state |-> 0]} :
            pending' = (kept \ {old}) \cup {new}
    BY DEF Login
  <1>2. /\ begun' = Append(begun, b) /\ cookies' = [cookies EXCEPT ![b].state = s]
        /\ Drop(S, "expired") /\ UNCHANGED <<clock, visits, logins, issued>>
    BY DEF Login, Drop
  <1>3. TableInv' /\ Ids' = Ids
    BY <1>2, DropTable DEF Fate
  <1>4. /\ begun \in Seq(Browsers) /\ Len(begun) \in Nat
        /\ begun' \in Seq(Browsers) /\ Len(begun') = s
        /\ Begun' = Begun \cup {s} /\ s \notin Begun /\ s \in Nat
        /\ \A i \in Begun : begun'[i] = begun[i]
    <2>1. begun \in Seq(Browsers) /\ Len(begun) \in Nat
      BY Lengths DEF SignInInv, LoginInv
    <2>2. begun' \in Seq(Browsers) /\ Len(begun') = s
          /\ \A i \in 1 .. Len(begun) : begun'[i] = begun[i]
      BY <1>2, <2>1, AppendProperties
    <2> QED
      BY <2>1, <2>2 DEF Begun
  <1>5. new.state = s /\ kept \subseteq pending
    OBVIOUS
  <1>6. IsFiniteSet(pending') /\ Cardinality(pending') <= MaxStates
    <2>1. IsFiniteSet(pending) /\ Cardinality(pending) <= MaxStates
      BY DEF SignInInv, LoginInv
    <2>2. /\ IsFiniteSet(kept) /\ Cardinality(kept) <= Cardinality(pending)
          /\ Cardinality(pending) \in Nat /\ Cardinality(kept) \in Nat
      BY <2>1, FS_Subset, FS_CardinalityType
    <2>3. /\ IsFiniteSet(kept \ {old})
          /\ Cardinality(kept \ {old}) = IF old \in kept THEN Cardinality(kept) - 1
                                         ELSE Cardinality(kept)
          /\ Cardinality(kept \ {old}) \in Nat
      BY <2>2, FS_RemoveElement, FS_CardinalityType
    <2>4. Cardinality(kept) >= MaxStates => old \in kept
      BY <1>1
    <2> HIDE DEF kept, new, s
    <2>5. /\ IsFiniteSet((kept \ {old}) \cup {new})
          /\ Cardinality((kept \ {old}) \cup {new}) <= Cardinality(kept \ {old}) + 1
      BY <2>3, FS_AddElement
    <2>6. MaxStates \in Nat /\ Cardinality((kept \ {old}) \cup {new}) \in Nat
      BY <2>5, SessionsAssumption, FS_CardinalityType
    <2>7. Cardinality((kept \ {old}) \cup {new}) <= MaxStates
      BY <2>1, <2>2, <2>3, <2>5, <2>4, <2>6
    <2> QED
      BY <1>1, <2>5, <2>7
  <1> HIDE DEF kept, new, s, room
  <1>7. \A p \in pending' : p \in pending \/ p = new
    BY <1>1, <1>5
  <1>8. LoginInv'
    <2>1. \A p \in pending' : p.state \in Begun'
      BY <1>4, <1>5, <1>7 DEF SignInInv, LoginInv
    <2>2. logins' \subseteq [state: Begun', visit: Nat, pc: {"exchange", "issue"},
                             at: Nat]
      BY <1>2, <1>4 DEF SignInInv, LoginInv
    <2>3. visits' \in [States -> Nat]
      BY <1>2 DEF SignInInv, LoginInv
    <2>4. cookies' \in [Browsers -> [state: Nat, session: 0 .. Len(issued')]]
      BY <1>2, <1>4 DEF SignInInv, LoginInv
    <2> QED
      BY <1>4, <1>6, <2>1, <2>2, <2>3, <2>4 DEF LoginInv
  <1>9. OnePlace'
    <2>1. /\ \A p \in pending : p.state # s
          /\ \A c \in logins : c.state # s
          /\ \A i \in Ids : issued[i] # s
      BY <1>4, Lengths DEF SignInInv, LoginInv
    <2>2. OnePlace
      BY DEF SignInInv
    <2>3. \A p, q \in pending' : p.state = q.state => p = q
      BY <1>5, <1>7, <2>1, <2>2 DEF OnePlace
    <2>4. \A p \in pending', c \in logins' : p.state # c.state
      BY <1>2, <1>5, <1>7, <2>1, <2>2 DEF OnePlace
    <2>5. \A c, d \in logins' : c.state = d.state => c = d
      BY <1>2, <2>2 DEF OnePlace
    <2>6. ASSUME NEW i \in Ids'
          PROVE  /\ issued'[i] \in Begun'
                 /\ \A p \in pending' : p.state # issued'[i]
                 /\ \A c \in logins' : c.state # issued'[i]
                 /\ \A j \in Ids' : issued'[i] = issued'[j] => i = j
      BY <1>2, <1>3, <1>4, <1>5, <1>7, <2>1, <2>2 DEF OnePlace
    <2> QED
      BY <2>3, <2>4, <2>5, <2>6 DEF OnePlace
  <1>10. OwnCookies'
    <2> SUFFICES ASSUME NEW x \in Browsers, cookies'[x].session # 0
                 PROVE  begun'[issued'[cookies'[x].session]] = x
      BY DEF OwnCookies
    <2>1. cookies'[x].session = cookies[x].session
      BY <1>2 DEF SignInInv, LoginInv
    <2>2. cookies[x].session \in Ids
      BY <2>1, Lengths DEF SignInInv, LoginInv, Ids
    <2>3. issued[cookies[x].session] \in Begun
      BY <2>2, Lengths
    <2> QED
      BY <1>2, <1>4, <2>1, <2>3 DEF SignInInv, OwnCookies
  <1> QED
    BY <1>2, <1>3, <1>8, <1>9, <1>10 DEF SignInInv, ClockInv

(* A state that is used moves into a login, if it was in time. *)
LEMMA CallbackStep ==
    ASSUME SignInInv, NEW s \in States, Callback(s)
    PROVE  SignInInv'
  <1>1. PICK p \in pending :
            /\ p.state = s
            /\ pending' = pending \ {p}
            /\ logins' = IF p.expires <= clock THEN logins
                         ELSE logins \cup {[state |-> s, visit |-> visits'[s],
                                            pc |-> "exchange", at |-> 0]}
    BY DEF Callback, Popped
  <1>2. /\ UNCHANGED <<clock, begun, sessions, issued, ended, cookies>>
        /\ visits' = [visits EXCEPT ![s] = @ + 1]
    BY DEF Callback, table
  <1> DEFINE c == [state |-> s, visit |-> visits'[s], pc |-> "exchange", at |-> 0]
  <1>3. c.state = s
    OBVIOUS
  <1>4. logins' = logins \/ logins' = logins \cup {c}
    BY <1>1
  <1> HIDE DEF c
  <1>5. Begun' = Begun /\ Ids' = Ids /\ Session' = Session
    BY <1>2 DEF Begun, Ids, Session
  <1>6. s \in Begun
    BY <1>1 DEF SignInInv, LoginInv
  <1>7. LoginInv'
    <2>1. IsFiniteSet(pending') /\ Cardinality(pending') <= MaxStates
      <3> DEFINE rest == pending \ {p}
      <3>1. IsFiniteSet(pending) /\ Cardinality(pending) <= MaxStates
        BY DEF SignInInv, LoginInv
      <3>2. IsFiniteSet(rest) /\ Cardinality(rest) <= Cardinality(pending)
        BY <3>1, FS_Subset
      <3>3. Cardinality(pending) \in Nat /\ Cardinality(rest) \in Nat /\ MaxStates \in Nat
        BY <3>1, <3>2, FS_CardinalityType, SessionsAssumption
      <3> HIDE DEF rest
      <3>4. Cardinality(rest) <= MaxStates
        BY <3>1, <3>2, <3>3
      <3> QED
        BY <1>1, <3>2, <3>4 DEF rest
    <2>2. visits' \in [States -> Nat]
      BY <1>2 DEF SignInInv, LoginInv
    <2>3. logins' \subseteq [state: Begun', visit: Nat, pc: {"exchange", "issue"},
                             at: Nat]
      <3>1. c \in [state: Begun', visit: Nat, pc: {"exchange", "issue"}, at: Nat]
        BY <1>5, <1>6, <2>2 DEF c
      <3> QED
        BY <1>4, <1>5, <3>1 DEF SignInInv, LoginInv
    <2>4. \A q \in pending' : q.state \in Begun'
      BY <1>1, <1>5 DEF SignInInv, LoginInv
    <2> QED
      BY <1>2, <2>1, <2>2, <2>3, <2>4 DEF SignInInv, LoginInv
  <1>8. OnePlace'
    <2>1. OnePlace
      BY DEF SignInInv
    <2>2. /\ \A d \in logins : d.state # s
          /\ \A q \in pending' : q \in pending /\ q.state # s
          /\ \A i \in Ids : issued[i] # s
      BY <1>1, <2>1 DEF OnePlace
    <2>3. \A d, e \in logins' : d.state = e.state => d = e
      BY <1>3, <1>4, <2>1, <2>2 DEF OnePlace
    <2>4. \A q \in pending', d \in logins' : q.state # d.state
      BY <1>3, <1>4, <2>1, <2>2 DEF OnePlace
    <2>5. \A q, r \in pending' : q.state = r.state => q = r
      BY <2>1, <2>2 DEF OnePlace
    <2>6. ASSUME NEW i \in Ids
          PROVE  /\ issued[i] \in Begun
                 /\ \A q \in pending' : q.state # issued[i]
                 /\ \A d \in logins' : d.state # issued[i]
                 /\ \A j \in Ids : issued[i] = issued[j] => i = j
      BY <1>3, <1>4, <2>1, <2>2 DEF OnePlace
    <2> QED
      BY <1>2, <1>5, <2>3, <2>4, <2>5, <2>6 DEF OnePlace
  <1> QED
    BY <1>2, <1>5, <1>7, <1>8 DEF SignInInv, ClockInv, TableInv, OwnCookies

(* A login goes on under its state, or is over. *)
LEMMA ExchangeStep ==
    ASSUME SignInInv, NEW c \in logins, Exchange(c)
    PROVE  SignInInv'
  <1> DEFINE d == [c EXCEPT !.pc = "issue", !.at = clock]
  <1>1. /\ logins' = (logins \ {c}) \cup {d} \/ logins' = logins \ {c}
        /\ UNCHANGED <<clock, pending, begun, visits, sessions, issued, ended, cookies>>
    BY DEF Exchange, table
  <1>2. Begun' = Begun /\ Ids' = Ids /\ Session' = Session
    BY <1>1 DEF Begun, Ids, Session
  <1>3. c \in [state: Begun, visit: Nat, pc: {"exchange", "issue"}, at: Nat]
    BY DEF SignInInv, LoginInv
  <1>4. /\ d \in [state: Begun, visit: Nat, pc: {"exchange", "issue"}, at: Nat]
        /\ d.state = c.state
    BY <1>3, Lengths
  <1> HIDE DEF d
  <1>5. LoginInv'
    BY <1>1, <1>2, <1>4 DEF SignInInv, LoginInv
  <1>6. OnePlace'
    <2>1. \A x \in logins' : x = d \/ (x \in logins /\ x # c)
      BY <1>1
    <2>2. OnePlace
      BY DEF SignInInv
    <2>3. \A x, y \in logins' : x.state = y.state => x = y
      BY <1>4, <2>1, <2>2 DEF OnePlace
    <2>4. \A p \in pending', x \in logins' : p.state # x.state
      BY <1>1, <1>4, <2>1, <2>2 DEF OnePlace
    <2>5. \A i \in Ids, x \in logins' : x.state # issued[i]
      BY <1>4, <2>1, <2>2 DEF OnePlace
    <2> QED
      BY <1>1, <1>2, <2>2, <2>3, <2>4, <2>5 DEF OnePlace
  <1> QED
    BY <1>1, <1>2, <1>5, <1>6 DEF SignInInv, ClockInv, TableInv, OwnCookies

(* The login ends in a session of its own. *)
LEMMA IssueStep ==
    ASSUME SignInInv, NEW c \in logins, Issue(c)
    PROVE  SignInInv'
  <1>1. /\ logins' = logins \ {c} /\ Store(c.state, c.at) /\ Answer(c.state)
        /\ UNCHANGED <<clock, pending, begun, visits>>
    BY DEF Issue
  <1>2. c.state \in Begun /\ c.at \in Nat
    BY DEF SignInInv, LoginInv
  <1>3. /\ TableInv' /\ issued' = Append(issued, c.state)
        /\ Ids' = Ids \cup {Len(issued')} /\ Len(issued') = Len(issued) + 1
    BY <1>1, <1>2, StoreTable
  <1> DEFINE id == Len(issued) + 1
  <1>4. /\ Len(issued) \in Nat /\ id \in Nat /\ id \notin Ids /\ Ids' = Ids \cup {id}
        /\ issued'[id] = c.state /\ \A i \in Ids : issued'[i] = issued[i]
    <2>1. issued \in Seq(Nat) /\ Len(issued) \in Nat /\ c.state \in Nat
      BY <1>2, Lengths DEF SignInInv, TableInv, Begun
    <2>2. issued'[id] = c.state /\ \A i \in 1 .. Len(issued) : issued'[i] = issued[i]
      BY <1>3, <2>1, AppendProperties
    <2> QED
      BY <1>3, <2>1, <2>2 DEF Ids
  <1>5. Begun' = Begun
    BY <1>1 DEF Begun
  <1>6. begun[c.state] \in Browsers
    BY <1>2, Lengths
  <1>7. \/ cookies' = cookies
        \/ cookies' = [cookies EXCEPT ![begun[c.state]].session = id]
    BY <1>1, <1>3 DEF Answer
  <1>8. cookies \in [Browsers -> [state: Nat, session: 0 .. Len(issued)]]
    BY DEF SignInInv, LoginInv
  <1>9. LoginInv'
    <2>1. cookies' \in [Browsers -> [state: Nat, session: 0 .. Len(issued')]]
      <3>1. id \in 0 .. Len(issued') /\ 0 .. Len(issued) \subseteq 0 .. Len(issued')
        BY <1>3, <1>4
      <3>2. PICK b \in Browsers : b = begun[c.state]
        BY <1>6
      <3> HIDE DEF id
      <3>3. CASE cookies' = cookies
        BY <1>8, <3>1, <3>3
      <3>4. CASE cookies' = [cookies EXCEPT ![b].session = id]
        BY <1>8, <3>1, <3>4
      <3> QED
        BY <1>7, <3>2, <3>3, <3>4 DEF id
    <2> QED
      BY <1>1, <1>5, <2>1 DEF SignInInv, LoginInv
  <1>10. OnePlace'
    <2>1. OnePlace
      BY DEF SignInInv
    <2>2. /\ \A d \in logins' : d \in logins /\ d.state # c.state
          /\ \A p \in pending : p.state # c.state
          /\ \A i \in Ids : issued[i] # c.state
      BY <1>1, <2>1 DEF OnePlace
    <2>3. ASSUME NEW i \in Ids'
          PROVE  /\ issued'[i] \in Begun'
                 /\ \A p \in pending' : p.state # issued'[i]
                 /\ \A d \in logins' : d.state # issued'[i]
                 /\ \A j \in Ids' : issued'[i] = issued'[j] => i = j
      BY <1>1, <1>2, <1>4, <1>5, <2>1, <2>2 DEF OnePlace
    <2> QED
      BY <1>1, <2>1, <2>2, <2>3 DEF OnePlace
  <1>11. OwnCookies'
    <2> SUFFICES ASSUME NEW b \in Browsers, cookies'[b].session # 0
                 PROVE  begun[issued'[cookies'[b].session]] = b
      BY <1>1 DEF OwnCookies
    <2>1. CASE cookies'[b].session = cookies[b].session
      <3>1. cookies[b].session \in Ids
        BY <1>4, <1>8, <2>1 DEF Ids
      <3> QED
        BY <1>4, <2>1, <3>1 DEF SignInInv, OwnCookies
    <2>2. CASE cookies'[b].session # cookies[b].session
      <3>1. b = begun[c.state] /\ cookies'[b].session = id
        BY <1>6, <1>7, <1>8, <2>2
      <3> QED
        BY <1>4, <3>1
    <2> QED
      BY <2>1, <2>2
  <1> QED
    BY <1>1, <1>3, <1>9, <1>10, <1>11 DEF SignInInv, ClockInv

(* Who logs out has no session any more. *)
LEMMA LogoutStep ==
    ASSUME SignInInv, NEW b \in Browsers, Logout(b)
    PROVE  SignInInv'
  <1> DEFINE S == {x \in sessions : x.id = cookies[b].session}
  <1>1. /\ Drop(S, "logout") /\ cookies' = [cookies EXCEPT ![b].session = 0]
        /\ UNCHANGED <<clock, pending, begun, visits, logins, issued>>
    BY DEF Logout, Drop, oauth
  <1>2. TableInv' /\ Ids' = Ids
    BY <1>1, DropTable DEF Fate
  <1>3. Begun' = Begun
    BY <1>1 DEF Begun
  <1>4. cookies \in [Browsers -> [state: Nat, session: 0 .. Len(issued)]]
        /\ Len(issued) \in Nat
    BY Lengths DEF SignInInv, LoginInv
  <1>5. LoginInv'
    <2>1. cookies' \in [Browsers -> [state: Nat, session: 0 .. Len(issued')]]
      BY <1>1, <1>4
    <2> QED
      BY <1>1, <1>3, <2>1 DEF SignInInv, LoginInv
  <1>6. OnePlace'
    BY <1>1, OnePlaceShrinks
  <1>7. OwnCookies'
    BY <1>1, <1>4 DEF SignInInv, OwnCookies
  <1> QED
    BY <1>1, <1>2, <1>5, <1>6, <1>7 DEF SignInInv, ClockInv

(* A revocation takes a row at most. *)
LEMMA ConfirmSignIn ==
    ASSUME SignInInv, NEW b \in Browsers, Confirm(b)
    PROVE  SignInInv'
  <1> DEFINE n == work[b].of
             S == {previews[n].target} \cap sessions
  <1>1. /\ UNCHANGED <<clock, pending, begun, visits, logins, issued, cookies>>
        /\ Drop(S, "revoked") \/ UNCHANGED table
    BY DEF Confirm, Drop, oauth, table
  <1>2. S \subseteq sessions
    OBVIOUS
  <1>3. TableInv' /\ Ids' = Ids
    <2>1. CASE Drop(S, "revoked")
      BY <2>1, DropTable DEF Fate
    <2>2. CASE UNCHANGED table
      BY <2>2 DEF SignInInv, TableInv, table, Ids, Session
    <2> QED
      BY <1>1, <2>1, <2>2
  <1>4. Begun' = Begun
    BY <1>1 DEF Begun
  <1>5. OnePlace'
    BY <1>1, OnePlaceShrinks
  <1> QED
    BY <1>1, <1>3, <1>4, <1>5 DEF SignInInv, ClockInv, LoginInv, OwnCookies

(* Time passes, and the console may start again with an empty memory. *)
LEMMA RestSignIn ==
    ASSUME SignInInv,
           \/ Tick \/ Restart \/ UNCHANGED sessionsVars
           \/ \E b \in Browsers : Request(b) \/ Preview(b)
    PROVE  SignInInv'
  <1>1. UNCHANGED <<begun, visits, sessions, issued, ended, cookies>>
    BY DEF Tick, Restart, sessionsVars, Request, Preview, oauth, table
  <1>2. \/ UNCHANGED <<pending, logins>>
        \/ pending' = {} /\ logins' = {}
    BY DEF Tick, Restart, sessionsVars, Request, Preview, oauth
  <1>3. ClockInv'
    BY SessionsAssumption DEF SignInInv, ClockInv, Tick, Restart, sessionsVars, Request, Preview
  <1>4. Begun' = Begun /\ Ids' = Ids /\ Session' = Session
    BY <1>1 DEF Begun, Ids, Session
  <1>5. IsFiniteSet(pending') /\ Cardinality(pending') <= MaxStates
    <2>1. CASE pending' = {}
      BY <2>1, FS_EmptySet, SessionsAssumption
    <2>2. CASE pending' = pending
      BY <2>2 DEF SignInInv, LoginInv
    <2> QED
      BY <1>2, <2>1, <2>2
  <1>6. LoginInv'
    BY <1>1, <1>2, <1>4, <1>5 DEF SignInInv, LoginInv
  <1>7. OnePlace'
    BY <1>1, <1>2, OnePlaceShrinks
  <1> QED
    BY <1>1, <1>3, <1>4, <1>6, <1>7 DEF SignInInv, TableInv, OwnCookies

(* Every step keeps it. *)
LEMMA NextSignIn == SignInInv /\ [SessionsNext]_sessionsVars => SignInInv'
  <1> SUFFICES ASSUME SignInInv, [SessionsNext]_sessionsVars PROVE SignInInv'
    OBVIOUS
  <1>1. CASE \E b \in Browsers : Login(b)
    BY <1>1, LoginStep
  <1>2. CASE \E b \in Browsers : Logout(b)
    BY <1>2, LogoutStep
  <1>3. CASE \E b \in Browsers : Confirm(b)
    BY <1>3, ConfirmSignIn
  <1>4. CASE \E s \in States : Callback(s)
    BY <1>4, CallbackStep
  <1>5. CASE \E c \in logins : Exchange(c)
    BY <1>5, ExchangeStep
  <1>6. CASE \E c \in logins : Issue(c)
    BY <1>6, IssueStep
  <1>7. CASE \/ Tick \/ Restart \/ UNCHANGED sessionsVars
             \/ \E b \in Browsers : Request(b) \/ Preview(b)
    BY <1>7, RestSignIn
  <1> QED
    BY <1>1, <1>2, <1>3, <1>4, <1>5, <1>6, <1>7 DEF SessionsNext

-----------------------------------------------------------------------------
(* Governance *)

(* What the sequences of previews and events contain. *)
LEMMA GovernanceFacts ==
    ASSUME SessionsInv
    PROVE  /\ DOMAIN previews = 1 .. Len(previews) /\ Len(previews) \in Nat
           /\ DOMAIN events = 1 .. Len(events) /\ Len(events) \in Nat
           /\ DOMAIN issued = Ids
           /\ \A n \in DOMAIN previews :
                previews[n] \in [actor: People, target: Session, expires: Nat,
                                 consumed: BOOLEAN]
           /\ \A i \in DOMAIN events :
                /\ events[i].target \in Ids /\ events[i].preview \in DOMAIN previews
                /\ events[i].target = previews[events[i].preview].target.id
  <1>1. /\ DOMAIN previews = 1 .. Len(previews) /\ Len(previews) \in Nat
        /\ \A n \in DOMAIN previews :
                previews[n] \in [actor: People, target: Session, expires: Nat,
                                 consumed: BOOLEAN]
    <2> DEFINE P == [actor: People, target: Session, expires: Nat, consumed: BOOLEAN]
    <2>1. previews \in Seq(P)
      BY DEF SessionsInv, GovernanceInv
    <2> HIDE DEF P
    <2>2. /\ DOMAIN previews = 1 .. Len(previews) /\ Len(previews) \in Nat
          /\ previews \in [1 .. Len(previews) -> P]
      BY <2>1, LenProperties
    <2> QED
      BY <2>2 DEF P
  <1>2. /\ DOMAIN events = 1 .. Len(events) /\ Len(events) \in Nat
        /\ \A i \in DOMAIN events :
              events[i] \in [actor: People, target: Ids, preview: DOMAIN previews]
    <2> DEFINE E == [actor: People, target: Ids, preview: DOMAIN previews]
    <2>1. events \in Seq(E)
      BY DEF SessionsInv, GovernanceInv
    <2> HIDE DEF E
    <2>2. /\ DOMAIN events = 1 .. Len(events) /\ Len(events) \in Nat
          /\ events \in [1 .. Len(events) -> E]
      BY <2>1, LenProperties
    <2> QED
      BY <2>2 DEF E
  <1>3. \A i \in DOMAIN events : events[i].target = previews[events[i].preview].target.id
    BY DEF SessionsInv, GovernanceInv
  <1>4. DOMAIN issued = Ids
    BY Lengths DEF SessionsInv
  <1> QED
    BY <1>1, <1>2, <1>3, <1>4

(* The types of requests, previews and events do not depend on what else   *)
(* happens, as long as sessions are only added.                            *)
LEMMA GovernanceUntouched ==
    ASSUME SessionsInv, UNCHANGED <<previews, events>>, Ids \subseteq Ids', WorkInv'
    PROVE  GovernanceInv'
  <1>1. \A x \in Session : x \in Session'
    BY DEF Session
  <1>2. /\ [actor: People, target: Session, expires: Nat, consumed: BOOLEAN]
           \subseteq [actor: People, target: Session', expires: Nat, consumed: BOOLEAN]
        /\ [actor: People, target: Ids, preview: DOMAIN previews]
           \subseteq [actor: People, target: Ids', preview: DOMAIN previews]
    BY <1>1
  <1>3. /\ previews \in Seq([actor: People, target: Session', expires: Nat,
                             consumed: BOOLEAN])
        /\ events \in Seq([actor: People, target: Ids', preview: DOMAIN previews])
    BY <1>2, SeqMonotonic DEF SessionsInv, GovernanceInv
  <1> QED
    BY <1>3 DEF SessionsInv, GovernanceInv

(* A session that ends otherwise than by revocation, and a new one, leave  *)
(* the audit true.                                                         *)
LEMMA AuditUntouched ==
    ASSUME SessionsInv, SignInInv', UNCHANGED <<previews, events>>, Ids \subseteq Ids',
           \A i \in Ids : ended'[i] # ended[i] =>
               ended[i] = "live" /\ ended'[i] \in {"evicted", "expired", "logout"},
           \A i \in Ids' \ Ids : ended'[i] # "revoked"
    PROVE  AuditIsTrue'
  <1>1. DOMAIN issued' = Ids'
    <2>1. issued' \in Seq(Nat)
      BY DEF SignInInv, TableInv
    <2> QED
      BY <2>1, LenProperties DEF Ids
  <1>2. ASSUME NEW i \in Ids'
        PROVE  /\ ended'[i] = "revoked" <=> \E e \in DOMAIN events : events[e].target = i
               /\ ended'[i] = "live" <=> \E x \in sessions' : x.id = i
    <2>1. ended'[i] = "live" <=> \E x \in sessions' : x.id = i
      BY DEF SignInInv, TableInv
    <2>2. CASE i \in Ids
      <3>1. ended[i] = "revoked" <=> \E e \in DOMAIN events : events[e].target = i
        BY <2>2, GovernanceFacts DEF SessionsInv, AuditIsTrue
      <3>2. ended'[i] = "revoked" <=> ended[i] = "revoked"
        BY <2>2
      <3> QED
        BY <2>1, <3>1, <3>2
    <2>3. CASE i \notin Ids
      BY <2>1, <2>3, GovernanceFacts
    <2> QED
      BY <2>2, <2>3
  <1>3. /\ \A i, j \in DOMAIN events :
              events[i].target = events[j].target \/ events[i].preview = events[j].preview
                  => i = j
        /\ \A n \in DOMAIN previews :
              previews[n].consumed <=> \E i \in DOMAIN events : events[i].preview = n
    BY DEF SessionsInv, AuditIsTrue
  <1> QED
    BY <1>1, <1>2, <1>3 DEF AuditIsTrue

(* What is confirmed was previewed. *)
LEMMA AdminRequestStep ==
    ASSUME SessionsInv, NEW b \in Browsers, Request(b)
    PROVE  WorkInv'
  <1>1. PICK x \in Active(b), op \in {"preview", "confirm"} :
            \E n \in Shown(op) :
               work' = [work EXCEPT ![b] = [op |-> op, of |-> n, current |-> x.id]]
    BY DEF Request
  <1>2. PICK n \in Shown(op) :
            work' = [work EXCEPT ![b] = [op |-> op, of |-> n, current |-> x.id]]
    BY <1>1
  <1>3. x.id \in Nat /\ UNCHANGED previews
    BY DEF Active, SessionsInv, SignInInv, TableInv, Session, Ids, Request
  <1>4. n \in Nat /\ (op = "confirm" => n \in DOMAIN previews)
    BY GovernanceFacts DEF Shown, Ids
  <1> QED
    BY <1>2, <1>3, <1>4 DEF SessionsInv, GovernanceInv, WorkInv, Whole

(* A preview that is new has nothing in the audit. *)
LEMMA PreviewStep ==
    ASSUME SessionsInv, SignInInv', NEW b \in Browsers, Preview(b)
    PROVE  GovernanceInv' /\ AuditIsTrue'
  <1>1. /\ work' = [work EXCEPT ![b] = NoWork]
        /\ UNCHANGED <<clock, begun, sessions, issued, ended, events>>
    BY DEF Preview, oauth, table
  <1>2. Ids' = Ids /\ Session' = Session
    BY <1>1 DEF Ids, Session
  <1>3. \A x \in Browsers : x # b => work'[x] = work[x]
    BY <1>1 DEF SessionsInv, GovernanceInv, WorkInv
  <1>w. /\ work' \in [Browsers -> {NoWork} \cup Whole]
        /\ work'[b] = NoWork /\ NoWork.op = "none"
    BY <1>1 DEF SessionsInv, GovernanceInv, WorkInv, NoWork
  <1>4. CASE UNCHANGED previews
    <2>1. WorkInv'
      BY <1>3, <1>w, <1>4 DEF SessionsInv, GovernanceInv, WorkInv
    <2> QED
      BY <1>1, <1>2, <1>4, <2>1, GovernanceUntouched, AuditUntouched
  <1>5. CASE /\ Len(previews) < MaxPreviews
             /\ \E x \in Target(b) :
                 previews' = Append(previews,
                     [actor |-> OwnerOf[b], target |-> x,
                      expires |-> clock + PreviewLife, consumed |-> FALSE])
    <2> DEFINE P == [actor: People, target: Session, expires: Nat, consumed: BOOLEAN]
    <2>1. PICK x \in Target(b) :
             previews' = Append(previews,
                     [actor |-> OwnerOf[b], target |-> x,
                      expires |-> clock + PreviewLife, consumed |-> FALSE])
      BY <1>5
    <2> DEFINE new == [actor |-> OwnerOf[b], target |-> x,
                       expires |-> clock + PreviewLife, consumed |-> FALSE]
    <2>2. x \in Session
      BY DEF Target, SessionsInv, SignInInv, TableInv
    <2>3. clock + PreviewLife \in Nat /\ OwnerOf[b] \in People
      BY Lengths, SessionsAssumption DEF SessionsInv
    <2>4. new \in P /\ new.consumed = FALSE
      BY <2>2, <2>3
    <2>5. previews \in Seq(P) /\ Len(previews) \in Nat
      BY GovernanceFacts DEF SessionsInv, GovernanceInv
    <2>6. previews' = Append(previews, new)
      BY <2>1
    <2> HIDE DEF new, P
    <2>7. /\ previews' \in Seq(P) /\ Len(previews') = Len(previews) + 1
          /\ \A n \in 1 .. Len(previews) : previews'[n] = previews[n]
          /\ previews'[Len(previews) + 1] = new
      BY <2>4, <2>5, <2>6, AppendProperties
    <2>8. DOMAIN previews' = DOMAIN previews \cup {Len(previews) + 1}
          /\ DOMAIN previews = 1 .. Len(previews)
          /\ Len(previews) + 1 \notin DOMAIN previews
      <3>1. DOMAIN previews' = 1 .. Len(previews')
        BY <2>7, LenProperties
      <3> QED
        BY <2>5, <2>7, <3>1, GovernanceFacts
    <2>9. /\ \A i \in DOMAIN events : events[i].preview \in DOMAIN previews
          /\ \A i \in DOMAIN events :
                events[i].target = previews'[events[i].preview].target.id
      BY <2>7, <2>8, GovernanceFacts
    <2>10. GovernanceInv'
      <3>1. [actor: People, target: Ids, preview: DOMAIN previews]
            \subseteq [actor: People, target: Ids, preview: DOMAIN previews']
        BY <2>8
      <3>2. events \in Seq([actor: People, target: Ids, preview: DOMAIN previews'])
        BY <3>1, SeqMonotonic DEF SessionsInv, GovernanceInv
      <3>3. Len(previews') <= MaxPreviews
        BY <1>5, <2>5, <2>7, SessionsAssumption
      <3>4. WorkInv'
        BY <1>3, <1>w, <2>8 DEF SessionsInv, GovernanceInv, WorkInv
      <3> QED
        BY <1>1, <1>2, <2>7, <2>9, <3>2, <3>3, <3>4 DEF GovernanceInv, P
    <2>11. AuditIsTrue'
      <3>1. \A n \in DOMAIN previews' :
               previews'[n].consumed <=> \E i \in DOMAIN events : events[i].preview = n
        <4> SUFFICES ASSUME NEW n \in DOMAIN previews'
                     PROVE  previews'[n].consumed <=>
                                \E i \in DOMAIN events : events[i].preview = n
          OBVIOUS
        <4>1. CASE n \in DOMAIN previews
          BY <2>7, <2>8, <4>1 DEF SessionsInv, AuditIsTrue
        <4>2. CASE n = Len(previews) + 1
          BY <2>4, <2>7, <2>8, <2>9, <4>2
        <4> QED
          BY <2>8, <4>1, <4>2
      <3> QED
        BY <1>1, <3>1 DEF SessionsInv, AuditIsTrue
    <2> QED
      BY <2>10, <2>11
  <1> QED
    BY <1>4, <1>5 DEF Preview

(* The row that is revoked was in the table: it has not been in the audit. *)
LEMMA ConfirmStep ==
    ASSUME SessionsInv, SignInInv', NEW b \in Browsers, Confirm(b)
    PROVE  GovernanceInv' /\ AuditIsTrue'
  <1> DEFINE n == work[b].of
             p == previews[n]
  <1>1. /\ work' = [work EXCEPT ![b] = NoWork]
        /\ UNCHANGED <<clock, begun, issued>>
    BY DEF Confirm, oauth, table, Drop
  <1>2. Ids' = Ids /\ Session' = Session
    BY <1>1 DEF Ids, Session
  <1>3. \A x \in Browsers : x # b => work'[x] = work[x]
    BY <1>1 DEF SessionsInv, GovernanceInv, WorkInv
  <1>w. /\ work' \in [Browsers -> {NoWork} \cup Whole]
        /\ work'[b] = NoWork /\ NoWork.op = "none"
    BY <1>1 DEF SessionsInv, GovernanceInv, WorkInv, NoWork
  <1>4. CASE UNCHANGED <<table, previews, events>>
    <2>1. ended' = ended
      BY <1>4 DEF table
    <2>2. WorkInv'
      BY <1>3, <1>w, <1>4 DEF SessionsInv, GovernanceInv, WorkInv
    <2> QED
      BY <1>2, <1>4, <2>1, <2>2, GovernanceUntouched, AuditUntouched
  <1>5. CASE /\ p.actor = OwnerOf[b] /\ ~p.consumed /\ Deleted(p)
             /\ Drop({p.target} \cap sessions, "revoked")
             /\ previews' = [previews EXCEPT ![n].consumed = TRUE]
             /\ events' = Append(events,
                  [actor |-> OwnerOf[b], target |-> p.target.id, preview |-> n])
    <2> DEFINE q == [p EXCEPT !.consumed = TRUE]
               e == [actor |-> OwnerOf[b], target |-> p.target.id, preview |-> n]
               id == p.target.id
               P == [actor: People, target: Session, expires: Nat, consumed: BOOLEAN]
               E == [actor: People, target: Ids, preview: DOMAIN previews]
    <2>1. n \in DOMAIN previews
      BY DEF Confirm, SessionsInv, GovernanceInv, WorkInv
    <2>2. p \in P /\ p.consumed = FALSE /\ id \in Ids /\ p.target \in sessions
      BY <1>5, <2>1, GovernanceFacts DEF Deleted, Session
    <2>3. q \in P /\ q.consumed = TRUE /\ q.target = p.target
      BY <2>2
    <2>4. e \in E /\ e.target = id /\ e.preview = n
      BY <2>1, <2>2, SessionsAssumption
    <2>5. events' = Append(events, e)
      BY <1>5
    <2>6. previews' = [previews EXCEPT ![n] = q]
      BY <1>5, <2>1, GovernanceFacts
    <2>7. Drop({p.target}, "revoked")
      BY <1>5, <2>2 DEF Drop
    <2>8. \A i \in Ids : ended'[i] = IF i = id THEN "revoked" ELSE ended[i]
      <3>1. \A i \in Ids : ended'[i] = IF \E x \in {p.target} : x.id = i THEN "revoked"
                                       ELSE ended[i]
        BY <2>2, <2>7, DropTable DEF SessionsInv, Fate
      <3> QED
        BY <3>1
    <2>9. events \in Seq(E) /\ previews \in Seq(P)
      BY DEF SessionsInv, GovernanceInv
    <2> HIDE DEF q, e, id, P, E, p, n
    <2>10. /\ previews' \in Seq(P) /\ Len(previews') = Len(previews)
           /\ DOMAIN previews' = DOMAIN previews
           /\ \A m \in DOMAIN previews : previews'[m] = IF m = n THEN q ELSE previews[m]
      <3>1. /\ previews' \in Seq(P) /\ Len(previews') = Len(previews)
            /\ \A m \in 1 .. Len(previews) :
                  previews'[m] = IF m = n THEN q ELSE previews[m]
        BY <2>1, <2>3, <2>6, <2>9, ExceptSeq, GovernanceFacts
      <3> QED
        BY <3>1, LenProperties, GovernanceFacts
    <2>11. /\ events' \in Seq(E) /\ DOMAIN events' = DOMAIN events \cup {Len(events) + 1}
           /\ \A i \in DOMAIN events : events'[i] = events[i]
           /\ events'[Len(events) + 1] = e
           /\ Len(events) + 1 \notin DOMAIN events
      <3>1. /\ events' \in Seq(E) /\ Len(events') = Len(events) + 1
            /\ \A i \in 1 .. Len(events) : events'[i] = events[i]
            /\ events'[Len(events) + 1] = e
        BY <2>4, <2>5, <2>9, AppendProperties
      <3>2. DOMAIN events' = 1 .. Len(events')
        BY <3>1, LenProperties
      <3> QED
        BY <3>1, <3>2, GovernanceFacts
    <2>12. \A m \in DOMAIN previews : previews'[m].target = previews[m].target
      BY <2>3, <2>10 DEF p
    <2>13. GovernanceInv'
      <3>1. \A i \in DOMAIN events' :
               events'[i].target = previews'[events'[i].preview].target.id
        BY <2>1, <2>4, <2>11, <2>12, GovernanceFacts DEF p, id
      <3>2. WorkInv'
        BY <1>3, <1>w, <2>10 DEF SessionsInv, GovernanceInv, WorkInv
      <3> QED
        BY <1>2, <2>10, <2>11, <3>1, <3>2 DEF SessionsInv, GovernanceInv, P, E
    <2>14. /\ \A i \in DOMAIN events : events[i].preview # n /\ events[i].target # id
           /\ ended[id] = "live"
      <3>1. ended[id] = "live"
        BY <2>2 DEF id, SessionsInv, SignInInv, TableInv
      <3>2. \A i \in DOMAIN events : events[i].target # id
        BY <2>2, <3>1, GovernanceFacts DEF SessionsInv, AuditIsTrue
      <3>3. \A i \in DOMAIN events : events[i].preview # n
        BY <2>1, <2>2 DEF p, SessionsInv, AuditIsTrue
      <3> QED
        BY <3>1, <3>2, <3>3
    <2>15. AuditIsTrue'
      <3>1. \A i, j \in DOMAIN events' :
               events'[i].target = events'[j].target \/ events'[i].preview = events'[j].preview
                   => i = j
        <4>1. \A i, j \in DOMAIN events :
               events[i].target = events[j].target \/ events[i].preview = events[j].preview
                   => i = j
          BY DEF SessionsInv, AuditIsTrue
        <4> QED
          BY <2>4, <2>11, <2>14, <4>1
      <3>2. ASSUME NEW m \in DOMAIN previews'
            PROVE  previews'[m].consumed <=> \E i \in DOMAIN events' : events'[i].preview = m
        <4>1. previews[m].consumed <=> \E i \in DOMAIN events : events[i].preview = m
          BY <2>10, <3>2 DEF SessionsInv, AuditIsTrue
        <4>2. CASE m = n
          BY <2>3, <2>4, <2>10, <2>11, <3>2, <4>2
        <4>3. CASE m # n
          <5>1. (\E i \in DOMAIN events' : events'[i].preview = m)
                   <=> \E i \in DOMAIN events : events[i].preview = m
            BY <2>4, <2>11, <4>3
          <5>2. previews'[m] = previews[m]
            BY <2>10, <3>2, <4>3
          <5> QED
            BY <4>1, <5>1, <5>2
        <4> QED
          BY <4>2, <4>3
      <3>3. ASSUME NEW i \in Ids
            PROVE  /\ ended'[i] = "revoked" <=>
                         \E x \in DOMAIN events' : events'[x].target = i
                   /\ ended'[i] = "live" <=> \E x \in sessions' : x.id = i
        <4>1. ended'[i] = "live" <=> \E x \in sessions' : x.id = i
          BY <1>2 DEF SignInInv, TableInv
        <4>2. ended[i] = "revoked" <=> \E x \in DOMAIN events : events[x].target = i
          BY GovernanceFacts DEF SessionsInv, AuditIsTrue
        <4>3. (\E x \in DOMAIN events' : events'[x].target = i)
                 <=> (i = id \/ \E x \in DOMAIN events : events[x].target = i)
          BY <2>4, <2>11
        <4> QED
          BY <2>8, <4>1, <4>2, <4>3
      <3>4. DOMAIN issued' = Ids
        BY <1>1, GovernanceFacts
      <3> QED
        BY <3>1, <3>2, <3>3, <3>4 DEF AuditIsTrue
    <2> QED
      BY <2>13, <2>15
  <1> QED
    BY <1>4, <1>5 DEF Confirm

(* Every step keeps it. *)
LEMMA NextSessions == SessionsInv /\ [SessionsNext]_sessionsVars => SessionsInv'
  <1> SUFFICES ASSUME SessionsInv, [SessionsNext]_sessionsVars PROVE SessionsInv'
    OBVIOUS
  <1>1. SignInInv /\ SignInInv'
    BY NextSignIn DEF SessionsInv
  <1>2. WorkInv
    BY DEF SessionsInv, GovernanceInv
  <1>3. CASE \E b \in Browsers : Preview(b)
    BY <1>1, <1>3, PreviewStep DEF SessionsInv
  <1>4. CASE \E b \in Browsers : Confirm(b)
    BY <1>1, <1>4, ConfirmStep DEF SessionsInv
  <1>5. CASE \/ \E b \in Browsers : Request(b) \/ Login(b) \/ Logout(b)
             \/ \E s \in States : Callback(s)
             \/ \E c \in logins : Exchange(c) \/ Issue(c)
             \/ Tick \/ Restart \/ UNCHANGED sessionsVars
    <2>1. UNCHANGED <<previews, events>>
      BY <1>5 DEF Request, Login, Logout, Callback, Exchange, Issue, Tick, Restart,
                  sessionsVars, admin
    <2>2. WorkInv'
      <3>1. CASE \E b \in Browsers : Request(b)
        BY <3>1, AdminRequestStep
      <3>2. CASE UNCHANGED work
        BY <1>2, <2>1, <3>2 DEF WorkInv
      <3>3. CASE Restart
        BY <2>1, <3>3 DEF Restart, WorkInv, NoWork
      <3> QED
        BY <1>5, <3>1, <3>2, <3>3 DEF Login, Logout, Callback, Exchange, Issue, Tick,
                                      sessionsVars, admin
    <2>3. /\ Ids \subseteq Ids'
          /\ \A i \in Ids : ended'[i] # ended[i] =>
                ended[i] = "live" /\ ended'[i] \in {"evicted", "expired", "logout"}
          /\ \A i \in Ids' \ Ids : ended'[i] # "revoked"
      <3>1. CASE UNCHANGED <<issued, ended>>
        BY <3>1 DEF Ids
      <3>2. CASE \E b \in Browsers : Login(b) \/ Logout(b)
        <4>1. PICK b \in Browsers :
                  \E why \in {"expired", "logout"} :
                      Drop({x \in sessions : x.id = cookies[b].session}, why)
          BY <3>2 DEF Login, Logout
        <4>2. PICK why \in {"expired", "logout"} :
                  Drop({x \in sessions : x.id = cookies[b].session}, why)
          BY <4>1
        <4> DEFINE S == {x \in sessions : x.id = cookies[b].session}
        <4>3. Ids' = Ids /\ \A i \in Ids : ended'[i] = IF \E x \in S : x.id = i THEN why
                                                      ELSE ended[i]
          BY <1>1, <4>2, DropTable DEF Fate
        <4>4. \A x \in S : ended[x.id] = "live"
          BY <1>1 DEF SignInInv, TableInv, Session
        <4> QED
          BY <4>3, <4>4
      <3>3. CASE \E c \in logins : Issue(c)
        <4>1. PICK c \in logins : Store(c.state, c.at)
          BY <3>3 DEF Issue
        <4>2. c.state \in Begun /\ c.at \in Nat
          BY <1>1 DEF SignInInv, LoginInv
        <4> QED
          BY <1>1, <4>1, <4>2, StoreTable
      <3> QED
        BY <1>5, <3>1, <3>2, <3>3 DEF Request, Callback, Exchange, Tick, Restart, sessionsVars,
                                      table
    <2>4. GovernanceInv'
      BY <2>1, <2>2, <2>3, GovernanceUntouched
    <2>5. AuditIsTrue'
      BY <1>1, <2>1, <2>3, AuditUntouched
    <2> QED
      BY <1>1, <2>4, <2>5 DEF SessionsInv
  <1> QED
    BY <1>3, <1>4, <1>5 DEF SessionsNext

-----------------------------------------------------------------------------
(* One session for each sign-in: however often its page comes back and     *)
(* whatever is evicted, dropped or ended meanwhile, a state makes at most  *)
(* one session, a browser carries sessions of logins it began itself, and  *)
(* neither table exceeds its limit.                                        *)
THEOREM SignInsAreSingle == SessionsSpec => []OneSessionPerSignIn
  <1>1. SessionsInv => OneSessionPerSignIn
    <2> SUFFICES ASSUME SessionsInv PROVE OneSessionPerSignIn
      OBVIOUS
    <2>1. SignInInv /\ GovernanceInv
      BY DEF SessionsInv
    <2>2. Len(ended) = Len(issued)
      BY <2>1, Lengths, FunctionIsSeq DEF SignInInv, TableInv, Ids
    <2>3. SessionsTypeOK
      BY <2>1, <2>2, Lengths
      DEF SignInInv, GovernanceInv, ClockInv, LoginInv, TableInv, Session, SessionsTypeOK
    <2> QED
      BY <2>1, <2>3, Lengths
      DEF SignInInv, LoginInv, TableInv, OnePlace, OwnCookies, OneSessionPerSignIn
  <1> QED
    BY <1>1, InitSessions, NextSessions, PTL DEF SessionsSpec

(* The audit of revocations is true: a session is in it exactly when this  *)
(* is how it ended, once, and under the preview that was consumed for it.  *)
THEOREM AuditStaysTrue == SessionsSpec => []AuditIsTrue
  <1>1. SessionsInv => AuditIsTrue
    BY DEF SessionsInv
  <1> QED
    BY <1>1, InitSessions, NextSessions, PTL DEF SessionsSpec

-----------------------------------------------------------------------------
(***************************************************************************)
(* Commands on one instance behave as if they ran one at a time, however   *)
(* many of them there are and whatever previews they confirm.              *)
(*                                                                         *)
(* What carries the proof is CopiesInv: a copy whose version is still the  *)
(* version of the instance has missed nothing, although its three tables   *)
(* were read at three different moments, because every commit moves the    *)
(* version and the version was read first.                                 *)
(***************************************************************************)
log == tables["instance"]

(* A copy of the current version is a copy of the current tables. *)
CopiesInv ==
    \A c \in Commands : phase[c] = "open" /\ loaded[c] > 0 =>
        /\ copy[c].version <= version
        /\ copy[c].version = version =>
              \A i \in 1 .. loaded[c] : copy[c].rows[LoadOrder[i]] = log

(* A command in the log has ended, and its preview is used up. *)
SpentInv ==
    \A i \in 1 .. Len(log) :
        /\ phase[log[i]] = "applied"
        /\ PreviewOf[log[i]] # NoPreview => consumed[PreviewOf[log[i]]]

StoreInv ==
    /\ StoreTypeOK
    /\ TablesAgree
    /\ CopiesInv
    /\ SpentInv
    /\ EventsFollowCommits
    /\ ConfirmedAsPreviewed

-----------------------------------------------------------------------------
(* The empty database is in order. *)
LEMMA InitStore == StoreInit => StoreInv
  <1> SUFFICES ASSUME StoreInit PROVE StoreInv
    OBVIOUS
  <1>1. tables \in Rows /\ log = << >>
    BY DEF StoreInit, Rows, Table, log
  <1>2. copy \in [Commands -> Copy]
    BY DEF StoreInit, Copy, Nothing, Rows, Table
  <1>3. audit \in Seq([command: Commands, version: Nat])
    BY DEF StoreInit
  <1>4. StoreTypeOK
    BY <1>1, <1>2, <1>3 DEF StoreInit, StoreTypeOK, Phase
  <1>5. TablesAgree
    BY DEF StoreInit, TablesAgree, Table
  <1>6. CopiesInv
    BY DEF StoreInit, CopiesInv
  <1>7. SpentInv /\ EventsFollowCommits /\ ConfirmedAsPreviewed
    BY <1>1
    DEF StoreInit, SpentInv, EventsFollowCommits, ConfirmedAsPreviewed, log
  <1> QED
    BY <1>4, <1>5, <1>6, <1>7 DEF StoreInv

(* The log is a sequence of commands. *)
LEMMA LogType ==
    ASSUME StoreTypeOK
    PROVE  log \in Seq(Commands) /\ Len(log) \in Nat
  BY DEF StoreTypeOK, Rows, Table, log

(* Table names by the order of the SELECTs. *)
LEMMA OrderOfLoads == \A i \in 1 .. 3 : LoadOrder[i] \in Table
  BY DEF LoadOrder, Table

(* A command that ends without writing. *)
LEMMA EndKeepsInv ==
    ASSUME StoreInv, NEW c \in Commands, NEW fate \in Phase \ {"open"},
           phase[c] = "open", End(c, fate), UNCHANGED db
    PROVE  StoreInv'
  <1> USE DEF db, End
  <1>1. StoreTypeOK'
    BY DEF StoreInv, StoreTypeOK, Rows, Copy
  <1>2. \A d \in Commands : /\ phase'[d] = "open" => phase[d] = "open"
                            /\ phase[d] = "applied" => phase'[d] = "applied"
    BY DEF StoreInv, StoreTypeOK
  <1>3. log' = log
    BY DEF log
  <1>4. CopiesInv'
    BY <1>2, <1>3 DEF StoreInv, CopiesInv
  <1>5. SpentInv'
    <2>1. \A i \in 1 .. Len(log) : log[i] \in Commands
      BY LogType DEF StoreInv
    <2> QED
      BY <1>2, <1>3, <2>1 DEF StoreInv, SpentInv
  <1>6. TablesAgree' /\ EventsFollowCommits' /\ ConfirmedAsPreviewed'
    BY DEF StoreInv, TablesAgree, EventsFollowCommits, ConfirmedAsPreviewed
  <1> QED
    BY <1>1, <1>4, <1>5, <1>6 DEF StoreInv

(* A preview is made for nobody in the log yet. *)
LEMMA MakePreviewKeepsInv ==
    ASSUME StoreInv, NEW p \in Previews, MakePreview(p)
    PROVE  StoreInv'
  <1>1. PICK v \in 0 .. version : madeAt' = [madeAt EXCEPT ![p] = v]
    BY DEF MakePreview
  <1>2. UNCHANGED <<version, tables, audit, outbox, consumed, phase, loaded, copy>>
        /\ madeAt[p] = -1
    BY DEF MakePreview
  <1>3. StoreTypeOK'
    BY <1>1, <1>2 DEF StoreInv, StoreTypeOK, Rows, Copy
  <1>4. TablesAgree' /\ CopiesInv' /\ SpentInv' /\ EventsFollowCommits'
    BY <1>2
    DEF StoreInv, TablesAgree, CopiesInv, SpentInv, EventsFollowCommits, log
  <1>5. ConfirmedAsPreviewed'
    <2> SUFFICES ASSUME NEW i \in 1 .. Len(log), NEW q,
                        q = PreviewOf[log[i]], q # NoPreview
                 PROVE  madeAt'[q] = i - 1
      BY <1>2 DEF ConfirmedAsPreviewed, log
    <2>1. madeAt[q] = i - 1
      BY DEF StoreInv, ConfirmedAsPreviewed, log
    <2>2. i \in Nat /\ i >= 1
      BY LogType DEF StoreInv
    <2>3. q # p
      BY <1>2, <2>1, <2>2
    <2> QED
      BY <1>1, <2>1, <2>3 DEF StoreInv, StoreTypeOK
  <1> QED
    BY <1>3, <1>4, <1>5 DEF StoreInv

(* A SELECT finds the table as the version says it is. *)
LEMMA LoadKeepsInv ==
    ASSUME StoreInv, NEW c \in Commands, Load(c)
    PROVE  StoreInv'
  <1> DEFINE n == loaded[c] + 1
             t == LoadOrder[n]
  <1>1. /\ UNCHANGED <<version, tables, audit, outbox, madeAt, consumed, phase>>
        /\ phase[c] = "open" /\ n \in 1 .. 3 /\ loaded' = [loaded EXCEPT ![c] = n]
    <2>1. /\ UNCHANGED <<db, phase>> /\ phase[c] = "open" /\ loaded[c] < 3
          /\ loaded' = [loaded EXCEPT ![c] = n]
      BY ZenonT(30) DEF Load
    <2>2. loaded[c] \in 0 .. 3
      BY DEF StoreInv, StoreTypeOK
    <2> HIDE DEF t
    <2> QED
      BY <2>1, <2>2 DEF db
  <1>2. t \in Table /\ tables[t] = log /\ tables[t] \in Seq(Commands)
    BY <1>1, OrderOfLoads
    DEF StoreInv, TablesAgree, Table, log, StoreTypeOK, Rows
  <1> DEFINE mine == [version |-> IF t = "instance" THEN version
                                                    ELSE copy[c].version,
                      rows |-> [copy[c].rows EXCEPT ![t] = tables[t]]]
  <1>3. copy' = [copy EXCEPT ![c] = mine] /\ mine \in Copy
    <2>1. copy \in [Commands -> Copy] /\ version \in Nat
      BY DEF StoreInv, StoreTypeOK
    <2>2. mine \in Copy
      BY <1>2, <2>1 DEF Copy, Rows
    <2>3. copy' = [copy EXCEPT ![c] = mine]
      BY ZenonT(30) DEF Load
    <2> QED
      BY <2>2, <2>3
  <1>4. StoreTypeOK'
    BY <1>1, <1>3 DEF StoreInv, StoreTypeOK
  <1>5. CopiesInv'
    <2> SUFFICES ASSUME NEW d \in Commands, phase[d] = "open", loaded'[d] > 0
                 PROVE  /\ copy'[d].version <= version
                        /\ copy'[d].version = version =>
                             \A i \in 1 .. loaded'[d] :
                                copy'[d].rows[LoadOrder[i]] = log
      BY <1>1 DEF CopiesInv, log
    <2>1. CASE d # c
      BY <1>1, <1>3, <2>1 DEF StoreInv, StoreTypeOK, CopiesInv
    <2>2. CASE d = c
      <3>1. copy'[c] = mine /\ loaded'[c] = n
        BY <1>1, <1>3 DEF StoreInv, StoreTypeOK
      <3>2. copy[c].rows \in [Table -> Seq(Commands)] /\ version \in Nat
        BY DEF StoreInv, StoreTypeOK, Copy, Rows
      <3>3. CASE n = 1
        BY <1>2, <2>2, <3>1, <3>2, <3>3 DEF LoadOrder
      <3>4. CASE n # 1
        <4>1. loaded[c] > 0 /\ t # "instance"
          <5>1. loaded[c] \in 0 .. 3 /\ (n = 2 \/ n = 3)
            BY <1>1, <3>4 DEF StoreInv, StoreTypeOK
          <5> QED
            BY <5>1 DEF LoadOrder
        <4>2. /\ copy[c].version <= version
              /\ copy[c].version = version =>
                   \A i \in 1 .. loaded[c] : copy[c].rows[LoadOrder[i]] = log
          BY <1>1, <4>1 DEF StoreInv, CopiesInv
        <4>3. \A i \in 1 .. n : i = n \/ i \in 1 .. loaded[c]
          BY <1>1 DEF StoreInv, StoreTypeOK
        <4>4. \A i \in 1 .. n : LoadOrder[i] \in Table
          BY <1>1, OrderOfLoads
        <4> QED
          BY <1>2, <2>2, <3>1, <3>2, <4>1, <4>2, <4>3, <4>4
      <3> QED
        BY <3>3, <3>4
    <2> QED
      BY <2>1, <2>2
  <1>6. TablesAgree' /\ SpentInv' /\ EventsFollowCommits' /\ ConfirmedAsPreviewed'
    BY <1>1
    DEF StoreInv, TablesAgree, SpentInv, EventsFollowCommits,
        ConfirmedAsPreviewed, log
  <1> QED
    BY <1>4, <1>5, <1>6 DEF StoreInv

(* A save is made from a complete copy of the current tables, and appends  *)
(* its command to all of them.                                             *)
LEMMA SaveWritesCurrent ==
    ASSUME StoreInv, NEW c \in Commands, Save(c)
    PROVE  /\ tables' = [t \in Table |-> Append(log, c)]
           /\ log' = Append(log, c)
           /\ copy[c].version = Len(log) /\ version = Len(log)
  <1>1. /\ phase[c] = "open" /\ loaded[c] = 3 /\ copy[c].version = version
    BY DEF Save, Ready, Writes, VersionMatches
  <1>2. \A i \in 1 .. 3 : copy[c].rows[LoadOrder[i]] = log
    BY <1>1 DEF StoreInv, CopiesInv
  <1>3. \A t \in Table : copy[c].rows[t] = log
    BY <1>2 DEF LoadOrder, Table
  <1>4. tables' = [t \in Table |-> Append(copy[c].rows[t], c)]
    BY DEF Save
  <1>5. tables' = [t \in Table |-> Append(log, c)]
    BY <1>3, <1>4
  <1>6. log' = Append(log, c)
    BY <1>5 DEF log, Table
  <1> QED
    BY <1>1, <1>5, <1>6 DEF StoreInv, TablesAgree, log

(* A commit keeps everything in order. *)
LEMMA SaveKeepsInv ==
    ASSUME StoreInv, NEW c \in Commands, Save(c)
    PROVE  StoreInv'
  <1>1. /\ tables' = [t \in Table |-> Append(log, c)] /\ log' = Append(log, c)
        /\ copy[c].version = Len(log) /\ version = Len(log)
    BY SaveWritesCurrent
  <1>2. /\ version' = version + 1
        /\ audit' = Append(audit, [command |-> c, version |-> version + 1])
        /\ outbox' = outbox \cup {c}
        /\ consumed' = [p \in Previews |-> consumed[p] \/ p = PreviewOf[c]]
        /\ phase' = [phase EXCEPT ![c] = "applied"]
        /\ UNCHANGED <<madeAt, loaded, copy>>
        /\ phase[c] = "open"
    BY <1>1 DEF Save, End, AuditVersion, Ready
  <1>3. log \in Seq(Commands) /\ Len(log) \in Nat /\ audit \in Seq([command: Commands, version: Nat])
    BY LogType DEF StoreInv, StoreTypeOK
  <1>4. /\ Len(log') = Len(log) + 1 /\ log'[Len(log) + 1] = c
        /\ \A i \in 1 .. Len(log) : log'[i] = log[i] /\ log[i] \in Commands
    BY <1>1, <1>3
  <1>5. StoreTypeOK'
    <2>1. tables' \in Rows
      BY <1>1, <1>3 DEF Rows
    <2>2. audit' \in Seq([command: Commands, version: Nat])
      <3>1. [command |-> c, version |-> version + 1] \in [command: Commands, version: Nat]
        BY DEF StoreInv, StoreTypeOK
      <3> QED
        BY <1>2, <1>3, <3>1, AppendProperties
    <2>3. consumed' \in [Previews -> BOOLEAN] /\ phase' \in [Commands -> Phase]
      BY <1>2 DEF StoreInv, StoreTypeOK, Phase
    <2>4. version' \in Nat /\ outbox' \subseteq Commands
      BY <1>2 DEF StoreInv, StoreTypeOK
    <2>5. /\ madeAt' \in [Previews -> Nat \cup {-1}]
          /\ loaded' \in [Commands -> 0 .. 3] /\ copy' \in [Commands -> Copy]
      BY <1>2 DEF StoreInv, StoreTypeOK, Copy, Rows
    <2> QED
      BY <2>1, <2>2, <2>3, <2>4, <2>5 DEF StoreTypeOK
  <1>6. TablesAgree'
    BY <1>1, <1>2, <1>4 DEF TablesAgree, Table, log
  <1>7. CopiesInv'
    <2> SUFFICES ASSUME NEW d \in Commands, phase'[d] = "open", loaded[d] > 0
                 PROVE  copy[d].version < version'
      <3>1. \A d \in Commands : copy[d].version \in Nat
        BY DEF StoreInv, StoreTypeOK, Copy
      <3> QED
        BY <1>2, <1>3, <3>1 DEF CopiesInv, StoreInv, StoreTypeOK
    <2>1. phase[d] = "open"
      BY <1>2 DEF StoreInv, StoreTypeOK
    <2>2. copy[d].version <= version /\ copy[d].version \in Nat /\ version \in Nat
      BY <2>1 DEF StoreInv, CopiesInv, StoreTypeOK, Copy
    <2> QED
      BY <1>2, <2>2
  <1>8. SpentInv'
    <2> SUFFICES ASSUME NEW i \in 1 .. Len(log')
                 PROVE  /\ phase'[log'[i]] = "applied"
                        /\ PreviewOf[log'[i]] # NoPreview
                              => consumed'[PreviewOf[log'[i]]]
      BY DEF SpentInv
    <2>1. CASE i = Len(log) + 1
      <3>1. PreviewOf[c] # NoPreview => PreviewOf[c] \in Previews
        BY StoreAssumption
      <3> QED
        BY <1>2, <1>4, <2>1, <3>1 DEF StoreInv, StoreTypeOK
    <2>2. CASE i \in 1 .. Len(log)
      <3>1. /\ log'[i] = log[i] /\ log[i] \in Commands
            /\ PreviewOf[log[i]] \in Previews \cup {NoPreview}
        BY <1>4, <2>2, StoreAssumption
      <3>2. /\ phase[log[i]] = "applied"
            /\ PreviewOf[log[i]] # NoPreview => consumed[PreviewOf[log[i]]]
        BY <2>2 DEF StoreInv, SpentInv
      <3> QED
        BY <1>2, <3>1, <3>2 DEF StoreInv, StoreTypeOK
    <2> QED
      BY <1>3, <1>4, <2>1, <2>2
  <1>9. EventsFollowCommits'
    <2>1. /\ Len(audit) = Len(log)
          /\ \A i \in 1 .. Len(log) : audit[i] = [command |-> log[i], version |-> i]
          /\ outbox = {log[i] : i \in 1 .. Len(log)}
      BY DEF StoreInv, EventsFollowCommits, log
    <2>2. /\ Len(audit') = Len(log) + 1
          /\ audit'[Len(log) + 1] = [command |-> c, version |-> Len(log) + 1]
          /\ \A i \in 1 .. Len(log) : audit'[i] = audit[i]
      BY <1>1, <1>2, <1>3, <2>1
    <2>3. \A i \in 1 .. Len(log') : i \in 1 .. Len(log) \/ i = Len(log) + 1
      BY <1>3, <1>4
    <2>4. \A i \in 1 .. Len(log') : audit'[i] = [command |-> log'[i], version |-> i]
      BY <1>4, <2>1, <2>2, <2>3
    <2>5. {log'[i] : i \in 1 .. Len(log')} = {log[i] : i \in 1 .. Len(log)} \cup {c}
      <3>1. 1 .. Len(log') = (1 .. Len(log)) \cup {Len(log) + 1}
        BY <1>3, <1>4
      <3> QED
        BY <1>4, <3>1
    <2> QED
      BY <1>2, <1>4, <2>1, <2>2, <2>4, <2>5 DEF EventsFollowCommits, log
  <1>10. ConfirmedAsPreviewed'
    <2> SUFFICES ASSUME NEW i \in 1 .. Len(log'), PreviewOf[log'[i]] # NoPreview
                 PROVE  madeAt[PreviewOf[log'[i]]] = i - 1
      BY <1>2 DEF ConfirmedAsPreviewed, log
    <2>1. CASE i = Len(log) + 1
      <3>1. copy[c].version = madeAt[PreviewOf[c]]
        BY <1>4, <2>1 DEF Save, Writes, MatchesPreview
      <3>2. log'[i] = c
        BY <1>4, <2>1
      <3>3. madeAt[PreviewOf[c]] = Len(log)
        BY <1>1, <3>1
      <3>4. Len(log) = i - 1
        BY <1>3, <2>1
      <3> QED
        BY <3>2, <3>3, <3>4
    <2>2. CASE i \in 1 .. Len(log)
      BY <1>4, <2>2 DEF StoreInv, ConfirmedAsPreviewed, log
    <2> QED
      BY <1>3, <1>4, <2>1, <2>2
  <1> QED
    BY <1>5, <1>6, <1>7, <1>8, <1>9, <1>10 DEF StoreInv

-----------------------------------------------------------------------------
(* Every step keeps the database in order. *)
LEMMA NextStore == StoreInv /\ [StoreNext]_storeVars => StoreInv'
  <1> SUFFICES ASSUME StoreInv, [StoreNext]_storeVars PROVE StoreInv'
    OBVIOUS
  <1>1. CASE \E p \in Previews : MakePreview(p)
    BY <1>1, MakePreviewKeepsInv
  <1>2. CASE \E c \in Commands : Load(c)
    BY <1>2, LoadKeepsInv
  <1>3. CASE \E c \in Commands : Save(c)
    BY <1>3, SaveKeepsInv
  <1>4. CASE \E c \in Commands :
                Replay(c) \/ Refuse(c) \/ SaveInVain(c) \/ Crash(c)
    <2>1. PICK c \in Commands :
                Replay(c) \/ Refuse(c) \/ SaveInVain(c) \/ Crash(c)
      BY <1>4
    <2>2. PICK fate \in Phase \ {"open"} : End(c, fate)
      <3>1. {"replayed", "refused", "conflict", "dead"} \subseteq Phase \ {"open"}
        BY DEF Phase
      <3> QED
        BY <2>1, <3>1 DEF Replay, Refuse, SaveInVain, Crash
    <2>3. phase[c] = "open" /\ UNCHANGED db
      BY <2>1 DEF Replay, Refuse, SaveInVain, Crash, Ready
    <2> QED
      BY <2>2, <2>3, EndKeepsInv
  <1>5. CASE UNCHANGED storeVars
    BY <1>5
    DEF storeVars, StoreInv, StoreTypeOK, TablesAgree, CopiesInv, SpentInv,
        EventsFollowCommits, ConfirmedAsPreviewed, log, Rows, Copy
  <1> QED
    BY <1>1, <1>2, <1>3, <1>4, <1>5 DEF StoreNext

(* The three tables never disagree: no torn read and no stale copy is      *)
(* written back.                                                           *)
THEOREM TablesStayEqual == StoreSpec => []TablesAgree
  <1>1. StoreInv => TablesAgree
    BY DEF StoreInv
  <1> QED
    BY <1>1, InitStore, NextStore, PTL DEF StoreSpec

(* Audit trail and outbox are the history of the commits. *)
THEOREM EventsAreCommits == StoreSpec => []EventsFollowCommits
  <1>1. StoreInv => EventsFollowCommits
    BY DEF StoreInv
  <1> QED
    BY <1>1, InitStore, NextStore, PTL DEF StoreSpec

(* Nothing happens between a preview and its confirmation. *)
THEOREM PreviewsHold == StoreSpec => []ConfirmedAsPreviewed
  <1>1. StoreInv => ConfirmedAsPreviewed
    BY DEF StoreInv
  <1> QED
    BY <1>1, InitStore, NextStore, PTL DEF StoreSpec

(* Every commit is whole: the three tables, the events and the confirmed   *)
(* preview belong to the same version, however the commands interleave and *)
(* wherever a process dies.                                                *)
THEOREM CommitsStayWhole == StoreSpec => []CommitsAreWhole
  <1>1. StoreInv => CommitsAreWhole
    BY DEF StoreInv, CommitsAreWhole
  <1> QED
    BY <1>1, InitStore, NextStore, PTL DEF StoreSpec

(* The store implements AtomicStore: a save is a command that had not      *)
(* taken effect and whose preview nobody had confirmed; everything else    *)
(* is invisible.                                                           *)
THEOREM StoreIsSerializable == StoreSpec => Serializable
  <1>1. StoreInit => Atomic!Init
    BY DEF StoreInit, Atomic!Init, Table
  <1>2. StoreInv /\ [StoreNext]_storeVars => [Atomic!Next]_(tables["instance"])
    <2> SUFFICES ASSUME StoreInv, [StoreNext]_storeVars,
                        tables["instance"]' # tables["instance"]
                 PROVE  Atomic!Next
      OBVIOUS
    <2>1. PICK c \in Commands : Save(c)
      BY DEF StoreNext, storeVars, MakePreview, Replay, Load, Refuse, SaveInVain, Crash, db
    <2>2. phase[c] = "open" /\ ~Consumed(c)
      BY <2>1 DEF Save, Ready, Writes
    <2>3. tables["instance"]' = Append(tables["instance"], c)
      BY <2>1, SaveWritesCurrent DEF log
    <2>4. ~Atomic!Applied(c)
      BY <2>2 DEF Atomic!Applied, StoreInv, SpentInv, log
    <2>5. PreviewOf[c] = NoPreview \/ ~Atomic!Confirmed(PreviewOf[c])
      BY <2>2 DEF Atomic!Confirmed, StoreInv, SpentInv, log, Consumed
    <2> QED
      BY <2>3, <2>4, <2>5 DEF Atomic!Next, Atomic!Apply
  <1> QED
    BY <1>1, <1>2, InitStore, NextStore, PTL DEF StoreSpec, Serializable, Atomic!Spec

=============================================================================
