----------------------------- MODULE Knowledge ------------------------------
(***************************************************************************)
(* The catalog of shared knowledge.  An administrator publishes a version  *)
(* of a source by storing its body first and its row second, and takes the *)
(* body back when the row is refused; a version can be revoked, and then a *)
(* next one published.  The requests of administrators run next to each    *)
(* other, and may come twice for the same version and text.                *)
(***************************************************************************)
EXTENDS Naturals

CONSTANTS Sources, Admins, Nobody, MaxVersion

ASSUME KnowledgeAssumption ==
    /\ Nobody \notin Admins /\ Admins # {}
    /\ MaxVersion \in Nat

VARIABLES
    row,        \* of each version: its status and who published it
    bodies,     \* versions whose text is in the blob store
    desk        \* what each administrator's request is at

catalog == <<row, bodies, desk>>

Versions == Sources \X (1..MaxVersion)
NoRow == [status |-> "none", by |-> Nobody]
NoRequest == [pc |-> "idle", item |-> <<"none", 0>>, created |-> FALSE]

Published(s) == {v \in 1..MaxVersion : row[<<s, v>>].status = "published"}

(* The first version of each source is there from the start. *)
CatalogInit ==
    /\ row = [x \in Versions |-> IF x[2] = 1 THEN [status |-> "published",
                                                   by |-> CHOOSE a \in Admins : TRUE]
                                 ELSE NoRow]
    /\ bodies = {x \in Versions : x[2] = 1}
    /\ desk = [a \in Admins |-> NoRequest]

(* put_if_absent *)
PutBody(a, x) ==
    /\ desk[a].pc = "idle"
    /\ desk' = [desk EXCEPT ![a] = [pc |-> "insert", item |-> x,
                                    created |-> x \notin bodies]]
    /\ bodies' = bodies \cup {x}
    /\ UNCHANGED row

(* The version has a row already, or the source a published version. *)
Refuses(x) == row[x].status # "none" \/ Published(x[1]) # {}

InsertRow(a) ==
    LET x == desk[a].item IN
    /\ desk[a].pc = "insert"
    /\ IF Refuses(x)
       THEN desk' = [desk EXCEPT ![a].pc = "compare"] /\ UNCHANGED row
       ELSE /\ row' = [row EXCEPT ![x] = [status |-> "published", by |-> a]]
            /\ desk' = [desk EXCEPT ![a] = NoRequest]
    /\ UNCHANGED bodies

(* Only who created the body takes it back. *)
TakeBack(a, wanted) ==
    desk' = [desk EXCEPT ![a] = IF wanted /\ @.created THEN [@ EXCEPT !.pc = "undo"]
                                ELSE NoRequest]

(* The database fails, before the row is committed or after. *)
InsertFails(a) ==
    LET x == desk[a].item IN
    /\ desk[a].pc = "insert"
    /\ \/ UNCHANGED row
       \/ ~Refuses(x) /\ row' = [row EXCEPT ![x] = [status |-> "published", by |-> a]]
    /\ TakeBack(a, TRUE)
    /\ UNCHANGED bodies

(* _matching_existing: is the row there this very publication? *)
Compare(a) ==
    /\ desk[a].pc = "compare"
    /\ TakeBack(a, row[desk[a].item] # [status |-> "published", by |-> a])
    /\ UNCHANGED <<row, bodies>>

(* _delete_orphan *)
DeleteOrphan(a) ==
    /\ desk[a].pc = "undo"
    /\ bodies' = bodies \ {desk[a].item}
    /\ desk' = [desk EXCEPT ![a] = NoRequest]
    /\ UNCHANGED row

Revoke(x) ==
    /\ row[x].status = "published"
    /\ row' = [row EXCEPT ![x].status = "revoked"]
    /\ UNCHANGED <<bodies, desk>>

CatalogStep ==
    \/ \E a \in Admins :
        \/ \E x \in Versions : PutBody(a, x)
        \/ InsertRow(a) \/ Compare(a) \/ DeleteOrphan(a)
    \/ \E x \in Versions : Revoke(x)

CatalogSpec == CatalogInit /\ [][CatalogStep]_catalog

CatalogTypeOK ==
    /\ row \in [Versions -> [status: {"none", "published", "revoked"},
                             by: Admins \cup {Nobody}]]
    /\ bodies \subseteq Versions
    /\ desk \in [Admins -> [pc: {"idle", "insert", "compare", "undo"},
                            item: Versions \cup {NoRequest.item},
                            created: BOOLEAN]]

(* What is published can be read: a request that is refused, or fails,     *)
(* takes back a body only when nobody published it (publish,               *)
(* _delete_orphan).  Not what the code does: README, section 7.            *)
PublishedHasBody == \A x \in Versions : row[x].status = "published" => x \in bodies

=============================================================================
