------------------------------- MODULE Store --------------------------------
(***************************************************************************)
(* How a service command reaches the database (service.py, postgres.py):   *)
(* it loads the instance with three SELECTs that may each see another      *)
(* committed state, works on its copy, and saves everything in one         *)
(* transaction under the version it loaded first.  Commands of different   *)
(* processes interleave at every statement; a process may die between any  *)
(* two of them.                                                            *)
(*                                                                         *)
(* The three tables are modelled by what has been written to them: the     *)
(* sequence of commands whose effect the rows contain.  A command that     *)
(* works on an old copy therefore writes rows that miss somebody's effect. *)
(* PostgreSQL itself (external) is assumed to run READ COMMITTED, to apply *)
(* a transaction at once and to recheck the WHERE clause of an UPDATE that *)
(* waited for a row lock.                                                  *)
(***************************************************************************)
EXTENDS Integers, Sequences

CONSTANTS Commands,     \* executions of service commands
          Previews,     \* durable restart and graph edit previews
          NoPreview,
          PreviewOf     \* the preview each command confirms, or NoPreview

ASSUME StoreAssumption ==
    /\ NoPreview \notin Previews
    /\ PreviewOf \in [Commands -> Previews \cup {NoPreview}]

VARIABLES
    version,            \* workflow_instances.version
    tables,             \* the rows of the instance, its nodes, its attempts
    audit, outbox,      \* workflow_audit_events, workflow_outbox
    madeAt,             \* preview: the version it was computed from, or -1
    consumed,           \* preview: consumed_at is set
    phase, loaded, copy \* of each command: its fate, tables read, memory

storeVars == <<version, tables, audit, outbox, madeAt, consumed, phase, loaded, copy>>
db == <<version, tables, audit, outbox, madeAt, consumed>>

-----------------------------------------------------------------------------
Table == {"instance", "nodes", "attempts"}
Rows == [Table -> Seq(Commands)]
Copy == [version: Nat, rows: Rows]
Nothing == [version |-> 0, rows |-> [t \in Table |-> << >>]]

(* A slip: the children are loaded before the row that has the version. *)
InstanceLast == <<"nodes", "attempts", "instance">>

(* The order of the SELECTs in get. *)
LoadOrder == <<"instance", "nodes", "attempts">>

Phase == {"open", "applied", "replayed", "conflict", "refused", "dead"}

StoreInit ==
    /\ version = 0
    /\ tables = [t \in Table |-> << >>]
    /\ audit = << >> /\ outbox = {}
    /\ madeAt = [p \in Previews |-> -1]
    /\ consumed = [p \in Previews |-> FALSE]
    /\ phase = [c \in Commands |-> "open"]
    /\ loaded = [c \in Commands |-> 0]
    /\ copy = [c \in Commands |-> Nothing]

(* preview_node_restart, preview_instance_restart, preview_graph_edit: the *)
(* preview is inserted without a version check, so what it was computed    *)
(* from may be out of date already.                                        *)
MakePreview(p) ==
    /\ madeAt[p] = -1
    /\ \E v \in 0 .. version : madeAt' = [madeAt EXCEPT ![p] = v]
    /\ UNCHANGED <<version, tables, audit, outbox, consumed, phase, loaded, copy>>

(* A confirmation reads its preview before it loads the instance; finding  *)
(* it consumed it reports already_applied.                                 *)
CanStart(c) == PreviewOf[c] # NoPreview => madeAt[PreviewOf[c]] # -1

End(c, fate) ==
    /\ phase' = [phase EXCEPT ![c] = fate]
    /\ UNCHANGED <<loaded, copy>>

Replay(c) ==
    /\ phase[c] = "open" /\ loaded[c] = 0
    /\ PreviewOf[c] # NoPreview /\ consumed[PreviewOf[c]]
    /\ End(c, "replayed")
    /\ UNCHANGED db

(* One SELECT of get. *)
Load(c) ==
    /\ phase[c] = "open" /\ loaded[c] < 3 /\ CanStart(c)
    /\ LET t == LoadOrder[loaded[c] + 1] IN
       copy' = [copy EXCEPT ![c] =
                  [version |-> IF t = "instance" THEN version ELSE @.version,
                   rows |-> [@.rows EXCEPT ![t] = tables[t]]]]
    /\ loaded' = [loaded EXCEPT ![c] = @ + 1]
    /\ UNCHANGED <<db, phase>>

Ready(c) == phase[c] = "open" /\ loaded[c] = 3

(* The command refuses: wrong status, attempt, node version, claim, owner. *)
Refuse(c) == Ready(c) /\ End(c, "refused") /\ UNCHANGED db

(* instance.version != preview.expected_instance_version *)
MatchesPreview(c) ==
    PreviewOf[c] # NoPreview => copy[c].version = madeAt[PreviewOf[c]]

(* A slip: an UPDATE without "AND version = ...". *)
AnyVersion(c) == TRUE

(* UPDATE workflow_instances ... WHERE version = expected_version. *)
VersionMatches(c) == version = copy[c].version

(* aggregate_version=expected_version + 1 in every _audit call. *)
AuditVersion(c) == copy[c].version + 1

Consumed(c) == PreviewOf[c] # NoPreview /\ consumed[PreviewOf[c]]

(* What save_restart and save_graph_edit look at before they write. *)
Writes(c) == MatchesPreview(c) /\ ~Consumed(c) /\ VersionMatches(c)

(* save, save_restart and save_graph_edit: instance, children, audit,      *)
(* outbox and the consumption of the preview in one transaction.           *)
Save(c) ==
    /\ Ready(c) /\ Writes(c)
    /\ version' = version + 1
    /\ tables' = [t \in Table |-> Append(copy[c].rows[t], c)]
    /\ audit' = Append(audit, [command |-> c, version |-> AuditVersion(c)])
    /\ outbox' = outbox \cup {c}
    /\ consumed' = [p \in Previews |-> consumed[p] \/ p = PreviewOf[c]]
    /\ End(c, "applied")
    /\ UNCHANGED madeAt

(* The transaction finds its preview consumed, or the version moved on, or *)
(* the command noticed before that its preview is stale.                   *)
SaveInVain(c) ==
    /\ Ready(c) /\ ~Writes(c)
    /\ End(c, IF MatchesPreview(c) /\ Consumed(c) THEN "replayed"
                                                  ELSE "conflict")
    /\ UNCHANGED db

(* The process dies; the transaction, if any, is rolled back. *)
Crash(c) == phase[c] = "open" /\ End(c, "dead") /\ UNCHANGED db

StoreNext ==
    \/ \E p \in Previews : MakePreview(p)
    \/ \E c \in Commands : \/ Replay(c) \/ Load(c) \/ Refuse(c)
                           \/ Save(c) \/ SaveInVain(c) \/ Crash(c)

StoreSpec == StoreInit /\ [][StoreNext]_storeVars

-----------------------------------------------------------------------------
(* Types of all variables. *)
StoreTypeOK ==
    /\ version \in Nat
    /\ tables \in Rows
    /\ audit \in Seq([command: Commands, version: Nat])
    /\ outbox \subseteq Commands
    /\ madeAt \in [Previews -> Nat \cup {-1}]
    /\ consumed \in [Previews -> BOOLEAN]
    /\ phase \in [Commands -> Phase]
    /\ loaded \in [Commands -> 0 .. 3]
    /\ copy \in [Commands -> Copy]

(* The three tables contain the effects of the same commands in the same   *)
(* order, as many as the version counts: no reader's torn view and no      *)
(* stale copy was ever written back (postgres.py get, save).               *)
TablesAgree ==
    /\ tables["nodes"] = tables["instance"]
    /\ tables["attempts"] = tables["instance"]
    /\ version = Len(tables["instance"])

(* The audit trail and the outbox record the committed commands, all of    *)
(* them and nobody else, and the n-th commit is audited as version n: a    *)
(* command that lost, refused or died has left no event behind.            *)
EventsFollowCommits ==
    /\ Len(audit) = Len(tables["instance"])
    /\ \A i \in 1 .. Len(audit) :
          audit[i] = [command |-> tables["instance"][i], version |-> i]
    /\ outbox = {tables["instance"][i] : i \in 1 .. Len(tables["instance"])}

(* A confirmation takes effect on exactly the state its preview was made   *)
(* of: no other commit lies between the two.                               *)
ConfirmedAsPreviewed ==
    \A i \in 1 .. Len(tables["instance"]) :
        LET pre == PreviewOf[tables["instance"][i]] IN
        pre # NoPreview => madeAt[pre] = i - 1

(* Every commit is whole: the tables, the events and the preview that it   *)
(* confirms belong to one and the same version of the instance.            *)
CommitsAreWhole == TablesAgree /\ EventsFollowCommits /\ ConfirmedAsPreviewed

(* The commands behave as if they ran one at a time. *)
Atomic == INSTANCE AtomicStore WITH log <- tables["instance"]

(* No update is lost, no command takes effect twice, and no preview is     *)
(* confirmed twice, however often and however concurrently its             *)
(* confirmation is delivered.                                              *)
Serializable == Atomic!Spec

=============================================================================
