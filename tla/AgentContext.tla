---------------------------- MODULE AgentContext -----------------------------
(***************************************************************************)
(* What an agent reads when a flow that was drafted on the console runs.   *)
(* The manifest of the planning context was frozen with the instance; the  *)
(* files, the knowledge and both together are checked against it again at  *)
(* each attempt, while the administrator may revoke what was selected.     *)
(*                                                                         *)
(* One attempt of one agent that consumes everything (as the generated     *)
(* agents do) is added to Draft.tla; its owner may start the instance as   *)
(* soon as that exists.  A context that is refused fails the node.         *)
(***************************************************************************)
EXTENDS Draft

VARIABLE
    agent       \* the attempt: files and versions it was given so far

contextVars == <<vars, agent>>

NotAsked == [pc |-> "idle", early |-> FALSE, files |-> {}, refs |-> {}]

ContextInit == Init /\ agent = NotAsked

(* The attempt is claimed; early, if the worker had not done with the draft. *)
Ask ==
    /\ agent.pc = "idle" /\ instance # NoInstance /\ instance.files \cup instance.refs # {}
    /\ agent' = [NotAsked EXCEPT !.pc = "files", !.early = request.status # "ready"]

GoOn(allowed, pc) == [agent EXCEPT !.pc = IF allowed THEN pc ELSE "refused"]

(* resolve_for_agent: every file of the manifest has a row that is bound   *)
(* to the instance. *)
ResolvedForAgent == instance.files \subseteq bound \cap ReadyFiles

(* AgentContextService.resolve *)
ReadFiles ==
    /\ agent.pc = "files"
    /\ agent' = [GoOn(ResolvedForAgent /\ instance.files \subseteq blobs, "refs")
                    EXCEPT !.files = instance.files \cap bound]

(* EnterpriseKnowledgeContextService._build, but for the last step *)
ReadKnowledge ==
    /\ agent.pc = "refs"
    /\ agent' = [GoOn(Authorized(instance.refs) /\ instance.refs \subseteq bodies, "issue")
                    EXCEPT !.refs = instance.refs \cap bodies]

(* What is merged must have the fingerprint of the planning context. *)
MatchesManifest == agent.files = instance.files /\ agent.refs = instance.refs

IssueToAgent ==
    /\ agent.pc = "issue"
    /\ agent' = GoOn(MayIssue(instance.refs) /\ MatchesManifest, "given")

Reading == Ask \/ ReadFiles \/ ReadKnowledge \/ IssueToAgent

ContextNext == \/ Next /\ UNCHANGED agent
               \/ Reading /\ UNCHANGED vars

ContextSpec == ContextInit /\ [][ContextNext]_contextVars

FairContextSpec == ContextSpec /\ Fairness

-----------------------------------------------------------------------------
(* An agent reads what its flow was planned from, the same files and the   *)
(* same versions, and when a context is refused after the draft was ready, *)
(* then because of a version that has been revoked, or whose text an       *)
(* administrator's failed request took back: promotion, retries of the     *)
(* worker and uploads that fail never take a file from it (promote,        *)
(* mark_ready, resolve_for_agent, _validate_frozen_planning_manifest). *)
AgentsReadThePlan ==
    [][agent.pc # agent'.pc =>
        /\ agent'.pc = "given" =>
            agent'.files = request.files /\ agent'.refs = request.refs
        /\ agent'.pc = "refused" /\ ~agent.early =>
            \E x \in request.refs : row[x].status = "revoked" \/ x \notin bodies]_contextVars

=============================================================================
