# Larkflow, specified

TLA+ specifications of Larkflow (`src/larkflow`), the TLC configurations that
check them on small instances, and TLAPS proofs of the main properties of its
core for instances of every size. Line numbers refer to the sources.

Contents: 1 inventory, 2 modules, 3 how the models correspond to the code,
4 runs and bounds, 5 fairness, 6 proofs, 7 divergences found, 8 abstractions and
what is not modelled, 9 plan.

## 1. Inventory

Larkflow turns a goal into a graph of tasks for people, agents and tools, and
drives it. PostgreSQL holds all state; several processes work on it without
talking to each other: the web console and the chat gateway (commands of people),
the execution worker, the projection worker (database to Feishu tasks), the
inbound workers (Feishu task completions back), the interactive and draft
workers, and the gateway of the edge agents. The first engine
(`src/larkflow/service.py`, `engine/`) is still shipped beside them.

| Component (under `src/larkflow/workflow` unless given) | State | Operations | Hard behaviour | What makes it correct |
|---|---|---|---|---|
| Instance aggregate and commands: `service`, `model`, `transitions`, `scheduler`, `runner`, `restart`, `recovery`, `editing`, `lifecycle`, `decision` | instance, node and attempt rows, previews | create, confirm, discard, pause, resume, cancel, dispatch, submit, decide, transfer, complete, renew, fail, recover, restart, edit | any command between any two others; late results; stale previews; restarts of what is running | the frontier is exact, instance and node states agree, a claim has one owner, results stem from current inputs, history is kept |
| Snapshot graph: `graph` | none | validate, sort, ready nodes, downstream | used on every restart and edit | the impact is exactly what depends on the target |
| Instance repository: `repository`, `postgres` | tables, audit, outbox, previews | `add`, `get`, `save`, `save_restart`, `save_graph_edit` | three SELECTs per load, lost updates, duplicate confirmations, crash anywhere | serializable, all or nothing |
| Execution worker: `runtime`, `daemon` | leases, an execution in memory | tick, claim, read again, execute, answer | death, lease expiry, answers out of date, one bad instance among many | only own results count, nobody starves |
| Edge: `edge*` | devices, pairing codes, leases, two threads per device | pair, revoke, claim, renew, complete, fail | lost requests and answers, a stop under an execution | a device sends only under a lease it holds, and its node is served again |
| Outbox and projection: `events`, `projection`, `projection_daemon`, `feishu` | outbox rows, projection rows, Feishu tasks | claim, project, mark, retry, exhaust, reconcile | lease expiry under work, crash between remote call and record, reordering | one task per attempt, tasks follow the nodes |
| Inbound: `inbound`, `inbound_daemon`, `completion_poll` | signals in two phases | receive, poll, verify, submit, retry | duplicated, delayed, lost and repeated events while the node moves on | a completion counts once, for its owner and attempt |
| Chat: `im_commands`, `interactive_daemon` | command rows with three lanes, card tokens | receive, verify, apply, reply | redelivery, crash between effect and reply, clicks on one card | a command takes effect once and the answer is true |
| Role cards and draft wizard: `role_bindings`, `draft_generation*` | cards, actions, progress, replies | send, submit, verify, create, progress, reply | progress overtaken by replies, retries after creation | cards only move on, one draft, one answer |
| Validation and planning: `draft_validation`, `../planning` | none | refuse, plan, check, repair once | nothing a model returns can be trusted | agents work between people |
| Console drafts: `console_drafts` | requests with claims | create, select, freeze, generate, repair, promote, cancel | cancel against a busy worker, two pages, a crash anywhere | at most one instance, made of what was frozen |
| Attachments: `console_attachments`; knowledge: `console_knowledge`, `console_admin_knowledge`, `knowledge_context`, `agent_context`, `../knowledge` | file rows, blobs, versions of sources | upload, revoke, publish, select, authorize, read | body before row, revocation between any two steps | agents read what was planned with |
| Templates: `template_service` | template, versions, log | create, add version, enable, disable, delete, start | read-check-write of several authors, starts in several reads | the log tells the life, every role is filled |
| Console sessions: `console_auth`, `console_admin_sessions` | login states, sessions, previews, audit | sign in, sign out, preview and confirm an end | duplicated callbacks, expiry between two reads | one session per sign-in, the audit is true |
| Legacy engine: `../service`, `../engine`, `../io` | a checkpoint, interrupts, cards, idempotency keys | answer, send back, ask for consent, edit, unblock, sweep | ids of interrupts change with each beat; crash anywhere | no work of an old round counts; nobody is asked twice or forgotten |
| Directory, operations, front end | read models, configuration | | no protocol state | |

`PROJECT.json` lists them with their status, and under `hazards` what in this
code is hard to test, at the line where it bites.

## 2. Modules

| Module | What it is |
|---|---|
| `DagGraph` | snapshots; readiness, impact, acyclicity and validation as closed formulas |
| `Workflow` | one instance under all commands, each atomic, with its workers |
| `AtomicStore` | what the repository promises: commands one after the other, a preview confirmed once |
| `Store` | how commands really reach the database: three reads, a copy, one versioned write, death anywhere; implements `AtomicStore` |
| `LeasedQueue` | what a queue with leases promises: settled by the holder only, free again only after the lease, given up only after all tries |
| `Projection` | how one human node reaches Feishu: outbox, projection rows, tasks, the daemon and an operator's commands; implements `LeasedQueue` |
| `Inbound` | how a completed Feishu task comes back: signals, verification, submission |
| `Delivery` | how automated nodes of several instances reach the central worker and people's devices, through the gateway; pairing |
| `Chat` | chat commands from the callback to the reply |
| `Wizard` | role cards and the draft wizard: card, action, progress, reply |
| `Knowledge`, `Draft`, `AgentContext` | the catalog of knowledge; the console draft that selects from it (extends it); the agent that reads what the draft was planned with (extends both) |
| `Definitions`, `Templates` | what a definition is and how it becomes a snapshot (extends `DagGraph`); the life of a template and of those who start from it |
| `Planning` | from a request to an accepted plan (extends `Definitions`) |
| `Sessions` | sign-in, sessions and their administration |
| `Legacy` | one instance of the first engine |
| `MC...` | small instances for TLC |
| `WorkflowProofs` | proofs about `Workflow` and its graph: types, frontier; tables, history, inputs, claims, pauses, previews, final states |
| `ProjectionProofs`, `DeliveryProofs`, `ChatProofs`, `WizardProofs` | proofs about the module each is named for |
| `AnswersProofs` | proofs about people's answers: those that come back by a signal (`Inbound`), and those that drive the older engine (`Legacy`) |
| `ConsoleProofs` | proofs about what people meet at the web console: drafts and agents (`Knowledge`, `Draft`, `AgentContext`), `Sessions`, and the repository under their commands (`Store`) |
| `DefinitionsProofs` | proofs about those who make definitions: `Templates` and `Planning` |

How they fit together: `Workflow` takes commands as atomic because `Store` is
serializable; that refinement is the interface between the two, and `Chat`,
`Inbound`, `Delivery` and `Projection` rely on it as well. Each of these four
repeats of `Workflow` only what its component can see of an instance (for
instance the status, version, owner and attempt of one human node), so that its
own interleavings stay checkable. Every queue of the system (outbox, inbox, chat
commands, cards, draft requests) uses the same lease protocol, which
`LeasedQueue` states once.

The modules that share a proof module share no state; their initial predicates,
steps and specifications have names of their own for this reason (`StoreInit`,
`SessionsNext`, `PlanSpec`).

Operators under a comment "A slip: ..." are wrong variants of the definition
after them. Substituted for it they show that a property notices the mistake;
nothing else uses them.

## 3. Models and code

`PROJECT.json` ("map") names the lines of every definition. What follows says how
to read the state of each module.

**Workflow.** `status`, `version`, `snapshot`, `revision` are the columns of
`workflow_instances`; `nodeStatus`, `nodeVersion`, `owner`, `current` those of
`node_instances`, with status "absent" for a missing row; `attempts[k][n]` is the
row of attempt n of node k; `previews` are the unconsumed restart and edit
previews. `held[w]` is the `NodeActivation` a worker process keeps in memory
while it executes. Each command of `service.py` is one action, with everything
it does before it saves (unlocking, completion of the instance, closing and
creating attempts, the reset of claims):

| Code | Action |
|---|---|
| `confirm_draft` + `Scheduler.confirm` | `ConfirmDraft` |
| `discard_draft`, `pause_instance`, `resume_instance` | `DiscardDraft`, `Pause`, `Resume` |
| `confirm_cancellation` | `Cancel` |
| `dispatch_due` and `dispatch_ready` with `activate`, `reclaim_expired` | `Dispatch(w, c)` |
| `submit_human`, accepting `submit_human_decision` | `Submit(k)` |
| rejecting `submit_human_decision` | `Reject(k)` |
| `transfer_human_task` | `Transfer(k, p)` |
| `complete_automated`, `fail_automated`, `renew_automated_claim` | `Complete(w)`, `Fail(w)`, `Renew(w)` |
| `_stale_result_errors` | `DropResult(w)` |
| worker death; a result that loses the optimistic race | `Abandon(w)` |
| `preview_node_restart`, `preview_instance_restart`, `_confirm_restart` | `PreviewRestart(t)`, `ConfirmRestart(p)` |
| `recover_failed_node` | `Retry(k)`, `Takeover(k)` |
| `preview_graph_edit`, `confirm_graph_edit` | `PreviewEdit(g)`, `ConfirmEdit(p)` |
| the clock passing `claim_expires_at` | `ClaimExpires(k)` |

Looking up a missing row raises `KeyError` in the code and saves nothing. An
instance that runs without rows (section 7, first item) can therefore neither be
dispatched nor paused nor canceled: the guard `Materialised`.

**Store.** `tables` says of each table which commands' effects its rows contain,
so that a copy which misses an effect is visible when it is written back.
`Load(c)` is one SELECT of `get`, in the order `LoadOrder`. `Save(c)` is the
transaction of `save`, `save_restart` or `save_graph_edit`. `SaveInVain`,
`Replay`, `Refuse` and `Crash` are all other ends a command can have. PostgreSQL is
external: READ COMMITTED, atomic transactions, the WHERE clause of an UPDATE
rechecked after waiting for a lock.

**Projection.** `node` and `past` are the node's row and its earlier attempts;
`outbox[v]` is the event with `aggregate_version` v (0: the create request of the
confirmation), `at` its place by `available_at`, `live` whether
`claim_expires_at` is still ahead; `projection[a]` is the row of kind
`feishu_task` of attempt a, with the repair generation in place of the external
id and the idempotency key, which both follow from it; `task[a][g]` is what
Feishu keeps under that key. `job[w]` is the memory of a worker inside
`run_once` or `reconcile_all`: the rest of its batch, the event, the aggregate
as it was read, the projection row as it was read. Every statement and every
call of `_project_task` is a step, and between any two of them commands, the
other worker, failures and deaths may come:

| Code | Action |
|---|---|
| `claim_outbox` | `Claim` |
| `repository.get` and the checks of `_project`, `_project_node` | `Take` |
| `get_projection` | `Lookup` |
| `create_task`, `save_projection` of the new record | `Create`, `Record` |
| `task_exists`, `_recreate_task`, `replace_projection_external` | `Verify`, `Recreate`, `Replace` |
| `reassign_task`, `complete_task`, `save_projection` | `Assign`, `Close`, `Save` |
| `mark_outbox_published`, `mark_outbox_failed`, `mark_outbox_exhausted` | `Publish`, `Fail` |
| `InvalidOutboxClaimError` leaving `run_once` | `Abort` in `Publish` and `Fail` |
| `reconcile_all`, `project-once` | `Reconcile`, `RunOnce` |
| `confirm_draft`, activation, submission or cancellation, transfer, restart, edits | `Init`, `Activate`, `End`, `Transfer`, `Restart`, `Prepare`, `Remove`, `AddAgain` |

Feishu is external: `create_task` returns the existing task for a known client
token, a repeated idempotency key of a reassignment is the same request, and a
task may be deleted by hand. `Raise` stands for a call or statement that fails,
with or without effect.

**Inbound.** `inbox[id]` is a row of the inbox: a poll makes one stable id per
attempt (`Signal`), an event an id of its own. `job[w]` is a worker's memory:
`TaskVerificationWorker` claims a signal, reads the task and stores what it saw;
`WorkflowInboundWorker` claims it again, looks up node and attempt (`Look`) and
submits (`Submit`, which loses to a concurrent command: `Conflict`). `node`,
`bound` and `task` change by people, the console and the projection (`World`).
`fresh`, `doneBy` and `submitted` are history.

**Delivery.** `scan` is what a tick of `WorkflowWorker` or a thread of the gateway
is at: the candidates of `runnable_instance_ids`, then for each instance the
look at its nodes (`Look`), the `Dispatch`, the second read of the instance
(`Fetch`) and the hand-over. `job` is the work itself, `beat` the renewal thread
of a device, which shares one lock with the executing thread. A device sends its
result after both threads agree that the lease is still held. Requests and
answers may be lost on either side of the commit. `node[i]` is the one automated
node of instance i; its version and its claim token are one number.

**Chat.** `row[c]` is the row of a command with the status of its lanes, `desk[w]`
what a worker remembers of a claimed row, `feed[c]` the thread of the card
callback, which shows "processing" and then releases the row, and gives up after
a few seconds. `flow` is the instance the commands act on, `effect[c]` counts
their effects. The card token of a click is good for two updates.

**Wizard.** One request from the moment a chat command asked for a card. `status`,
`holder`, `live` are the rows and leases of the four lanes; `stage`, `revision`,
`claimed` the progress row, whose newer revisions must win. Role cards create the
draft from a template, the wizard has one generated, repaired once, validated.

**Knowledge, Draft, AgentContext.** `PutBody`, `InsertRow`, `Compare`,
`DeleteOrphan` are the steps of an administrator's publication; bodies and rows
are two stores. `request` is the row of a console draft: collecting, pending,
claimed, over. Two pages edit its selection by compare-and-set on a version;
uploads authorize, store and record a file; `FreezeAndQueue` freezes both. A
worker checks, gathers, issues, rechecks, generates, saves the candidate, creates
the instance, promotes the context to it and marks the request ready, each a
step, with its lease checked where the code checks it. The agent of the instance
asks for its context as soon as the instance exists, reads files, then knowledge,
compares both with the frozen manifest, and is issued the context or refused.

**Templates.** `author` and `start` are what the authors and the starters are at:
an operation reads the template, in some cases its latest version, and commits
against the template version it read. A chat start reads the roles, may ask with
a card, and instantiates after two more reads. `Definitions` is what
`template_service` accepts and how roles and inputs are bound.

**Planning.** A request goes through `Refused`, `Deterministic` (the travel
template), or up to `MaxCalls` answers of a model, any of `Candidates(request)`,
each judged by `Acceptable`, which is `GeneratedDraftValidator.validate` rule by
rule. The properties speak of whole paths of a plan, the rules of neighbours and
of what nodes consume.

**Sessions.** `pending` and `begun` are the login states in the memory of the
process, `sessions` the table, `cookies` what the browsers carry, `work` a request
of an administrator, which authenticates first and acts later. The code takes
the time of a new session before its turn at the table.

**Legacy.** `dag`, `status`, `attempts`, `reopens`, `seen`, `verdict`, `grants`,
`requests` are the values of the checkpoint, `open` and `asked` the current
super-step, `cards` and `leads` the cards in people's hands and which of them
lead to a waiting interrupt, `driver` the call that holds the instance's lock and
has not pumped to the end yet, `mishaps` what may still go wrong. `cut` remembers
that a job was stopped while it had leads to rebind or work to send back. `Beat` is one `_pump` round: dispatch, the
executors, new interrupts, remapping, notices. `Answer`, `SendBack`, `Approve`,
`EditGraph`, `Unblock`, `Reconcile`, `Sweep...` are the entry points. `Plans` and
`Edits` are the graphs an instance starts from and may be given; the first have
been validated (`PlansAssumption`), the others are when they are made.

## 4. Runs

| Run | Question | Instance | States |
|---|---|---|---|
| `workflow` | every command in any order: frontier, agreement of statuses and attempts, refused claims that stay refused, fresh inputs, final states, draining pauses, history, previews; does a started instance end | an agent before an agent, with edits towards 5 graphs (one cyclic, refused), and agent, human decision, agent; 2 workers, 2 persons, 2 attempts, 2 disturbances | 510,564 |
| `store` | are commits whole, and the commands serializable | 2 plain commands, 2 deliveries of one confirmation | 33,175 |
| `projection` | who settles an event; does Feishu show the node when all is quiet; is a task closed under a node that waits; is every event handled | the daemon and an operator, 2 persons, 2 versions, 2 attempts, 2 lives, 1 deleted task, 1 disturbance | 347,928 |
| `chat` | does a command take effect once, is the answer true, is every command answered | 7 pairs of commands that meet, 2 workers, 1 disturbance | 463,434 |
| `wizard` | does the card show what was sent, move on only, and end with an answer | both kinds of cards, 2 workers, 3 disturbances | 193,446 |
| `inbound` | is what is submitted true, done by the owner, and found | 4 scopes: a task done twice; a node that moves on; poll and event; late events; 2 workers, up to 2 disturbances | 470,876 |
| `draft` | one instance of the frozen candidate; no selection lost; agents read the plan; requests end | 5 scopes: two pages; uploads under the freeze; a catalog that moves; two deaths; a file and a version read by an agent | 302,854 |
| `delivery` | are results the node's own; is a result sent under a held lease only; is every node served | 2 instances, 1 central worker, 1 device, 2 gateway threads, a candidate limit of 1, 5 scopes | 399,551 |
| `legacy` | work of the current round; asked once; sent back with consent; nobody forgotten | 4 graphs of up to 4 nodes, one turn of the owner or one mishap | 124,968 |
| `templates` | does the log tell the life of the template; is every role of an instance answered | 2 authors, 1 starter, 4 documents, 5 operations, 1 death | 1,129,192 |
| `planning` | do accepted plans keep agents between people, do trips rest on sources | every kind of request, every graph of 4 nodes with every mix of executors and decisions | 25,990 |
| `sessions` | one session per sign-in; the audit is true | an administrator at 2 browsers, 3 logins, room for 2 sessions, 3 ticks | 2,943,974 |

Each run has one type invariant at most; where it matters to a property it is
among its conjuncts. Every property of a run fails for the slip that
`PROJECT.json` ("mutants") names for it.

*Bounds.* `MaxAttempt = 2`: a restart needs an old and a new attempt; a third one
relates to the second as that to the first, since no command reads further back
than the current attempt. `Budget` counts disturbances in `Workflow` (previews,
pauses, transfers, renewals, deaths, expiry under a busy worker): two are enough
for every pair (a takeover under a stale worker and a restart; a preview and a
change under it). Progress costs nothing, so no bound ends a run early. Three
nodes give a chain with a middle, and a bystander.

`Trouble`, also per scope, counts what goes wrong in the other modules: deaths,
failed calls (with and without effect), leases that run out under a worker. One
puts a failure between any two steps; two let the retry fail as well. `Scopes`
couple bounds: instead of all sources of disorder at once, each scope opens those
that meet. `MaxTries = 2` lets a row fail, be retried and be given up.
`Projection` with one disturbance has either a second process or a lost lease
under the first; both at once are covered by the theorems only. Turns bound what
people decide to do, `MaxTime` the clock of the sessions, which is long enough
for a state, a session and a preview to expire.

*Symmetry* permutes interchangeable commands in `store`, authors in `templates`
and browsers in `sessions`; none of these runs has a liveness property.

*Deadlock* checking is off: a finished instance, a settled queue, and people who
have used their turns stop, as they do in the code. The liveness properties cover
what must not stop.

## 5. Fairness

People owe nothing in any module, unless their answer is what a property waits
for; failures and deaths are never fair, and bounded.

- `Workflow!FairSpec`: `Dispatch` of every worker (the daemon polls runnable
  instances in a loop, `daemon.py`), `Finish` of every worker (executors run under
  time limits, and a worker that dies is an `Abandon`), the passing of claim
  expiries, and the answers of node owners, who are asked by their Feishu task.
  `Settles` then says that a started instance leaves status running. Without the
  owners' answers no such property can hold.
- `Projection!FairSpec`: the daemon comes back (`Restart=on-failure` in
  `deploy/larkflow-target-projection.service`), a process that runs goes on to its
  next step, and leases expire; one weak fairness of all three together is enough.
- `Chat!FairSpec`, `Wizard!FairSpec`: workers poll for ever and finish what they
  begin, leases run out, callbacks go on. Claims are strongly fair, since a failed
  row falls due again and again, and rows are taken in the order they fell due.
- `Inbound!FairSpec`: the poller and the workers run in loops; leases end.
- `AgentContext!FairContextSpec`: workers claim and work on, leases end. Neither
  the owner, nor the administrator, nor the agent owes anything.
- `Delivery!FairSpec`: the daemon ticks, gateway threads, agents and their renewal
  threads go on, leases end.
- `Legacy!LegacyFairSpec`: `serve` goes on reconciling and sweeping, and every call comes
  to an end (`Drive`).

`Templates`, `Planning` and `Sessions` have safety properties only: nothing runs
there unless somebody asks for it.

## 6. Proofs

| Theorem | Says |
|---|---|
| `WorkflowProofs!Types` | `Workflow` is well-typed |
| `WorkflowProofs!FrontierStaysExact` | a started node has only finished dependencies, a pending one has an unfinished one |
| `WorkflowProofs!AffectedIsDownstream` | a restart resets nothing its target waits for |
| `WorkflowProofs!TablesAgree` | instance, node and attempt rows say the same (`StatusAgrees`) |
| `WorkflowProofs!HistoryStays` | an attempt that ended never changes while its node is in the graph |
| `WorkflowProofs!InputsStayFresh` | work under way was given the current attempts of its dependencies |
| `WorkflowProofs!ClaimsStayRefused` | a claim that was refused once is refused for ever, so no late result counts (`RefusedForGood`) |
| `WorkflowProofs!PausedOnlyDrains` | a paused instance starts nothing |
| `WorkflowProofs!ConfirmedAsShown` | a confirmation does what its preview showed |
| `WorkflowProofs!ClosedIsFinal` | canceled and discarded instances never change |
| `ConsoleProofs!StoreIsSerializable` | `Store` implements `AtomicStore` |
| `ConsoleProofs!CommitsStayWhole` | tables, events and the confirmed preview of a commit belong to one version; its parts are `TablesStayEqual`, `EventsAreCommits`, `PreviewsHold` |
| `ProjectionProofs!Types` | `Projection` is well-typed |
| `ProjectionProofs!OutboxIsLeasedQueue` | the outbox of `Projection` implements `LeasedQueue` |
| `ProjectionProofs!RowsAdvance` | a projection row is never lost, never goes back to an older version or a replaced task |
| `ProjectionProofs!OnlyPeopleComplete` | no worker closes the task of an attempt that is still to be answered (`ClosedOnlyWhenEnded`) |
| `ProjectionProofs!FeishuMirrorsTheNode` | Feishu shows the node as it is once every event is handled (`Mirrored`) |
| `DeliveryProofs!ResultsAreOwn` | a result that counts was made from the inputs of its attempt |
| `DeliveryProofs!NothingLostIsSent` | a device sends nothing while a renewal has failed or is under way |
| `AnswersProofs!OutcomesAreTrue` | what the inbox says of a completion is so |
| `AnswersProofs!SubmittedForTheOwner` | a node is submitted only for an owner who did its task |
| `AnswersProofs!WorkIsFresh` | in the first engine work is done in its round, after and in view of its inputs (`FreshWork`) |
| `AnswersProofs!OneQuestionEach` | a person is asked once for a round, and who waits can answer (`AskedOnce`) |
| `AnswersProofs!OthersConsent` | what others did is sent back by the owner or with consent, once for a request (`WithConsent`) |
| `ChatProofs!CommandsTakeEffectOnce` | a command takes effect once, and one of two clicks on a card |
| `ChatProofs!AnswersAreTrue` | the chat is told what happened, and the card shows it |
| `WizardProofs!ProgressIsShown` | one form makes one draft; progress that counts as sent is on the card |
| `WizardProofs!CardOnlyMovesOn` | the card never falls back while the leases of progress hold |
| `ConsoleProofs!ThereIsOneDraft` | one candidate, one draft, of what was frozen |
| `ConsoleProofs!NoSelectionIsLost` | no page overwrites a selection it has not seen |
| `ConsoleProofs!AgentsReadWhatWasPlanned` | agents get what the draft was planned with, or nothing |
| `ConsoleProofs!SignInsAreSingle` | one session for each sign-in, within the limits |
| `ConsoleProofs!AuditStaysTrue` | the audit tells exactly the revocations there were |
| `DefinitionsProofs!LogIsTheLife` | the log of a template leads, legally and without gaps, to its row and versions |
| `DefinitionsProofs!RolesWereAnswered` | an instance has the roles its owners were chosen for |
| `DefinitionsProofs!PlansServePeople` | in every plan that is kept agents work between people who give and people who decide |
| `DefinitionsProofs!TravelPlansHaveSources` | a travel plan that is kept rests on sources |

All hold for arbitrary sets and bounds, from the named assumptions of the modules
only: constants have their types, drafts are valid snapshots (what `create_draft`
validates), the "no ..." values are not members of the sets they extend, central
workers are no devices, there is an administrator of the catalog
(`KnowledgeAssumption`, whose `CatalogInit` starts from what one has published),
and the limits and lifetimes of the sessions are numbers. For `Planning`
(`PlanAssumption`) a candidate of the model has a list of nodes, whatever is in
it, and the travel plan, which is the code's own constant, starts with a form that
asks for something (`travel.py:63-270`). For `Legacy`
(`PlansAssumption`) graphs are sound, which `edit_graph` (service.py:420-431) and the
loader of templates check.

*The frontier.* `FrontierInv` adds to `FrontierExact`: the snapshot is valid,
rows belong to nodes of the snapshot, and a draft has no rows. Each is needed.
Without validity a restart on a cycle would reset a dependency of its own target:
`AffectedIsDownstream` shows that the only node of the impact without a
dependency inside is the target. `AffectedIsClosed` keeps the nodes outside of
the impact untouched, `AffectedIsReached` gives each pending node inside somebody
to wait for. Without "rows belong to nodes", a completion would miss a waiting
row. Without "a draft has no rows", an edit of a draft would change dependencies
under its rows. An edit of a running instance is sound because done nodes are not
pristine, so that what is done stays done.

*The tables.* `AgreementInv` is `FrontierInv`, `StatusAgrees` and `NotStarted`: an
instance without rows has finished nothing and is not failed. The last is there
because a draft can be resumed (section 7): the agreement of the statuses has to
survive a status that has no rows to agree with. A command writes many rows, but
each of them stays, moves on within its attempt, starts over, appears or
disappears (`RowStep`, shown once per command in `NextRows`). That attempts follow
nodes, that ended attempts stay and that inputs are fresh are then properties of
five kinds of row steps. Fresh inputs need the frontier as well: a node that is
at work has only done dependencies, and the only step that gives a done
dependency a new attempt starts over everything downstream of it.

*Claims.* `ClaimInv` adds to `AgreementInv` that the tokens workers hold are past
versions. So the token of a new claim, the next version of the aggregate, was
never handed out before, and as long as the row lives under the old one nothing
of it that the check compares has changed. So a claim that is refused, because it
expired, was taken over, restarted, or edited away, can not become right again
(`RefusedForGood`). That no two workers are accepted for one node at one time
needs no proof: the row names one worker, and the check compares it.

*Previews.* `PreviewInv`: a preview whose version is the current one shows what a
confirmation would do now. Every command either commits, which moves the version
past all previews, or leaves nodes and graph alone.

*Final states.* Guards keep commands away from closed instances, but the clock
has no guard: `QuietInv` states that no claim is left to expire in one.

*The store.* `CopiesInv`: a copy whose version is still current contains the
current tables, though they were read at three moments. It holds because the
version is read first and every commit moves it; with another order of the
SELECTs it fails. `SpentInv`: the commands in the log have ended and their
previews are consumed. Together they turn a save into a step of `AtomicStore`.

*The outbox.* `ProjectionInv` adds to the types what each step relies on. Some
event is last (`Latest`), or the place of the next one would be undefined. An
event that is not being processed has no holder and no lease, so that a claim
never takes over a half-settled one. A worker at rest has empty hands, one
between two events holds no event, and the event in its hands is not in its batch
as well: what a worker means to settle is then exactly what the abstract
queue says it is. Of the whole model the queue sees commands that write an event,
claims, expiries, settlings, and workers that let their events fall; the step of
a worker whose claim was lost drops them all, as `InvalidOutboxClaimError` does.

*Rows.* Savable rows are not enough for `RowsAdvance`: a row could become the
"none" row if a worker had read no status. `StartedInv` excludes that: the
attempts left behind have ended, and a worker goes past `Take` only with a status
it has read.

*Feishu.* `Mirrored` speaks of quiet states. What makes them right is a promise
about all others: whatever Feishu lacks, an event that is not settled yet will
bring (`OwedInv`: `OwesOpening`, `OwesClosing`), and the daemon, if it has this
event in hand, is at a place in its code from which it will (`Shows`, `Closes`).
The hard case is a worker that read the attempt as waiting before it ended: what
it is about to do is not the last word, since the end of the attempt wrote an
event of its own (`OwesAnother`). In a quiet state no event is left, so nothing is
owed. Who holds the task is the same argument once more (`OwnersInv`): it is the
owner's, or the event of the last transfer is still to be handled. It holds only
while nothing went wrong (`CalmInv`), which is why `Shown` asks for that.
Everything rests on a part that needs no such restriction (`CloseInv`): a worker
closes tasks only of attempts it has read as ended, which stay ended unless the
node is removed and added again, and two workers overlap only after the switch of
`Overlap`. `MirrorInv` is the conjunction; it is inductive together with
`ProjectionInv` and `StartedInv`. That a waiting task is its owner's alone
(`TaskIsTheOwners`) would be simpler, and holds with two people, but not with three
(section 7): `Members` and `Shown` say who else may be left on it.

*Delivery.* What a worker has in hand says nothing of the node, which may have been
restarted, edited, or claimed once more; it says something of the attempt it
names. `DeliveryInv`: the attempt of a claim was started (`Claimed`), and inputs
that were read belong to that attempt unless it is over (`ReadFor`). Both survive
every step because attempts only grow and a started one is not ready again
(`Moves`). A result is accepted only for the attempt the node is at, so its
inputs are those of that attempt. `NoneLost` needs no help from the rest: it is
inductive with the types, since the renewing thread asks for the lock only while
the executor works, and the executor waits for a renewal that is under way.

*The inbox.* `InboundInv`: the outcome a worker carries, the task it saw and the
node it looked at are copies, and each of them says something that stays true
while the world moves on (`Advances`): attempts and versions only grow, an ended
node stays ended within its attempt, what somebody did stays done. What was
looked at before a submission is as good as the version it was looked at: if that
is still the node's, so is the owner who was compared.

*Chat.* Nothing is fenced before a command is settled: after a lost lease two
workers may both be about to apply it. What protects the flow is what a command
leaves behind (`Done`): a version that is past, a status that does not come back,
a preview that is consumed, a draft with its id. And what protects the answer is
that a refusal is for good: whoever still tries a refused command will be refused
as well (`Barred`), or nobody is left who could try (`Untouched`: refused by the
verification, before anybody was to apply it). `ChatInv` has both for every
command, for the answers on the desks, in the rows and in the chat. Recoveries,
decisions and confirmations leave `Done` as well, but their refusals are not for
good in this sense: a repetition after the effect is refused too (section 7,
`RejectedMeansUndone`), so the second theorem speaks of `Replayable` commands only.

*Cards.* `Wizard` writes one card from three places, the callback, the progress and
the reply, each with a lease. `Faithful` is the promise, progress that counts as
sent is on the card, and `Exclusive` is why it survives: as long as no progress
lease ran out under its worker (`late`), the worker in the progress lane is alone
in it, works with the revision that was claimed, and no reply is under way. `Once`
(the draft exists under the id of its command) and `Course` (no progress before
the verification, no reply before the decision) complete it. `CardMovesOn` needs
them all, since what a worker writes next has to be compared with what whoever
else wrote meanwhile.

*Drafts.* `ContextInv` collects what no step takes away once a request is queued
(`Kept`): its files and versions, the candidate that was saved, the body of a file
that is ready, the row of a version that was published. A worker that has checked
something may then rely on it through all its later steps, though another one may
have taken its lease: whoever saves a candidate first, both go on with the same.
That an agent which starts before the draft is ready is refused needs "a draft
that is ready was made of bound and readable files".

*Sessions.* `SessionsInv`: a login state is in one place, pending, in one callback,
or in one session (`OnePlace`); every step moves it on or drops it. For the audit
a session is known by an id no other row has, and it is in the table exactly as
long as it has not ended, so that the session a confirmation removes ends then
and for this reason. The lengths and cardinalities come from the library's
theorems on sequences and finite sets.

*Templates.* Each event of the log is legal where it stands because an author
commits only against the version that was read (`ReadsHold`): then everything
read is still so. The roles fit because versions are never changed: the version a
starter pinned keeps its roles (`Chosen`), and what is made, from whatever version
is the latest by then, is compared with those owners before it is saved (`Fits`).

*Plans.* Nothing is assumed of the model's candidates. `AcceptableServesPeople` and
its neighbours are lemmas about graphs: what the validator asks of roots, ends
and targets, one node at a time, holds along all chains. They rest on the impact
of a node being closed under its successors (`DagGraph`), and a chain having a
first and a last node, because the graph is finite and has no cycle.

*The older engine.* `FreshWork`, `AskedOnce` and `WithConsent` of `Legacy` follow from one
invariant. Its base is the graph (`GraphInv`): what is done or asked has all its
inputs done. That survives rework because a reset is closed (`ResetIsClosed`): it
takes with it whatever was made of what goes back, or this has given up. So a
round goes on together with all that depends on it, and what a card showed stays
true of whoever may still answer it (`LeadsInv`, `CardsInv`), hence of what was
done (`SeenInv`). For `AskedOnce` whoever waits has a lead, or the job at work owes
him one (`LedInv`): it keeps the leads it wrote off until it rebinds them, and
those it keeps are asked again in the same beat (`BeatInv`). Copies are counted:
the second card of a round is there only because a mishap came between the
sending and its record (`CopiesInv`). `ConsentInv` compares a verdict with what
others had done, which cannot grow while it stands: nobody is asked after a
failed gate until that is sent back. The invariant was not inductive at first, and
the missing case is a behaviour of the code: item 21 of section 7. It is why
`cut` excuses more than a lost rebinding.

The inductive invariants of `Workflow`, `Delivery`, `Inbound`, `Chat`, `Draft`,
`Sessions`, `Wizard`, `Templates`, `Legacy` and `Projection` (the last also with three
people) were checked by TLC on the instances of section 4 as well as
proved. What stays model-checked:
- every liveness property (`Settles`, `Drains`, `EventuallyAnswered`,
  `CompletionFound`, `EventuallyOver`, `Served`, `NobodyForgotten`), since
  fairness and ENABLED are out of the prover's reach;
- what a recursive definition computes for every input, which would need
  induction over data (so the modules use closed forms);
- that the rounds of `Legacy` stay within the budgets (`Rounds`, a conjunct of
  `NobodyForgotten`), a sum over all gates whose laws need induction over data.

Every invariant and every action property that a run checks is proved.

## 7. Divergences

Places where the code does something else than a document, a comment or a test
says. Most of them are stated as a definition of the module, which no run checks
because TLC refutes it: put it as the only property of the module's configuration
to see the counterexample.

*Instances.*
1. `Workflow!ResumeOnlyPaused`: `resume_instance` (service.py:304) checks the
   transition only, which a draft has too: a draft can be resumed into a running
   instance without rows. `AIREADME/SPEC.md:230` reserves resume for paused ones.
2. `Workflow!HistoryNeverDeleted`: a restarted node is "pristine" again
   (editing.py:248), so an edit may remove it with all its earlier, finished
   attempts, against `AIREADME/SPEC.md:237`.
3. `Workflow!ReworkReachesRunner`: updating a node between its restart and its
   activation (editing.py:262) drops the rework feedback promised by
   `AIREADME/ARCHITECTURE.md:157`. The edits of the run `workflow` touch no rejected
   node; it takes one that hands node `a` of `Review` over.
4. `Projection!ActivationsReachFeishu`: the outbox drops an event whose node id and
   version are already there (postgres.py:1560). A node that was removed and added
   again starts from version 0 under its old id: its activation can collide with
   an event of its earlier life, and its owner never gets a task until the daemon
   happens to restart and reconcile, against `AIREADME/ARCHITECTURE.md:214`.

5. `Projection!TaskIsTheOwners`: the call that hands a task over has the idempotency
   key of the node's version as it is read, not of the event
   (projection.py:777-789). Two transfers that are projected late are both handled
   at the last version; the second call repeats the key of the first, Feishu does
   nothing, and the person in the middle or the first one stays a member of the
   task. `AIREADME/ARCHITECTURE.md:173` has the projection remove the former owner.
   It takes three people and two transfers before the daemon looks; the run
   `projection` has two people.

*Workers and devices.*
6. `Delivery!ClaimedByServer`: which nodes a device may do is read before the claim
   (edge.py:450-484, runtime.py:129), so that a hand-over in between lets a former
   owner's device claim the node; `AIREADME/DECISIONS.md:517` says only the
   owner's devices can.
7. With as many due instances as the candidate limit that nobody serves, others
   are not looked at (postgres.py:1088-1133); `Served` excepts them (`Crowded`).
8. A device whose lease became stale by an edit ends its agent for good (the
   gateway answers 400 or 401), while `CHANGELOG.md:673` has it go on; a pairing
   code is used up even if the answer with the credential is lost.

*Chat and cards.*
9. `Chat!RejectedMeansUndone`: a worker that dies between the commit of a recovery
   and the settling of its command makes the retry answer that the command was not
   executed (im_commands.py:930), against `AIREADME/DECISIONS.md:622` and
   `AIREADME/SPEC.md:251`.
10. `Chat!EveryCommandAnswered`: a card token is used up by the second update; if the
   text then fails to be sent, it is never sent (im_commands.py:1586-1620, against
   `AIREADME/SPEC.md:253`). Canceling a draft raises `KeyError` for ever
   (service.py:361). A pause that is retried can pause again after a resume.
11. `Wizard!GoodFormsAreVerified`: a form that comes back before the message id of
    its card is recorded is rejected for good (role_bindings.py:711;
    `AIREADME/DECISIONS.md:611`).
12. Between two tries a progress update counts as over (postgres.py:3377), and
    progress that was delayed beyond its lease can overwrite the result on the card
    (`AIREADME/DECISIONS.md:744`). A retry after the draft was made answers "not
    applied" if the template has been disabled meanwhile.

*Completions.*
13. `Inbound!PollingIsReliable`: after its last failed verification a poll's signal
    is exhausted, and later polls make the same signal, which is dropped
    (inbound.py:583): that completion is never found by polling, which
    `AIREADME/SPEC.md:203` presents as the reliable way.

*Drafts, files, knowledge.*
14. `Knowledge!PublishedHasBody`: a publication that loses, or whose commit answer
    is lost, deletes a body that the accepted row needs
    (console_admin_knowledge.py:172; `AIREADME/DECISIONS.md:1072`). The same holds
    for the row of an upload (console_attachments.py:1018).
15. `Draft!CanceledMeansNoDraft`: a request can be canceled, rejected or exhausted
    while its instance exists, if a worker lost its lease or died after
    `create_draft` (console_drafts.py:1355), against
    `tests/test_workflow_console_drafts.py:576`.
16. An agent that starts between the creation of the instance and `promote` finds
    no files bound and fails (console_drafts.py:1355-1387); the exception `early`
    in `AgentContext`.

*Templates and planning.*
17. `instantiate` reads the status and then the latest version: a version that was
    never enabled can become an instance (`AIREADME/SPEC.md:199`). A chat start
    binds the version of its first read but announces the one of its last.
18. `AIREADME/SPEC.md:225` wants every agent directly reviewed by a human; the
    validator asks that of one agent per plan (draft_validation.py:330-350). What
    holds of all, `AgentsAnswerToPeople`, is weaker: people start and people
    decide.
19. Two `add_node` operations before the same target in one console edit lose the
    place of the first (console_actions.py:447-466). Two tabs that sign in at once
    can leave a live session that no browser carries.

*Legacy engine.*
20. `Legacy!SweptInItsRound`: the sweep reads the round and then the task and the
    interrupt without the lock (service.py:1205-1222): a rework in between lets an
    old completion finish the new round.
21. An unblock whose own push fails is not refunded (service.py:525); a card is lost
    when the process dies between `update_state` and `put_remap`; two gates that
    fail in one beat send back what depends on the order of the node list. When
    the process dies between the write-back of a beat and its dispatch
    (service.py:1343-1344), nobody is asked for that moment, so that `edit_graph` may
    change a node that is to go back (service.py:423-425). If the edit takes it out of
    the rework, it is asked again in its old round: the key is used, no card is sent,
    and the old one leads nowhere. `cut` excuses this in `AskedOnce` and `FreshWork`.

*What `Mirrored` does not promise.* It is stated for one projecting process and a
node with one life. Beside a second process, `max(record.sync_version,
node.version)` lets a stale worker write an old state over a new one until the
next reconciliation. A crash between `create_task` and `save_projection` leaves an
open task behind if the node ends before the retry. A task whose node was taken
from two others since its attempt began may keep one of them as a member (item 5).

## 8. Abstractions and limits

- Texts (titles, objectives, outputs, answers) are left out: no decision of the
  modelled code depends on them, or they are members of small sets where one does
  (the topics of a search, the needs a travel plan must ask for).
- A missing permission or wrong caller is a command that does not happen, except
  where the permission is what the property is about (`Legacy`, `Chat`).
- Clocks are bits ("the lease is live") except in `Sessions`; what expires may
  expire at any time.
- Locks on rows are not modelled: the statements that wait for them are atomic.
  PostgreSQL is READ COMMITTED with atomic transactions. Feishu is external: it
  answers a repeated idempotency key with what it did before.
- Previews expire; an expired one behaves like one that is never confirmed.
  Locked snapshots are instances with `Edits = {}`.
- `Projection`, `Inbound`, `Wizard`, `Draft`, `Legacy` follow one node, card,
  request or instance: others share the workers, which take one row at a time.
- A node with a projection row cannot be removed (`migrations/0001_workflow.sql`).
- Claim batches are taken one row at a time in `Chat`, `Wizard` and `Inbound`.

Not modelled: HTTP, rendering and parsing (`console_http`, `console`, `feishu*`
beyond task calls, `serde`, `cli`), configuration, migrations and the front end,
which have no protocol state; `executors`, `llm`, `search` and documents, which
are data and calls to models (`Workflow` and `Delivery` keep that an execution
succeeds, fails or is late); the directory, a read model refreshed as a whole;
decision cards, messages and documents of the projection, which repeat the
protocol of the tasks; the rate limiter; the orphan sweep of blobs; full-text
search; the loops of `graph.py`, of which `DagGraph` has the closed forms.

## 9. Plan

1. A proof that a rework in `Legacy` ends: a decreasing measure in place of `Rounds`.
2. `LeasedQueue` as the abstraction of the other queues: rows of `Draft`, `Inbound`
   and `Chat` refine it as the outbox does.
3. The projection of decision cards and messages beside the tasks; three people in
   the run `projection`.
