# Verification of InfinityProductOS

This directory holds TLA+ models of InfinityProductOS, of its backend and of the
part of its front end where several requests, caches and screens meet, the TLC
configurations that check them on small instances, and the TLAPS proofs of the
properties that matter most.

## 1. The system and its parts

InfinityProductOS is a FastAPI backend with a relational database, Celery
workers on Redis, an in-process scheduler, an in-memory event bus with an
optional Kafka producer, and a React front end. Customers model payment
products as *workflows* (graphs of nodes); a payment is one run of a workflow.

| Part | State it keeps | Operations | Interacts with |
|---|---|---|---|
| Workflow executor (`services/workflow_executor.py`) | the context, the active nodes and the trace of one run | `execute`, per-node actions, edge conditions, ledger guardrail | instance rows, outbox, rule engine, dispatcher, sub-workflows |
| Transaction instances and the resume endpoint (`routers/workflows.py`) | `WorkflowExecutionInstance` rows: status, current node, context, reversal id | execute, approve, reject, cancel, send to repair, retry, skip, reverse | executor; several operators and workers at once |
| File ingestion (`tasks.py`, `routers/ingestion.py`) | `IngestionJob` rows, the Celery queue | upload, process, cancel, requeue, flag stuck, archive, restore | executor (fan-out and document convergence), scheduler |
| Event bus and outbox (`event_bus.py`, `scheduler.py`) | outbox rows, in-memory listeners, Kafka queue | broadcast with or without a session, relay | every service that announces something |
| Governance gate (`services/governance_gate.py`, `routers/governance.py`) | `EvidencePacketRegistry` rows | create task, authorize, bulk authorize | orchestrator, masters, archival |
| Dynamic masters (`routers/masters.py`) | versioned master records | create, update with optimistic lock, delete | governance gate (conflict tasks) |
| Integration dispatcher (`services/integration_dispatcher.py`) | circuit and rate-limit keys in Redis | `execute_api_call` | executor; every worker process |
| Business rule engine (`services/business_rule_engine.py`) | none between calls | evaluate conditions, run actions | executor, sanctions service |
| Queue adapters and listener (`services/queue_adapter.py`, `services/queue_listener.py`) | blocking waits on external queues | send, wait for a correlated answer, SLA breach | resume endpoint, executor |
| Calculation engine (`services/calculation_engine.py`) | none between calls | formula programs, batches | executor, rule engine |
| Reconciliation (`routers/reconciliation_engine.py`, `services/reconciliation_worker.py`) | match results | match two record sets, trigger | its dispatch to a worker is only a comment |
| Authoring (`routers/workflows.py`, `mappers.py`, `screens.py`, `masters.py`, ...) | workflows, versions, screens, packages | single-row edits by designers | executor reads them |
| Scheduler (`scheduler.py`) | none; one instance in every API process | outbox relay every 5 s, stuck jobs every hour, archive every day, statistics, insights | outbox, ingestion, AI services |
| AI, reporting, dashboards, identity, notifications, seeds | their own tables | reads, and edits of one row | not on the path of a payment |
| Store, router, header, banner (`store/usePlatformStore.ts`, `App.tsx`, `layouts/`) | package, product, sub-product, module, workflow draft, step to return to | mutators; mount one module at a time | every screen; kept when a screen is left |
| Transaction screen (`features/transaction-screen/`) | transaction shown, station, panels, typed reason; the query cache; requests on their way | worklist, picker, search, poll, decisions, reversal, initiation, bulk runs | resume and execute endpoints; other operators |
| Workflow designer (`features/workflow-designer/`) | nodes and edges, selection, drawers, modal, wiring picks | draw, connect, configure, save, publish, clone, parse, wire | store (draft), workflow list in the cache, every studio a step leads to |
| Studios (`features/insights`, `calculation-engine`, `field-registry`, `queue-infrastructure`) | a form, a list or table, a selection, drawers | list, page, create, edit, clone, test, bulk update | one or more endpoints each; other users of the same rows |
| Package runtime (`features/package-runtime/`) | sidebar, screen, queue, launcher, running transaction; records of a master | open, launch, decide; add, edit, delete, share | execute and resume endpoints, masters endpoints |
| Other screens of the front end | forms of one row | one request per save | the same caches |

### How the parts interact

* A payment enters through the execute endpoint or as a record of an ingested
  file. Either builds a `WorkflowExecutor`, which walks the graph in the
  caller's database session and commits when the run pauses, halts or
  completes.
* A paused run is a row. It goes on when an operator calls the resume
  endpoint, when a requeued or uploaded document names it, or when a queue
  answers: each builds a new executor from what the row holds.
* `broadcast(event, db)` adds an outbox row to that session; `broadcast(event)`
  calls the listeners at once. The relay in each process turns PENDING rows
  into broadcasts.
* The executor calls APIs through the dispatcher, whose circuit and bucket live
  in Redis and are shared by all processes; the executor ignores whether the
  call succeeded and looks only at what it left in the context.
* The front end is one React tree. `App` mounts the module that the store names,
  inside an error boundary; what a component keeps itself is gone when it
  unmounts, while its requests go on and their answers find it gone or find
  another one mounted. React-query keeps one cache for all screens: a
  mutation's `onSuccess` invalidates keys, and an invalidation drops a fetch on
  its way for a query that is on the screen, and only marks the others.
* A decision names a transaction, not the state of it that was on the screen.
* Nothing locks rows. Except for `DynamicMasterRecord`, no table has a version
  column. Concurrency control is the status a request loaded.

### What is hard here

1. **Read, decide, commit** without a lock: reversal, cancellation, requeue,
   archiving, governance decisions all act on the status they loaded.
2. **Two commits for one decision**: the executor commits its own row, then the
   endpoint copies the status; a crash comes between.
3. **At-least-once messages** meeting a status left behind by a lost worker.
4. **Session state that outlives an error**: staged events, flags set in place
   in a context, keys that travel into paused rows and child runs.
5. **Shared counters changed by several commands**: the circuit breaker.
6. **A traversal over sets**: forks, joins, cycles, a step limit, and a pause
   that forgets the rest of the step.
7. **Late answers**: the user has gone to another transaction, drawer, tab or
   module when a request is answered, and the handler acts on what it finds.
8. **Caches**: a poll that read before a decision, a list nobody was told to
   fetch again, a page asked for and left.
9. **Chains of requests** with no way back: an insight and the rules drawn up with
   it, a bulk run, a bulk update.
10. **State with two owners**: the canvas between the designer, the store's draft
    and the saved workflow of a product.

### What makes each part correct

| Part | Correct when |
|---|---|
| Executor | an approval gate opens only for a request that names it; a completed run is recorded once and announced exactly then; a blocked payment does not complete (it may: section 4); every run ends, and only a cycle meets the step limit |
| Resume endpoint | a finished transaction stays finished; a reversal happens once; an acknowledged decision is in the audit trace |
| Ingestion | a job is in one table; its units are run once per upload; COMPLETED means all of them; nothing waits or processes for ever |
| Outbox | nothing is announced that was not committed; PUBLISHED means dispatched; every committed event is dispatched at least once |
| Dispatcher | failures open the circuit; an open circuit holds calls back; the rate is kept |
| Governance | a decision stands once it can be seen; an approved task is signed by its decider; a refused update is not lost |
| Masters | no update is lost; a refused one is queued |
| Transaction screen | a decision answered in view is seen; a reason rejects what it was typed for, once; the poll catches up; a bulk run ends |
| Store and designer | no sub-product without its product; what is on the canvas survives navigation; the way back leads to the step; a spinner stops; a pick is not dropped unsent |
| Studios | what is stored names only what is stored; steps run as shown; page numbers lead to pages; nothing gets the settings of another; what is shown is true unless nobody could know |
| Rules, calculations | equal to a reference definition on every input; errors fail on the safe side |

## 2. Modules

| Module | What it is | Proofs |
|---|---|---|
| `Outbox` | the bus, the outbox table and the relays of several processes | `DeliveryProofs` |
| `OutboxContract` | what an at-least-once outbox promises: an event is owed, dispatched, discharged, in that order | refined by `Outbox` |
| `WorkflowExecutor` | one workflow's runs: traversal, pauses, halts, resumes, rows, events | `WorkflowExecutorProofs` |
| `TransactionLifecycle` | instance rows under concurrent operator requests | `TransactionLifecycleProofs` |
| `IngestionJobs` | job rows under endpoints, workers, the broker, archive runs and the detector | `IngestionJobsProofs` |
| `IntegrationDispatcher` | the circuit, the failure count and the bucket of one API under many workers | `DeliveryProofs` |
| `GovernanceGate` | the four-eye queue and the versioned master records under concurrent requests | `GovernanceGateProofs` |
| `InstanceServer` | the transactions as a browser meets them: each request in one step | with those that extend it |
| `BulkOperations` | the bulk panel and the loops it starts; extends `InstanceServer` | `TransactionScreenProofs` |
| `TransactionScreen` | one operator's screen, cache, poll and requests; extends `BulkOperations` | `TransactionScreenProofs` |
| `PlatformStore` | the global store, its mutators, the menus that change it | `WorkflowDesignerProofs` |
| `WiringAudit` | the wiring panel of the designer and its requests | `WorkflowDesignerProofs` |
| `WorkflowDesigner` | the designer with store, cache and requests; extends `PlatformStore` and `WiringAudit` | `WorkflowDesignerProofs` |
| `Studio` | what studios share: sittings, mounting, error boundary, queries, the form of a designed screen | `StudiosProofs` |
| `InsightsFactory`, `CalculationStudio`, `FieldRegistry`, `QueueInfrastructure`, `MasterRecords`, `RuntimeShell`, `NotificationEngine` | one studio each; extend `Studio` (`RuntimeShell` also `InstanceServer`) | `StudiosProofs` |
| `Studios` | the seven together in one `App` | `StudiosProofs` |
| `MC*` | the instances TLC checks | |

Definitions called *faulty variant* in a comment are not part of a
specification: each is a plausible bug of the definition that follows it, and a
property is kept only when such a variant breaks it.

### State and actions against the code

**Outbox.** `row` is the outbox table, with `staged` for a row still in a
session; `todo` and `marked` are the relay's batch and its uncommitted
PUBLISHED marks; `heard`, `buffered` and `kafka` say who got an event.
`Stage`, `CommitStaged`, `RollbackStaged` are `broadcast(event, db)` and the end of
the caller's transaction. `RelayStart` is the query, `RelaySend` one call of
`broadcast` with all its listeners, `RelaySendRaises` the listener that raises
and the rollback, `RelayCommit` the one commit of the batch. `CommitDirect` and
`BroadcastDirect` are the services that commit first and broadcast in memory after.

**WorkflowExecutor.** `todo` is the loop over `current_step_node_ids`, `next` is
`next_step_node_ids`, `resumeAt` is the node for which `is_resume_iteration`
holds, `ctx` the context with the flags that rules set and the resume id it
carries, `rows` and `outbox` what is committed, `staged` what is in the session.
One action is one node visited (`PauseForDocuments`, `PauseForApproval`,
`NodeHalts`, `PauseForChild`, `NodeContinues`, `NodeFails`, `NodeRaises`), the end of a
step (`NextStep`) or of the run (`CompleteRun`, `StepLimit`, `Return`).
`StartRun` is the execute endpoint and the records of a file. The resume endpoint is
`ResumeRun` (an approval, or a request without a decision or with one it does not know),
`RetryRun`, `SkipStep` and `SkipLast`, which go on through `Resume`, and `Decide`
(reject, cancel, repair), which does not; `Upload` is the worker that continues the
transactions an upload names. `before` is the resumed row as the table has it while the
session has changed it, for `RollBack`. `approvals` counts approve decisions
at a gate, `waived` all the other requests and uploads that went on there; both are history.
Since nodes of a step come from a set, they are visited in any order. Rules, formulas and
API calls are outcomes: which flags are set, whether a `ValueError` (`MayFail`) or another
exception (`Unhandled`) is raised. Any node may be one of `MayFail`: reconciliations, queue
publications, the currency check, API calls and the ledger gate all raise one, after
rules of the same node have run. A sub-workflow is one step with the outcomes a run has.

**TransactionLifecycle.** A request is `Load` (parse, query, keep a copy),
then `Refuse`, or one decision: `Decide` (reject, cancel, repair), `Reverse`,
`SkipToEnd`, or `StartRun` and the run's result (`RunCompletes`, `RunStops`,
`RunFails`, `RunRaises`) and `Sync`, the endpoint's own commit. `Saved` is the
commit of a SQLAlchemy session: only columns whose value changed are written.

**IngestionJobs.** `active` and `archive` are the two tables, `queue` the broker.
`Upload` commits, `Dispatch` sends; `Load`, `Cancel`, `Requeue`, `Restore` split
each endpoint between its query and its commit. A worker takes a message
(`Start`, or `TurnAway` when the guard rejects it), commits PROCESSING (`Claim`),
runs units, and ends by `Complete`, `Fail` or `FailUnwritten`. `WorkerLost`, `TimeLimit`
and `Redeliver` are what late acknowledgement brings. `ArchiveLoad`/`Archive` and
`FlagLoad`/`Flag` are the two maintenance jobs, which several processes run.

**IntegrationDispatcher.** One action per Redis command: `Enter` or `Halt` (GET of
the state), `ReadClock` then `Charge` or `Throttle` (the Lua script, with the time
the caller read before), `Send` or `GiveUp`, `Succeed` (DELETE), `Count` (INCR),
`Trip` (SETEX), `Clear` (DELETE). `Abandon` stops a call at any point: the process
died or Redis did not answer. Sleeps are kept as the second before which the
worker does not go on.

**GovernanceGate.** A request is one HTTP request with a session of its own.
`StartDecision` is its query and the check of the status, `CommitDecision` the
commit, `AnnounceDecision` the event and the answer, built from a row that is read
again because a commit expires the session's objects. A bulk request
(`StartBulk`) asks for a list of ids, reads them one by one (`ReadTask`) and
writes rows and comments in one commit (`CommitBulk`). `Sign` is the UPDATE:
SQLAlchemy writes the columns that were assigned, so a rejection leaves the
signature alone. Sessions do not flush before they commit (`database.py:48`), so
rows are locked only during a commit and the read of one request and its
write are two steps. `HaltTransaction` is the orchestrator's task for a deviating
amount; `StartWrite` and `SaveUpdate` the two sides of an update of a master
record, `Fresh` the version in its WHERE clause, `Collide` the rollback and
`QueueConflict` the task made of it. `CleanUp` deletes decided rows with their
comments. Deleted rows stay in the model, as history; `deciders`, `rivals`,
`saves` and `erased` are history only. Requests that are refused because of what
they read change nothing and are left out.

**InstanceServer, BulkOperations, TransactionScreen.** `rows` are the instance rows;
`Take` and `Refuse` are the resume endpoint's answer to a decision, `Execute`
the execute endpoint's, each atomic here because their interleaving on the
server is `TransactionLifecycle`'s subject. `scr` is the state of
`TransactionWorkflowScreen` and of the panels in it, `cache`, `fetch` and `broken`
the query of each transaction, `View` the early returns of the render. `Poll` is
`refetchInterval`; a fetch is asked for, read by the server (`FetchRead`) and
arrives (`FetchArrives`), or fails. `Mutate` sends a decision; `Served` is the
server, `Succeeded` and `Failed` the handlers, which refresh the transaction then on
the screen (`key`, kept up to date by `Rekeyed`, since react-query runs the handlers
of the last render). A bulk run is an `async` loop over a copy of the selection
(`LoopNext`, `LoopServed`, `LoopAnswered`, `LoopEnds`) that outlives its panel.

**PlatformStore, WiringAudit, WorkflowDesigner.** `store`, `draft`, `back` are fields
of the global store, `canvas` nodes and edges, `desk` the rest of the component,
`list` the cached workflow list by how many workflows it has. A handler, the
render after it and the effects of that render are one step: `Edit` is an edit
with `saveDraft`, the draft effect (`Drafted`, `Returned`), the drawer's reading
(`Hydrated`) and the automatic save. `Goes` is every change of the store with
what becomes of the designer: `Mounts`, `Unmounts` or `Stays`. `Asks` sends a clone,
a parse or a publish; `Answered` puts what comes back into the draft and into
whichever designer is mounted. In the audit, `Cleared` is the success of *Apply
Wiring* and `Failed` its error.

**Studios.** `studio` says which studio the sitting is in and whether it is
shown, replaced by the boundary's card or left. A query is `Unasked`, `Asked`
(mount), `Refreshed` (invalidated while shown) or `Missed` (invalidated while not
shown); its answer is what the server had at any moment since it was asked, so
`Answers` offers the old and the present value, and `gap` records a change that
nobody announced to it. `Deserted` is a request whose studio is gone. In
`InsightsFactory`, a deployment copies the draft (`deploys`) and goes through its
steps one request at a time (`DeployStep`). In `CalculationStudio`, `editor` is the
form with the numbers of its steps, `EditSteps` each of its changes, and `cloning` the clones
on their way, several if *Use Template* is clicked again, which nothing disables. In
`FieldRegistry`, `grid.key` is the query key of the page shown, `pages` the cache,
`patches` the preference updates on their way; a page is a set of rows, each with the
`Place` it is listed at. In `QueueInfrastructure` connections
and queues are items of two kinds, handled alike. In `MasterRecords` the grid
stays mounted between cached masters, so an order keeps the master it is about
(`master`) and the one it would refresh (`seen`). In `RuntimeShell` the server is `InstanceServer`
again; `Loading` is `loadInstance`, `Merged` the spread of an answer over what is shown.
In `NotificationEngine`, `notifier` is the list or the editor with the draft of a policy
and of one more trigger; a notice on its way has the editor it will refresh (`seen`);
`Takes` is what `notification_policies.py` refuses or not, `Carried` what it stores; of the
trigger forms of an editor a notice keeps how many there are and whether all are filled
in (`Forms`), which is all the endpoint reads of them.

## 3. Runs

`PROJECT.json` lists these runs. Each property has a faulty variant of a modelled
definition that breaks it.

| Run | Instance | Shows |
|---|---|---|
| `outbox_relay` | 2 events, one deeper than the bus accepts, 1 direct event, 2 processes, batches of 1, 2 listeners, 1 failure, 1 crash; 33,860 states | the at-least-once contract is refined (an event is announced only when owed, discharged only when announced), and the outbox drains |
| `outbox_kafka` | the same with 1 process | *violated*: a PUBLISHED row whose message Kafka never gets |
| `executor_safety` | four graphs of up to 4 nodes (chain, fork with its join, rework loop, a self-loop) with a gate that also waits for documents and may be skipped, rules, a failing step, a sub-workflow; every kind of request and uploads; 3 runs, 1 crash; 1,514,729 states | a gate opens only for a request that names it, completion is announced exactly then, a resumed row closes, only cycles meet the step limit, every run ends |
| `executor_block` | a chain; a rule that blocks and a step that fails at one node; 1 run | *violated*: the blocked payment completes |
| `lifecycle_rows` | 2 threads, 2 rows, 3 requests, 1 crash; 1,096,406 states without the symmetry of threads | finished rows stay, a key means a reversal, a reversal happens once, audits are kept |
| `ingestion_rows` | 1 job uploaded and requeued, 2 units, 2 workers, 2 requests, 2 archive runs, 1 detector, 1 loss; about 470,000 states | one table, one worker at a time, settled jobs stay, no job waits or processes for ever |
| `dispatcher_circuit` | 2 workers, 3 calls of up to 3 attempts, threshold 2, 2 requests a second, 4 instants, 1 call cut short; 402,029 states | failures are acted on, few attempts pass an open circuit, the rate is kept by ordered readers |
| `governance_queue` | 3 requests of any kind, 2 tasks, 1 record, clean-ups and deletions at any time, any request may die; 785,045 states | approvals are signed, only rivals overturn a decision, a lone decision is told as it is, bulk decisions are commented, no update is lost, refused updates are queued |
| `screen_operator` | 1 browser, 2 transactions of a workflow of 2 nodes, 6 sittings, 1 bulk run; 425,128 states | a decision answered in view is seen, a reason rejects once, the poll catches up, bulk runs end |
| `designer_desk` | 1 package, 2 products (one with a saved workflow), canvases of up to 2 drawn steps, 1 template and 1 diagram, 2 steps to wire, 7 sittings; 191,553 states | the canvas has a source, no sub-product without product, the way back, requests end, picks are kept |
| `studios_authoring` | 1 insight, 2 tokens, 2 steps; 3 programs, 3 form steps; 4 sittings; 231,045 states | tokens are bound, steps run as shown, deployments, try-outs and saves settle |
| `studios_records` | 3 fields in pages of 1 or 2, 2 connections and 2 queues, 2 masters, 3 transactions, 3 policies with 3 triggers, 17 sittings; 1,078,191 states | types, page numbers, whose settings and names, what is shown is true |

Further configurations are kept beside the modules and run by hand (`tlc -config
X.cfg M`): each checks one property that the code does not have, and TLC finds
the shortest way there.

| Configuration | Violated |
|---|---|
| `MCWorkflowExecutor_child` | `CompletedRowIsOwn`: a sub-workflow after a gate overwrites its parent's row |
| `MCTransactionLifecycle_reversal` | `NeverDoubleReversed`: two overlapping reversals, two keys |
| `MCIngestionJobs_redelivery` | `RedeliveryResumes`: a redelivered message does not resume the job |
| `MCIntegrationDispatcher_quota` | `QuotaIsKept`: a late reading sets the bucket back and a second is refilled twice |
| `MCTransactionScreen_maker` | `MakerNeverApproves`: the bulk panel approves the maker's own transaction |
| `MCStudios_unkept` | `RejectNeverRunsOn`: a rejection in the package runtime runs the transaction on; `TriggersAreInOrder`: a trigger removed and one added leave two with one `sort_order` |

### Why the bounds are enough

Every hazard of the list needs at most two actors and one fault: two processes
for the relay, two requests on a row, a worker and the detector, two workers
and one late reading. The bounds give each module two of each actor, the one
fault, and one more operation than the shortest interference needs, so that
something still follows it. Batches of one row stand for those of 100: two
events already make a relay stop between rows of different batches, and the
theorems of section 5 cover every batch size. The graphs of `executor_safety` have a
fork, a join, a cycle through a gate and a cycle without one, which is what tells the
branches of the traversal apart; three runs are one that pauses, one that continues it
and one that meets what the second left. More runs, gates and graphs are the theorems'. Two tasks give a bulk request one that it
decides and one that it does not, and three requests a rival and a latecomer. Runs and
requests are bounded because the tables grow with them; times and calls because
counters do.

The front end is bounded by *sittings*: how many clicks, requests, visits, changes by
others and breaking connections there are. One bound on their sum would be
spent on idle clicks; a sitting gives much of what one hazard needs and little
of the rest. Every sitting that looks at late answers has a second visit or a
second thing to go to, one or two requests, and clicks enough to open, send, leave and
come back: a race in the browser is between one answer and one click. A studio's
sitting is in one studio, because studios share no state but the server's, and
`Studios` has all seven so that a run covers them with one set of properties. Two
pages of one field, or one of two and a rest of one, have all the edges of a page
window of two; the theorem `PagesOffered` covers the rest. Deadlock is not checked in these runs: all the systems stop when
their bounded work is done.

### Fairness

* `Outbox`: weak fairness of the relay in each process. The scheduler starts it
  every five seconds, and its loop goes on or raises. Committing, listening
  services and crashes have none.
* `WorkflowExecutor`: weak fairness of the run's own steps. `execute` is a loop of a
  live thread. Callers have none.
* `IngestionJobs`: weak fairness of taking a message and of going on with it, per
  worker (Celery's prefetch and its time limit), and of the detector on each
  job (the scheduler runs it every hour). Users and archive runs have none.
  `JobsEnd` makes an exception of jobs on which the database failed the
  worker: `process_file_task` logs that and gives up.
* `TransactionScreen`: weak fairness of the poll's timer, of the loop of a bulk run (an
  async function that goes on by itself), and of a fetch being read and
  arriving. A fetch that keeps failing is bounded. Nobody has to click.
* `WorkflowDesigner`: weak fairness of the list, of a save being stored or lost, and of
  requests being answered or failing, because axios does one of the two.
* `Studios`: weak fairness of the insight and program lists, of each step of a
  deployment, of try-outs and of saves, for the same reason. Users have none.
* The other specifications state safety only, as does `Studios`' `Safety`.

### Types

`TypeOK` of the executor, ingestion, dispatcher, governance, transaction screen and
studios modules is proved (section 5); that of `Studios`, with its seven parts, is
also checked by `studios_records`. Those of `Outbox`, `TransactionLifecycle` and
`WorkflowDesigner` hold in the instances of their runs and are kept out of them
for the sake of properties that say more. The dispatcher's specification is called
`DispatcherSpec` (with `DispatcherInit`, `DispatcherNext`, ...) so that one module of
proofs can extend it together with `Outbox`.

## 4. What the code does otherwise

The violated runs are disagreements between the code and what the repository
says of it; `PROJECT.json` quotes both sides. The configurations run by hand are others.
The following were met while modelling; those with a property's name in brackets
are stated by it in the module and no run checks it.

*Events.* Direct broadcasts are lost with the process (`routers/ingestion.py:89`).
An event on which a listener always raises holds up its batch for ever: the
relay rolls the whole batch back, and its query, which names no order, may
return the same hundred rows every time; the constant `Poison` names such
events.

*Executor.* A blocked payment can complete (`executor_block`). `_blocked` is read after
`_execute_node_actions` has returned; if a later step of the node raises a `ValueError`
(a reconciliation, `workflow_executor.py:488-494`; a queue publication, `:681`, `:722`; the
currency check, `:93`, `:273`; an API call, `integration_dispatcher.py:47`, `:114`; the
ledger gate, `:840-869`; a failed sub-workflow), the handler at `:1112` ends the path and nothing looks at
the flag again until another node is done. With nothing else due the run is COMPLETED and announced,
against "Honor it now: terminate the workflow with status=REJECTED" (`:991`).
A pause forgets nodes due on parallel branches (`:981`),
though `TRANSACTION_SCREEN_DESIGN.md:79` has branches run on. The event of a
failed ledger step is published all the same: the SAVEPOINT surrounds the check
only (`:857`). The failure event is staged and not committed when the execute endpoint raises
(`:1146`). A parent resumed after its sub-workflow runs the node's earlier steps
again, and an isolated child's REJECTED is ignored. API calls report failure and the
run goes on (`:328-335`). An event that no row of its own run stands for any more is
possible: an upload to a completed transaction runs it again and overwrites its row, which is why
`CompletionAnnounced` speaks of that run or a later one.

*Resume.* An approval gate can be passed without an approval, and the properties do not say
otherwise. `routers/workflows.py:560-565` lets a resume without a decision go on at a gate, which
`schemas.py:667-674` wants for "legacy" callers, and one with any decision but `reject`,
such as the `REJECTED` that the package runtime sends (`MCStudios_unkept`). So do a skip
whose target is a gate (`:522-556`), a retry after repair (`:557-559`), documents that a gate waits
for too, and an upload (`tasks.py:150-152`).
`GateOpensOnRequest` therefore counts requests of every kind: it says that the
*executor* opens no gate, not that each opening was approved. Pausing again leaves the old PAUSED row behind
(`routers/workflows.py:607-618`). A retry and a bare resume leave no audit line. A file
that names a finished instance resumes it (`tasks.py:143-150`). A skip of a node
with no way out goes on by sequence number although the comment at
`routers/workflows.py:532` speaks of completing, and a skip of the last step completes the row
without WORKFLOW_COMPLETED (`:550-554`; `own` is FALSE for such rows).

*Ingestion.* A requeue does not pass the target instances on (`routers/ingestion.py:151`),
so a failed convergence job completes with no records. An upload whose message
cannot be sent leaves a PENDING job nobody takes (`:192-196`). An archive run can remove a job
that was requeued after it was loaded (`archival_service.py:53`). A failed file's
records before the failure are committed and run again by the requeue; there is
no checkpoint (`tasks.py:173`), though `architecture.md:86` asks for one.

*Dispatcher.* HTTP error statuses are not counted (`integration_dispatcher.py:114`),
so an API that answers 500 never opens its circuit; a caller the bucket throttles
is counted (`:75`), so a busy healthy API may. There is no half-open probing, which
`008-api-integration-patterns.md:17` describes. Keys are per reference: an API used by
id and by name has two buckets and two circuits (`:52-53`). A Redis error after a
successful call turns it into a `ValueError` (`:100`). A POST that times out is sent
again (`:90`).

*Governance.* A decision is not the "immutable" action that
`PackageDashboard.tsx:499` tells the checker of: of two requests that both loaded the task,
the later commit wins (`governance_gate.py:98-106`). If that is a rejection, the
signature of the approval stays on the rejected row, and the event and the
answer of the first may give the other's status, while their `action` and
`resolved_by` are its own (`:109-124`). The bulk endpoint comments on every id it
is given, also on tasks it does not decide or that do not exist
(`routers/governance.py:311-321`, "all affected tasks"), and announces nothing.
A conflict task does not hold the update it stands for: `attempted_payload` is not
used (`governance_gate.py:57-73`), though the update is said to be routed "instead of
dropping the transaction" (`:60`), and a process that dies between the rollback
and the task loses the update (`masters.py:61-63`). Nothing keeps the maker of a
conflict task from approving it, although this is the second pair of eyes. An update
carries no version (`masters.py:45`): the lock sees writers that overlap in
time, not an operator who edits an old screen. A deletion that collides is an
unhandled error (`:80-81`).

*Queues, rules.* The queue listener's task name is registered nowhere
(`queue_listener.py:58-59`) and messages with another correlation id are dropped
(`:150`). A rule whose condition raises is skipped although the comment at
`business_rule_engine.py:179-180` says it fails closed. Reconciliation is never
dispatched (`reconciliation_engine.py:257`).

*Transaction screen.* The screen keeps the maker from deciding ("You cannot
authorize or reject this transaction step because you initiated it"), the bulk
panel does not (`MCTransactionScreen_maker`). The reject panel and its text stay
when another transaction is opened; the text is used once, but for whichever
transaction it is confirmed on. The banner of an error is shown over whatever
transaction is then open. A reversal of a COMPLETED transaction by somebody else
is not noticed: the poll has stopped. A form's submit approves again while an
approval is pending. An execution that is answered takes the operator to the new
transaction from wherever he is by then.

*Designer.* A published blueprint and a saved draft keep no connection: the canvas names the ends
of its edges by its own ids and sends the shape as `node_code`
(`WorkflowCanvas.tsx:443-449`, `:470-487`), `_create_edges` passes ids that are no code through
(`routers/workflows.py:49-64`), foreign keys are not enforced in SQLite (`database.py:27-32`), and the answer is
201. What is stored is what the comment at `:97-98` warns of: edges at ids that do not exist in
the workflow, and steps that are all terminal. The model stores such a workflow; no property
is about its edges. The payload of a publish drops what the drawer configured
(`NodePropertiesDrawer.tsx:137-141`, `:843-853`), and a clone's edges
(`WorkflowCanvas.tsx:275` against `edges: []`). The saved workflow's id stays set when
another product is chosen (`:218-219`). "so the bank's copy survives a page reload"
(`:324`) does not hold: the draft is in memory only. The canvas is lost when the
product has no saved workflow and the list changes. `document-master`, where
DOCUMENT_MASTER steps lead, has no route. Deleting a node by key leaves its edges.
The four-digit ids of nodes may collide. Changing or deleting an edge in its drawer is taken
back by `saveDraft`, which holds the edges rendered before (`LabeledEdge.tsx:10`).

*Insights.* An insight with an inline calculation, or with a NOTIFICATION or
SCREEN_PANEL output, is always refused with 422, and the list of errors, given to a
toast as its text, takes the studio down with the draft [`DraftsAreRead`:
`InsightsFactoryStudio.tsx:8-16`, `:881-882` say otherwise]. After a partial failure a
retry is refused with 409 for the rule that was stored. *Edit Insight* opens the
draft left behind and creates a new insight. A late answer's `resetForm`
wipes a newer draft.

*Calculations.* *Save Changes* posts, and the code is unique: an edit always fails,
with nothing shown [`EditsAreSaved`: `CalculationEngineStudio.tsx:19` says CRUD]. The result of a
try-out is shown under whichever program is selected by then; a clone's answer
replaces the form; a save's wipes a newer one.

*Fields.* A toggle does not refresh the statistics. A bulk update of which one
request fails says nothing, refreshes nothing and keeps the selection; a deleted
field in the selection makes every later one fail. A translation that comes late
is stored with another field [`TranslationsAreOwn`]. A group's box inverts a mixed
selection. The page is not clamped when the table shrinks. An answer closes
whichever drawer is open.

*Queues.* A test's result is shown under another connection. Clearing a queue's
parent is not sent. A queue whose parent is no longer a MASTER is in no branch of the tree
[`EveryQueueIsListed`], and a MASTER with a parent is in it twice. A
late answer ends another edit. No error is ever shown.

*Masters.* Two clicks on Submit make two records. Going to a cached master, the
toggle shows the one before, and a click sends its opposite
[`ShownSharingIsOwn`]. A late answer refreshes the list shown by then, not the
one it changed, and closes its form.

*Package runtime.* The shell sends `"decision": "REJECTED"`, for which
`resume_workflow_run` has no branch, so that a rejection is a bare resume and
runs on (`MCStudios_unkept`; `routers/workflows.py:434`: "THE fix that makes
Reject ≠ Approve"). Two clicks can approve two gates. A late answer about one
transaction is merged into another that is shown. The first opening of a
transaction finds no node, because the handler still holds the workflow selected before.
Its `context_update` is not in the schema and is ignored. No menu leads here
(`MasterHeaderNav.tsx:91-93`), and `App.tsx:129-131` mounts it for a view nobody sets.

*Notifications.* A trigger gets the number of triggers there are as its `sort_order`, so
that removing the first of two and adding one leaves two of the same place
(`MCStudios_unkept`; `models.py:1555-1556`: "fires every LIVE trigger in the attached
policy in sort_order sequence"). A policy that waits for its approver still takes and
loses triggers, all of them if need be, and then goes live; `add_trigger` says "to an
existing DRAFT policy" (`notification_policies.py:172`). A form without a template sends `''`, which
is no template's id. A trigger typed for one policy is offered in the next one's
editor, a late answer closes the form that is open by then, and one of a new policy
ends whatever is edited. The list is not told of triggers that come or go. "Create a new version first": there is no such
operation.

*Caches.* `['products', id]` and `['subproducts', id]` are filled with arrays by some
components and with objects by others. This is not modelled.

### Hazards no property covers

The list in `PROJECT.json` is of hazards with a property. Where the code itself has part of a hazard's bad
case, the property is about the rest, and the hazard's `note` says which case is exempt: overlapping requests on
a transaction (`shared`), jobs that an unexpected write or delivery disturbed (`disturbed`),
a message that was never sent, readings out of order (`skewed`), rivals at one task, screens that carry no
version, a conflict task that was not yet written, a reason confirmed for another transaction, the
step that Nested Sub-Flows leaves in the store, picks made while a request is under way (`late`), a
sub-product of another product, a late translation, and a list nobody told (`gap`). These are
exempt because the code has them, not because they are excluded. The known hazards
without a property:

* a listener that always raises blocks its batch (`event_bus.py:169`), and direct
  broadcasts are lost with the process (`routers/ingestion.py:89`): no promise to check;
* branches due when another pauses (`workflow_executor.py:981`), the failure event left
  to a caller's commit (`:1147`): the code forgets them;
* two PAUSED rows of one transaction (`routers/workflows.py:618`), a bare resume, a skip or a retry
  onto a gate (`:555`, `:560`): legal for the code;
* a requeue without its target instances (`routers/ingestion.py:151`) and a POST sent
  again after a timeout (`integration_dispatcher.py:90`): the effect is outside the model;
* product ids by count (`routers/masters.py:201`): the primary key refuses the second;
* the queue's task name and the messages a listener drops (`queue_listener.py:58`,
  `:150`), a rule skipped because its condition raised (`business_rule_engine.py:322`):
  their components are not modelled yet;
* a wizard's answer after its Cancel (`TransactionInitiationWizard.tsx:123`): it is an action
  (`Created`) that nothing says must not happen.

## 5. Proofs

TLAPS checks every theorem for all values of the constants that satisfy the
module's named assumption (`OutboxAssumption`, `ExecutorAssumption`,
`LifecycleAssumption`, `IngestionAssumption`, `DispatcherAssumption`,
`GovernanceAssumption`; `ServerAssumption`, `BulkAssumption` and `ScreenAssumption` for the
screen; `SittingsAreBounds` and one per studio for the studios; the designer needs none):
finite sets where sets are counted (nodes, requests, triggers), natural bounds, values
such as `NoInst` outside the sets they stand beside, rows present at the start that have
the shape the code writes, and how the constants relate. TLC evaluates the assumptions in every run. The inductive
invariants were model-checked on the instances of the runs as well; of the studios'
invariants, all but the conjuncts that put a variable into a set TLC cannot enumerate.

| Module | Theorems | Along which invariant |
|---|---|---|
| `DeliveryProofs` (outbox) | `NoPhantoms`, `PublishedMeansDispatched`, `OutboxKeepsContract` | `OutboxInv`: besides the two properties, the relay's batch holds committed rows only and what it has marked was dispatched. Without that a rollback or a commit of a batch says nothing of its rows |
| `WorkflowExecutorProofs` | `TypeCorrect`, `CompletionIsAnnounced`, `RunsAreRecordedOnce`, `ResumedRowsClose`; `GatesOpenOnRequest`; `AcyclicRunsEndWell` | `ExecutorInv` with `RowInv`: rows belong to different runs and `__resume_instance_id__` names the row the resume works on. `BeforeInv`: what a rollback brings back is the same row but for its node and context. `GateInv`: while a gate is open, there is a request at it that no execution has used. `RankInv`: in a graph without a cycle the nodes due in a step have at least its number as their rank, so that there is no step beyond the number of nodes, and none at the limit |
| `TransactionLifecycleProofs` | `KeysMeanReversed`, `AuditsAreKept`, `FinishedIsFinal`, `KeysAreStable` | `LifecycleInv` with `RequestInv`: a request alone on its row has loaded what the row still is, and has its audit line in the session or in the row |
| `IngestionJobsProofs` | `TypeCorrect`, `RowsAreKept`, `SettledJobsStay`, `JobsRunAlone`, `CompletedJobsAreDone` | `IngestionInv`: where the row is, and, for jobs nobody disturbed, that the work is announced, queued or held in exactly the place its status implies |
| `DeliveryProofs` (dispatcher) | `DispatcherTypeCorrect`, `ThresholdIsHonoured`, `OpenCircuitHolds`, `OrderedReadersKeepTheQuota` | `DispatcherInv`: attempts that passed an open circuit against those of the call under way (`LateInv`), tokens left plus attempts admitted against what was refilled (`BucketInv`) |
| `GovernanceGateProofs` | `TypeCorrect`, `ApprovalsAreSigned`, `LatecomersAreRefused`, `LoneDecisionsAreTold`, `BulkDecisionsAreAudited`, `TasksLeaveByDecision`; `UpdatesAreCounted`, `UpdatesAreSavedOrQueued` | `DecisionInv`: what a request has in memory was halted when it was read, so it is halted still or was decided by a rival, and the clean-up waits for requests under way. `RecordInv`: a version is one more than the number of committed updates, and each maker of a task is a request whose update is not among them |
| `TransactionScreenProofs` | `ScreenTyped`, `OwnWritesAreRead`, `ReasonsAreUsedOnce` | `ScreenInv`: what is shown, fetched or decided exists and no copy is ahead of its row (`Existing`); once a decision was handled with its transaction on the screen, every answer that counts was read after the decision (`Seen`); the handlers of a call that waits are those of a screen still showing it (`Stays`); a typed reason is younger than every call sent with another, and of the calls sent with it only the one the reject panel waits for has not failed (`Reasons`). `BulkInv`: a panel waits for one run at most, and cannot be used before it ends |
| `WorkflowDesignerProofs` | `CanvasSourced`, `SubHasProduct`, `ReturnsAreExact`, `PicksAreKept` | `SourceInv`: besides the property, the canvas of a closed designer is empty; otherwise an answer that replaces the draft would leave a canvas without its source. `SubOfProduct` is inductive over the mutators of the store (`Keyed`). The return to a step is a matter of the one step that mounts the designer, and of which actions those are. `PicksInv`: the panel waits for one request at most, and what that request carries (`Carries`) is what the panel shows, but for picks made after it was sent, and is wired once the request was served; so what `Cleared` empties is wired already |
| `StudiosProofs` | `StudiosTyped`, `TokensBound`, `StepsInOrder`, `PagesOffered`, `DraftsStayHome`, `ShownOnlyTruth` | `StudiosInv`, one conjunct per studio; a studio that is closed and its server are left alone by the others. `InsightInv`: each step that a deployment has behind it names a stored token, and references in a draft are to stored ones, which are never taken back. `CalcInv`: the numbers of a form, of a save on its way and of a stored program go up (`Increasing`), also after steps are swapped, removed or filtered. `TableInv`: drawers, requests and pages hold a field only with its own name, the answer under way brings what the registry has unless a `gap` was noted, and page, size and totals are numbers, so that the window's arithmetic (`WindowFits`) applies. `QueueInv`, `MasterInv`, `RuntimeInv`, `NotifyInv` say the same of their caches (`Truthful`), with the settings, record or policy each draft or request is of |

No theorem of the executor has a hypothesis on the workflow. The lifecycle theorems speak of rows whose
requests do not overlap (`shared` records the others; `lifecycle_reversal` shows why),
the ingestion ones of jobs that no unexpected write or delivery `disturbed`, and the
quota of readings in order (`skewed`; `dispatcher_quota` shows why).

A `Proofs` module has one lemma per component of the invariant or per group of
actions, a step per action in each, and a theorem that joins them. Refinement
(`OutboxKeepsContract`) maps the outbox row to the debt of the contract and shows that
each action is a step of the contract or leaves it alone.

Inductions over the length of a sequence are made without the
library's induction theorems, whose parameter is an operator: `AllNumbers` says that a
*set* of numbers with 0 in it, and with every successor, is all of them, and each induction
applies it to the set of lengths for which its claim holds.

Only model-checked: liveness (`EventuallyPublished`, `RunsEnd`, `JobsEnd`, `ScreenCatchesUp`,
`BulkRunEnds`, `CallsEnd`, `StudiosSettle`), which the prover has no rules for under
fairness. Every other property of a passing run is a theorem.

## 6. Not modelled, and the plan

The list in `PROJECT.json` gives every component's status. What a model would
add little to: seeds and migrations, listings and searches, single-row
edits of designers, products with their sequential ids (the primary key refuses two
alike), masking, reports, AI prompts, the script that generates the documentation, and
the screens that only show or edit one row (dashboards, documents, templates,
entitlements, assistants). What is planned, in this order:

1. **More studios** with the pattern of `Studio`: rules, integrations, gateways, mappers,
   screens, whose forms save several things at once.
2. **`RuleEngine`** and **`CalculationEngine`**: condition trees, rule order and
   stop-on-match, formula steps by sequence number, as operators checked against
   reference definitions over small inputs, with rule evaluation put into the
   executor's flags and the programs of `CalculationStudio` run.
3. **`QueueWait`**: a run that waits for an answer, the listener, the SLA breach
   and the resume they race for; composed with `TransactionLifecycle`.
4. **Composition**: `TransactionLifecycle` shown to implement `InstanceServer`, the
   abstract server the screens are checked against, so that the screens' properties
   are about the real endpoint; an abstract transaction (created, waiting,
   finished, reversed) above both.
5. **`Reconciliation`**: one-to-one and one-to-many matching as functions.
6. **Proofs**: the refinement of 4, and lemmas about the operators of 2 and 5.
