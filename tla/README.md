# CarAgent: a verification development

CarAgent answers questions about cars with a tool-using agent.  What is hard to get right is
not the agent's text but the machinery around it: a backend accepts *agent jobs*, queues
them for each user and hands them to workers through a broker under leases, locks and fencing
tokens; a threaded runtime gives each job a conversation and a loop of model calls and tool
calls with budgets, retries and obligations; both keep files, tables, indexes and streams that
several requests change at once.  This directory models that machinery in TLA+, checks it with
TLC on small instances, and proves with TLAPS, for all instances, what matters most.

`PROJECT.json` lists the components with their status, each run and what it checks, the lines
each definition stands for, every hazard with the properties that would catch it, and the
theorems.  Paths below are relative to `src/`; line numbers without a file are lines of
`services/backend/app/services/agent_jobs.py`.

## 1. The system

### Inventory

| Component | State it keeps | Hard, and what makes it correct | Modelled by |
|---|---|---|---|
| Job state machine (`agent_jobs_types.py`) | status, attempts, fence, token, lease | illegal moves raise in the middle of a handler; a job follows its life cycle | `JobTypes`, `JobLifecycle` |
| Job service (`agent_jobs.py`) | jobs, queues, rotation, pending counters | five tasks on one event loop with awaits between two sections of `_lock`; exact counters, bounded attempts, outcomes published once, no job out of sight | `AgentJobs` |
| Job table and outbox (`agent_job_persistence.py`) | rows, keys, claims, evidence, events | written late, read early, by several processes, while the schema is upgraded; rows never go backwards, a key has one row, claims find the evidence they were compared with | `AgentJobs`, `JobRecords`, `EventStream` |
| Session locks, scheduler leader (`agent_job_locks.py`) | keys with an owner and an end | expiry, lost answers; one execution for each session, one scheduler | `AgentJobs`, `Leases` |
| Dispatch stream (`agent_job_dispatch.py`) | undelivered messages | what a process has read dies with it | `AgentJobs` |
| Deficit round robin (624-647) | rotation, active set, credit of each user | a key occurs twice, or is put back in the wrong place; nobody waits longer than the others' entries allow | `RoundRobin`; in `AgentJobs` the credits are a free choice |
| HTTP API and SSE, agent page (`routers/agent_jobs.py`, `AgentPage.tsx`) | a reader's last number | replay and live events overlap, queues overflow, connections break, the runtime says that it has finished before it is decided; a stream can always still deliver its end | `EventStream` |
| Runtime server (`agent/runtime/web_app.py`) | run slots, session locks, REPL objects, running contexts, session files | threads, cancellation before registration, eviction; one stream on an object, answers kept | `WebRuntime`, `RunReport` |
| Tool scheduler, registry, execution (`scheduler.py`, `registry.py`, `execution.py`) | ledger, fingerprints, pools | timeouts leave threads behind; one attempt at a time, effects alone | `ToolRuns` |
| Agent loop (`agent_loop.py`), run state, budget, contract | conversation, plan, evidence, counters | nine ways out of a call, six ways to end; each call has one result, what is owed is delivered | `AgentLoop`, `RunControl`, `Evidence` |
| Routing (`agent_routing.py`, `routing_decision.py`, `task_router.py`) | tables of words | two tables in two files that have to agree | `Routing` |
| Tools on files and lists (`read.py`, `write.py`, `edit.py`, tasks, crons, team) | fingerprints of files, lists | a file changes between look and write; no version the session has not opened is destroyed, but for what a fingerprint cannot tell | `FileTools`, `WorkLists` |
| Tools on the vehicle database (`subjects_sql.py`) | none | a score of five weights; the field that was named wins | `SubjectsSql` |
| Context and compaction (`context_system/`, `compact_service/`) | the conversation | a call and its results belong together; a summary forgets nothing | `ContextWindow` |
| Providers (`providers/`) | settings file | a call arrives in pieces, and the stream breaks; calls are put together whole | `Providers` |
| Terminal (`repl/core.py`, commands) | conversation, modes | interrupts, questions and permissions inside a turn | `Repl` |
| Retrieval (`rag.py`, `pdf_chunking.py`) | two stores, a signature | a rebuild that fails or overlaps another; both stores of one age, no text lost in packing | `Retrieval`, `Chunking` |
| Catalog, assets, dataset, import (`assets.py`, `dataset.py`, `dataset_export.py`, `autohome.py`) | tables | transactions that overlap; whole readings, exact counts, class numbers that move only with the types that come and go, imports that replace | `Catalog`, `Datasets`, `Imports` |
| Worker process, security, vision service, rest of the front end, scripts | - | see section 6 | - |

### How the parts interact

`create_job` inserts a row and queues the job under `_lock`.  The scheduler task, in the process
that holds the leader's lease, takes a user's key out of the rotation, reads the row of the job
at its head *without* the lock, merges it into the local job, takes the session lock in Redis,
checks the head again and admits the job: a new attempt, a new fence, a new token, a lease.  It
stages the row, appends a message to the stream, and puts the key back.  A worker task takes the
message, starts the job, keeps its lease and lock alive by a heartbeat, and calls the runtime in
a thread.

The runtime takes a run slot and the lock of the session, looks up the session's REPL object,
registers it as the context of the job, tries a fixed workflow and otherwise enters the agent
loop.  The loop fits the conversation into the model's window, asks the provider, hands the
calls of the reply to the tool scheduler, and weighs what comes back against plan, budget and
contract.  Events flow back line by line to the worker, into the service's lists and rows, and
from there to the page.  The worker publishes the outcome if the token is still the job's,
releases lock and session, and settles the message.  Every change of a job asks the persistence
task for a snapshot, written later.  Every five seconds the scheduler sweeps rows whose lease is
over.  A restart queues everything the rows say is alive.

## 2. The modules

### The job service

| Module | What it is |
|---|---|
| `JobTypes` | statuses, `ALLOWED_JOB_TRANSITIONS`, the job record, `_select_freshest_job` |
| `JobLifecycle` | abstract specification: what the service promises of a job, without queues, locks, rows or messages |
| `AgentJobs` | the service, the rows, the stream and the locks, one action for each section between two awaits; the properties, and the refinement of `JobLifecycle` |
| `MCAgentJobs` | sessions and users for TLC's instances |

*Variables* carry the names of the attributes they stand for.  `rows` is the table
`agent_chat_jobs`, `stream` the messages nobody has read, `lockOwner` the Redis keys.  `sched` and
`worker` hold the local variables and the position of a task, `poll` and `replay` those of a
`get_job` and a repeated `create_job`.  `tokens` and `finals` count what has been issued; `env`
counts what the environment has done.

*Atomicity.*  All tasks share one event loop.  A section under `_lock` has no await in it (except
in `create_job`, see `LockFree`), so it is one action; each SQL statement, Redis command and result
of the runtime is an action of its own, and everything may happen in between.

*A job is an object.*  `_execute_job` captures the object in one section and changes it in the
next; a merge in between puts another object into `_jobs`.  `worker[w].obj` is the captured object
when it is no longer the one in `_jobs`.

*Data.*  Prompts, costs, errors, results and events are left out.  A token is a number fresh at
every admission.  A lease is unset, live or expired; `Aged` ages every copy that is somewhere in
flight, because a lease is a deadline and not a flag.  The persistence queue is a set, because it
holds every id once and the snapshot is taken when it is served.  An illegal transition is modelled
as what it does: the exception leaves the handler where it is, with what was done before it done.

### The parts around it

Each is a module of its own, parameterised by CONSTANTS, with its state, one action per step of
the code, a type invariant and its properties.

| Module | State (VARIABLES) and actions | Granularity |
|---|---|---|
| `WebRuntime` | a handler thread for each request (`th`), semaphore and counter, session locks, `WEB_REPLS`, the REPL objects (a request builds at most two: one for the new session it asks for, one when it looks its session up), `ACTIVE_RUN_CONTEXTS`, session files. `Handle` is one step of `_chat_stream`, a direct chat, a new session or a cancellation; `Restart` stops the process | a step is what one thread does between two accesses to shared state; an answer that is saved truncates the file in one step and writes it in the next |
| `ToolRuns` | a batch of calls with the place of each, the ledger, executions in the pool and its places. Preparation, dispatch one by one, in parallel or together, submission, return, timeout, retry, refusal, cancellation | one call at a time in the scheduler's thread; pool threads return at any moment |
| `AgentLoop` with `RunControl`, `Evidence` | everything a run of `run_agent_loop` keeps. A turn is begun, answered with text or calls, each call is stopped, refused, rejected or executed, its exception or result taken, and the turn reviewed | an action is a path through the loop's body; the operators of `RunControl` and `Evidence` are the methods it calls |
| `Routing` | a question, its price and its route: `Price` (backend), `RunWorkflow`, `RunInLoop` (runtime) | a prompt is the set of its words of the tables |
| `FileTools` | the disk, `read_file_fingerprints`, the tool that is running, working directory, modes | each system call of a tool is a step; another program may write between any two |
| `ContextWindow` | the conversation and the request made of it | a message is its kind, the uses it makes or answers, a weight, and what it is about |
| `WorkLists` | tasks, todos, crons, the team, the outbox, background threads | one tool call, or one step of a thread |
| `SubjectsSql` | vehicles and values, and what the last call answered | a name is a sequence of words over a small alphabet; the score adds the code's five weights |
| `Providers` | `config.json`, an edit of it, a call of the model | a piece of a stream, a write of the file |
| `Repl` | modes of the terminal, conversation, saved session | a line, a key, an answer |
| `RunReport` | a run's lines, the session in memory and on disk | a line of the stream |
| `EventStream` | the process's events, rows, the subscriber's queue, the iterator of the response, the page | one event, one read, one line delivered |
| `RoundRobin` | `rotation` (keys, active set, credits), jobs, queues, `_running_sessions`, what the scheduler has in hand, and the turns that were passed over | an action is what happens between two awaits of `_schedule_once`; create, cancel, retry, sweep, the end of a run and a restart come in between. Locks and rows, which `AgentJobs` has, may answer either way |
| `Leases` | the time, the key, the loop of each scheduling process | one request to the backend; its answer may be lost after it was carried out |
| `JobRecords` | schema, rows, claims and evidence, the requests of several processes | one transaction; DDL commits as it is made |
| `Retrieval` | the corpus, two stores, the service's lock, a search | one request to a store |
| `Chunking` | chunks, the one being packed | one block |
| `Catalog`, `Datasets` | the rows of types, attributes, vehicles, components, images and annotations; insertions and updates of types, readings and exports under way | one transaction, or one statement where another may wait for its locks or come between: a type has its id from its `INSERT` and is seen from its commit, an update looks for its row without a lock |
| `Imports` | committed rows, each import's own rows | the statements of one transaction; what it selects is its snapshot, what it writes is locked |
| `Ordering` | no state: sorting and selection by ranks, for the modules that are proved about | - |
| `MCPlatform` | the instance that runs all of these | see `platform` below |

*What is abstracted.*  The control is the code's: guards, early returns, order, error paths.
The data is what the properties tell apart: a prompt is the words the tables look for, a result
its outcome, its evidence and a fingerprint, a document a name and a version, a file a version,
a size and a time (not its lines, so that a `Read` of one line and one of all are the same).  What a model, a schema check or a permission rule says is a free choice among
the outcomes the code distinguishes.  MySQL, Redis, OpenSearch, Milvus and the vendors are
modelled by what the code relies on: row locks and snapshots of InnoDB, atomic scripts, a store
that answers or fails.

## 3. The runs

### The job service

Names of bounds: `NumJobs`, `MaxAttempts`, `MaxFaults` (failing calls), `MaxExpiries` (leases or
locks that end although somebody still works under them), `MaxCrashes`, `MaxReplays` (repeated
create requests), `Polling` (does anybody read a job?).  A lease that nobody works under expires
without using up a bound.

| Run | Instance | Checks | Shows |
|---|---|---|---|
| `core` | 2 jobs of one conversation, 2 workers, one failing stage or enqueue | `LockCoversRun`, `PendingExact`, `QueuedIsReachable`, `ImplementsLifecycle` | with cancellations at any time and one failing dispatch the service implements its lifecycle, its counters of pending jobs are exact, no queued job is out of sight, the lock covers every execution |
| `recovery` | 1 job, 2 workers, one failing load, stage or enqueue, one premature expiry, one crash | `TypeOK`, `SucceedsOnce`, `OutcomeIsDurable` | late executions, sweeps and restarts neither publish a second result nor overwrite an outcome |
| `adverse` | 1 job, 1 worker, reads, one replay, one crash | `AttemptsBounded`, `FenceGrows` | the two properties that need no friendly environment, also proved |
| `live` | 2 jobs of one conversation, 1 worker, no faults, fairness | `EveryJobEnds` | the scheduler, the busy session and the worker do not wait for each other for ever |

`core` needs two jobs of *one* conversation, because only they compete for a session, and two
workers, because one worker alone runs one job at a time anyway.  Two attempts are the least
number with a retry and an exhausted retry.  One fault, one expiry and one crash hit every step of
the schedule; the sequences that need two of a kind are left to the proofs where there are proofs.
`core` and `live` have no third session because the session lock, `_running_sessions` and a queue
are per session or per user.

What `core`, `recovery` and `live` assume: nobody reads a job while it is dispatched
(`Polling = FALSE`).  With reads, `PendingExact`, `LockCoversRun` and `ImplementsLifecycle` do not
hold (run `polled`).  The cancel *route* reads the job before it cancels it; these runs are about
`cancel_job` itself.  `core` has `MaxAttempts = 2` and one fault, so that no dispatch there fails
for the last time (`starved` is that case), and no premature expiry, with which the counters of a
service with three attempts drift (section 4, *Exact counters*).

### The parts around it

`platform` is one run for all the other modules.  The parts share no variable in the model, so
their product would only multiply states: the initial state of `MCPlatform` chooses a `part`, only
the variables of that part move, and the state space is the *union* of those of the parts.
`PlatformTypeOK` is the type invariant of the part that runs; each other property speaks of the
variables of one part.  `Datasets` extends `Catalog`, because annotations and exports read the
types that the catalog changes: in the parts `dataset` and `classes` both move.  Some parts have a
bound that is a conjunct of `MCPlatform` (`FewTypes`, `FewEvents`, `FewSaves`, `StopWithoutChat`,
`EarlyTrouble`, `EarlyStop`, `FewRequeues`, `FewSearches`): there what multiplies states without
meeting what the part is about is left out, and named below.

| Part | Instance | Properties | What they say |
|---|---|---|---|
| `web` | 3 requests in one conversation: streams of two jobs, a direct chat or a new session, a cancellation; 2 slots; the process may stop once, if nobody chats directly | `SlotsAccounted`, `OneRunPerObject`, `RunningJobsExact`, `AnswersKept`, `CancelSticks` | each way out gives back its slot; two streams never share a REPL object; a cancellation finds no finished run and is not forgotten once the run has begun; answers stay in the file |
| `tools` | 5 batches of two calls, pure and with effects, batchable or not; 2 threads, no queue; 2 prompts; services fail and prompts are stopped in the first batch | `OneLiveAttempt`, `EffectsAlone` | no retry beside an attempt that may still run; of the tools with effects one runs at a time |
| `loop` | a question, a presentation of two slides, a question answered from tables; 7 replies of up to two calls; 2 turns, stopped in the first or not at all | `ResultsPaired`, `NoRepeat`, `ContractGate` | one result for each call, none executed twice, no end in prose with a file still owed, but for a run that is ended inside a reply |
| `route` | all prompts of up to 3 of 15 words | `OwedFilesAreRouted` | a question that owes a file reaches tools that can make it |
| `files` | one file that somebody else writes too, 2 sizes, 2 seconds | `UnopenedIsKept` | Edit and Write destroy a version the session never read from only within the window between look and write, or within the grain of the file's time |
| `window` | 6 messages of weight 1 or 3, history of 5 | `RequestKeepsPairs`, `CompactionForgetsNothing` | what is sent keeps calls with results; a summary covers what the conversation still had |
| `lists` | one task, background thread and cron | (type invariant) | tasks, todos, crons, the team and the background threads keep their shapes |
| `catalog` | 3 types, one vehicle, component and attribute (the attribute with 2 types only), one update of a type at a time, readings under way | `ReadingsWhole` | what is read in several transactions is whole |
| `dataset` | 2 annotators, 2 images, 2 annotations, 2 exports; 2 types, one of them updated | `CountsExact` | counts equal annotations |
| `classes` | 4 types, 2 insertions and 2 updates that overlap, 2 exports, no new images or annotations | `ClassIdsFrozen` | class numbers move only if a type was deleted, or one came up that was not committed, or deleted, at the first export |
| `retrieval` | 2 documents, one revised, searched in the first version; 2 rebuilds; restarts | `StoresAgree` | after a signed rebuild both stores hold exactly the documents it read |
| `chunking` | 3 blocks of length 1, 5 or 12, limits 6, 9 and 1 | `ChunksKeepText` | no chunk too long, no part lost, repeated or out of order |
| `stream` | one subscriber with room for one event; one delta, tool event or telemetry, the final telemetry or none; one restart, lost connection or opened conversation, and with it no tool event, telemetry or early error | `EndIsAhead`, `CompleteIsFinal` | a stream that follows an ended job can still deliver the end; a page whose last event is the final one shows its text of a job that has ended, and says complete earlier only on the final telemetry |
| `providers` | 3 vendors, 2 calls in 2 pieces | `CallsWhole` | every call that was begun is put together with its own name and arguments |
| `terminal` | 16 names after the slash, two or more messages are one case | (type invariant) | the modes of the terminal stay consistent through interrupts and permissions |
| `report` | 2 runs, one call each | `AnswersAreOwn` | an answer on the page has the text and the trace of its own run |
| `subjects` | 4 fields over two letters, words of length 2, 2 vehicles, 1 or 2 fields shown | `ExactNameWins` | the field that was named exactly comes first |
| `lease` | 2 processes, lease time 2, clock up to 5 | `OneScheduler` | one process admits jobs |
| `records` | 2 processes, 2 jobs (attempts are saved while there is one), one key, 2 starts, 2 outcomes that number other evidence alike | `OneJobPerKey`, `ClaimsHaveEvidence` | a key has one row through upgrades; the claims of the outcome in the row find the evidence they were compared with |
| `rounds` | 2 users, one with jobs of cost 4, one of cost 8, quantum 4, credit up to 8, 3 jobs, room for 2 sessions, one restart, or one requeue with 2 jobs | `TurnsAreFair` | while a user's first job waits for its turn and its credit only, the others get at most as many turns as they have entries, once for each visit the credit needs |
| `imports` | 2 requests at a time, 3 altogether, 3 files of three rows, with and without a limit | `ReimportReplaces` | importing again replaces |

`TurnsAreFair` counts *entries*, not users, and that is what the code gives.  A job that is created
while another of its user is dispatched enters the key into the rotation (221), and the end of the
dispatch enters it again without looking (615-617): three jobs suffice for a user with two entries, who
then gets two turns in a round.  An entry leaves only when its turn finds the queue empty (632-635), so
a user who keeps creating jobs during dispatches has ever more of them.  With users in place of entries
the bound is exceeded after eight steps.  No document of the repository says how often a user may
have a turn, so this is stated here and in no run.

*Why the bounds are enough.*  Each part has two actors wherever actors compete, because each of
its shared resources is taken by one at a time and the third waits as the second does; the web
part has a third request for the cancellation.  Limits of the code (200 events, 1200 characters,
500 rows, 20 messages) are constants that are small enough to be reached and exceeded in every
order.  Words, fields and files are chosen so that every branch of the tables is taken: each
action and each alternative of every next-state relation is fired.  Deadlock is not checked: a
service whose work is done stops, and the parts have finitely many requests.

### Disagreements

Seven runs expect a violation: each checks one property that states a sentence of the
repository's docs, comments or messages, and TLC finds the behaviour that refutes it.

| Run | Property | What happens |
|---|---|---|
| `overlap` | `CurrentRunsSerial` | A lease ends before its dispatch is staged, and the dispatch finishes.  While the message waits for a worker, the next sweep requeues the job and frees its session and lock (658-688); the scheduling round after it believes the admitted row (524), pops the job, and admits the next one of the session.  Both messages are delivered, and two jobs of a session run with current tokens. |
| `resubmit` | `SucceedsOnce` | The replay of a create request puts a row that is behind over the local job (190-192); the job runs again. |
| `cancel` | `CancelSettles` | Cancelled between admission and a failing enqueue, the handler raises at 602 and the job stays `cancel_requested`. |
| `stranded` | `NoJobStranded` | After a failing enqueue the merge (524-538) takes the row of the failed attempt over the requeued job and pops it; nobody looks at it again. |
| `starved` | `QueuedIsReachable` | A dispatch that fails for good (590-596) does not put the user's key back. |
| `polled` | `AdmittedIsNotExecuting` | A read between a worker's capture of a job and its start (867-887) makes it start an orphan; the job looks admitted, and its successful result is recorded as a failure. |
| `repeated` | `DuplicatesRan` | The fingerprints of a fixed workflow live as long as the session: the same question asked again is refused as "already ran in this task" (`scheduler.py:119`), and the workflow answers that nothing was found. |

What the page says of a job has no run of its own: `CompleteIsFinal` holds as it is stated, and what it
leaves open disagrees with the comment beside the withheld frame, which is held back because "otherwise
the UI can show success while the persisted Job fails" (1091-1093).  The telemetry of the phase "final"
is sent *before* that frame (`web_app.py:2576`, `2641`, `2699`), is not withheld (1094), and makes the page say
"completed" (`AgentPage.tsx:729-736`) while it still shows deltas.  The job may then fail: a run that was blocked
with an open contract gives a reason that does not begin with "incomplete", and the telemetry does not
carry `output_contract_status`.  Usually the page takes `failed` next; if it was emitted while the replay
was delivered, the stream closes without it (`EndReplay`) and the page stays with "completed".  A page
whose user has pressed stop is told "completed" too, if the final telemetry was on its way.

Neither has a run what reading a part of a file permits: `Read` shows at most 2000 lines from an offset
and marks the whole file (`read.py:83-93`), and `Write` asks for the mark only (`write.py:66`).  Its refusal,
"file must be read first", holds of the version, and `UnopenedIsKept` states that; lines that were
never shown may be overwritten.

### Mutants

Each property of a passing run has a mutant: a bug one could have written, such as a lock deleted
whoever owns it, a retry without waiting for the thread, an index added instead of replaced, a
recount without the row's lock.  They stand before the definition they alter, with a comment
"Mutant".

### Fairness

Only `live` needs fairness.  The tasks of the event loop are never abandoned: weak fairness for the
scheduler's step, for each worker's begin and end, for the persistence task and for both merges.
`SelectCandidate` is strongly fair for each key: a key with a job at its head gains credit in every
round and `estimated_cost` is at most `max_credit` (48-49, 636-642), so a key that is eligible again
and again is taken; it is not continuously eligible, because the busy session turns it down.  The bounded
form of this is `TurnsAreFair`: after finitely many turns of others it is the key's; that one is proved.
`Sweeping` is strongly fair: it runs on a clock (467-470), but only between two schedulings.  A lease
or lock nobody renews ends.  `Ending` is fair because the runtime's stream ends or fails
(1019-1110).  Requests, cancellations, faults, premature expiries and restarts are not fair.  The
parts of `platform` have safety and action properties; `EndIsAhead` is the safety half of "a stream
ends": what is left is that the iterator, which the server drives, takes its next step.

## 4. The proofs

Every theorem is about a specification for *all* values of its constants.  The last column names
the run that checks the same formula on a small instance.

| Theorem (module) | Statement | Run |
|---|---|---|
| `TypeCorrect` (`AgentJobsProofs`) | `Spec => []TypeOK` | `recovery` |
| `AttemptsInvariant`, `BoundedRetries` (`AgentJobsProofs`) | `Spec => []AttemptsInv`, `[]AttemptsBounded` | `adverse` |
| `FencingMonotone` (`AgentJobsProofs`) | `Spec => FenceGrows` | `adverse` |
| `CalmInvariant`, `LockCovers` (`CalmProofs`) | `Calm`: `Spec => [](Undisturbed => CalmInv)`, `[](Undisturbed => LockCoversRun)` | `core` |
| `OutcomeInvariant`, `OneResult` (`OutcomeProofs`) | `Spec => [](Unreplayed => OutcomeInv)`, `[](Unreplayed => SucceedsOnce)` | `recovery` |
| `DurableOutcomes` (`OutcomeProofs`) | `Spec /\ []Unreplayed => OutcomeIsDurable` | `recovery` |
| `RecoveryInvariant`, `RecoveredLock`, `RecoveredRuns` (`RecoveryProofs`) | `Calm`: `Spec => [](Recovering => P)` for `RecoveryInv`, `LockKept`, `CurrentRunsSerial` | `overlap` (violated there by an expiry) |
| `Implements` (`LifecycleProofs`) | `Calm`: `Spec /\ []Undisturbed => ImplementsLifecycle` | `core` |
| `PendingCounts` (`LifecycleProofs`) | `Calm`: `Spec => [](Undisturbed => PendingExact)` | `core` |
| `Reachable` (`LifecycleProofs`) | `Calm`, no failing load: `Spec => [](Undisturbed /\ Spared => QueuedIsReachable)` | `core` |
| `OneStreamPerObject`, `SlotsAlwaysAccounted`, `RunningJobs`, `AnswersStay` (`WebProofs`) | `WebSpec => []P` for `OneRunPerObject`, `SlotsAccounted`, `RunningJobsExact`, `AnswersKept` | part `web` |
| `CancellationSticks` (`WebProofs`) | `WebSpec => CancelSticks` | part `web` |
| `StreamedCalls` (`WebProofs`) | `ProviderSpec => []CallsWhole` | part `providers` |
| `OwnAnswers` (`WebProofs`) | `ReportSpec => []AnswersAreOwn` | part `report` |
| `LiveAttempts`, `EffectsRunAlone` (`ToolProofs`) | `ToolSpec => []P` for `OneLiveAttempt`, `EffectsAlone` | part `tools` |
| `ResultsArePaired`, `CallsRunOnce`, `OpenOutputsShow` (`ToolProofs`) | `LoopSpec => []P` for `ResultsPaired`, `NoRepeat`, `ContractGate` | part `loop` |
| `UnopenedTextsStay` (`ToolProofs`) | `FileSpec => UnopenedIsKept` | part `files` |
| `LeaseInvariant`, `OneLeader` (`WebProofs`) | `LeaseSpec => []LeaseInv`, `[]OneScheduler` | part `lease` |
| `ImportsReplace` (`ServicesProofs`) | `ImportsSpec => []ReimportReplaces` | part `imports` |
| `StoresStayTogether` (`ServicesProofs`) | `RetrievalSpec => []StoresAgree` | part `retrieval` |
| `KeysAreUnique`, `ClaimsStayCovered` (`ServicesProofs`) | `RecordsSpec => []P` for `OneJobPerKey`, `ClaimsHaveEvidence` | part `records` |
| `ReadingsStayWhole` (`ServicesProofs`) | `CatalogSpec => []ReadingsWhole` | part `catalog` |
| `CountsStayExactly`, `ClassesStayFrozen` (`ServicesProofs`) | `DatasetSpec => []P` for `CountsExact`, `ClassIdsFrozen` | parts `dataset`, `classes` |
| `EndStaysAhead`, `CompleteStaysFinal` (`ServicesProofs`) | `StreamSpec => []P` for `EndIsAhead`, `CompleteIsFinal` | part `stream` |
| `TurnsStayFair` (`ServicesProofs`) | `RobinSpec => []TurnsAreFair` | part `rounds` |
| `SummariesForgetNothing`, `RequestsKeepPairs` (`ServicesProofs`) | `WindowSpec => CompactionForgetsNothing`, `RequestKeepsPairs` | part `window` |
| `FilesAreRouted` (`ServicesProofs`) | `RouteSpec => []OwedFilesAreRouted` | part `route` |
| `ExactNamesFirst` (`ServicesProofs`) | if `CodesDiffer`: `SubjectsSpec => []ExactNameWins` | part `subjects` |
| `ChunksStayWhole` (`ServicesProofs`) | `ChunkingSpec => []ChunksKeepText` | part `chunking` |

### The job service

The theorems hold for any number of jobs, workers, sessions and users, any bounds of the
environment and any set of faults.  They rest on the assumptions of `AgentJobs`:
`CountsAssumption` (the parameters are numbers and there is at least one attempt),
`ScopeAssumption` (a session belongs to one user, as `scope_session_id` makes it) and
`EnvironmentAssumption` (names of faults).  These conditions narrow some of them:

* `Calm` is about the deployment: nobody reads a job while it is dispatched, and no dispatch fails
  after its message was sent (fault "mark").
* `Undisturbed` is about the behaviour so far: no lease ran out under somebody who acts for its job,
  the process did not die, no create request was answered from a row.  It is a state predicate of
  `env`, false for ever once it is false.
* `Recovering` allows one restart: as `Undisturbed`, but the process has died once at most.
* `Unreplayed`, the last third of it, and `Spared`: fewer faults than a job has attempts.

*Types.*  `TypeOK` is inductive as it stands; it says that a scheduler or worker that is busy has a
job, which the actions need to index the tables.  `Restart` needs the existence of the ordered
queues and that a set of numbers has a cardinality.

*Attempts.*  `AttemptsBounded` is not inductive: admission adds an attempt without looking at the
count.  The handlers queue a job only with an attempt left (590, 667, 832), but a restart queues a
job whatever its count is (716-717).  What saves the bound is the row.  A copy that is given back has
lost its token and has an attempt left (`Returned`); a job in the queue that is not like that was
revived by a restart, and its row, with the same fence and a higher rank, contradicts it
(`RevivedIsContradicted`): nothing writes over the row until the scheduler has met the job, and the
merge of the row (524-529) takes it out of the queue.  The fence of a sound copy is its attempt.
`FenceGrows` follows: an upsert compares fences, a stage is an update with a guard.

*One result, kept* (`OutcomeInv`).  No hypothesis but that no request is replayed: premature
expiries, restarts, reads and all faults are allowed.  No copy of a job, in a row, a snapshot or a
read under way, is ahead of the job itself (`CopiesBehind`), so that no merge takes an outcome away;
no token names two deliveries (`TokensApart`); and a worker whose job was replaced under it, and which
may still report, acts for a job that is still active (`Believed`).  A step is first described by its
effects, one lemma for each actor, and the conjuncts are kept by the effects alone.  That a replay
breaks it shows the run `resubmit`.

*The lock covers every execution* (`CalmInv`).  A job is delivered once at a time (`OneDelivery`), and
whoever carries the token of a job finds the job, its lease and the lock of its session as the
admission left them, because everybody else who may change these acts for jobs that no message and no
worker carries.  Where the hypotheses are dropped: with a premature expiry, a replay, a read or the
fault "mark" TLC finds an execution without its lock in an instance of two jobs (`overlap`, `resubmit`
and `polled` show what comes of it).

*The lock through a restart* (`RecoveryInv`).  A restart queues what the rows say is alive, but leaves
the lock and the messages of the former life where they are: for a while a job is in a queue *and* on
its way to a worker.  `Waits` says what the delivery of such a job finds: the job as its admission left
it (`Held`), queued and still with the token and the lock (`Recalled`), or over.  A recalled job is not
admitted a second time, because its row, which knows of the dispatch (`Sent`), contradicts it
(`RevivedIsContradicted`, from *Attempts*): the scheduler that takes it up merges the row, and the
admission of the former life is in force again.  Every copy that may be merged still has the token and a live
lease (`Tended`), and a worker whose job is replaced under it goes on with the object it captured
(`ObjectKept`).  What a step of somebody else leaves to a delivery is said once for all steps
(`Firm`).  The first restart finds `CalmInv` and so no message that is not awaited.  Hence of the
executions with current tokens no two are of one session (`CurrentRunsSerial`), whatever was under way
when the process died.  `Recovering` is sharp: with *two* restarts TLC finds, with one job and one
worker in 17 states, an execution without its lock.  The job was sent and the process dies; the job is
cancelled in the queue, which ends it and gives back its lock (327-344); before the cancellation is
saved the process dies again; the second restart queues the job from the row, the merge of the row
makes it admitted, and the message of the first life is executed, cancelled and without the lock.

*The refinement* (`LifeInv`).  A step of the code publishes a record that was read earlier, so that it
is a step of `JobLifecycle` is not seen from the step.  It follows from what captured copies can be: a
job that was not run since its admission has no copy of this admission that was (`NotYetRun`), a job
that is running is executed by a worker (`RunningIsRun`), only a waiting job is in a queue
(`QueuesWait`), and what the scheduler admits still waits (`Candidate`).  Each action is then shown to
be one move of the lifecycle or a stutter.

*Exact counters.*  From the same facts each step either keeps who is live and the counters, or ends
one job and gives its place back, or accepts one.  The hypothesis is needed, and not only in theory:
with `max_attempts = 3`, the code's default (50), one worker, one failing enqueue and *one* premature
expiry, the counters drift.  A sweep requeues a job whose message still waits; the next attempt's
enqueue fails after a cancellation was requested, the illegal transition at 602 leaves the handler
with the `cancel_requested` job in the queue (finding `cancel`); a merge replaces the object of the
job while a worker has captured the old one, and ends *that* one: the counter goes down, the job in
`_jobs` stays live, and the counter goes down again when it ends.  With two attempts, as in the runs,
the failing dispatch is the last.  This is why `PendingExact` belongs to `core`.

*No job out of sight* (`ReachInv`).  A queued job is in the queue of its user (`QueuedInQueue`); a key
whose queue is not empty is in the rotation or in the hands of the scheduler, which will put it back
(`KeysInSight`); the set of keys lists none that is not there (`Listed`).  A key is left out only when a
dispatch fails for good, and `Tried` says that nothing but a failing dispatch uses up an attempt of a
job without an outcome.  So `Spared` is sharp: one more failure is the run `starved`.  A failing load
is excluded because `_schedule_once` drops the key there.

### The runtime

*Requests* (`WebInv`, `SlotInv`, `JobInv`, `KeptInv`).  A step of a request is first put in one form:
`Walk` says how its thread moves on, `Effects` which entry of the tables it changes; twenty actions
become two predicates, and the invariants are proved of these.  `WEB_REPLS` is read, filled and
evicted by threads of all kinds, in two steps and with no lock over the run.  `WebInv` goes by the
session: an object in the table, or in use by a request, was built for the session it is used in, and
a stream inside holds the lock of its session; two streams on one object are in one session and would
both hold its lock.  Cancellations are excepted: they take an object of any session and do not work
on it.  The slots are accounted for by where each thread is between `acquire` and the release in its
`finally`.  An answer stays in a session that only streams use (`StreamsOnly`), as long as the process
was not stopped: the registered object holds every answer that was sent, and so does what a stream
holds in its hands when it truncates the file.

*Streamed calls* (`AskInv`).  The entries of the assembly are keyed by the index the vendor gives a call;
which pieces have come is counted per call.  `AskInv` says that there is an entry for each call
that was begun, with its own name and exactly the pieces of it that came, in order: no piece of a
call is added to another, and a retry finds nothing begun.  The arguments then parse just when all pieces are there, which takes
the equality of two sequences and no induction over them.

*Answers of a run* (`ReportInv`).  A message of the session names the run that left it; `OwnMessages` says
that its text and its trace are of that run, in memory and in the saved file alike, as long as each run
ended with an answer of its own.  The page gives the run's trace to the
last answer, and between the end of a run and its save that is the run's own (`AnswerIsLast`).  A run that
ends in silence, after which it would be an earlier one's, is excepted by the property.

*Attempts of a call* (`ToolInv`).  What keeps a call from being submitted is where it stands: of the
batch under way only calls that are waited for or done have an execution in the pool
(`WaitedOrDone`), and executions belong to batches received (`KnownKeys`); a call that is given up is
done, and never submitted again.  Batches are numbered, so an execution that outlives its own is told
apart.

*Effects* (`TurnInv`).  Only a cancellation makes the scheduler give up a tool with effects, and after
it nothing of the task is submitted.  Before it, each of them in the pool is waited for (`Attended`),
and a batch that has one is not dispatched in parallel, so that its calls go one at a time (`InTurn`).

*The loop* (`LoopInv`).  Steps have three forms: a call gets its result (`Handled`), the run goes on
between two replies (`Moved`), the run ends (`Quit`); starting, a reply, and the two ways to execute
calls are the rest.  `Answered` counts the tool uses without a result by the position in the reply;
this is `ResultsPaired`.  For `NoRepeat` the difficulty are the calls executed in advance: their
results are there while the checks of the loop still come, and a check that turned one down would
lose it unseen.  `EarlyApart`, `EarlyUnseen`: such a call differs from all before it, is not noted
yet, and the calls ahead fit within the fuse, so none of the checks hits it; `RanNoted`: what was
executed is noted, or ahead.  Only the registry's refusal, which looks at health again, drops a result,
and that is counted.  `Owed`: outputs are owed only by the request, so that when nothing is
required an end in prose leaves nothing open (`ContractGate`).  `LoopAssumption`: limits are positive,
the calls' tools exist, one of them makes presentations (`GeneratePptx` is always registered).

*Files* (`FileInv`).  What version of a file a session last read from or wrote, and the fingerprint it
keeps, are noted in two steps, with the disk open to others between them.  The fingerprint is that of
this version unless somebody wrote while a tool had the file (`MarksKnown`), and a tool that nobody got in
the way of still finds on the disk what it looked at (`Found`): `Edit` the version it has read, `Write` a file
with the fingerprint.  So a version it destroys that the session never read from has the size and the
second of the one it did.  The theorem is about versions and not about lines: `Read` marks all of a
file of which it shows a part, and `Edit` and `Write` do not ask which part.

*The window* (`WindowInv`).  What is sent is chosen by units: one message that is no result, with
the results that follow it.  Whichever units are kept, what is joined of them has no result without
its use and no use without all the results it had (`WholePart`), so it does not matter which the
budget drops; a message that is cut keeps its use or its answer and says so.  A summary is asked of all
messages but the boundaries, and a boundary is about nothing of its own: what the summary leaves out is
left out by the limit it was made with.  Sums of sizes are folds; what they are of a set
follows from what they are of its parts (`PartByPart`).

*The route.*  Scores of words are added up and none is negative, so one word that owes a file lifts
its card above the threshold whatever else is asked (`CountedPartByPart`).  `TablesAssumption` says what the
tables have: a word that owes a presentation or a chart scores at least 4 for the card of the artifacts
(`task_contract.py:43`, `62`).

### The services

*One leader.*  A process does not look at the key when it admits a job: it goes by its last answer.
`KeyOfAdmitting`: while the lease a process renewed has not run out, the key is its own and ends no
earlier, because only its owner can extend or delete it and an acquisition needs it free or over.
Lost answers make the key end later than the process believes, never earlier.  `LeaseAssumption`
says that the lease time is a positive number and that no process has the name of nobody.

*Imports.*  Neither the locks nor the files matter: an import that reaches its values has deleted all
values of the vehicles it holds and not only those of its own fields (`OwnValues`), and a commit takes
over exactly what it holds (`LastValues`).

*Retrieval.*  Who rebuilds holds the lock (`LockHeld`), so how far it has come says what is in both
stores.

*Records.*  Upgrades run their steps in order with a commit each; a process that is past the unique
index in its list has left the index there (`IndexMade`), whoever else upgrades at the time, and a
process inserts a key only after it is through.  A save writes the row
of the job only if its fence is not behind, and the evidence and claims whether it is or not, one
upsert for each number.  If the row was written, both are of one outcome: under the numbers of its
citations the table has their contents (`WrittenRows`, `SavedClaims`), and the claims of it, found by
comparing with those, agree (`TablesAgree`).  A late attempt that the row refuses writes its evidence all
the same, over that of the outcome: then, and for claims left from other attempts, only the
numbers are still there (`NumbersStay`), which is what the first conjunct of `ClaimsHaveEvidence` says
and no more.

*Catalog and dataset.*  Every vehicle has the profiles of all systems from its own transaction on,
and rows are added before what refers to them and never taken away under a reading.  Who has counted
the annotations of an image has the row of the image alone until it writes the count
(`CountAhead`).  The classes of an export are in the order of the
ids of their types.  A type has its id from its insertion and is listed from its commit on, and an
update that found a type before it was deleted may bring it back; so what an export does not list it
notes as what may still come up (`unlisted`, a history).  What a later export lists and an earlier
did not was inserted after all the earlier had, or is of these (`Later`, of the types that are `Alive`, in
`ListedSince` and `Follows`): if none of these came up, the numbers of the earlier are the
first of the later.  Rows are only added, and who updates a type has found it committed (`TypesInv`), so
that an insertion that was lost stays lost.

*Event stream* (`StreamInv`, `Decided`).  Events are numbered by their places in the list.  Unless the
process was restarted, what a stream has in its backlog or mailbox is in the list, and the number it has
sent last is below the end of the list when the job is over, because the last event of an ended job
ends the page.  As long as the outcome is open there is no final event anywhere, in list, rows, queue or
stream (`Decided`), so that a page that took one belongs to a job that has ended; and only two kinds of
events make the page say complete.

*Turns* (`RobinInv`).  How often a waiting key was visited in vain is seen from its credit: there is
an `m` such that `m` quanta are within the credit and less than what the first job costs, so that `m`
is below the visits it needs.  Between two visits the others can get no more turns than there
are entries of others before it: their turns and the entries ahead of its place are together at
most `m + 1` times the most entries (`Near`).  The turn of another moves the key one place forward, a
refusal of its own starts again from at most all the others' entries and adds a quantum.  A round of
the scheduler is several visits in one step, and is followed visit by visit (`Fits`); a round is a
function on the number of visits and not a recursive operator, and what holds after every visit is
shown by the least number at which it would fail (`UpTo`).  The other steps take no turn and put
keys at the end only (`Quiet`).  `RobinAssumption`: the quantum and every cost are positive, as
the router's estimates are (1, 2, 4 or 8).

*Names of fields.*  The score adds five weights, of which only the bonus for values may speak for
another field than the one named.  A field with the very name that was asked for has 120 for it, 100
for its letters and pairs, and the direction if there is one; another lacks at least 30 of the first,
or has the name as its code.  Values give at most 8, so the named ones are apart by more than that
(`ExactAreAbove`, `ScoresApart`), pass the cut of three quarters, come first in the list that is looked up
(`CatalogFields`), and again in the list that is sorted anew by what is in the scope (`ShownFirst`); in a
list without ties the rows have places because each has another number before it (`RowsRanked`).  The
theorem has a hypothesis, `CodesDiffer`: a field whose code is the name of another shares less than 92 of
100 with it in letters and pairs.  Without it the property is false: a field `aaab` with the code `aab` has
the letters and the pairs of the field `aab`, has the same score, and the one with more values wins.
TLC shows that in two steps on such a table.  No check keeps codes and names apart; the codes the
importer makes, `ah_field_` and a digest (`autohome.py:44-47`), are nobody's name.

*Chunks* (`ChunkInv`).  The text of the chunks is stated by places: each part that is no overlap, with
its chunk and its place there.  Sentences and lines are folded from the left, and no part of a block that
is split is longer than `max_chars` (`SentencesAre`, `LinesAre`).  While the parts of a block are packed
the text has whole blocks and the first parts of the next (`TextUpTo`); a part is packed at the end of
the last chunk, where it stands after all of the text (`TextGrows`), a flush moves no part and a tail is
all overlap (`FlushedIs`), and only a chunk of nothing but overlap is emptied (`RoomIs`).
`ChunkingAssumption` says that the limits are ordered as `_validate_config` asks, and that a header that
is repeated leaves room behind it, as a third of `max_chars` does.  An induction over data is not
available to the prover: here and in the other parts a fold is unfolded element by element, with a
first-order induction over the numbers up to a length (`UpTo`, `FoldedUpTo`), and sorting and selection
are stated by ranks (`Ordering`).

### What stays with TLC

* `EveryJobEnds`: liveness under fairness and `ENABLED` are out of the prover's reach.
* The type invariants of the parts (`PlatformTypeOK`), beyond the shapes the proofs above use.

## 5. Hazards without a property

* A dispatch that is delivered although it counts as failed (577): the fault "mark" is in the model
  and in no run, because `PendingExact` and `LockCoversRun` do not hold with it.
* A cost above `max_credit` (642): a job that never gets its turn.  Estimates are at most 8 and the
  default is 32, so it takes a setting below 8; `TurnsAreFair` excepts such jobs.
* The session lock that a sweep leaves behind (674): it delays the next job and breaks no property.
* Separate api and worker processes (128): queues and tokens of two memories; the default deployment,
  which is modelled, has both roles in one process.
* A cancellation that is lost in a restart (709): in `adverse`; no statement of the repository
  says that it must survive.  One such loss leaves conversations exclusive (`RecoveredRuns`), two
  restarts do not (section 4, *The lock through a restart*).

## 6. Not modelled

* In `AgentJobs`: two processes with split roles, credits and their order (`RoundRobin` has them), a
  graceful stop, a runtime that goes on with an execution of a process that died, a stream command that raises
  except for the named faults.
* `scripts/agent_jobs_worker.py`: starts the same service with another role.
* Security and permissions of the backend: checks of one request against a token, no state.
* The vision service (stateless inference), collectors and vision jobs, evaluation and corpora
  (offline), the rest of the front end (layout and forms).
* In the tools: charts and presentations (what is drawn), web search and shell (external), notebooks.
* In retrieval: parsing of PDFs, embeddings and the quality of a ranking; in the agent loop: the
  wording of prompts; in providers: the vendors' formats beyond what tells calls apart.

### What would come next

The split deployment: two memories of `AgentJobs` over one table and one stream.
