# LZCore verification project

TLA+ models of the parts of LZCore that keep state across threads, processes
and restarts. TLC checks them on small instances; TLAPS proves the safety
properties of the passing runs for every value of the constants, a few of them
under a hypothesis that is stated with the theorem. All definitions are
translated from the source under `src/`; `PROJECT.json` maps each one to its
lines.

Contents: [the system](#the-system), [inventory](#inventory),
[modules](#modules-and-how-they-correspond-to-the-code),
[runs](#runs), [fairness](#fairness), [proofs](#proofs),
[disagreements](#where-code-and-documentation-disagree),
[not modelled](#abstractions-and-what-is-not-modelled), [plan](#plan).

## The system

LZCore is an LLM-agent workbench for operations engineers. A Flask backend
(`backend/main.py`, `backend/api`) and a WebSocket server
(`backend/ws/agent_ws.py`) accept messages. A message becomes a *turn*: the
agent application hands it to the runtime engine, whose query loop alternates
model calls and tool calls. Tools run in `core/runtime_engine/tool_runtime.py`;
extensions (approval, network operations) intercept some of them; some start
sub-agents or workflows. Long work is a *job*: a record on disk plus a delivery
in a queue that worker processes poll. Every durable fact is a JSON file,
rewritten as a whole under a file lock (`storage/locking.py`,
`storage/atomic_io.py`). There is no database transaction that spans two
records, so whatever touches two of them can be interrupted or overtaken in
between. That is where this project looks.

```
 browser --ws--> agent_ws --> turn (query loop) --> tool runtime --> handlers
  | ^  |           |  ^         |     |    |            |               |
  | |  |           |  |         |     |    |            v               v
  | |  +- frames - replay log   |     | approval   operation ledger   job record
  | |              ^            |     | records        ^               |
  | |         turn closeout     |     |    ^       reconciliation    Redis queue
  | |        (every 30 s)       |     | decisions  (at startup)      and workers
  | |                           v     v
  | |      session: request  task   sub-agents, coding candidates, workflows
  | |      registry, record, state        |
  | |      messages, runs                 v
  | +--- drawing (topology) <-- agent   memory, managed files
  +----------^
```

## Inventory

| Component | State | Operations | Interacts with | What is hard |
|---|---|---|---|---|
| Background jobs (`jobs/`) | job record; Redis lists `queue`, `processing`; lease hash; heartbeat threads | create, enqueue, claim, run, mark, ack, retry, reclaim, cancel, delete, reconcile | API threads, workers, Redis, ledger | duplicate delivery, expired leases, worker death at any line, check-then-act on the record |
| Operation ledger (`core/runtime_engine/operation_ledger.py`, `tool_runtime.py`, `loop_tools.py`) | one record per side-effecting call | plan, start, finish, settle, link, reconcile, resolve by hand | turns in two kinds of process, late callbacks, administrator, startup | six writers of one record, timeouts racing answers, restarts |
| Approval (`extensions/approval`) | frozen operations, continuation checkpoint | prepare, checkpoint, decide, claim, execute, settle, wake, resume | query loop, HTTP requests, thread pool, device | concurrent decisions, check before an edit, restart between claim and call |
| Turn replay and closeout (`agent/runtime/turn_replay.py`, `turn_closeout.py`, `backend/ws/agent_ws.py`, `frontend/src/realtime/turnTransport.ts`) | append-only frame log, per-process cache, sockets, client cursor, stored answers | append, load, pump, resume, close out, poll history | producer thread, maintenance thread, browser | torn lines, stale caches, two senders on one socket |
| Session turns (`jobs/lifecycle.py`) | request registry, the session's reusable job with its `active_turn` | claim, snapshot, stage, finish, attach, cancel, fold, reconcile | WebSocket, HTTP, maintenance, startup | idempotent repeats, two locks over two records, late attachments |
| Session record (`storage/session_store.py`, `message_store.py`, `run_record_store.py`, `session_snapshot.py`) | session record, tombstone, messages, references, runs, registry, journal, snapshots | persist a turn, delete for good, archive, repair, rewind | turns, retention, coding tasks | a deletion in eight steps beside writers of which few ask for the tombstone |
| Query loop (`core/runtime_engine/query_loop.py` and the `loop_*`, `recovery_*` modules) | one turn's results, goals, claims, verdict | model, tools, evidence, final gate, synthesis, finish | provider, tools, task state | a dozen exits, each with its own idea of success |
| Task state (`agent/runtime/task_state.py`) | snapshot with a revision, event log | resolve, begin, checkpoint, commit, reconcile | overlapping runs, restarts | event before snapshot, compare-and-swap by some writers only |
| Sub-agents (`agent/runtime/durable/subagent*.py`, `storage/subagent_store.py`) | task records, worker threads, cancel events | create, start, run, cancel, dispatch, reconcile | turns, coding candidates | everybody writes back what they read |
| Coding candidates (`agent/runtime/durable/coding_*.py`, `storage/project_changes.py`) | candidate, reviews, publication journal, project files | seal, review, accept, publish, roll back, read back | sub-agents, other editors | parallel reviewers, a publication of many files |
| Workflows (`workflows/service.py`) | run record | execute, cancel, delete | jobs, tools | whole-record writes of two threads |
| Memory (`storage/memory_governance.py`) | records that supersede one another | write, confirm, reject, expire, delete | turns, user | chains of revisions, saves interrupted half-way |
| Managed files (`storage/file_*.py`, `data_management.py`, `reference_index.py`) | payloads, versions, trash, index, intents, references | governed write, delete, restore, refer, reconcile | messages, knowledge, artifacts | bytes that somebody refers to are overwritten by somebody else |
| Knowledge base (`agent/modules/knowledge`, `core/context/context_store.py`) | rows of one append-only file, text files, references | import, index, rename, disable, delete, purge | index jobs, files, memory | a source is many rows, rewritten step by step beside purges of the whole file |
| Drawings (`extensions/network_operations/topology_service.py` and its frontend) | versioned document, history; a tab's canvas, base, undo stacks | edit, save, merge, conflict, undo, patch, restore | user, agent, WebSocket notices | lost and late answers, merges beside saves |
| Tools, context, providers, identity | none that outlives a turn | one call's control flow | language models, devices | decisions come from outside |
| Frontend, desktop, browser module, observability | view state, counters | rendering, windows, export | backend | not protocol state (but for transport and drawing) |

What makes the components correct:

* **jobs**: a submission is executed at most once; no job waits for ever; a
  dead worker's job is fenced rather than repeated.
* **ledger**: a verdict, once given, stands; *blocked* means nothing happened;
  *succeeded* means somebody saw the success; *failed* is never a guess; a
  restart closes what it orphaned and nothing else.
* **approval**: a frozen call reaches the device at most once and only as it
  was approved; the loop continues once, on final facts, and does continue.
* **replay**: the client applies the frames of one growing log, each once and
  in order; every turn gets one answer and one end; the client's turn ends.
* **session turns**: a request is executed once, a session runs one turn at a
  time and becomes free again.
* **session record**: what was deleted for good is gone and stays gone.
* **query loop**: success is reported only with the evidence that was asked
  for, and a cancelled turn ends.
* **task state**: a run writes only over its own state; the log is never behind
  the snapshot; a dead run's task does not stay active.
* **sub-agents**: the first terminal status stands, a task is executed once, a
  dependent is started when it may be.
* **candidates**: only what every reviewer passed is published; a publication is
  whole or undone, and overwrites nobody's edit.
* **workflows**: nodes run in order, writes alone; a cancellation sticks.
* **memory**: a retired fact comes back only by somebody's decision.
* **files**: bytes somebody refers to are kept.
* **knowledge**: a source is there with all its chunks, or it is gone.
* **drawings**: nobody's change is lost or overwritten unseen.

`PROJECT.json` lists every component with its status, and forty hazards of the
code at the lines where they bite, with the properties that guard them.

## Modules and how they correspond to the code

Every locked section, Redis command, queue operation or device call is one
step; what the code does between two of them can be interleaved with anything.
An operator `X_bug` defined before `X` is a plausible wrong version of `X`;
`PROJECT.json` says which property it breaks. No specification uses it.
The names of each module carry a prefix, so that modules which share nothing
can be instantiated together (see [runs](#runs)).

### JobStore, JobQueue

`JobStore` is the job record and the transition table of `jobs/manager.py` as
pure operators. `JobQueue` composes it with Redis, workers, heartbeats and API
calls.

| Variable | Code |
|---|---|
| `job` | `<job_id>.json`: status, retry_count, cancel_requested |
| `queued`, `processing`, `leases` | the two Redis lists and the lease hash; an element is the delivery string (job, attempt), so equal deliveries are indistinguishable, as in the code |
| `stale`, `late` | which leases are past their time; heartbeats already sent by a thread that is gone |
| `wpc`, `receipt`, `scan`, `mark`, `again` | where a worker is in `worker.py` / `runner.py` and what it holds in local variables |
| `hb`, `lost` | its heartbeat thread and the `lease_lost` event |
| `call` | an API thread between its read and its write |
| `submitted`, `runs` | history: how often a job was put in the queue, and its handler started |

Actions: poll and reclaim (`BeginPoll`, `ReclaimStale`, `ClaimDelivery`,
`NothingQueued`), run (`InspectDelivery`, `ClaimExecution`, `HandlerEnds`,
`CheckOutcome`, `MarkCheck`, `MarkWrite`), end (`FinishDelivery`, `AckRemove`,
`AckLease`, `RetryPush`), heartbeat, the API calls (`CreateJob`, `Enqueue*`,
`Cancel*`, `Retry*`, `Delete*`, `Reconcile*`), and failures: a worker or an API
process dies, a heartbeat thread dies, a lock times out, Redis refuses a command.

### OperationLedger

| Variable | Code |
|---|---|
| `ledger` | the record: status, owner turn, resolved_by, whether a resource is linked, and the boot in which it was started |
| `handler`, `report`, `watch` | the handler thread, what it returned, and which callback (`tool_runtime` or `loop_tools`) waits for it after a timeout |
| `resource` | the job or sub-agent that the handler created |
| `tpc`, `cur`, `heard`, `pending`, `reconciled` | a turn: where it is in `_execute_independent_calls`, its current operation, what it was told, the unknown write offered for read-back |
| `boots`, `due`, `scan` | backend starts; the startup and administrator reconcilers and the list each read before deciding |

`Plan`, `Start`, `Refuse`, `Invoke`, `Finish` follow the executor;
`NodeTimeout`, `BudgetTimeout`, `NodeSettles`, `BudgetSettles` the two timeout
paths; `ReadBack` the later call that settles an unknown write;
`ListForStartup`/`ListForAdmin` and `Reconcile` the two-phase reconciliation;
`Kill` (used by `BackendRestart` and `LedgerWorkerCrash`) ends every thread of a
process.

### Approval

| Variable | Code |
|---|---|
| `status`, `attached`, `calls` | a prepared operation, whether it has a checkpoint_id, and (history) device calls made for it |
| `scope` | the frozen skill/device/connection: unchanged, edited before the claim (`stale`), edited after it (`moved`) |
| `apc`, `batch`, `todo` | the turn, its decision set, and the operations still to be attached or invalidated |
| `cont`, `evidence`, `pool`, `resumes` | continuation record, the results claimed with it, the executor's work item, (history) resumptions |
| `rpc`, `rop` | a decision request and its operation |

`Prepare`, `SaveContinuation`, `Attach`, `PersistFails`, `Invalidate` are the
turn; `Decide`, `Claim`, `InvokeFrozen`, `Settle`, `Wake` the decision route;
`Resume`, `SettleContinuation` the executor.

### TurnStream, TurnReplay

`TurnStream` is the promise: a log that grows until its terminal frame and a
reader that shows its frames in order. `TurnReplay` is the implementation, with
`INSTANCE TurnStream WITH log <- file, shown <- client.shown`.

| Variable | Code |
|---|---|
| `file`, `torn` | complete lines of the log; an incomplete line behind them |
| `cache` | `TurnLog.frames` of each process |
| `prod`, `live` | the producing thread and its event queue to the submitting socket |
| `record`, `job`, `answers` | request record, job status, stored assistant messages |
| `closer` | `ensure_turn_terminal` of a process between its two log sections |
| `pump` | resume subscriptions: their process, socket, cursor and batch |
| `net`, `client` | messages on the client's socket; its cursor, mode and connection |

`AppendLine`/`FailLine` include the reload, the truncation and the failing sync;
`Emit`, `RunAnswers`, `RunFinishes`, `PutTerminal` are the producer;
`StartCloseout`/`FinishCloseout` the maintenance round; `PumpRead`, `PumpSend`,
`PumpCheck`, `PumpWait` the pump's loop; `Receive`, `Reconnect`, `ResumeAgain`,
`PollHistory` the client.

### SessionTurn

| Variable | Code |
|---|---|
| `registry` | the request records of `sys/request_registry` |
| `sjob`, `active` | the session's reusable job: status and cancel_requested; `metadata.active_turn` |
| `answer`, `frame` | the stored answer and the terminal frame of a request |
| `hpc`, `hreq`, `hout`, `hseen` | a WebSocket or HTTP handler: its place, request, result, and the snapshot a stage event read without the lock |
| `closing`, `slock` | the maintenance thread's request; who keeps the session lock over several steps |
| `boot` | is the startup reconciliation of this start still to come? |
| `starts` | history: turns started for a request |

`Claim`, `BeginSnapshot`, `BeginRecord` are `claim_session_turn`;
`StageRead`/`StageWrite` a stage event; `SessionTurnEnds`, `SnapshotFinishes`,
`FinishClaimed`, `AttachRun`, `HandlerDone` the end of a turn, in the order each
transport has; `CancelTurn` the cancel endpoint; `CloseTurn`, `CloseJob` the
maintenance round; `SessionRestart`, `StartupReconcile` a restart.

### SessionRecord

| Variable | Code |
|---|---|
| `srec`, `stomb` | `<session>.json` (status, run_ids) and `.<session>.deleted` |
| `smsg`, `sdir`, `sref`, `ssnap` | message files, their directory, the references of messages, a snapshot |
| `srun`, `sreq`, `sreqdir`, `scode`, `sagent`, `sjournal` | run records, request records, coding record, the session's job, the experience journal |
| `spc` | where each turn is between its claim and its attachment |
| `sdel`, `saged` | the deletion under way; is the session on a list retention made? |
| `srepair`, `srewind` | a listing that has read the messages of a session without record; the messages a rewind has still to write |
| `slate`, `sgone` | history: what may be written late; did the last deletion report success? |

`ClaimTurn`, `EnsureSession`, `WriteMessage`, `WriteRun`, `LinkRun`, `ReadRun`,
`SaveRun`, `JournalTurn`, `FinishRequest`, `AttachJob` are one turn;
`BeginDeletion` to `Verdict` are `delete_session_permanently` and
`DeleteJobAndJournal` its route; then `UpdateStatus`, `RepairReads`,
`RepairWrites`, `ChangeCoding`, `TakeSnapshot`, `BeginRewind`, `RewindWrites`.

### TurnLoop

| Variable | Code |
|---|---|
| `qpc` | the place in the query loop |
| `qok`, `qbad`, `qopen`, `qunknown`, `qread` | of the results: a success, a failure, writes that may still run, the one remembered as `unknown_outcome`, connections from which evidence was collected |
| `qgoal`, `qclaim` | recovery goals and the claims made about each piece of evidence |
| `qnudged`, `qwaiting`, `qresponse`, `qsynth`, `qcancel` | the final nudge, a suspension, response_outcome, attempts at a synthesis, the user's cancellation |
| `qout` | error, response, execution outcome and task status of the result |

`LoopModel` to `LoopCompletion` are the parts of an iteration, the `Call*`
actions the ways a tool call can bear on the turn; every exit goes through
`FinishTurn`.

### TaskState

| Variable | Code |
|---|---|
| `tsk`, `tskFresh` | the snapshot (revision, task, status, run); was it updated since the service started? |
| `tskLogged`, `tskPending` | the last event; the write between its event and its snapshot |
| `tskPc`, `tcontract`, `ttracked` | the runs and what they hold to compare |
| `tboot` | is the reconciliation of this start still to come? |

### Subagent

| Variable | Code |
|---|---|
| `subStatus`, `subFresh`, `subCandidate` | the record, its age relative to the backend's start, the task's candidate |
| `subCall`, `subWorker`, `subOut`, `subEvent` | tool calls about to start a task; `_WORKER_THREADS`; the turn's result; `_CANCEL_EVENTS` |
| `subCancel`, `subListed` | a cancel call, and the reconciler, between their read and their save |
| `subTriggers`, `subTodo`, `subParent` | the dispatcher of dependents; the parent's cancel check |
| `subRan` | history: executions of a task |

### CodingCandidate

| Variable | Code |
|---|---|
| `cand`, `review` | the candidate record and the review records |
| `qa`, `producer`, `publisher`, `pubLock` | the workers, the integrate call, the publication lock |
| `journal`, `project` | the publication's journal; each file as before the change, after it, or otherwise |
| `editLost` | history: did the publication overwrite an edit? |

`StartReview`, `AttachReview`, `RecordReview`, `FinishReview` are a review;
`CandReconcile` the judgement; `PubRead` to `PubFinish` the publication with its
rollback; `ReconcileReview`, `ReconcileExecution`, `PubReadback` the read-backs.

### Workflow

| Variable | Code |
|---|---|
| `wfRun`, `wfDefinition` | the run record and the definition |
| `wfMem`, `wfPc`, `wfOk`, `wfLeft`, `wfBusy` | the executor: its copy, place, outcomes, the layer's remaining nodes, those being executed |
| `wfCancel`, `wfDelete`, `wfJobCancel` | the cancel request with the record it read, the delete request, the job's flag |

### Memory

| Variable | Code |
|---|---|
| `mem` | the record files: status, supersedes, action, conflict group |
| `mdomain` | is the type core_rule, is there a memory_key? |
| `mtodo`, `mop` | the saves left to the operation that holds the mutation lock, each with its turn; the operation and the record it is about |

`GateWrite`, `GateRejects`, `ConfirmMemory`, `RetireMemory`, `DeleteMemory` read
and decide; `MemSaveStep` does a save of the least turn; `MemBreak` loses the
rest. The ancestors of a record are the least set that its links lead to, which
is what the loop of `revision_ancestors` returns.

### ManagedFiles

| Variable | Code |
|---|---|
| `fpath`, `fver`, `ftrash` | bytes at paths, in versions, in the trash |
| `frec`, `fcommit`, `fintent` | the index; `sys/file-commits`; `sys/file-mutations` |
| `fref`, `fkept` | who refers to a file; (history) the bytes the first of them saw |
| `ftodo` | what the holder of the workspace lock has left: a step on one file; of write `m`, versions to copy, the intent to log, what the writer puts, items to settle; of a reconciliation, commits and intents |
| `fdelete` | a deletion that has checked and not begun |

`CreateFile`, `GovernedWrite`, `ReconcileFiles`, `TrashFile`, `RestoreFile`,
`DeleteFile` check and leave what they will do in `ftodo`. `FileStepDone` does a
step on one file and says what follows from it; `CopyVersion`, `LogIntent`,
`WriterPuts`, `SettleItem`, `DropIntent` are a write (`managed_file_mutation`,
`_settle`), `AdoptCommit` and `ReopenIntent` a reconciliation. `FileHolderDies`
and `FileStepRaises` may come before each of them. `AddReference`,
`DropReference` and `RecycleUnlocked` do not take the lock; a reference has a
claim on the bytes unless a write or a deletion of the file is beside it or a
write of it is unsettled (see the disagreements).

### Knowledge

| Variable | Code |
|---|---|
| `krow`, `kdead` | `items.jsonl`, by row id: is there a content, and a tombstone behind the last one? Row 0 of a source is its record, the others are its chunks |
| `kfile`, `kref` | the source's text file, its rows in the reference index |
| `kchunks` | into how many chunks the present release splits a text |
| `kcall` | calls: source, steps left, rows in hand |
| `ktorn` | history: sources that a restart disturbed |

A call is a sequence of steps (`ImportSteps`, `ReplaceSteps`, `EditSteps`,
`PurgeSteps`), each a locked append or rewrite (`RowStep`, `PurgeStep`) or an
operation on the file and its references (`TextStep`); `ImportFails` is the
rollback, `ForgetMemory` a purge by somebody else.

### Drawing

| Variable | Code |
|---|---|
| `ddoc`, `dver`, `drevs` | the server's document, version and history |
| `tab` | canvas, confirmed base, known version, status, open conflict, undo and redo stacks |
| `dsave`, `dlate` | the save that runs and those that wait; one the tab has given up that may still arrive |
| `dpull`, `drest`, `dnews`, `dsocket` | the coalesced read, a restoration's answer, a notice, the socket |

`UserEdit`, `Undo`, `Redo`, `UndoChange` edit; `SaveBegins` to `Readback` are
`executeSave`; `PullNext` to `PullWaited` `reconcileServerTopology`;
`DrawMerge` is `mergeTopologies`.

### Compositions

`MCPlatform`, `MCWorkspace`, `MCExtensions` and `MCSettlement` put components
that share no state side by side: a variable `component`, chosen at the start, says which one
moves, the others stay as they began. A behaviour is then a behaviour of one
component, and the state space is the sum of theirs. Every component keeps its
own constants, faults and fairness. A leads-to of every component is stated
once, as `EveryWaitEnds`, over what each of them calls waiting (`JobWaits`,
`RecordWaits`, `SessionWaits`, `DependentWaits`, `CancelWaits`, `OrphanWaits`).
`MCJobQueue` and `MCTurnReplay` only add symmetry sets.

Where components do interact, one module has both sides: `TurnReplay` has the
log, the registry record and the stored answer; `OperationLedger` has the
ledger, the executor and the resources; `SessionTurn` has registry, job and
both transports; `SessionRecord` has a turn's persistence beside the deletion;
`Subagent` has the dispatch of coding tasks.

## Runs

| Run | Instance | Checks |
|---|---|---|
| `platform` (jobs) | 2 workers, 1 job, 1 submission, attempts to 3; worker crashes, Redis errors | `NoJobForgotten`, `EveryWaitEnds` |
| `platform` (ledger) | 1 operation, 1 backend turn, 2 restarts, jobs | `EveryWaitEnds` |
| `platform` (session turns) | 2 requests, a WebSocket and an HTTP handler, one of: cancel, restart, exception | `StartedOnce`, `EveryWaitEnds` |
| `platform` (sub-agents) | 2 tasks of which one waits for the other, 2 of: cancel, second start, parent's cancel, failing spawn, restart | `ExecutedOnce`, `FirstTerminalStands`, `EveryWaitEnds` |
| `platform` (query loop) | 2 pieces of evidence, 2 writes, 3 calls; bounded and unbounded; cancel, a lost environment, a failing archive | `OutcomeIsEvidenced`, `EveryWaitEnds` |
| `platform` (task state) | 2 runs, 2 checkpoints, 1 restart; failing reads and writes | `LogLeads`, `RunOwnsTask`, `EveryWaitEnds` |
| `workspace` (approval) | 2 operations, 2 turns, 2 requests, no faults | `ClosedSetIsClaimed`, `ClaimedIsResumed` |
| `workspace` (workflow) | 4 nodes in two layers, three of them reads; cancel, the job's cancel, deletion, death | `RunsInOrder`, `CancelSticks` |
| `workspace` (candidate) | 2 reviews, 2 files, 1 death, 1 edit; failing writes | `PublishedIsReviewed`, `PublicationIsReadBack`, `ReviewStands` |
| `workspace` (memory) | 3 records, 2 interruptions, every domain | `NoneComesBack` |
| `workspace` (files) | 1 path, 2 contents, 2 writes, 1 removal, 2 faults | `ReferencedBytesKept` |
| `extensions` (jobs) | 1 worker, 1 job, 2 submissions, 1 retry; API and worker crashes, restarts, lock timeouts, Redis errors | `RunsAtMostSubmissions` |
| `extensions` (ledger) | 2 operations, 2 backend turns, 1 restart, failing ledger writes | `BlockedNeverRan`, `OwnerGone` |
| `extensions` (drawing) | a node and a link; of 2 edits of the user, 1 patch of the agent, 1 click, 1 restore and 1 fault any 3 | `ChangesStay`, `NothingOverwrittenUnseen` |
| `extensions` (session) | 1 turn, 2 deletions, 1 change by the owner, 1 failing file or restart | `DeletedIsGone` |
| `settlement` (ledger) | 1 operation, a backend and a worker turn, 2 restarts, a worker crash, jobs, administrator, failing ledger writes | `SucceededOnEvidence`, `FailedIsKnown`, `FirstVerdictStands` |
| `settlement` (approval) | 2 operations in one decision set, 2 requests, 1 restart; all faults; symmetric in both | `DeviceOnce`, `StaleNeverRuns`, `ResumedOnFinalEvidence` |
| `settlement` (knowledge) | 2 sources of 2 chunks, 2 calls, 1 restart, any step of an import may fail | `WholeOrGone` |
| `replay_crash` | 2 processes, 2 frames, 2 sockets, 1 resume, 1 crash; all process faults | `TypeOK`, `OneAnswer`, `StreamSpec`, `TurnIsClosed`, `ClientFinishes` |
| `replay_resume` | 1 frame, 2 sockets, 2 resumes; all socket faults | `NoGap` |
| `job_retry_forgets` | no failures, one retry | `NoJobForgotten` is violated |
| `approval_early_decision` | a decision before the checkpoint | `ClosedSetIsClaimed` is violated |
| `session_overlap` | 3 requests over the WebSocket, no failures | `OneTurnAtATime` is violated |
| `replay_cancel_closes_running` | a cancel request | `OneAnswer` is violated |
| `session_deletion_late_facts` | 1 turn, 1 deletion, no failures | `TombstoneForbids` is violated |
| `knowledge_deleted_comes_back` | 1 source of 2 chunks, 1 call, 1 restart | `DeletedIsPurged` is violated |

`platform`, `workspace`, `extensions` and `settlement` also check the type
invariants of their components (`PlatformTypeOK`, `WorkspaceTypeOK`,
`ExtensionTypeOK`, `SettlementTypeOK`).

What the properties mean is said at their definitions. Why the bounds are
enough for the questions asked:

* **Jobs.** Deliveries of different jobs share nothing but the order of the
  lists, so one job shows the races on its record, its lease and its delivery
  string. Two workers are the least that give a duplicate delivery; attempt 3
  lets a reclaimed delivery be reclaimed again. A lease of attempt
  `MaxAttempt` no longer expires, which stands for "failures end at some
  time". Two submissions are the least that make two live deliveries with the
  same string. The run with two submissions has one worker; that two workers
  change nothing is what the theorem says. A heartbeat thread that dies
  (always possible) lets a lease expire under a live worker. The separate
  `stall` fault is covered by the theorem only.
* **Ledger.** Records of different operations meet only in a turn's `pending`
  and in the reconciler's list: two operations and two turns. Two restarts let
  a list read in one boot meet a record of another. `BlockedNeverRan` and
  `OwnerGone` hold only for backend turns (see below), and that orphans are
  closed only when the ledger can be written, hence three instances.
* **Approval.** Two operations are the least decision set with a last and a
  last-but-one decision; two requests the least that race.
* **Replay.** One turn, since logs share nothing. Two processes give a stale
  cache and a foreign append; two sockets a lost and a new one; two resumes on
  one socket two senders. Two frames and a terminal make three sequence
  numbers, enough for a gap and for a duplicate. With two pumps the frames go
  down to one to keep the run short.
* **Session turns.** Two requests are the least for a repeat and for a busy
  session; the late attachment needs a third one, which `session_overlap` has.
* **Session record.** One turn can be at any of its thirteen steps when the
  deletion is at any of its own; a second deletion is the retry of one that
  failed or the deletion by retention of what the owner has deleted. Turns
  meet only in the session's job and in the sets of what they wrote.
* **Query loop.** Two goals let one be observed and the other not; two writes
  let one be forgotten; three calls are a write, a read and a read-back.
* **Task state.** Two runs overlap or follow each other over a restart; a third
  would repeat one of the two.
* **Sub-agents.** A prerequisite and a dependent; two faults let a cancel meet a
  restart.
* **Candidates.** Two reviews are the least that disagree; two files the least
  publication that can stop half-way.
* **Workflow.** Two layers, and a layer with two reads, a write and a read in
  the order of their ids: a group of reads, a write alone and a read behind it.
* **Memory.** Three records are the shortest chain whose middle can be taken
  away; with two interruptions one operation leaves a chain and the next one its
  clean-up half done. An id is used once. An instance with four records and two
  interruptions (5,555,309 states) has also passed.
* **Files.** Files at different paths meet only in the lock; two writes let one
  supersede the unsettled intent of the other, and two faults interrupt both.
  Larger instances have also passed: two removals (944,371 states), three writes
  (1,604,607) and two paths with two writes, no removal and one fault (2,278,550).
* **Knowledge.** Two sources, since a purge for one touches the rows of the
  other; two calls, since a reindex is overtaken by a purge or by an edit; two
  chunks let one be replaced and the other not.
* **Drawing.** A link with its node has every case of the merge (value against
  value, against deletion, and an end that goes). Three events reach a conflict
  or a late answer and what follows from it; the counters bound what users and
  the network do, not what the code does in answer.

`CHECK_DEADLOCK FALSE` stands where the system may rightly stop: a turn has
ended, all decisions are taken. The composed modules say so with a step `Rest`,
which the workers of `JobQueue`, who poll for ever, do not have in `platform`.

## Fairness

* `JobQueue`: workers keep polling and their handlers end (an assumption about
  the handlers: the runner sets no limit of its own); a started
  API call goes on; the clock runs, so an unrenewed lease becomes old. Nothing
  makes a client act, and nothing prevents crashes up to the bound.
* `OperationLedger`: code between two ledger calls of a live process runs on,
  callbacks run, and the startup thread runs its reconciliation. Handlers need
  not return, and nobody has to look at the administrator's page.
* `Approval`: attaching, the steps of a request and the executor go on. A user
  need never decide.
* `TurnReplay`: the turn ends (an assumption: every model and tool call has a
  timeout, but the limit of the whole turn is opt-in, `budget_controller.py:3`;
  `ClientFinishes` says that a turn that ends is seen to end), the
  maintenance thread repeats every 30 s, the client reconnects and polls the
  history every 2.5 s. Only the success of the closeout's append is strongly
  fair: a disk that fails now and then does not fail every time.
* `SessionTurn`: handlers run on, turns end, the maintenance thread visits every
  request and startup reconciles. The session lock is a file lock that is
  polled, not a queue; a waiter can miss it any number of times, but not for
  ever, hence strong fairness for the steps that need it and weak fairness
  elsewhere.
* `Subagent`: threads that were started run on; no step repeats for ever, so
  fairness of all of them together is enough.
* `TurnLoop`: model and tool calls return or time out and a wait for the
  provider ends. The user need not cancel.
* `TaskState`: a write that began is published or fails, and startup gets to
  its reconciliation.

The other modules state safety only and assume no fairness.

## Proofs

Eight `*_proofs` modules. `JobQueue_proofs`, `OperationLedger_proofs`,
`TurnReplay_proofs` and `ManagedFiles_proofs` are about one module each. The other
four extend the instances that compose components and hold, with the proofs
about the components, those about the composition: `Session_proofs` (TaskState,
SessionTurn, TurnLoop, Subagent, `MCPlatform`), `Workspace_proofs` (Workflow,
CodingCandidate, Approval, Memory, `MCWorkspace`), `Extensions_proofs` (Drawing,
SessionRecord, `MCExtensions`) and `Settlement_proofs` (Knowledge,
`MCSettlement`). Nothing is assumed but the named ASSUME
of each module, which gives its constants their types: sets of processes,
records, tasks or turns may be infinite, counters have any bound, and every
subset of the faults is allowed, including those no run combines. `WfAssumption`
says more: that the graph of a workflow has no cycle, as
`workflows/service.py:122` enforces before a run (without it a run with a cycle
would never have an executable layer). Five theorems have a hypothesis of their
own, stated with them and explained below.

| Theorem | States | Inductive invariant |
|---|---|---|
| `TypeCorrect` | `Spec => []TypeOK` of JobQueue | TypeOK; `ControlOK` ties receipt and heartbeat to the worker's position |
| `AtMostOneRunPerSubmission` | `Spec => []RunsAtMostSubmissions` | with `TurnLeft`: a *queued* job has fewer runs than submissions. Only the locked claim starts a run, and only from queued; every write that makes a job queued counts a submission first |
| `NoJobIsForgotten` | `Spec => []NoJobForgotten`, if `MaxRetries = 0` and without `apiCrash`, `lockTimeout` and `stall` | `OutInv`, see below |
| `LedgerTypeCorrect` | `LedgerSpec => []LedgerTypeOK` | itself |
| `FirstVerdictHolds` | `LedgerSpec => FirstVerdictStands` | LedgerTypeOK: all writers go through `SetStarted`, `SetFinished` or `CanSettle` |
| `SucceededHasEvidence` | `LedgerSpec => []SucceededOnEvidence` | with `Hearing`: what a turn heard from its operation is what the handler reported |
| `BlockedIsHonest`, `OrphansHaveNoOwner` | `LedgerSpec => []BlockedNeverRan`, `LedgerSpec => []OwnerGone`, if `WorkerTurns = {}` | `BlockedInv`: `Hearing`, `Ownership` (a turn's current operation is its own), `Progress` (how far a call is when its record is planned), `NotBlocked`, `Boundary` (a list entry of an earlier boot belongs to a dead turn) |
| `FailureIsKnown` | `LedgerSpec => []FailedIsKnown` | `FailedInv`: `Hearing`, `Ownership`, `Outcomes` (who heard *error* heard it of a refused call or of its own handler; the callback of the budget writes behind the handler's report) |
| `ApprovalTypeCorrect` | `Spec => []TypeOK` of Approval | itself |
| `FrozenCallRunsOnce`, `EditedCallNeverRuns` | `Spec => []DeviceOnce`, `Spec => []StaleNeverRuns` | `Holding` (a request past its claim has an executing operation), `SoleHolder` (only one has), `StaleUnclaimed` |
| `ResumedOnFacts` | `Spec => []ResumedOnFinalEvidence` | `Holding`, `Unsaved`, `Executor` (a resumption uses up the pool's only work item), `FinalEvidence` |
| `ReplayTypeCorrect` | `Spec => []TypeOK` of TurnReplay | `ReplayInv` |
| `ReplayIsStream` | `Spec => StreamSpec`: the detailed model implements TurnStream | `ReplayInv`: caches, batches and the shown frames are prefixes of the file, and every frame in flight is the frame of its number |
| `OneAnswerIsStored` | `Spec => []OneAnswer`, without `cancel` and `peerRestart` | `ReplayInv`, `RunIsOpen` (while the producer can still answer, the record and the job are open, so that no closeout begins) |
| `SocketHasNoGap` | `Spec => []NoGap` | `GapInv`, see below |
| `SessionTypeCorrect`, `RequestsStartOnce` | `SessionSpec => []SessionTypeOK`, `SessionSpec => []StartedOnce` | `SessionInv`: `SessionLock` (one holder, and who it is), `SessionClaims` (a started request is in the registry; a claim under way is for one that is not) |
| `TaskTypeCorrect`, `LogNeverBehind`, `RunsOwnTheirTask` | `TaskSpec => []TaskTypeOK`, `[]LogLeads`, `RunOwnsTask` | `TaskInv`: `TaskWriteOK` (the write under way is the last event, one revision ahead), `TaskTracked` (a contract is for a revision that was written, and while it is current the task is the run's), `TaskOwner` |
| `LoopTypeCorrect`, `OutcomesAreEvidenced` | `LoopSpec => []LoopTypeOK`, `LoopSpec => []OutcomeIsEvidenced` | `LoopInv`: an open write is remembered, a final is rejected once between two tool rounds, a synthesis is tried twice at most; `OutcomeIsEvidenced` at each of the exits |
| `SubTypeCorrect`, `TasksExecuteOnce`, `FirstTerminalIsKept` | `SubSpec => []SubTypeOK`, `[]ExecutedOnce`, `FirstTerminalStands` | `SubInv`: `SubOnce` (a task with a worker is past *created*; an executed one has no worker that is still to execute it) |
| `WfTypeCorrect`, `RunsKeepOrder`, `CancelIsMonotonic` | `WfSpec => []WfTypeOK`, `[]RunsInOrder`, `CancelSticks` | `WfInv`: `WfOrder` (what is begun or about to be has all it depends on; the record lists what is settled) |
| `CandTypeCorrect`, `PublicationNeedsReview`, `PublicationReadBack`, `VerdictsStand` | `CandSpec => []CandTypeOK`, `[]PublishedIsReviewed`, `[]PublicationIsReadBack`, `ReviewStands` | `CandInv`: `CandLock`, `ReviewLinks` (which record a worker can have), `Settled` (what is accepted rests on closed reviews of its last round), `PublisherOK` (what the publisher knows where it is) |
| `SessionRecordTypeCorrect`, `DeletionIsFinal` | `SrecSpec => [](SrecTypes /\ SrecTypeOK)`, `SrecSpec => []DeletedIsGone` | `SrecSafe`, see below |
| `DrawTypeCorrect`, `ChangesOnTheCanvasStay` | `DrawSpec => []DrawTypeOK`, `DrawSpec => ChangesStay` | `DrawSafe`: types with whole documents, and `SentStands` (what a save sent is still the canvas, unless the canvas is marked as changed) |
| `NothingIsOverwrittenUnseen` | `DrawSpec => NothingOverwrittenUnseen`, without `reread` and with room for two revisions | `UnseenInv`, see below |
| `KnowledgeTypeCorrect`, `SourcesAreWholeOrGone` | `KnowledgeSpec => []KnowledgeTypeOK`, `KnowledgeSpec => []WholeOrGone` | `KSafe`, see below |
| `FilesFitTogether`, `FileTypes`, `ReferencedBytesAreKept` | `FileSpec => []FilesInv`, `[]FileTypeOK`, `[]ReferencedBytesKept` | `FilesInv`, see below |
| `MemoryFitsTogether`, `MemoryTypes`, `NothingComesBack` | `MemSpec => []MemInv`, `[]MemTypeOK`, `NoneComesBack` | `MemInv`, see below |
| `PlatformRunsItsComponents`, `WorkspaceRunsItsComponents`, `ExtensionRunsItsComponents`, `SettlementRunsItsComponents` | a composed specification implements the safety part of the specification of each of its components | none: a step of the composition is one of a component, and the others stutter |
| `PlatformTypes`, `WorkspaceTypes`, `ExtensionTypes`, `SettlementTypes` | `PlatformSpec => []PlatformTypeOK` and so on | the preceding row and the components' theorems |

Why some of the invariants are what they are:

* **`FirstTerminalStands`, `CancelSticks`, `ReviewStands`.** All writers of
  these records write back what they read before. They hold because each goes
  through one function that looks at the record once more under its lock
  (`SubSaved`, the cancel flag a save carries over, the closed review), so the
  step lemma is about that function and the actions only cite it.
* **`NoJobForgotten`.** Each way a delivery can vanish (an ack, an HDEL, a lost
  race for a lease) is harmless for itself only if there is no second delivery
  under the same key. `OneDelivery` says that an open job has exactly one: a
  client about to push, an entry of the list, or a lease. `HolderOK` says who
  can hold it: a worker that has not yet asked for the job, with a fresh lease,
  or the one that runs it, and neither acknowledges while the job is open; a
  worker whose heartbeat thread is alive still has its lease, so `lost` is never
  set on an open job. `OneWaits` and `Redelivered` make the claim exclusive and
  every redelivery of a running job one that fences; `CallsInOrder` and
  `NotYetOut` say that a job is submitted by one call and has no delivery before.
* **`NoGap`.** The sequence number at the head of a socket says nothing by
  itself; what is inductive is that every frame in flight continues the client's
  cursor *or a frame before it in flight* (`NetChain`, `QueueChain`), that a
  subscription of the present connection begins where its socket is
  (`PumpsFollow`), and that, while the producer sends, all that is logged is
  shown or in flight but for the terminal of a closeout (`ProducerFollows`).
  Two senders on one socket then only repeat frames.
* **Session deletion.** A writer that asked for the session before the tombstone
  may write behind it, so *nothing is left* is not inductive. `LateKnown` says
  that the history variable knows all that such writers can still write,
  `DirHolds` that a missing directory means no messages, and `DeletionWorks`
  what a deletion without a failure has behind it at each of its steps.
* **Drawing.** `CopiesAreCurrent`: no copy of the server's document is from the
  future, and one with the server's version is the server's document.
  `SavesAreHonest`: a save on the present version differs from it only in what
  the canvas changed. `KnowsWhatItSaw`: the tab knows a version it has not seen
  only in a conflict or until an uncertain save was read back. The fault
  `reread` breaks the last one in the code (see the disagreements), and a
  history of a single revision cannot hold both documents of a restoration (the
  code keeps far more); hence the two hypotheses.
* **Knowledge.** Between two steps of a call a source is in pieces, so the
  invariant says for each call what its pieces are. `OnPlan`: what is left of a
  call is the end of the plan of its kind. `SourceWritten`: record, references and
  text are there, and every chunk that is not live is still to be appended by a
  call on the source (`WillAppend`). Updates keep a source written; an import
  makes it so with its third step; a rollback and a deletion have in hand
  every row there is, dead ones of an interrupted update included, which
  holds because no restart disturbed the source (`ImportSound`, `RollbackSound`,
  `DeleteSound`). `Alone` says who may be at work beside whom. Purges for other
  sources drop tombstones at any time; they are harmless because an undisturbed
  source has no old row under a tombstone but those it is about to append again
  (`Untouched`).

* **Files.** That a reference's bytes are kept says nothing of the middle of an
  operation. `Claims` says of a file with a claim that it is `Untouched` (no
  deletion, change of hash or unsettled write without a copy is about it),
  `Safe` (its bytes are at its path, in the trash, or in a version whose
  intent is still to be settled, and once the record points to a version, in
  that version), and that the bytes survive what is left to do (`Outlives`: the
  writer puts nothing over bytes that are not in a version; an item whose
  settlement is behind it has left the bytes in place or is about to move the
  record to the version). That such a version can still be settled needs the rest:
  `Chain` (one current record of a path, and versions belong to the file whose
  bytes they are), `Commits`, `Intents` (what an unsettled intent says about the
  records it names), `Preparing`, `Todo`, `Deleting` and `Steps` (each step left
  finds the state that its first step made). The proof has a lemma for each
  action and conjunct that it can disturb.
* **Memory.** Between two saves of an operation records are retrievable or not by
  accident, so `SavesFit` says what each save that is left still finds. A write
  saves the new record first, and what it retires has been replaced by then
  (`SavesAncestor`); a deletion or expiry retires the ancestors nearest first and its
  own record last, so that each active ancestor is still replaced when the one
  before it goes, and the last save finds none active (`SavesLast`). `Chained`
  says that a record supersedes only older ones: chains have no cycle, a new
  record has no follower, and the order of ids is the order of the loop. The
  lemmas about chains (`LineIsTransitive`, `LineGrows`, `LineAvoids`,
  `LineIsCut`, `SupersededIsReplaced`) take the place of an induction over their
  length: an ancestor is in every set that is closed under the links, and the
  lemma names the set.

`WorkerTurns = {}` in the two theorems on reconciliation, the two excluded
faults of `OneAnswerIsStored` and the hypotheses of `NoJobIsForgotten` are not
conveniences: without any one of them the code does not keep the property (see
the disagreements, and the runs `replay_cancel_closes_running` and
`job_retry_forgets`). A stalled heartbeat lets a second worker hold a queued job's
next attempt; if the first one then claims the job, the second acknowledges the
only live delivery, and the first leaves the job running when it notices the
lost lease.

Every invariant and every action property of the passing runs is a theorem. The
leads-to properties (`EveryWaitEnds`, `ClosedSetIsClaimed`, `ClaimedIsResumed`,
`TurnIsClosed`, `ClientFinishes`) are model-checked only, because liveness under
fairness and ENABLED are out of the proof system's reach; the properties that a
run refutes cannot be theorems.

## Where code and documentation disagree

Six disagreements have a run that shows them:

1. `job_retry_forgets`: `enqueue` always builds attempt 1, so after a retry two
   live deliveries share one lease key and the ack of one drops the lease of
   the other (`jobs/queue.py:95,122`). The job can stay *running* for ever, in a
   queue that `src/docs/PRODUCTION.md:75` calls at-least-once.
2. `approval_early_decision`: a decision taken before the turn attached its
   checkpoint closes the set without waking it, and nothing looks again
   (`extensions/approval/service.py:345`, against `src/docs/APPROVAL_EXTENSION.md:20`).
3. `session_overlap`: a WebSocket turn attaches its run to the session's job
   after it has given the session free; if the next request has claimed the job
   by then, the attachment marks it finished and a third request starts beside
   the second (`jobs/lifecycle.py:656`, against the test
   `src/harness/runtime/test_turn_idempotency.py:282`).
4. `replay_cancel_closes_running`: the maintenance round folds a running record
   as soon as cancellation is *requested* (`jobs/lifecycle.py:116`), and stores
   an interruption notice beside the answer of the turn that still runs.
5. `session_deletion_late_facts`: messages, their references and run records
   are written without a look at the tombstone, so a turn that outlives the
   deletion of its session leaves them behind (`storage/message_store.py:93`,
   against the docstring at `storage/session_store.py:348`).
6. `knowledge_deleted_comes_back`: a purge drops every tombstone of the file but
   keeps the older rows of what they deleted (`core/context/context_store.py:195`),
   and the deletion of a source does not find the chunks that an interrupted or
   smaller reindex had tombstoned. The next purge of anything else, such as a
   forgotten memory, brings them back (against `knowledge/store.py:294`).

The models also contain the following, which no run singles out.

*Jobs.* `jobs/manager.py:98`: `cancel_job` and the `mark_*` functions test and
write in two steps, so a stale write can take an edge the table does not have
("strict state machine", `manager.py:2`). A job queued by an API process that
dies before the push, or whose claim timed out on its lock, is forgotten in the
sense of `NoJobForgotten`; that is why the property is checked without these
faults. Two concurrent retries both pass the test of the retry count
(`manager.py:128`).

*Ledger.* `operation_ledger.py:284`: startup reconciliation takes a worker
process's planned operation for an orphan and closes it as blocked; the worker
ignores the refusal of `start_operation` (`loop_tools.py:705`) and runs the
handler. `BlockedIsHonest` and `OrphansHaveNoOwner` therefore assume that turns
run in the backend.
`tool_runtime.py:416`: a late result that is itself uncertain is recorded as
failed; `loop_tools.py:810` keeps such a result unknown. `FailedIsKnown` speaks
of the latter path and of `finish_operation`. `loop_tools.py:634`: a read-back
that finds its record settled by another resolver raises and ends the turn.
`ssot_provider.py:205`: the end of `asyncio.run` cancels the callback of a
detached write; its late result is lost, though `tool_runtime.py:397` sets out
to commit it.

*Approval.* `approval/backend.py:46`: a claimed continuation whose process
restarts stays *resuming*; hence `ClaimedIsResumed` without crashes.
`backend.py:95`: an edit between the claim and the device call goes unnoticed,
hence `scope = "moved"` is not *stale*.

*Replay.* `turn_replay.py:329`: the pump's unlocked test can make it leave
without sending a terminal frame that another thread has just loaded. The
client still finishes because it polls the history: the mutant that takes this
poll away breaks `ClientFinishes`.

*Query loop.* A turn that is suspended for a decision passes on metrics without
the waiting outcome (`query_loop.py:729`), so its task is committed as
completed (`WaitingIsNotCompleted` in TurnLoop; compare
`src/harness/runtime/test_approval_extension.py:197`). A turn remembers only its
first unknown write (`loop_tools.py:97`); a second one is not offered for
read-back. The scan at the end (`loop_recovery.py:66`) takes evidence collected
anywhere in the turn, before the write as well. Not in the model: an OpenAI
stream that breaks after some text returns it as if it were complete
(`agent/llm/provider.py:705`); a model call that `loop_model.py` gives up goes
on in its thread and shows its tokens beside those of the next attempt.

*Task state.* When the snapshot of an interruption cannot be written, the dead
run's task stays active until the next start. `ssot_runtime.py:234` speaks of failing closed, but a turn whose
task state could not be read runs on without one; its commit has no contract and
is not compared with anything.

*Workflows.* `workflows/service.py:545`: a cancel request that read the record
while it was running writes it back as running after the executor has finished
(`RunStaysFinished` in Workflow); the finished run can then not be deleted.

*Memory.* A confirmed proposal retires the active records of its chain only as
far as the chain is unbroken (`memory_governance.py:292,347`): once a record in
the middle was deleted, the older one stays active beside it. Confirming a
proposal to expire a record, or one of two conflicting ones, retires nothing.
Deleting a proposal that another proposal follows retires the active records of
its chain, although no active record has replaced them (`memory_governance.py:294`
asks `superseded_records`, which lists replaced proposals too): with 1 active, 2 a
proposal for 1 and 3 one for 2 (the write of 3 was interrupted before it
rejected 2), deleting 2 expires 1. If 1 itself is an active remainder behind an
active 2, and 3 and 4 are the proposals, deleting 3 retires 2 before 1, and 1 is
back if the process dies in between, which `memory_governance.py:292` means to
exclude ("must not resurrect ancestors after interrupted cleanup"). `NoneComesBack`
therefore excepts the deletion of a proposal.
Not in the model: a batch of the consolidator whose result is unknown and has
no record holds up all later ones.

*Files.* A file's bytes in the trash can be replaced when a later write at the
same path is deleted, if the record did not follow; references that are added
beside a write or a deletion have no claim on the bytes
(`data_management.py:178` checks before it takes the lock); a crash between the
move into the trash and the record, followed by a write at the same path, leaves
the record pointing at the new bytes; the intent of a write that a second one
has superseded stays unsettled. A write of an unreferenced file that dies behind
its intent has no copy; if a reference is added then and a second write, which
copies, dies as well, the reconciliation settles the first intent before the
second: it gives the record the hash of the new bytes (`file_mutations.py:132`), and
the second intent fails with `mutation_record_conflict` (line 104) for good. The
owner's record then shows the new bytes with a matching hash, and its own are
in a version that nothing refers to, against `file_mutations.py:1` ("retain the
actual bytes used by existing owners"). This is why a reference that is added
while a write of the file is unsettled has no claim in `AddReference`.

*Knowledge.* An index job, a rename or a change of the flag that has read a
source when it is deleted writes its rows again, and no lock or check prevents
it; the model keeps a deletion apart from other calls on its source. A reindex
of a disabled source writes its chunks without the flag, and the search looks at
the chunk's flag only (`unified_retriever.py:352`, compare the test
`test_knowledge_source_keeps_full_content_and_disable_hides_chunks`). When the second
`replace_chunks` of `import_file` raises, nothing is rolled back. The retriever
takes the file's signature after it has listed the rows (`unified_retriever.py:295`),
so a write in between is not found for up to 30 s.

*Drawings.* `integrateRemoteDrawing` remembers the remote version even when it
reports a conflict (`useTopologyCollaboration.tsx:93`); if the next read of that
conflict fails, the status falls back to *unsaved* and the next save overwrites
the agent's change without a decision, against `topologyMerge.ts:6`. The fault
`reread`, which the run leaves out, is that failure. An edit during a save sets
*unsaved* and so opens the guard of the notice of that very save
(`useTopologyRevisions.tsx:146`): the tab merges its own save as if it were
foreign. A restoration answered while a save is in flight that is then rejected
leaves a conflict with nothing to decide. After a lost answer to a save that
added an object, the read-back reports a conflict of the object with itself.

*Sessions.* `attach_run_to_session_job` and `append_experience` make the job and
the journal of a deleted session again. Retention deletes from a list it made
before, so a session that was restored meanwhile goes too, and it leaves job and
journal behind. When a first deletion has removed everything but run or coding
files, the second one removes those and answers *not found* (`had_data`), so
that the route leaves job and journal. Nobody resumes a deletion that was
interrupted after the record had gone. A rewind neither asks for the session nor
locks it, and leaves the references of the messages it takes away. Archiving a
session marks the job of its running turn succeeded, which frees the session.


## Abstractions and what is not modelled

For all modules:

* A section under a file lock, and the atomic replacement of a file, is one
  step; the lock itself is not verified (its timeout is a step of `JobQueue`).
  Reading a directory of records is one step. Ids are not used twice.
* Payloads, texts, time stamps, progress, metrics and logging are left out
  where no guard depends on them.
* What a language model or a device answers is a nondeterministic choice among
  the kinds of answer the code tells apart.

For single ones:

* Ledger: an intercepted call has no ledger effect; a handler creates at most
  one resource.
* Approval: a closed operation stays closed; that a decision comes early is a
  parameter of the environment.
* Replay: appending a frame and putting it on the live queue is one step (the
  delay of the queue subsumes the one between them); writing the request record
  does not fail; a lost live socket is noticed at once. Not modelled: pruning
  of logs after seven days, redaction, heartbeats, idempotent redirects, wake
  events (a pump looks again anyway), the client's 60 s history deadline, the
  `not_found` answer and the path of a failed claim.
* Jobs: the filesystem queue, listing, progress and events are left out.
* SessionTurn: one session, so no redirects between sessions; pruning of the
  registry by age and interactive prompts are left out.
* SessionRecord: one session. The session's jobs are taken as one and so are its
  snapshots. Age is not modelled, so retention may list any session. The traces
  and decision sidecars go with the run record they stand beside.
* Subagent: the loop of a child and the integration of its result are one step
  each; messages and progress are left out. CodingCandidate: worktrees and the
  commands that validate a candidate are left out.
* TurnLoop: token budgets, compaction and the text of prompts are left out; how
  often the loop goes round is bounded by the calls that matter
  (`MaxLoopCalls`).
* Memory: the consolidator, which only proposes records, is the environment.
* Knowledge: a source is imported once and whole: a text file whose commit is
  unknown, the flag that disables a source, and failures of the disk outside
  `import_document` are left out; a restart at any step is not.
* ManagedFiles: one workspace; garbage collection of versions and the metadata
  of artifacts are left out.
* Drawing: one tab and one agent. Not modelled: `prepareDrawing`, regions,
  creation and deletion of whole drawings, and the way `undoDrawingChange` falls
  back on the server's history.

The map covers about 13 per cent of the repository's code. The larger part of
the rest has no state that outlives a call and no concurrency: the tools and
their validation, parsers of command output and of documents, ranking and
prompts, adapters of language models, HTTP formatting, the React views and the
desktop shell. A state machine of them would only repeat their text. The
components of that kind, and the reasons one by one, are in `PROJECT.json`;
*partly* there names what of a component is missing. Hazards that are named
above under the disagreements, and for which no property could be stated that
the code keeps, are not all repeated there.

## Plan

The order so far was by the damage a wrong interleaving does: jobs (a second
execution), ledger (a false statement about a device), approval (an unapproved
or repeated command), replay (a turn without an end), then the components that
keep the work of a session: turns, sub-agents, candidates, workflows, the loop,
tasks, memory, files, drawings, the record of the session itself and the
knowledge base.

Every safety property of a passing run is proved. What is left are parts of the
system that have no model yet: `FileJobQueue` as a second queue beside `JobQueue`; the
pruning of logs as an action of `TurnReplay`; several resources for one
operation in `OperationLedger`; the inspections of the network extension; the
gate of running operations in the local lifecycle.
