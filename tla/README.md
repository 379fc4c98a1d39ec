# Hufu in TLA+

Hufu runs teams of LLM agents. A coordinator plans tasks with a model, hands
batches of them to workers, records every state change in an append-only event
journal, and resumes from that journal after a crash. This directory holds
TLA+ models of the parts of that program whose correctness depends on the
order in which things happen, the TLC runs that check them, and theorems about
them that TLAPS proves. `src/` below is the repository.

## The system

| component | state it keeps | operations | what makes it hard |
| --- | --- | --- | --- |
| DAG scheduler (`internal/team/dag_scheduler.go`) | a table of task states, retry counters, slots, resource claims, an event channel | `run`, `launchReady`, `handleEvent`, `resetWave`, `routeCriterionRetry`, `drainInProgress`, `markStranded`; one goroutine per task | workers run while their producers are taken back; cancellation races results; several retry routes share counters |
| Durable task projection (`coordinator_eventstore.go`, `coordinator_session.go`, `task_occurrence.go`, `event_reducers.go`, `projection_shadow.go`, `status.go`) | the todo list, the journal it is replayed from, the checkpoint, a controller per task with the worker's lease | `commitTaskTransition`, `commitTaskResetForRetry`, creation, removal, resolution, leases and results, `saveCheckpoint`, the comparison at start | three copies of one list, changed under different locks; append first, apply second; saves that come late; a crash or a refused append in between |
| Event store (`event_store*.go`, `internal/eventchain`, `internal/runtimestore`) | the hash-chained `events` table, and per handle a validated cache, head and idempotency index | append (plain, at a head, as a batch), reload, verify, close | several handles and processes write one file; a commit whose outcome is unknown; files rewritten or replaced |
| Coordinator run loop (`coordinator_run.go`, `coordinator_execute.go`, `run_finalizer.go`) | rounds, delegation phase, finish state | plan, delegate, finish, wrap up | rejected finishes, cancellation, resume |
| Task execution (`coordinator_task_run.go`, `agent/`) | one attempt's conversation and receipts | `executeTask` | the scheduler hears of it only by an event |
| Cost governance (`cost_manager.go`, `token_budget.go`, `internal/cost`) | a projection of the cost events: prices, reservations, settlements, warnings, denials; the integrity latch | `Reserve`, `Settle`, `Rehydrate` | concurrent reservations under one budget; appends whose outcome is unknown; a crash between reservation and settlement |
| Provider admission and cooldowns (`agent/provider_request.go`, `provider_admission.go`, `external_cost_boundary.go`, `ollamaquota/cooldown.go`, `provider_quota.go`) | the provider's slots, an attempt's reservation, the gate and the deadline of an account | admit, commit, send, settle, release; wait, probe, reject | a stream has two finalizers; a cancellation races its end; callers queue for a gate and for slots at once |
| Terminal sessions (`terminal_session.go`, `terminal_broker.go`) | sessions, the user's lease | acquire, transfer, release, abandon, reconcile | lease expiry against use, restarts |
| Workspaces (`internal/workspace`, `workspace_version_*.go`, `attempt_workspace_*.go`) | a registry, locks, versions, isolated attempts | create, trash, collect, publish, integrate, recover | multi-step file operations and crashes |
| Invocation ownership, stall watchdog (`invocation_owner.go`, `coordinator_stall_watchdog.go`) | owner record, last progress | claim, renew, detect | stale owners, progress racing the timer |
| Decision runtime (`internal/decisionrt`, `decision_*.go`) | a decision journal and its projection | admit, run stages, finalize | writer lease, replay |
| Recovery and acceptance decisions (`disposition.go`, `completion_gate.go`, `commit_gate.go`, `repair_controller.go`) | none (pure) | `DecideRecovery`, gates | precedence among many conditions |
| Memory, context, tools, agents, TUI, inspection, improvement, packaging | | | content, presentation and external I/O |

The coordinator calls the scheduler once per delegation round with a batch of
tasks. The scheduler starts a goroutine per task; that goroutine commits its
task's outcome to the durable projection, which appends to the event store,
and only then sends its event to the scheduler. The scheduler keeps a table of
its own and reaches back into the projection when it resets, blocks or
terminalizes a task. So one task has two records that move at different times.
Inside the projection it has three more: the list in memory, the list its
events replay to, and the checkpoint. Every generation of every agent goes
through one wrapper, which waits out the account's cooldown, takes a slot of
the provider, reserves the cost in the same journal, and gives both back when
the call has ended.

## Modules

| module | models | lines |
| --- | --- | --- |
| `DagScheduler` | the scheduler of one delegation round and the workers it starts | `dag_scheduler.go`, and what it uses of `coordinator_failure.go`, `coordinator_task_run.go`, `decision_discipline.go`, `status.go`, `criteria.go` |
| `MCDagScheduler` | the batches the runs use | |
| `DagSchedulerProofs` | theorems about `DagScheduler` for every batch | |
| `EventLog` | what the journal promises: an abstract append-only log | the comments and tests of `event_store*.go` |
| `EventStore` | the journal file and the handles of several processes on it | `event_store.go`, `event_store_append.go`, `event_store_conditional.go`, `event_store_sqlite.go`, `eventchain/chain.go`, `runtimestore/store.go`, the triggers of `runtimestore/schema.go` |
| `MCEventStore` | the handles and requests the runs use | |
| `EventStoreProofs`, `EventStoreSafety`, `EventStoreRefinement` | theorems about `EventStore`: types, safety under every fault, the implementation of `EventLog` | |
| `TaskProjection` | the task list, its journal and its checkpoint under the operations of several goroutines | `coordinator_eventstore.go`, `coordinator_session.go`, `task_occurrence.go`, `task_transition_mode.go`, `event_reducers.go`, `projection_shadow.go`, `status.go` |
| `CostLedger` | reservations and settlements under the budget of a run | `cost_manager.go`, `internal/cost/projection.go` |
| `ProviderCalls` | generation attempts over slots and ledger; EXTENDS `CostLedger` | `agent/provider_request.go`, `provider_admission.go`, `external_cost_boundary.go`, `acquireSem` |
| `ProviderQuota` | the cooldown of one account and the request loop around it | `ollamaquota/cooldown.go`, `provider_quota.go`, the loop of `agent/provider_request.go` |
| `MCTaskProjection`, `MCProviderCalls`, `MCProviderQuota` | the instances the runs use | |
| `TaskProjectionProofs`, `CostLedgerProofs`, `ProviderCallsProofs`, `ProviderQuotaProofs` | theorems about the four modules, for all their constants | |

The modules meet at narrow interfaces. `DagScheduler` takes the commits of the
durable projection as steps that succeed or fail; `TaskProjection` is what such
a commit does. `TaskProjection` and `CostLedger` take an append to the journal
as a step that stores the event, refuses it, or leaves that unknown, and takes
a known key for stored; `EventStore` is what an append does, and its
`OneEventPerKey`, `RefusedLeavesNothing` and `AcknowledgedIsDurable` are what
those steps rely on. `ProviderCalls` is a composition proper: it drives the
actions of `CostLedger`, and every behaviour of it is one of the ledger
(`CallsImplementLedger`).

### DagScheduler

State and code:

| variable | code |
| --- | --- |
| `states`, `retries`, `needsReset`, `inProgress`, `critCounts`, `critUsed` | the fields of `dagScheduler` with these names (`criterionRetryCounts`, `criterionRetryUsed`) |
| `slots`, `active`, `sem` | the keys of `teamSlots` and `activeResources`, the permits taken from the team semaphore |
| `todo`, `resets` | status and `Retries` of each item in the todo projection |
| `starting`, `executing` | goroutines of `runTask` before and after `executeTask` has moved the item to in_progress |
| `events` | `eventCh` |
| `cache` | whether the task cache would satisfy the task |
| `cancelled` | `ctx.Err() # nil` |
| `pc`, `cursor` | where `run` stands, and the position of the scan of `launchReady` |
| `frontier`, `seen` | the queue and visited set of `resetWave` |
| `source`, `report` | the task whose event `handleEvent` has in hand, and what is still to be routed of it |

One action stands for one step that nothing else can interleave with. The scan
of `launchReady` visits one task per step (`PassOver`, `BlockDispatch`,
`NoPermit`, `Launch`, `EndScan`), because the context can be cancelled and
workers can commit between two visits; `resetWave` visits one task per step
(`SweepDefer`, `SweepReset`, `EndSweep`) for the same reason. The rest of
`handleEvent` is taken in two steps. The first (`TakeStale`, `TakeDone`,
`TakeFailure`) releases what the task held, notes the verdict and terminalizes
the durable item; it is the only one that looks at the context (line 208). The
second routes what was noted (`Route`): it queues a swept task again
(`DiscardStale`), sends a criterion retry out (`RouteCriteria`), or charges and
applies an `on_failure` edge (`FailAndStop`, `FailAndSelfHeal`, `FailAndJump`).
Between the two lies the journal I/O of the first, so a cancellation and any
worker may come there; the handler charges its retry all the same, and the
reset, which is admitted under the context, may fail. Checkpoints and refusals
(`HandleCheckpoint`, `HandleRefusal`) route nothing and are one step. A worker
has one action per way of ending, and `Execute` for the compare-and-set that
moves its task to in_progress. `Cancel` may happen at any time.

What the environment may do in a run is the constant `Faults`: cancel the
context (`cancel`), refuse an admission for budget or capability (`budget`,
`capability`), fail a task before it starts (`early`), lose a worker's own
commit (`unresolved`), stop a task at a checkpoint that pauses, replans or asks
for a refused escalation (`pause`, `replan`, `denied`), block a dispatch for
thrashing (`thrash`), and fail commits of the projection (`journal`). The
other inputs, which no run switches off, are success and failure of a task,
the class of the failure, and which criteria a task leaves unsatisfied.

Abstractions:

- A failure class is looked at only by an `on_failure` edge, so tasks without
  one fail with one class. `execution` stands for the classes whose own retries
  are exhausted, `contract` for those that end otherwise, `unclassified` for a
  failure without evidence.
- The workflow-phase policy is the disabled one that every team without phases
  runs with: it permits no phase retry of its own, takes the repair limit from
  `MaxRetries`, and refuses a repair only for a cancellation.
- No two tasks of a batch are twins: `checkDuplicateTasks`
  (`coordinator_taskcache.go:765`) marks the second as a duplicate, and a
  duplicate ends with an error (`RejectDuplicate`). That error is a contract
  failure without a retry of its own, which `selfHealEligible` accepts, so a
  duplicate with an edge may be queued again (`SelfHeals`; task 5 of
  `criterion`).
- The sweep of `resetWave` takes any order, where the code goes breadth first:
  the order shows only in which members a failed commit leaves unswept.
- Which failed criteria a result leaves is any subset of the task's repair
  targets.
- Only the reset of a task is admitted under the run's context, so only it can
  fail because of a cancellation; other commits use `context.WithoutCancel` and
  fail only under `journal`. Charge and reset of one retry are one step: what
  runs between them changes neither, and a cancellation there has the effect of
  one just before.
- Remediation text, reports, telemetry and prompts are left out.

Assumptions about a batch are named: `BatchAssumption` (types),
`AcyclicAssumption` (`detectTaskCycle`), `OnFailureAssumption`
(`validateOnFailureTargets`). TLC evaluates them in every run.

#### Properties

| property | states |
| --- | --- |
| `OneDispatchInFlight` | a dispatched task has exactly one goroutine or one unread event until its event is handled |
| `HoldingsMatchFlight` | permit, slot, claims, in-flight count and in_progress state are taken and given back together, and the limit holds |
| `NoConflictInFlight` | tasks with conflicting claims never run together |
| `BuiltOnDone` | a result the scheduler relies on was computed from producers that are still done |
| `RerunExecutes` | a task queued again is never served the result of an earlier attempt |
| `RetriesBounded` | neither failures nor criterion retries, nor a mix of them, exceed a task's budget, nor the criteria that of the batch |
| `DispatchedWhenPending` | only a task that is durably pending is dispatched |
| `WorkConserving` | the scheduler does not wait with a free permit and a launchable task |
| `StrandedOnlyByDependency` | a task is stranded only by a declared producer that is not done |
| `WaveReachesSource` | a reset wave sweeps the failed task that began it |
| `CancelledRunStartsNothing` | after cancellation nothing is dispatched, no further event is routed and drained events decide nothing; only the event in hand may still charge its one retry |
| `NothingLeftRunning` | when `run` returns no worker or event is left, and no item in_progress but one whose stale event was in hand at a cancellation |
| `VerdictIsDurable` | when `run` returns normally, done and blocked mean the same in both tables, but for that one task |
| `RunEnds` | every run returns |

`BuiltOnDone` leaves out producers a criterion may re-run (the code re-runs
such a task alone, on purpose) and batches with `journal` faults (a failed
commit abandons the wave), and says nothing once the run is cancelled,
which abandons it too. `VerdictIsDurable` is about normal returns: a run that
notices its cancellation leaves its table as it stands and returns an error.
`NothingLeftRunning` and `VerdictIsDurable` name the one task the code does
leave behind (`LeftByCancel`): `handleEvent` has noted the stale event of a
swept task as an error, the context ends, and the reset that was to queue the
task again is refused. The item stays as its worker left it, in progress or
done, and if nothing else is in flight the run still returns normally. The
exception is allowed only after a cancellation, for one task, and only if the
scheduler shows it as an error.

### EventStore

State and code:

| variable | code |
| --- | --- |
| `path` | which database file `runtime.sqlite` names now |
| `events`, `meta` | per file, the rows of the table `events` by sequence number and `event_journal_meta.rewrites` |
| `writer` | the transaction that holds the file's write lock |
| `closed`, `stateValid`, `cachedEvents`, `rewrites` | the fields of `EventStore` with these names; `lastHash`, `sequence` and the idempotency index are functions of `cachedEvents` and are not kept apart |
| `store` | the file `EventStore.store` has open, `NoFile` for nil |
| `mu` | who holds the one-token semaphore `EventStore.mu` |
| `pc`, `call` | where a caller stands in `appendPersistedEvents`, `reload` or `NewEventStore`, and what it asked for; `call.seen` is the rewrite counter `loadFullState` read |
| `got`, `acked`, `refused` | what calls returned: events, ids of all events ever returned, calls that ended in a definite error |

A call goes through the steps of `appendPersistedEvents` in their order:
`Admit` (acquire the semaphore), `ReadRewrites` and `LoadRows` when the state
is invalid (reload), `CheckCurrent`, `Begin` (BEGIN IMMEDIATE), `SyncTail` or
`SyncAll` (validate what others committed), then `HeadChanged`, `Replay`,
`Conflict`, or `Commit` and `Finish`. Each is a step of its own because other
processes, or the replacement of the file, can come in between. The error
exits are actions too: `GiveUp`, `AdmitClosed`, `ReopenFails`, `NoDatabase`,
`LoadFails`, `RefuseReplaced`, `Busy`, `SyncFails`, `WriteFails`,
`CommitFails`. `Verify`, `Open` and `Close` are the other operations of a
handle. `Crash` ends a process at any step; SQLite rolls its transaction back.
`CommitFails` is a COMMIT that reports an error: the rows may or may not be
stored, and the handle drops its state.

`Faults` says what may happen in a run: callers giving up (`cancel`), dead
processes (`crash`), failed inserts (`write`), commits of unknown outcome
(`commit`), updates and deletes of stored events that the triggers count
(`rewrite`), a change of the last row behind the triggers (`bypass`), the path
coming to name another file (`replace`), and a failed open (`openfail`).

Abstractions:

- SQLite is the environment: a transaction is atomic and isolated, one writer
  at a time holds a file, and a write-ahead log is part of its file.
- A handle stands for the one `EventStore` of a process. Two handles of one
  process share a connection (`runtimestore.Open`), which adds no
  interleavings of the journal beyond those of two processes.
- A row's hash is the flag `good`: the content of the row is what was hashed.
  Hash collisions, and an event rewritten together with all its successors,
  are left out.
- The unique index on idempotency keys is not modelled, so the appends alone
  have to keep keys unique.
- A journal that is removed is a replacement by an empty file. What is lost
  with a file is no longer counted as acknowledged.
- `AppendPersistedBoundedContext` is a call whose caller ignores the result.
- Redaction and validation of events, the run-report and grant indexes written
  in the same transaction, read-only opens, export and streaming are left out;
  a failure of an index is a failure of the write.

#### Properties

| property | states |
| --- | --- |
| `OneEventPerKey` | no two events of a journal bear one idempotency key |
| `ExtendsOnlySoundJournal` | events are added only to a journal sound at that moment, and leave it sound |
| `ConditionalAppendsFollowTheirHead` | an append at a head lands directly after that head |
| `ReadersSeeTheJournal` | readers of a handle see a beginning of the committed journal |
| `AcknowledgedIsDurable` | an event returned to a caller is in the journal of the path |
| `RefusedLeavesNothing` | a definite error means nothing is stored |
| `AnswersAreWhole` | an append answers with its whole batch, one stretch of the chain |
| `ReplaysOnlyWhatIsStored` | a known key is answered only with events still stored |
| `CallsReturn` | every call returns |
| `ImplementsLog` | the store implements `EventLog` |

The refinement mapping of `ImplementsLog` takes the log to be the rows of the
file the path names. A commit, also one whose outcome the caller never learns,
is `Extend`; the answer to the caller, later, is `Acknowledge`. The mapping
holds for runs without `rewrite`, `bypass` and `replace`: these take events
out of the log, or change them, outside the store.

### TaskProjection

State and code:

| variable | code |
| --- | --- |
| `live`, `next` | `TodoList.items` and `TodoList.next` |
| `control` | the `taskOccurrenceController` of each task: open, the lease, `reserved`, and whether a result is latched |
| `mu` | who holds `Coordinator.taskProjectionMu` |
| `emitted` | `emittedTaskTransitions` |
| `keys`, `replayed` | the idempotency keys of the stored events, and the list `reduceToTodoList` makes of them |
| `checkpoint` | `SessionData.Tasks` as saved |
| `admitted` | `RecoveryRequired` is not set |
| `proc` | the operation each goroutine is in, the task as it will leave it, and the snapshot of its save |

An operation of the coordinator goes through the steps of the code: begin (take
the lock, read and project the task), `AppendEvent`, `Apply` (the list changes
and `onChange` is called), then `saveCheckpoint` in its parts: `TakeSnapshot`
reads the list, `EmitMissing` appends what the journal does not have yet, one
event at a time, and `SaveSession` writes. `Revoke` closes the worker's lease
after a transition. The lifecycle operations (`move`, `retry`, `resume`,
`gate`) hold `taskProjectionMu` throughout; `create`, `remove`, `resolve`, and
the worker's own `lease` and `submit` do not, and that is where the
interleavings come from. A worker's result is reserved (`BeginSubmission`),
latched (`LatchResult`) and published (`PublishResult`) in three steps, with
the two identity checks the code makes between them. `Restart` compares the
checkpoint with `replayed` as `checkCanonicalProjectionShadow` does: agreement
admits, a checkpoint that is a proper beginning is repaired, anything else sets
`RecoveryRequired`.

Abstractions:

- A task is reduced to what the comparison of checkpoint and journal can tell
  apart: what it is to do, status, retries, detail, result, resolution, lease.
- The journal is kept as its keys and the list its events reduce to, because
  the reducer is a fold over the events in their order. It keeps the reducer's
  asymmetries: a status that is not terminal does not follow a terminal one
  unless the event is a reset, and a field an event leaves empty keeps its
  value.
- A result is known by the lease it was submitted under.
- `DispatchedRevision` is left out: `TrySetDispatchLease` does not compare it.
- Who calls the operations when is the callers' part and is stated in `Moves`
  and `Applies`: a retry after the execution has returned, a resume or a
  refresh of the gates only before any dispatch.

| property | states |
| --- | --- |
| `CompletionIsJournaled` | a finished task reaches the checkpoint only after its terminal event, and its result, are stored; in one event, until a repair at a restart has put a replayed list in the checkpoint's place |
| `ResultOfThisAttempt` | a late submission of an earlier attempt is not projected into a later one; after a restart, of the results under the current lease |
| `TerminalReplays` | what the list shows as finished replays as finished, whatever late saves append; with the same ending, unless the journal has another that an earlier state of the task put there; after a restart, of tasks with one retry |
| `CheckpointIsCurrent` | with nothing under way the checkpoint shows the list (violated, see Findings) |

### CostLedger and ProviderCalls

State and code:

| variable | code |
| --- | --- |
| `journal` | the cost events that are stored, as the set of what they say |
| `projection`, `integrity`, `mu` | the fields of `CostManager` |
| `run`, `runOf` | `executionRunID`, and the run each reservation names |
| `stage` | where each call stands in `Reserve` and `Settle` |
| `slots` | permits taken from the provider's semaphore |
| `call` | where the calling goroutine stands in `generateOnce` or `streamOnce` |
| `seen`, `early` | `providerStreamState.usage`, and the usage the `AfterFunc` captured |
| `hook`, `once` | the `AfterFunc` of the caller's context, and who runs the `sync.Once` finalizer, how far |

`Reserve` appends up to three events under the mutex, one action each
(`EnsurePrice`, `Warn`, `Book`, with `Decide` and `Deny`); `Settle` appends one.
An append may be refused, or stored although it reports an error (`lost`).
Around the ledger an attempt takes a slot, commits the resolved profile,
reserves, sends, and is finalized: a plain call by its own goroutine, a stream
by its consumer or by the `AfterFunc`, whichever enters `once.Do` first.
`Cancel` comes at any time, and the transport answers when it likes; a stream
may ignore its context. `Crash` ends every call; a new run rehydrates the
ledger.

Abstractions: amounts are micros, and an unknown price or an unbounded opaque
call is a billing mode; the price catalogue and the estimate of a bound are
inputs. The event of a key is a function of the key except for the warning,
whose conflict is modelled. Costs of different runs share one summary, whose
overflow (`MaxMicros`) is kept.

| property | states |
| --- | --- |
| `BudgetHolds` | when a call is admitted, the charges of all calls admitted in its run fit the budget |
| `UnsettledStopsRun` | after a settlement that could not be stored nothing more is admitted in that run, not even a call that was waiting for the mutex |
| `SlotsConserved` | every slot is held by one call and returned once, however consumer, cancellation and errors interleave |
| `TransportIsCharged` | while a transport may be spending, the budget counts its whole bound |
| `ReturnedIsSettled` | nothing is left open behind a caller |
| `CancelReturnsSlot` | a cancelled call gives its slot back, even if its stream never answers |
| `JournalReplays`, `AdmittedIsBooked`, `ProjectionIsCurrent` | what is stored replays; an admitted call is booked; a sound projection knows every charge (proved) |
| `CrashKeepsBudget` | a crash does not restore budget (violated, see Findings) |

### ProviderQuota

State and code:

| variable | code |
| --- | --- |
| `gate`, `loaded`, `integrity`, `until` | the fields of `account` |
| `saved` | the last cooldown event of the account in the journal |
| `at`, `outcome` | where a caller stands in `recover`, and how its transport answered |
| `probe` | the caller was handed a finish function, and the gate with it |
| `overtaken` | `availableAt` is not before the caller's `rejectedAt` |

A caller takes the gate (`Enter`), sleeps until the next check and asks for the
balance (`Paused`, `Queried`), and leaves with nothing, or as the probe with
the gate in its hand. It then competes for a slot, sends, and finishes. A
rejection asks for the gate again (`Rejected`, `Schedule`). A deadline is
`none`, `future` or `due`: the code compares it only with now. A balance that
cannot be had makes the caller the probe. Saves may be refused or lost, those
of a cancelled caller in any run, since a cancellation after the last look at
the context cuts the save off (`cooldown.go:170`, `211`); `Restart` begins a new
process from the journal.

| property | states |
| --- | --- |
| `GateIsHeld` | the gate is with the one caller that works on the account, through every error |
| `PausedWhileCooling` | only a probe leaves `Wait` during a cooldown, and nobody while another probes (a caller that left it before, and queues for a slot, may still send) |
| `ClearedStaysClear` | a rejection that waited while the cooldown was cleared does not bring it back |
| `EveryoneGetsTheGate` | every caller gets its turn |
| `CooldownIsJournaled` | a cooldown survives the process (proved) |

## Runs

| run | instance and faults | shows |
| --- | --- | --- |
| `fork` | 4 tasks: two over one producer, both with an edge back to it, a fourth below; limit 2; cancellation, replans, lost worker commits (1,184,120 states) | the reset wave with a sibling in flight, against every order of results and a cancellation at every point, inside a handler too; what a return leaves behind |
| `criterion` | 5 tasks with overlapping repair targets, conflicting claims, an ordering edge across a dependency, a duplicate that may heal itself; limit 2; budget refusals (76,832) | shared retry budgets, no dispatch of a task in flight, claims, ordering predecessors that can no longer start, work conservation |
| `journal` | 3 tasks, two over one producer, one that may not be replayed; limit 2; failed commits, cancellation and every checkpoint; fair (240,296) | every run ends, also when commits fail |
| `stranded` | 2 tasks, limit 1, a pause | a finding below |
| `writers` | 2 processes, one with two callers; 3 appends: a batch in two orders and one of its events alone, at heads or not; cancelled callers, crashes, failed writes and commits of unknown outcome | the store implements the log; readers, acknowledgements, refusals, whole answers to retries |
| `damage` | 2 processes, 2 files; batches and unkeyed events; updates, deletes, changes behind the triggers, replacement, failed opens | damage is neither extended nor replayed |
| `calls_return` | 3 callers, two of them on one handle, 3 appends, unknown commits, fair | every call returns |
| `provider_calls` | a stream and a plain call beside each other in 2 slots, a budget of two bounds, usage below and above a bound, a warning threshold, 2 runs; refused and lost appends, cancellation, crash; fair (74,482) | slots, charges, the budget, a cancelled stream that never answers |
| `crash_budget` | 3 calls, one of them an external execution, 2 runs, a crash | a finding below |
| `cooldown` | 2 callers, one of them cancellable, 1 slot; refused and lost saves, saves cut off by a cancellation, restarts; fair (2,283) | the gate, the pause, the probe, everyone's turn |
| `projection` | 2 goroutines, 1 planned and 1 created task, 2 dispatches, 1 retry, 5 operations of all nine kinds, 1 restart; appends may be refused | what the checkpoint shows as finished is stored and replays |
| `stale_checkpoint` | 2 goroutines, 1 creation, 2 moves, no faults | a finding below |

For the scheduler, each batch is the smallest in which its behaviour happens
while another task is in flight: a wave needs a producer, the task that fails,
and a sibling that runs; a shared target needs two tasks that judge it; a
predecessor that can no longer start needs a producer that failed and a task
ordered after it. Retry budgets of one are enough to reach exhaustion, and
`MaxReplans` bounds the only loop the code leaves to a model's decision. The
numbers of tasks, permits and retries are the only bounds; the theorems hold
without them.

`journal` assumes weak fairness of the scheduler goroutine, which never blocks
except on the channel or the context, and of each worker, which ends because
`executeTask` runs under the agent's timeout. Fairness of `Cancel` is not
assumed.

`writers` makes three appends: an append by one process, one by another that
the first has not seen, and a retry by the first. `damage` makes two, since a
batch of two gives a first call enough to be damaged by the time of a second;
two keys suffice to tell a scattered batch from a whole one. One rewrite moves
the counter and one change behind the triggers leaves it; a second file is what
the path can come to name. The theorems hold without these bounds, and some
cases only they cover: `writers` rewrites nothing, so `OneEventPerKey` over
rewrites is `EveryKeyHasOneEvent`; and it records no key by two separate
appends or with other content, so those retries are `AnswersAreWholeBatches`.

`calls_return` assumes strong fairness of each caller's own steps: Go serves
the waiters of a channel in their order, so a caller that is again and again
able to take the semaphore does take it, and SQLite's busy handler either gets
the lock or ends the call (`Busy`).

`provider_calls` has one call of each kind the wrapper distinguishes and two
slots, so that both may be at the provider, with two reservations open and both
callers at the mutex. The budget admits both bounds, but not one bound beside a
charge above the other: a call that is let pass while its neighbour settles
above its bound is then over the budget, unless deciding and booking are under
one mutex, which is what the mutant of `BudgetHolds` takes away. Budgets in
which the open reservation of one call alone refuses another, and callers that
queue for a slot, need a third call; with three the safety properties have four
million states and the liveness property is out of reach, so these cases rest on
`AdmissionsFitTheBudget`, `NoCallOversubscribes` and `SlotsAreConserved`, which
have no such bounds. Two runs are what a settlement or a crash can fall between.
Calls make one attempt each, so the run stops
(`CHECK_DEADLOCK FALSE`). Strong fairness is assumed of each goroutine's own
steps, since Go hands a contended mutex and a buffered channel to their waiters
in turn, and of the answer to a plain call whose context is done, since the
HTTP client watches it. Taking a slot, and every step of a stream's
transport, need not happen.

`cooldown` is small because the gate admits one caller: two are enough for one
to hold it while the other is in each of its stations. With three callers the
safety properties pass as well. It assumes that goroutines run, that the gate
and the slots (buffered channels) serve their waiters in turn, that time
passes, that a query returns within `balanceTimeout`, that a transport answers
(the stall watchdog cancels one that does not), and that the balance does not
say "exhausted" for ever.

`projection` bounds the operations, since every goroutine could go on for ever;
five are enough for a dispatch, a submission, a completion and a retry with a
delayed save of another goroutine among them. When the bound is reached, or
recovery is required, nothing moves (`CHECK_DEADLOCK FALSE`). The goroutines
are interchangeable, and `projection` and `stale_checkpoint` use their
symmetry; `writers` uses that of its values, without liveness.

## What is proved

### DagScheduler

`DagSchedulerProofs` proves for every batch, limit and set of faults that
satisfies the assumptions, with every obligation checked by TLAPS:

| theorem | property |
| --- | --- |
| `TypeCorrect` | `TypeOK` |
| `DispatchedOnce` | `OneDispatchInFlight` |
| `ClaimsRespected` | `NoConflictInFlight` |
| `HoldingsExact` | `HoldingsMatchFlight` |
| `RetriesStayBounded` | `RetriesBounded` |
| `CancelledStartsNothing` | `CancelledRunStartsNothing` |
| `RerunsExecute` | `RerunExecutes` |
| `RunLeavesNothingRunning` | `NothingLeftRunning` |
| `WavesReachTheirSource` | `WaveReachesSource` |
| `ResultsBuiltOnDone` | `BuiltOnDone` |
| `DispatchFindsPending` | `DispatchedWhenPending` |
| `VerdictsAreDurable` | `VerdictIsDurable` |
| `NeverRestsOnReadyTask` | `WorkConserving` |
| `StrandedForACause` | `StrandedOnlyByDependency` |

The last four have hypotheses on `Faults`, and each is needed: TLC refutes the
property as soon as it is dropped.

| theorem | assumes | because |
| --- | --- | --- |
| `DispatchFindsPending` | no `denied` | a refused escalation blocks the task durably and queues it |
| `VerdictsAreDurable` | no `journal`, every task replayable | a lost commit leaves the two tables apart; so does a reset of a done task that may not be replayed |
| `NeverRestsOnReadyTask` | `Restful`: no `pause`, `journal`, `thrash` | a checkpoint frees a permit without a scan; a reset whose commit fails, in a wave or in self-healing, ends without a scan; a thrash block inside a scan frees a task the scan has passed |
| `StrandedForACause` | `Restful`, no `cancel` | what a scan did not reach because the context ended is stranded with the rest |

The argument is built in layers, each an inductive invariant that contains the
one it rests on. `FlightInv` says where a dispatched task
is: it holds a slot exactly as long as it has one goroutine that has not begun,
one that executes, or one unread event, and while it does the scheduler's
table shows it in progress; this is what keeps resets, criterion retries and
blocks away from it, and none of the three parts is inductive alone.
`HoldingInv` adds the counts and the fact that a checkpoint event finds the
status its worker wrote, because otherwise `handleEvent` could adopt
in_progress for a task that runs nowhere. `CacheInv` adds that an executing
task, and one that reported a replan, has no stored result. Each action
preserves each part; `HandleSparesOthers` and `SchedulerSparesSlots` state
once what the actions leave alone.

Because a handler takes two steps, `FlightInv` also says what holds between
them (`TakenUp`): the task in hand has left the flight and is noted as its event
said. That is all the routing may rely on after a cancellation, and the theorems
about cancelled runs rest on it and on no atomicity of the handler.
`CancelledStartsNothing` allows the charge such a handler still makes, and
nothing else.

`StatusInv` relates the scheduler's table to the durable one: an event can only
carry the statuses its worker may have left (`Carried`), so that a task the
scheduler queues is queued durably as well. `EndInv` collects in `Unsettled` the
tasks outside the flight that are durably in progress, or on which the two
tables disagree about done and blocked. There is at most one, and only in two
situations (`MayBeLeft`): between the discard of a stale event and the reset of
its task, or for good once that reset was refused to a cancelled run. The second
follows from the first because a failed reset leads back to the loop, and a
cancelled run takes up no further event there, so that no second task can join
it. `RunLeavesNothingRunning` and `VerdictsAreDurable` are that invariant where
`run` returns. `WaveClosed` says that everything that depends on a visited
task is visited or queued; when the frontier is empty the visited set is
closed under dependents, and by `OnFailureAssumption` the failed task is in it.
`BuiltInv` says that whatever relies on a producer finds it done, or waits in
the frontier of the wave that took it back; the property is that invariant
between waves, and alone it is not inductive. `ScanInv` says that nothing before
`launchReady`'s cursor could be dispatched: a launch only makes others less able
to start (`LaunchSettlesNothing`), and every handler that can make one able
begins a new scan.

Model-checked only: `RunEnds`, since liveness is outside what the proof system
handles.

### EventStore

Three modules prove, for any number of handles, callers, files, keys and
calls:

| theorem | property | assumes |
| --- | --- | --- |
| `StoreTypeCorrect` | `TypeOK` | |
| `EveryKeyHasOneEvent` | `OneEventPerKey` | |
| `DamagedChainsAreNotExtended` | `ExtendsOnlySoundJournal` | |
| `ReplaysAreStored` | `ReplaysOnlyWhatIsStored` | |
| `AnswersAreWholeBatches` | `AnswersAreWhole` | |
| `RefusalsLeaveNothing` | `RefusedLeavesNothing` | |
| `ConditionalAppendsLand` | `ConditionalAppendsFollowTheirHead` | |
| `ReadersAreTruthful` | `ReadersSeeTheJournal` | `Untampered` |
| `AcknowledgedStays` | `AcknowledgedIsDurable` | `Undisturbed` |
| `StoreImplementsLog` | `ImplementsLog` | `Undisturbed` |

`Untampered` says that `Faults` has neither `rewrite` nor `bypass`,
`Undisturbed` that it has no `replace` either. Without them the last three
properties are false: a replaced file takes acknowledged events with it. All the others
hold under every fault.

The argument rests on one relation, `CacheOf`: what a handle has cached is a
chain, and as long as the rewrite counter it remembers is the one stored, the
rows of its file begin with that chain, except that the last row of the file
may have gone bad. That exception is what makes the relation inductive under
`bypass`, and it is why the check of the head row in `prefixRewritten` is
needed beside the counter. Around it `StoreInv` says what each stage of a call
knows: a transaction that validates holds the write lock (`LockOf`), a reload
remembers a counter no newer than its rows (`LoadingOf`: the order of the two
statements in `loadFullState`), after validation cache and file are equal
(`SyncedOf`), and what was committed still follows the file until it is
published (`CommittedOf`). From `SyncedOf` the idempotency index is the index
of the file itself, which gives unique keys, sound extensions and truthful
replays.

`NumbersInv` adds whose events are where: numbers of calls in progress are
distinct, a call that has not committed has stored nothing, a refused one never
will. It gives `RefusalsLeaveNothing`, and that a row added by a conditional
append is the one the theorem speaks of. For the undisturbed file, `CleanInv`
(no counter moves, no row goes bad) and `LogInv` (the path still names the
first file, which is a sequence that holds all acknowledged ids) carry the
refinement.

Model-checked only: `CallsReturn`, a liveness property.

### TaskProjection

For any number of goroutines, tasks, dispatches, retries, operations and
restarts:

| theorem | property | assumes |
| --- | --- | --- |
| `TypesHold` | `TypeOK` | |
| `ResultsAreOfTheirAttempt` | `ResultOfThisAttempt` | |
| `CompletionsAreJournaled` | `CompletionIsJournaled` | |
| `EndingsReplay` | `TerminalReplays`, until the first restart | no `lost` |

`AttemptInv` is about the copies of a task. A lifecycle operation writes the
task as it read it several steps before, so its copy must still count the
retries the list counts and carry the right result
(`ProjectionsAreCurrent`, `ResultsAreCurrent`): that holds because those
operations hold `taskProjectionMu` throughout, while a worker's publication,
which does not, is compared with the lease of the task (`LeasesAreCurrent`)
in the same step in which it writes.

`JournalInv` says that every ending and every result the replayed list shows has
its event (`ReplayedIsJournaled`), so a repair may take that list, and that what
counts as emitted is in the journal, so a save that finds nothing missing may
write. A snapshot read before a later change is covered because its tasks were
checked against the journal, and events are never taken out.

`EndingInv` orders the states of a task: each state the journal has, or that a
snapshot can still append (`Stored`, `Seen`), precedes the one the list shows
(`SeenPrecedes`). Among the events of one attempt an ending is never followed by
a reset, and the reducer does not let a status that is not terminal follow a
terminal one, so an ending of the current attempt keeps the copy finished
(`EndingsAreKept`); a list that shows an ending has stored it
(`EndingsAreStored`). None of the three is inductive alone.

Model-checked only: `TerminalReplays` after a restart. With two retries it is
false there, as observed below, and its exemption for that case is part of the
property; with a lost acknowledgement (`lost`), which the run does not have, it
is false from the start.

### CostLedger and ProviderCalls

For any calls, targets, billing modes, bounds and faults, with or without a
budget, streams and external executions:

| theorem | property |
| --- | --- |
| `LedgerIsTyped` | `LedgerTypeOK` |
| `StoredLedgerReplays` | `JournalReplays` |
| `AdmittedCallsAreBooked` | `AdmittedIsBooked` |
| `BudgetSeesTheJournal` | `ProjectionIsCurrent` |
| `UnsettledRunAdmitsNothing` | `UnsettledStopsRun`, of the ledger |
| `AdmissionsFitTheBudget` | `BudgetHolds`, of the ledger |
| `CallsAreTyped` | `TypeOK` of `ProviderCalls` |
| `SlotsAreConserved` | `SlotsConserved` |
| `TransportCharged` | `TransportIsCharged` |
| `ReturnedCallsAreSettled` | `ReturnedIsSettled` |
| `CallsImplementLedger` | every behaviour of `ProviderCalls` is one of `CostLedger` |
| `NoAdmissionAfterUnsettled` | `UnsettledStopsRun`, of the calls |
| `NoCallOversubscribes` | `BudgetHolds`, of the calls |

`LedgerInv` relates journal and projection: the projection is part of the
journal, the two differ in a settlement only when integrity is latched, and in
a reservation only of a call that was not admitted; the holder of the mutex is
the one call in the middle of `Reserve`, and it runs in the current run. None
of it is inductive alone: that a reservation names a stored price holds because
`Reserve` published the price before, under the same mutex. An unsettled call
of the current run implies the latch, and the latch implies that nobody is
between the check and the booking, because both happen under the mutex. Since
the wrapper's steps are steps of the ledger, that theorem carries over by the
refinement.

`BudgetInv` adds to it that a call that `Decide` has let pass still fits
(`DecidedFits`): what it was compared with can grow only by a reservation or a
settlement, and the mutex keeps both out until the call is booked. When it is
booked, every admitted call of its run is among those the comparison counted,
because the projection knows what the journal has, and none is charged more than
it was counted at. That the sums then compare needs facts about `Total`, which
folds over a set by choosing its members one by one: a sum exists for every
finite set (`SumsExist`), gains one charge by one call whatever the order
(`TotalAdds`), and grows with the set and with the charges (`TotalGrows`).
These are inductions over the size of a set, carried out as arguments by a set
of least size that would be a counterexample.

`CallInv` ties the three positions of a call together: where the caller stands,
where the ledger has it, and how far the finalizer has come. From it a slot is
released only by a call that holds one, which gives the count, and a settlement
is attempted only for an open reservation.

Model-checked only: `CancelReturnsSlot`, a liveness property.

### ProviderQuota

For any callers, slots and faults:

| theorem | property |
| --- | --- |
| `QuotaIsTyped` | `TypeOK` |
| `GateAlwaysHeld` | `GateIsHeld` |
| `RejectionsDoNotReturn` | `ClearedStaysClear` |
| `CooldownSurvives` | `CooldownIsJournaled` |
| `OnlyTheProbeGetsThrough` | `PausedWhileCooling` |

`QuotaInv` adds to the properties where a probe may stand, what deadline is in
force while it is under way, and that only callers at the transport hold slots.

Model-checked only: `EveryoneGetsTheGate`, a liveness property.

## Findings

Shown by a run:

- **A checkpoint can strand an unrelated task** (`stranded`). The checkpoint
  branch of `handleEvent` frees the permit and returns without `launchReady`;
  if nothing else runs, a task that waited for that permit is blocked as if a
  dependency had failed. A cancellation has the same effect by another way: if
  the context ends while the last event is handled, `launchReady` refuses to
  start anything, the loop in `run` ends normally because nothing is in
  flight, and `markStranded` (line 226) blocks tasks whose producers are all
  done. The run with `Faults = {"cancel"}` violates the same property.
- **A crash restores budget** (`crash_budget`). A reservation that a crash left
  open survives replay, but `KnownMicrosForRun` counts only the reservations of
  one run identity, and the run that resumes has a fresh one. The architecture
  note says that a crash does not silently restore budget.
- **A checkpoint can stay behind the list** (`stale_checkpoint`).
  `saveCheckpoint` reads the tasks before it takes `sessionMu`, so two savers
  can write in the other order than they read, and an older list stays until a
  later change saves again. The journal has the events, so a restart repairs a
  checkpoint that is a beginning of the replayed list and refuses to admit a
  run otherwise.

Further observations, read from the code while modelling it or met when an
attempted proof failed; they are not findings of a run, though the models have some of them:

- `dag_scheduler.go:281`: a thrash block inside a scan settles a task. A task
  ordered after it may stand before the cursor and is not looked at again; when
  nothing else is in flight, `markStranded` blocks it although it could start.
- `dag_scheduler.go:318`: the event of a swept task is noted as an error before
  its task is queued again, and the reset is admitted under the context. A
  cancellation between the check at line 208 and the admission makes the reset
  fail; the handler returns without a scan, and if nothing else is in flight
  `run` returns normally with the task as an error, while the durable item stays
  in progress or done. `LeftByCancel` is this case, and without that exception
  `fork` violates `NothingLeftRunning` and `VerdictIsDurable`.
- `dag_scheduler.go:434`, `449`, `572`: a retry is charged without a further
  look at the context. One that is charged after a cancellation is spent for
  nothing: its reset is refused, or queues a task that no scan will reach.
- `event_reducers.go:1197`: a reset clears the candidate, the output and the
  verification of a task in the replayed list, but not its typed result, while
  the list drops all four. After a retry of a task that had submitted, the two
  differ: a restart whose checkpoint lags behind repairs it with the result of
  the earlier attempt, any other requires recovery.
- `coordinator_eventstore.go:643`: a save that is delayed over two retries
  appends a state of the second attempt after the reset of the third, and replay
  is back in the second attempt. A restart whose checkpoint agrees with it
  continues from there; the retries that follow find their keys stored and
  append nothing, so the list shows an ending while the journal shows the task in progress.
- `coordinator_session.go:817`, the save after a repair: the ending of a task and
  its result in the checkpoint may come from two different events, neither of
  which shows both.
- `dag_scheduler.go`: the durable task of a refused escalation is blocked, but
  the event still says escalate, and `handleEvent` queues and starts it again.
- `dag_scheduler.go`: a completed task that may not be replayed is blocked in
  the scheduler's table, while the transition from done to blocked is refused
  and only logged.
- `event_store_append.go`: the append checks that the path still names its file
  and then waits for the write lock without checking again; a file that is
  replaced meanwhile receives the append, which is acknowledged.
- `event_store.go`, `reopenIfReplaced`: the stale store is dropped before the
  new one is opened; if that fails, every later call ends at "event store
  database is unavailable" without another attempt.
- `coordinator_eventstore.go`, `taskTransitionEventKey`: the key is the state
  of the task, so a task that comes back to an earlier state (a resume that
  leaves the same detail, for instance) appends nothing, and the journal stays
  behind the list, against the comment above the function.
- `coordinator_eventstore.go`: after a removal an id can be used again by the
  next process, and a task with the same description and id takes the stored
  creation event for its own.
- `coordinator_eventstore.go:778`: a crash after the append of a transition and
  before the checkpoint makes the two differ in a status, which the comparison
  answers with `RecoveryRequired`; the comment expects replay to win.
- `event_reducers.go`: the reducer keeps a terminal status against an event
  that is not terminal, but `CanTransition` allows error and blocked back to
  in_progress; such a transition, and the refresh of a stale gate of a finished
  task, replay as finished.
- `task_occurrence.go`: the rollback of a stale submission clears `reserved`
  without the identity check that commit makes, so it can take back the
  reservation of the lease that followed; that lease's commit is then refused
  as stale. `TaskProjection` models it; the worker may submit again.
- `ollamaquota/cooldown.go:191`: the comment expects an error of a request sent
  before the clearing to be ignored, but `rejectedAt` is the time of the
  answer, so one that is answered after the clearing schedules a new cooldown.
- `cost_manager.go`: a warning event that was stored although its append
  reported an error conflicts with the warning of every later call that
  crosses the threshold, and all of them are refused until the next run.
- `provider_admission.go:76`: the slot is said to be held until the transport
  has ended; a cancellation returns it through the `AfterFunc` while a stream
  may still be running.

## Not modelled, and the plan

The components table in `PROJECT.json` lists every part with its reason. In
order of importance the next steps are:

1. What remains of the theorems: `TerminalReplays` after restarts, for tasks
   with a single retry, as the property states it.
2. The coordinator's run loop around the scheduler: rounds, finish, wrap-up and
   the run result, with `TaskProjection` below it.
3. `TerminalLease`, `InvocationOwner`, workspace lifecycle: leases and locks
   with expiry and crashes.
4. Pure decisions (`DecideRecovery`, the completion and commit gates) as
   operators checked against reference definitions.

Left out for good: model conversations, tools, retrieval and ranking, the TUI,
inspection and packaging. Their behaviour is content and I/O; where a modelled
component depends on it, it is an input that may take any value. They are also
most of the repository's lines, so the share of the source that the modules
stand for is small: the models go where the order of steps decides.
