---------------------------- MODULE DagScheduler ----------------------------
(***************************************************************************)
(* The scheduler of one delegation round (internal/team/dag_scheduler.go). *)
(*                                                                         *)
(* One goroutine, run(), owns every scheduler variable.  It starts a       *)
(* goroutine per dispatched task and hears of it again only through the    *)
(* buffered channel eventCh.  A worker commits its own outcome to the      *)
(* durable todo projection before it sends its event, so the scheduler's   *)
(* table (states) and the durable one (todo) move separately.              *)
(*                                                                         *)
(* The loops of the code that can be overtaken by a worker or by a         *)
(* cancellation are taken one iteration per step: the scan of launchReady  *)
(* (cursor) and the breadth-first sweep of resetWave (frontier, seen).     *)
(* handleEvent is taken in two: what it notes of an event, and what it has *)
(* the run do about it.  It looks at the context only before the first,    *)
(* while the resets of the second are admitted under the context.          *)
(*                                                                         *)
(* Task i of the model is task i-1 of the batch.  The workflow-phase       *)
(* policy is the disabled one every plain team runs with, and a task has   *)
(* no in-flight twin, because checkDuplicateTasks marks the second of two  *)
(* identical tasks as a duplicate before the scheduler sees it.            *)
(***************************************************************************)
EXTENDS Integers, FiniteSets, Sequences

CONSTANTS
    NTasks,         \* number of tasks in the batch
    DependsOn,      \* DependsOn[i]: declared producers of task i
    OrderAfter,     \* OrderAfter[i]: runtime ordering predecessors of task i
    OnFailure,      \* OnFailure[i]: the task a failure of i jumps back to, or NoTask
    OnFailureClasses, \* OnFailureClasses[i]: the failure classes that may jump; {} allows all
    MaxRetries,     \* MaxRetries[i]: the DAG retry budget of task i
    RepairTargets,  \* RepairTargets[i]: repair and outcome tasks advancing a criterion of i
    Claims,         \* Claims[i]: the resource claims of task i
    Replayable,     \* tasks CanAutomaticallyReplay accepts
    Duplicates,     \* tasks flagged as duplicate delegations
    Precached,      \* tasks whose output an earlier round left in the cache
    Limit,          \* team concurrency limit, 0 for none
    MaxReplans,     \* bound: checkpoint replans the environment performs
    Faults          \* the disturbances the environment may produce

Tasks == 1 .. NTasks

NoTask == 0

\* The failure classes as the on_failure edge tells them apart: "execution"
\* stands for those that end with no retry left, "contract" for those that end
\* otherwise, and a failure without evidence is unclassified.
FailureClasses == {"semantic", "execution", "contract", "cancelled", "unclassified"}

AllFaults == {"cancel", "budget", "capability", "early", "unresolved",
              "pause", "replan", "denied", "thrash", "journal"}

Terminal == {"done", "skipped", "error", "blocked"}

SchedulerStates == {"pending", "in_progress", "paused"} \cup Terminal

EventKinds == {"ok", "error", "budget", "capability", "checkpoint", "replan"}

\* What handleEvent has to route: the stale event of a swept task, a success,
\* or a failure of some class.
Reports == {"stale", "ok"} \cup FailureClasses

\* Everything reachable from task i along depends_on, by any number of edges.
IsAncestor(t, i) ==
    \A S \in SUBSET Tasks :
        (DependsOn[i] \subseteq S /\ \A j \in S : DependsOn[j] \subseteq S) => t \in S

ASSUME BatchAssumption ==
    /\ NTasks \in Nat \ {0}
    /\ DependsOn \in [Tasks -> SUBSET Tasks]
    /\ OrderAfter \in [Tasks -> SUBSET Tasks]
    /\ MaxRetries \in [Tasks -> Nat]
    /\ OnFailure \in [Tasks -> Tasks \cup {NoTask}]
    /\ OnFailureClasses \in [Tasks -> SUBSET FailureClasses]
    /\ RepairTargets \in [Tasks -> SUBSET Tasks]
    /\ Claims \in [Tasks -> SUBSET (STRING \X {"read", "write"})]
    /\ Replayable \subseteq Tasks
    /\ Duplicates \subseteq Tasks
    /\ Precached \subseteq Tasks
    /\ Limit \in Nat
    /\ MaxReplans \in Nat
    /\ Faults \subseteq AllFaults

\* detectTaskCycle: no set of tasks waits only on itself.
ASSUME AcyclicAssumption ==
    \A S \in (SUBSET Tasks) \ {{}} :
        \E i \in S : (DependsOn[i] \cup OrderAfter[i]) \cap S = {}

\* validateOnFailureTargets: a failure jumps to the task itself or an ancestor.
ASSUME OnFailureAssumption ==
    \A i \in Tasks : OnFailure[i] \in {NoTask, i} \/ IsAncestor(OnFailure[i], i)

VARIABLES
    pc,           \* where run() stands
    cursor,       \* launchReady: the next batch position to visit
    frontier,     \* resetWave: tasks queued for the sweep
    seen,         \* resetWave: tasks the sweep has visited
    source,       \* handleEvent: the task whose event is being handled
    report,       \* handleEvent: what is still to be routed of that event
    cancelled,    \* ctx.Err() # nil
    states,       \* dagScheduler.states
    todo,         \* canonical status of each task in the todo projection
    resets,       \* TodoItem.Retries
    retries,      \* dagScheduler.retries
    critCounts,   \* dagScheduler.criterionRetryCounts
    critUsed,     \* dagScheduler.criterionRetryUsed
    needsReset,   \* dagScheduler.needsReset
    inProgress,   \* dagScheduler.inProgress
    sem,          \* permits taken from the team semaphore
    slots,        \* keys of dagScheduler.teamSlots
    active,       \* keys of dagScheduler.activeResources
    starting,     \* starting[i]: goroutines of i that have not begun to execute
    executing,    \* executing[i]: goroutines of i inside executeTask
    events,       \* eventCh
    cache,        \* cache[i]: a stored result would satisfy task i
    replans       \* checkpoint replans performed so far

\* What the scheduler goroutine owns, what the workers own, and the rest.
sweep    == <<frontier, seen, source, report>>
control  == <<pc, cursor, sweep>>
counters == <<retries, critCounts, critUsed>>
holdings == <<inProgress, sem, slots, active>>
workers  == <<starting, executing>>
vars == <<control, cancelled, states, todo, resets, counters, needsReset,
          holdings, workers, events, cache, replans>>

-----------------------------------------------------------------------------
(* Reading the batch *)

ClaimsConflict(i, j) ==
    \E a \in Claims[i], b \in Claims[j] :
        a[1] = b[1] /\ (a[2] # "read" \/ b[2] # "read")

ConflictIgnored(i) == FALSE

ResourceConflict(i) == \E j \in active \ {i} : ClaimsConflict(i, j)

RevDepsDropped(i) == {}

RevDeps(i) == {j \in Tasks \ {i} : i \in DependsOn[j]}

\* cannotStart: the least set of pending tasks with a producer that finished
\* without being done, or that is itself in the set.
CannotStart(i) ==
    \A S \in SUBSET Tasks :
        (\A j \in Tasks :
            (/\ states[j] = "pending"
             /\ \E d \in DependsOn[j] : states[d] \in Terminal \ {"done"} \/ d \in S)
            => j \in S)
        => i \in S

OrderPredecessorsFinished(i) == \A p \in OrderAfter[i] : states[p] \in Terminal

OrderPredecessorsSettled(i) ==
    \A p \in OrderAfter[i] : states[p] \in Terminal \/ CannotStart(p)

ReadyToLaunch(i) ==
    /\ \A d \in DependsOn[i] : states[d] = "done"
    /\ OrderPredecessorsSettled(i)

\* maxCriterionRetryBudget
CriterionRetryBudget == 2 * NTasks

-----------------------------------------------------------------------------
(* The durable projection *)

CanTransitionNoEarlyBlock(from, to) ==
    \/ from = to
    \/ from = "pending" /\ to \in {"in_progress", "done", "error"}
    \/ from = "in_progress" /\ to \in {"paused", "done", "blocked", "error"}
    \/ from = "paused" /\ to \in {"in_progress", "blocked", "error"}
    \/ from = "error" /\ to \in {"in_progress", "blocked"}
    \/ from = "blocked" /\ to = "in_progress"

\* CanTransition, between the statuses this component uses.
CanTransition(from, to) ==
    \/ from = to
    \/ from = "pending" /\ to \in {"in_progress", "done", "blocked", "error"}
    \/ from = "in_progress" /\ to \in {"paused", "done", "blocked", "error"}
    \/ from = "paused" /\ to \in {"in_progress", "blocked", "error"}
    \/ from = "error" /\ to \in {"in_progress", "blocked"}
    \/ from = "blocked" /\ to = "in_progress"

\* persistFailureRecord logs a transition that is refused, or whose append
\* fails, and carries on: the status a task may be left with.
Persisted(from, to) ==
    {IF CanTransition(from, to) THEN to ELSE from}
        \cup (IF "journal" \in Faults THEN {from} ELSE {})

TerminalizedByWorkerOnly(i, kind) == {todo[i]}

\* terminalizeTaskErrorIfUnresolved
Terminalized(i, kind) ==
    CASE kind = "budget" /\ todo[i] \notin Terminal -> Persisted(todo[i], "error")
      [] kind = "capability" /\ todo[i] = "in_progress" -> Persisted(todo[i], "blocked")
      [] kind = "error" /\ todo[i] = "in_progress" -> Persisted(todo[i], "error")
      [] OTHER -> {todo[i]}

JumpTargetFromZero(i) == OnFailure[i] - 1

JumpTarget(i) == OnFailure[i]

\* The target of the edge is told what failed, unless it failed itself.
Remediated(i) == i = JumpTarget(source) /\ i # source

\* resetTaskWithRemediation on a task with scheduler state st and durable
\* status td: what it may leave, and whether it reports success.  A new attempt
\* is admitted under the run's context, so a cancellation can fail it; what a
\* pending task is told is only appended.
ResetOutcomes(i, st, td) ==
    LET failed == [state |-> st, todo |-> td, again |-> 0, ok |-> FALSE]
    IN  IF st = "pending"
        THEN {[state |-> st, todo |-> td, again |-> 0, ok |-> TRUE]}
                \cup (IF Remediated(i) /\ "journal" \in Faults THEN {failed} ELSE {})
        ELSE IF i \notin Replayable
             THEN {[state |-> "blocked", todo |-> t, again |-> 0, ok |-> TRUE] :
                        t \in Persisted(td, "blocked")}
             ELSE {[state |-> "pending", todo |-> "pending", again |-> 1, ok |-> TRUE]}
                    \cup (IF "journal" \in Faults \/ cancelled THEN {failed} ELSE {})

StaleCacheKept(S) == cache

Invalidated(S) == [u \in Tasks |-> cache[u] /\ u \notin S]

-----------------------------------------------------------------------------
Init ==
    /\ pc = "start"
    /\ cursor = 1
    /\ frontier = {}
    /\ seen = {}
    /\ source = NoTask
    /\ report = "none"
    /\ cancelled = FALSE
    /\ states = [i \in Tasks |-> "pending"]
    /\ todo = [i \in Tasks |-> "pending"]
    /\ resets = [i \in Tasks |-> 0]
    /\ retries = [i \in Tasks |-> 0]
    /\ critCounts = [i \in Tasks |-> 0]
    /\ critUsed = 0
    /\ needsReset = [i \in Tasks |-> FALSE]
    /\ inProgress = 0
    /\ sem = 0
    /\ slots = {}
    /\ active = {}
    /\ starting = [i \in Tasks |-> 0]
    /\ executing = [i \in Tasks |-> 0]
    /\ events = <<>>
    /\ cache = [i \in Tasks |-> i \in Precached]
    /\ replans = 0

\* The caller cancels the run's context, at any time.
Cancel ==
    /\ "cancel" \in Faults
    /\ ~cancelled
    /\ pc \notin {"returned", "aborted"}
    /\ cancelled' = TRUE
    /\ UNCHANGED <<control, states, todo, resets, counters, needsReset, holdings,
                   workers, events, cache, replans>>

-----------------------------------------------------------------------------
(* launchReady *)

\* The event in hand, if there was one, is handled.
Handled == source' = NoTask /\ report' = "none"

\* Every path into launchReady begins its scan at the first task.
BeginScan == pc' = "launch" /\ cursor' = 1 /\ Handled /\ UNCHANGED <<frontier, seen>>

\* Back to the loop of run(), without a scan.
Await == pc' = "wait" /\ Handled /\ UNCHANGED <<cursor, frontier, seen>>

Start ==
    /\ pc = "start"
    /\ IF cancelled THEN pc' = "aborted" /\ UNCHANGED <<cursor, sweep>>
                    ELSE BeginScan
    /\ UNCHANGED <<cancelled, states, todo, resets, counters, needsReset, holdings,
                   workers, events, cache, replans>>

\* The scan stops at its end, and before any task once the run is cancelled.
EndScan ==
    /\ pc = "launch"
    /\ cursor > NTasks \/ cancelled
    /\ Await
    /\ UNCHANGED <<cancelled, states, todo, resets, counters, needsReset, holdings,
                   workers, events, cache, replans>>

ScanningThoughCancelled(i) == pc = "launch" /\ cursor = i

Scanning(i) == pc = "launch" /\ ~cancelled /\ cursor = i

Launchable(i) == states[i] = "pending" /\ ReadyToLaunch(i) /\ ~ResourceConflict(i)

PermitFree == Limit = 0 \/ sem < Limit

PassOverRescans(i) ==
    /\ Scanning(i)
    /\ ~Launchable(i)
    /\ BeginScan
    /\ UNCHANGED <<cancelled, states, todo, resets, counters,
                   needsReset, holdings, workers, events, cache, replans>>

PassOver(i) ==
    /\ Scanning(i)
    /\ ~Launchable(i)
    /\ cursor' = cursor + 1
    /\ UNCHANGED <<pc, sweep, cancelled, states, todo, resets, counters,
                   needsReset, holdings, workers, events, cache, replans>>

\* blockDispatch: anti-thrashing stops the task before it takes a permit.
BlockDispatch(i) ==
    /\ "thrash" \in Faults
    /\ Scanning(i)
    /\ Launchable(i)
    /\ \E s \in {"blocked", "error"} :
        /\ states' = [states EXCEPT ![i] = s]
        /\ \E t \in Persisted(todo[i], s) : todo' = [todo EXCEPT ![i] = t]
    /\ cursor' = cursor + 1
    /\ UNCHANGED <<pc, sweep, cancelled, resets, counters, needsReset,
                   holdings, workers, events, cache, replans>>

NoPermit(i) ==
    /\ Scanning(i)
    /\ Launchable(i)
    /\ ~PermitFree
    /\ Await
    /\ UNCHANGED <<cancelled, states, todo, resets, counters, needsReset, holdings,
                   workers, events, cache, replans>>

Launch(i) ==
    /\ Scanning(i)
    /\ Launchable(i)
    /\ PermitFree
    /\ states' = [states EXCEPT ![i] = "in_progress"]
    /\ inProgress' = inProgress + 1
    /\ active' = active \cup {i}
    /\ slots' = slots \cup {i}
    /\ sem' = IF Limit = 0 THEN sem ELSE sem + 1
    /\ starting' = [starting EXCEPT ![i] = @ + 1]
    /\ cursor' = cursor + 1
    /\ UNCHANGED <<pc, sweep, cancelled, todo, resets, counters, needsReset,
                   executing, events, cache, replans>>

-----------------------------------------------------------------------------
(* runTask: a worker ends by sending exactly one event *)

Send(i, kind, class) ==
    /\ Len(events) < NTasks
    /\ events' = Append(events, [task |-> i, kind |-> kind, class |-> class])

\* The worker ends before it executes anything.
EndEarly(i, kind, class, leaves) ==
    /\ starting[i] > 0
    /\ starting' = [starting EXCEPT ![i] = @ - 1]
    /\ Send(i, kind, class)
    /\ \E t \in leaves : todo' = [todo EXCEPT ![i] = t]
    /\ UNCHANGED <<control, cancelled, states, resets, counters, needsReset, holdings,
                   executing, cache, replans>>

RefuseBudget(i) ==
    "budget" \in Faults /\ EndEarly(i, "budget", "execution", {todo[i]})

\* A capability is missing, or the probe for it failed.
RefuseCapability(i) ==
    /\ "capability" \in Faults
    /\ \/ EndEarly(i, "capability", "contract", Persisted(todo[i], "blocked"))
       \/ EndEarly(i, "error", "execution", Persisted(todo[i], "error"))

RejectDuplicate(i) ==
    i \in Duplicates /\ EndEarly(i, "error", "contract", Persisted(todo[i], "error"))

\* The cached output is committed as the task's result without executing it.
ServeFromCache(i) ==
    /\ i \notin Duplicates
    /\ cache[i]
    /\ IF CanTransition(todo[i], "done") THEN EndEarly(i, "ok", "execution", {"done"})
                                         ELSE EndEarly(i, "error", "unclassified", {todo[i]})

\* executeTask fails before it marks the task started: its inputs are refused,
\* the run is cancelled, or the durable status it expects to find is gone.
FailToStart(i) ==
    /\ i \notin Duplicates
    /\ ~cache[i]
    /\ "early" \in Faults \/ cancelled \/ todo[i] # "pending"
    /\ EndEarly(i, "error", "unclassified", {todo[i]})

\* executeTask moves the durable task from pending to in_progress.
Execute(i) ==
    /\ starting[i] > 0
    /\ i \notin Duplicates
    /\ ~cache[i]
    /\ todo[i] = "pending"
    /\ starting' = [starting EXCEPT ![i] = @ - 1]
    /\ executing' = [executing EXCEPT ![i] = @ + 1]
    /\ todo' = [todo EXCEPT ![i] = "in_progress"]
    /\ UNCHANGED <<control, cancelled, states, resets, counters, needsReset, holdings,
                   events, cache, replans>>

EndExecution(i, kind, class, leaves) ==
    /\ executing[i] > 0
    /\ executing' = [executing EXCEPT ![i] = @ - 1]
    /\ Send(i, kind, class)
    /\ todo' = [todo EXCEPT ![i] = leaves]
    /\ UNCHANGED <<control, cancelled, states, counters, needsReset, holdings, starting>>

Succeed(i) ==
    /\ EndExecution(i, "ok", "execution", "done")
    /\ cache' = [cache EXCEPT ![i] = TRUE]
    /\ UNCHANGED <<resets, replans>>

\* The failure class is looked at only where an on_failure edge may fire.
ClassesRead(i) == IF OnFailure[i] = NoTask THEN {"execution"} ELSE FailureClasses

\* The worker has committed its failure, as an error or as a block.
Fail(i) ==
    /\ \E class \in ClassesRead(i), t \in {"error", "blocked"} :
          EndExecution(i, "error", class, t)
    /\ UNCHANGED <<resets, cache, replans>>

\* The worker's own commit was lost; the scheduler has to terminalize the task.
FailUnresolved(i) ==
    /\ "unresolved" \in Faults
    /\ \E class \in ClassesRead(i) : EndExecution(i, "error", class, "in_progress")
    /\ UNCHANGED <<resets, cache, replans>>

\* projectCheckpointOutcome, committed by the worker before it stops.
CheckpointPause(i) ==
    /\ "pause" \in Faults
    /\ \E t \in {"paused", "blocked"} : EndExecution(i, "checkpoint", "execution", t)
    /\ UNCHANGED <<resets, cache, replans>>

CheckpointReplan(i) ==
    /\ "replan" \in Faults
    /\ replans < MaxReplans
    /\ replans' = replans + 1
    /\ EndExecution(i, "replan", "execution", "pending")
    /\ resets' = [resets EXCEPT ![i] = @ + 1]
    /\ UNCHANGED cache

\* An escalation the task may not have: the durable task is blocked, and the
\* event still says escalate.
CheckpointDenied(i) ==
    /\ "denied" \in Faults
    /\ EndExecution(i, "replan", "execution", "blocked")
    /\ UNCHANGED <<resets, cache, replans>>

Worker(i) ==
    \/ RefuseBudget(i)
    \/ RefuseCapability(i)
    \/ RejectDuplicate(i)
    \/ ServeFromCache(i)
    \/ FailToStart(i)
    \/ Execute(i)
    \/ Succeed(i)
    \/ Fail(i)
    \/ FailUnresolved(i)
    \/ CheckpointPause(i)
    \/ CheckpointReplan(i)
    \/ CheckpointDenied(i)

-----------------------------------------------------------------------------
(* handleEvent *)

ReleaseKeepsPermit(i) ==
    /\ inProgress' = inProgress - 1
    /\ slots' = slots \ {i}
    /\ active' = active \ {i}
    /\ events' = Tail(events)
    /\ UNCHANGED sem

\* releaseInProgress, for the task of the event taken from the channel.
Release(i) ==
    /\ inProgress' = inProgress - 1
    /\ slots' = slots \ {i}
    /\ sem' = IF i \in slots /\ Limit > 0 THEN sem - 1 ELSE sem
    /\ active' = active \ {i}
    /\ events' = Tail(events)

\* run() receives an event of task i while its context is live.
Receive(i, kinds) ==
    /\ pc = "wait"
    /\ ~cancelled
    /\ events # <<>>
    /\ Head(events).task = i
    /\ Head(events).kind \in kinds
    /\ Release(i)
    /\ UNCHANGED <<cancelled, workers, replans>>

LiveThoughSwept(i, kinds) == Receive(i, kinds) /\ UNCHANGED needsReset

\* A live event: no reset wave has swept the task since it was dispatched.
Live(i, kinds) ==
    /\ ~needsReset[i]
    /\ Receive(i, kinds)
    /\ UNCHANGED needsReset

Failed(i) == [states EXCEPT ![i] = "error"]

\* The event is noted and is still to be routed.  From here on a cancellation
\* of the run goes unnoticed, but for the resets it fails.
TakeUp(i, what) ==
    /\ pc' = "handle"
    /\ source' = i
    /\ report' = what
    /\ UNCHANGED <<cursor, frontier, seen, resets, counters, cache>>

\* The event of a task a wave swept: it says nothing but that the task is no
\* longer in flight.
TakeStale(i) ==
    /\ needsReset[i]
    /\ Receive(i, EventKinds)
    /\ needsReset' = [needsReset EXCEPT ![i] = FALSE]
    /\ states' = Failed(i)
    /\ TakeUp(i, "stale")
    /\ UNCHANGED todo

TakeDone(i) ==
    /\ Live(i, {"ok"})
    /\ states' = [states EXCEPT ![i] = "done"]
    /\ TakeUp(i, "ok")
    /\ UNCHANGED todo

TakeFailure(i) ==
    /\ Live(i, {"error"})
    /\ states' = Failed(i)
    /\ \E t \in Terminalized(i, "error") : todo' = [todo EXCEPT ![i] = t]
    /\ TakeUp(i, Head(events).class)

\* A checkpoint stopped the worker: adopt its durable status, and scan again
\* only if the checkpoint asked for another attempt.
HandleCheckpoint(i) ==
    /\ \/ /\ Live(i, {"checkpoint"})
          /\ states' = [states EXCEPT ![i] = todo[i]]
          /\ Await
       \/ /\ Live(i, {"replan"})
          /\ states' = [states EXCEPT ![i] = "pending"]
          /\ BeginScan
    /\ UNCHANGED <<todo, resets, counters, cache>>

HandleRefusalRests(i) ==
    /\ \E kind \in {"budget", "capability"} :
        /\ Live(i, {kind})
        /\ states' = [states EXCEPT ![i] = IF kind = "budget" THEN "error" ELSE "blocked"]
        /\ \E t \in Terminalized(i, kind) : todo' = [todo EXCEPT ![i] = t]
    /\ Await
    /\ UNCHANGED <<resets, counters, cache>>

\* An admission refused on budget or capability routes nothing.
HandleRefusal(i) ==
    /\ \E kind \in {"budget", "capability"} :
        /\ Live(i, {kind})
        /\ states' = [states EXCEPT ![i] = IF kind = "budget" THEN "error" ELSE "blocked"]
        /\ \E t \in Terminalized(i, kind) : todo' = [todo EXCEPT ![i] = t]
    /\ BeginScan
    /\ UNCHANGED <<resets, counters, cache>>

Handle(i) ==
    \/ TakeStale(i)
    \/ TakeDone(i)
    \/ TakeFailure(i)
    \/ HandleCheckpoint(i)
    \/ HandleRefusal(i)

-----------------------------------------------------------------------------
(* handleEvent: the routing of what it has taken up *)

Routing(i, reports) ==
    /\ pc = "handle"
    /\ source = i
    /\ report \in reports
    /\ UNCHANGED <<cancelled, needsReset, holdings, workers, events, replans>>

\* resetTask, of a task that is not in flight.  If it fails, handleEvent
\* returns without a scan.
ResetInPlace(i) ==
    /\ cache' = Invalidated({i})
    /\ \E r \in ResetOutcomes(i, states[i], todo[i]) :
        /\ states' = [states EXCEPT ![i] = r.state]
        /\ todo' = [todo EXCEPT ![i] = r.todo]
        /\ resets' = [resets EXCEPT ![i] = @ + r.again]
        /\ IF r.ok THEN BeginScan ELSE Await

\* The task of a stale event is queued again.
DiscardStale(i) ==
    /\ Routing(i, {"stale"})
    /\ ResetInPlace(i)
    /\ UNCHANGED counters

OneRetryMore(t) == \A n \in {critCounts[t], retries[t], resets[t]} : n <= MaxRetries[t]

UnderRetryLimit(t) == \A n \in {critCounts[t], retries[t], resets[t]} : n < MaxRetries[t]

EligibleRunning(i, t) ==
    /\ t # i
    /\ states[t] # "pending" => OnFailure[t] = NoTask /\ t \in Replayable /\ UnderRetryLimit(t)

\* criterionRetryTargets, in batch order, for criteria of task i that are
\* still failed: a target is passed over, blocked, or takes the retry.
Eligible(i, t) ==
    /\ t # i
    /\ states[t] # "in_progress"
    /\ states[t] # "pending" => OnFailure[t] = NoTask /\ t \in Replayable /\ UnderRetryLimit(t)

ReplayBlocked(i, t) ==
    /\ t # i
    /\ states[t] \notin {"pending", "in_progress"}
    /\ OnFailure[t] = NoTask
    /\ t \notin Replayable

\* The targets visited before the loop returns.
Visited(i, targets) == {u \in targets : \A t \in targets : t < u => ~Eligible(i, t)}

\* routeCriterionRetry, and the scan that follows it in every case.  A target
\* it cannot replay is marked blocked; at most one takes the retry.
RouteCriterionRetry(i, targets) ==
    LET room    == critUsed < CriterionRetryBudget
        visited == IF room THEN Visited(i, targets) ELSE {}
        swept   == {u \in visited : ReplayBlocked(i, u)}
        chosen  == {u \in visited : Eligible(i, u)}
        charged == {u \in chosen : states[u] # "pending"}
    IN  /\ critUsed' = critUsed + Cardinality(chosen)
        /\ critCounts' = [u \in Tasks |-> IF u \in charged THEN critCounts[u] + 1 ELSE critCounts[u]]
        /\ retries' = [u \in Tasks |-> IF u \in charged THEN retries[u] + 1 ELSE retries[u]]
        /\ cache' = Invalidated(chosen)
        /\ \E lost \in SUBSET (swept \cup charged) :       \* failed commits
            /\ lost \cap swept # {} => "journal" \in Faults
            /\ lost \cap charged # {} => "journal" \in Faults \/ cancelled
            /\ states' = [u \in Tasks |->
                    IF u \in swept THEN "blocked"
                    ELSE IF u \in charged \ lost THEN "pending" ELSE states[u]]
            /\ todo' = [u \in Tasks |->
                    IF u \in swept \ lost /\ CanTransition(todo[u], "blocked") THEN "blocked"
                    ELSE IF u \in charged \ lost THEN "pending" ELSE todo[u]]
            /\ resets' = [u \in Tasks |->
                    IF u \in charged \ lost THEN resets[u] + 1 ELSE resets[u]]
        /\ BeginScan

\* A task that completed without progress may still send a repair task out,
\* and so may a failed one, if it has no on_failure edge.
RouteCriteria(i) ==
    /\ \/ Routing(i, {"ok"})
       \/ OnFailure[i] = NoTask /\ Routing(i, FailureClasses)
    /\ \E targets \in SUBSET RepairTargets[i] : RouteCriterionRetry(i, targets)

ClassAllowed(i, class) == OnFailureClasses[i] = {} \/ class \in OnFailureClasses[i]

\* selfHealEligible: a failure whose own retries ran out, or that never had
\* one, as the rejection of a duplicate.
SelfHeals(i, class) ==
    /\ class = "execution" \/ (class = "contract" /\ i \in Duplicates)
    /\ i \in Replayable

RetriesLeft(i) == retries[i] < MaxRetries[i]

\* The edge exists and does not fire: it is exhausted, closed to this class
\* of failure, or the failure is a cancellation.
FailAndStop(i) ==
    /\ OnFailure[i] # NoTask
    /\ Routing(i, FailureClasses)
    /\ \/ ~RetriesLeft(i)
       \/ ~ClassAllowed(i, report) /\ ~SelfHeals(i, report)
       \/ ClassAllowed(i, report) /\ report = "cancelled"
    /\ BeginScan
    /\ UNCHANGED <<states, todo, resets, counters, cache>>

\* Retry in place: the class may not reset the ancestor but may heal itself.
\* The retry is charged before the reset is admitted.
FailAndSelfHeal(i) ==
    /\ OnFailure[i] # NoTask
    /\ RetriesLeft(i)
    /\ Routing(i, FailureClasses)
    /\ ~ClassAllowed(i, report) /\ SelfHeals(i, report)
    /\ retries' = [retries EXCEPT ![i] = @ + 1]
    /\ ResetInPlace(i)
    /\ UNCHANGED <<critCounts, critUsed>>

\* The edge fires: charge the failed task and begin the reset wave.
FailAndJump(i) ==
    /\ OnFailure[i] # NoTask
    /\ RetriesLeft(i)
    /\ Routing(i, FailureClasses)
    /\ ClassAllowed(i, report) /\ report # "cancelled"
    /\ retries' = [retries EXCEPT ![i] = @ + 1]
    /\ pc' = "wave"
    /\ frontier' = {JumpTarget(i)}
    /\ seen' = {}
    /\ report' = "none"
    /\ UNCHANGED <<cursor, source, states, todo, resets, critCounts, critUsed, cache>>

Route(i) ==
    \/ DiscardStale(i)
    \/ RouteCriteria(i)
    \/ FailAndStop(i)
    \/ FailAndSelfHeal(i)
    \/ FailAndJump(i)

-----------------------------------------------------------------------------
(* resetWave: the on_failure target and everything downstream of it.  The  *)
(* queue's order shows only in which members a failed commit leaves        *)
(* unswept, so the frontier is a set and any order is allowed.             *)

InFlightIgnored(j) == FALSE

InFlight(j) == states[j] = "in_progress"

Advance(j) ==
    /\ frontier' = (frontier \ {j}) \cup (IF j \in seen THEN {} ELSE RevDeps(j))
    /\ seen' = seen \cup {j}
    /\ UNCHANGED <<source, report>>

\* Already visited, or still running: the reset waits for its event.
SweepDefer(j) ==
    /\ pc = "wave"
    /\ j \in frontier
    /\ j \in seen \/ InFlight(j)
    /\ needsReset' = IF j \in seen THEN needsReset ELSE [needsReset EXCEPT ![j] = TRUE]
    /\ Advance(j)
    /\ UNCHANGED <<pc, cursor, cancelled, states, todo, resets, counters, holdings,
                   workers, events, cache, replans>>

\* A failed commit ends the sweep, and handleEvent with it.
SweepReset(j) ==
    /\ pc = "wave"
    /\ j \in frontier \ seen
    /\ ~InFlight(j)
    /\ cache' = Invalidated({j})
    /\ \E r \in ResetOutcomes(j, states[j], todo[j]) :
        /\ states' = [states EXCEPT ![j] = r.state]
        /\ todo' = [todo EXCEPT ![j] = r.todo]
        /\ resets' = [resets EXCEPT ![j] = @ + r.again]
        /\ IF r.ok THEN Advance(j) /\ UNCHANGED pc
                   ELSE pc' = "wait" /\ frontier' = {} /\ seen' = {} /\ Handled
    /\ UNCHANGED <<cursor, cancelled, counters, needsReset, holdings, workers, events, replans>>

EndSweep ==
    /\ pc = "wave"
    /\ frontier = {}
    /\ pc' = "launch"
    /\ cursor' = 1
    /\ seen' = {}
    /\ Handled
    /\ UNCHANGED <<frontier, cancelled, states, todo, resets, counters, needsReset,
                   holdings, workers, events, cache, replans>>

-----------------------------------------------------------------------------
(* The end of run() *)

\* A cancelled run only waits for the workers it has started.
BeginDrain ==
    /\ pc = "wait"
    /\ inProgress > 0
    /\ cancelled
    /\ pc' = "drain"
    /\ UNCHANGED <<cursor, sweep, cancelled, states, todo, resets, counters,
                   needsReset, holdings, workers, events, cache, replans>>

\* consumeCancelledResult
Drain(i) ==
    /\ pc = "drain"
    /\ events # <<>>
    /\ Head(events).task = i
    /\ \E t \in Terminalized(i, Head(events).kind) : todo' = [todo EXCEPT ![i] = t]
    /\ Release(i)
    /\ UNCHANGED <<control, cancelled, states, resets, counters, needsReset, workers,
                   cache, replans>>

EndDrain ==
    /\ pc = "drain"
    /\ inProgress = 0
    /\ pc' = "aborted"
    /\ UNCHANGED <<cursor, sweep, cancelled, states, todo, resets, counters,
                   needsReset, holdings, workers, events, cache, replans>>

\* markStranded: nothing is in flight, so what is still pending never starts.
Stranded == {i \in Tasks : states[i] = "pending"}

MarkStranded ==
    /\ pc = "wait"
    /\ inProgress = 0
    /\ pc' = "returned"
    /\ states' = [i \in Tasks |-> IF i \in Stranded THEN "blocked" ELSE states[i]]
    /\ \E lost \in SUBSET Stranded :
        /\ lost # {} => "journal" \in Faults
        /\ todo' = [i \in Tasks |->
                IF i \in Stranded \ lost /\ CanTransition(todo[i], "blocked")
                THEN "blocked" ELSE todo[i]]
    /\ UNCHANGED <<cursor, sweep, cancelled, resets, counters, needsReset,
                   holdings, workers, events, cache, replans>>

\* run() has returned: nothing happens any more.
Over == pc \in {"returned", "aborted"} /\ UNCHANGED vars

Scheduler ==
    \/ Start
    \/ EndScan
    \/ \E i \in Tasks :
          \/ PassOver(i) \/ BlockDispatch(i) \/ NoPermit(i) \/ Launch(i)
          \/ Handle(i) \/ Route(i)
          \/ SweepDefer(i) \/ SweepReset(i)
          \/ Drain(i)
    \/ EndSweep
    \/ BeginDrain
    \/ EndDrain
    \/ MarkStranded

Next ==
    \/ Scheduler
    \/ \E i \in Tasks : Worker(i)
    \/ Cancel
    \/ Over

\* The scheduler goroutine keeps running, and every worker ends: executeTask
\* runs under the agent's timeout.
Fairness == WF_vars(Scheduler) /\ \A i \in Tasks : WF_vars(Worker(i))

Spec == Init /\ [][Next]_vars

FairSpec == Spec /\ Fairness

-----------------------------------------------------------------------------
(* Properties *)

ControlType ==
    /\ pc \in {"start", "launch", "wait", "handle", "wave", "drain", "returned", "aborted"}
    /\ cursor \in 1 .. NTasks + 1
    /\ frontier \subseteq Tasks
    /\ seen \subseteq Tasks
    /\ source \in Tasks \cup {NoTask}
    /\ report \in Reports \cup {"none"}
    /\ pc = "handle" => source \in Tasks

TablesType ==
    /\ states \in [Tasks -> SchedulerStates]
    /\ todo \in [Tasks -> SchedulerStates]
    /\ resets \in [Tasks -> Nat]

CountersType ==
    /\ retries \in [Tasks -> Nat]
    /\ critCounts \in [Tasks -> Nat]
    /\ critUsed \in Nat
    /\ replans \in Nat

FlagsType ==
    /\ cancelled \in BOOLEAN
    /\ needsReset \in [Tasks -> BOOLEAN]
    /\ cache \in [Tasks -> BOOLEAN]

FlightType ==
    /\ inProgress \in Int
    /\ sem \in Int
    /\ slots \subseteq Tasks
    /\ active \subseteq Tasks
    /\ starting \in [Tasks -> Nat]
    /\ executing \in [Tasks -> Nat]
    /\ events \in Seq([task : Tasks, kind : EventKinds, class : FailureClasses])

\* Every variable keeps to the values its Go type and use allow.
TypeOK == ControlType /\ TablesType /\ CountersType /\ FlagsType /\ FlightType

EventsOf(i) == {k \in DOMAIN events : events[k].task = i}

Running(i) == starting[i] + executing[i] > 0

\* A task launchReady dispatched has exactly one goroutine or one unread event
\* until its event is handled, and any other task has neither: no dispatch is
\* lost, and no task runs twice at once, whatever resets overtake it.
OneDispatchInFlight ==
    \A i \in Tasks :
        starting[i] + executing[i] + Cardinality(EventsOf(i)) = IF i \in slots THEN 1 ELSE 0

\* The permit, the resource claims, the in-flight count and the in_progress
\* state of a task are taken and given back together, and the team limit holds:
\* releaseInProgress frees on every path exactly what launchReady took.  (The
\* drain of a cancelled run gives them back and leaves the state as it is.)
HoldingsMatchFlight ==
    /\ active = slots
    /\ inProgress = Cardinality(slots)
    /\ sem = IF Limit = 0 THEN 0 ELSE Cardinality(slots)
    /\ Limit > 0 => sem <= Limit
    /\ \A i \in slots : states[i] = "in_progress"
    /\ pc \notin {"drain", "aborted"} => \A i \in Tasks \ slots : states[i] # "in_progress"

\* Two goroutines never run tasks whose resource claims conflict.
NoConflictInFlight ==
    \A i, j \in Tasks : i # j /\ Running(i) /\ Running(j) => ~ClaimsConflict(i, j)

CriterionTargets == UNION {RepairTargets[i] : i \in Tasks}

\* A result the scheduler relies on was computed from producers that are still
\* done: a reset wave leaves no dependent done, or running unmarked, over a
\* producer it has taken back.  (A criterion retry deliberately re-runs its
\* target alone; a failed reset commit, or a cancellation, abandons the wave.)
BuiltOnDone ==
    "journal" \in Faults \/
    \A i \in Tasks : \A d \in DependsOn[i] \ CriterionTargets :
        /\ pc # "wave" /\ ~cancelled
        /\ states[i] = "done" \/ (states[i] = "in_progress" /\ ~needsReset[i])
        => states[d] = "done"

\* A task put back to pending after it ran is never served its old output:
\* the cached result is gone before the task can be dispatched again.
RerunExecutes ==
    \A i \in Tasks : states[i] = "pending" /\ resets[i] > 0 => ~cache[i]

\* No retry route exceeds its budget, alone or with the others.
RetriesBounded ==
    /\ \A i \in Tasks : retries[i] <= MaxRetries[i]
    /\ critUsed <= CriterionRetryBudget

\* Once the run is cancelled no task is dispatched, no further event is routed,
\* and what is drained from the channel decides nothing.  The handler that was
\* under way may still charge the one retry it had to route: it does not look
\* at the context again.
CancelledRunStartsNothing ==
    [][cancelled =>
        /\ \A i \in Tasks : starting'[i] <= starting[i]
        /\ pc' = "handle" => pc = "handle"
        /\ counters' # counters => pc = "handle" /\ pc' # "handle"
        /\ slots' # slots => UNCHANGED <<states, resets, needsReset, cache>>]_vars

\* The scheduler never rests on a task it could dispatch: when it waits for
\* the next event with a free permit, nothing launchable is pending.
WorkConserving ==
    pc = "wait" /\ ~cancelled /\ PermitFree => \A i \in Tasks : ~Launchable(i)

\* markStranded blocks only tasks that wait, directly, on a declared producer
\* that is not done.
StrandedOnlyByDependency ==
    [][pc = "wait" /\ pc' = "returned" =>
        \A i \in Stranded : \E d \in DependsOn[i] : states[d] # "done"]_vars

\* The tasks S are none, or the one whose stale event was in hand when the run
\* was cancelled: it is noted as an error, and its reset was not admitted.
LeftByCancel(S) ==
    S = {} \/ (cancelled /\ \E i \in Tasks : S = {i} /\ states[i] = "error")

\* When run() returns no worker is left, nothing is held, and no task is left
\* in progress in the durable projection, but for one a cancellation caught
\* between the discard of its stale event and its reset.
NothingLeftRunning ==
    pc \in {"returned", "aborted"} =>
        /\ \A i \in Tasks : ~Running(i) /\ EventsOf(i) = {}
        /\ slots = {}
        /\ "journal" \in Faults \/ LeftByCancel({i \in Tasks : todo[i] = "in_progress"})

\* The scheduler's verdict on a task is the durable one: done means done and
\* blocked means blocked.
Agreed(i) ==
    /\ states[i] = "done" <=> todo[i] = "done"
    /\ states[i] = "blocked" => todo[i] = "blocked"

\* When run() returns normally its verdicts are the durable ones, but for the
\* one task a cancellation caught as above: the run may then report an error
\* for a task that is durably done.
VerdictIsDurable ==
    pc = "returned" => LeftByCancel({i \in Tasks : ~Agreed(i)})

\* Only a task that is pending in the durable projection is dispatched.
DispatchedWhenPending ==
    \A i \in Tasks : starting[i] > 0 => todo[i] = "pending"

\* A reset wave reaches the failed task that began it, so no failure that was
\* charged a retry is left standing.
WaveReachesSource ==
    [][pc = "wave" /\ pc' = "launch" => source \in seen]_vars

\* Every run comes to an end.
RunEnds == <>(pc \in {"returned", "aborted"})
=============================================================================
