------------------------- MODULE DagSchedulerProofs -------------------------
(***************************************************************************)
(* Theorems about DagScheduler for every batch, limit and set of faults.   *)
(***************************************************************************)
EXTENDS DagScheduler, FiniteSetTheorems, TLAPS

-----------------------------------------------------------------------------
(* What the helpers of the actions return *)

\* The batch is finite, and so is every set of its tasks.
LEMMA TasksFinite ==
    /\ IsFiniteSet(Tasks)
    /\ \A S \in SUBSET Tasks : IsFiniteSet(S) /\ Cardinality(S) \in Nat
<1>1. IsFiniteSet(Tasks)
  BY BatchAssumption, FS_Interval DEF Tasks
<1> QED
  BY <1>1, FS_Subset, FS_CardinalityType

\* A failure transition leaves a task with a status, whatever is refused or lost.
LEMMA PersistedType ==
    ASSUME NEW from \in SchedulerStates, NEW to \in SchedulerStates,
           NEW t \in Persisted(from, to)
    PROVE  t \in SchedulerStates
BY DEF Persisted

LEMMA TerminalizedType ==
    ASSUME todo \in [Tasks -> SchedulerStates], NEW i \in Tasks, NEW kind,
           NEW t \in Terminalized(i, kind)
    PROVE  t \in SchedulerStates
<1>1. {"error", "blocked"} \subseteq SchedulerStates /\ todo[i] \in SchedulerStates
  BY DEF SchedulerStates, Terminal
<1> QED
  BY <1>1, PersistedType DEF Terminalized

LEMMA ResetOutcomesType ==
    ASSUME NEW i \in Tasks, NEW st \in SchedulerStates, NEW td \in SchedulerStates,
           NEW r \in ResetOutcomes(i, st, td)
    PROVE  /\ r.state \in SchedulerStates /\ r.todo \in SchedulerStates
           /\ r.again \in {0, 1} /\ r.ok \in BOOLEAN
           /\ r.state = "in_progress" => st = "in_progress"
<1>1. "pending" \in SchedulerStates /\ "blocked" \in SchedulerStates
  BY DEF SchedulerStates, Terminal
<1>2. ASSUME NEW done \in BOOLEAN, r = [state |-> st, todo |-> td, again |-> 0, ok |-> done]
      PROVE  r.state = st /\ r.todo = td /\ r.again = 0 /\ r.ok \in BOOLEAN
  BY <1>2
<1>5. ASSUME r = [state |-> "pending", todo |-> "pending", again |-> 1, ok |-> TRUE]
      PROVE  r.state = "pending" /\ r.todo = "pending" /\ r.again = 1 /\ r.ok
  BY <1>5
<1>3. CASE st # "pending" /\ i \notin Replayable
  <2>1. PICK t \in Persisted(td, "blocked") :
          r = [state |-> "blocked", todo |-> t, again |-> 0, ok |-> TRUE]
    BY <1>3 DEF ResetOutcomes
  <2> QED
    BY <1>1, <2>1, PersistedType
<1>4. CASE ~(st # "pending" /\ i \notin Replayable)
  <2>1. \/ r = [state |-> "pending", todo |-> "pending", again |-> 1, ok |-> TRUE]
        \/ r = [state |-> st, todo |-> td, again |-> 0, ok |-> TRUE]
        \/ r = [state |-> st, todo |-> td, again |-> 0, ok |-> FALSE]
    BY <1>4 DEF ResetOutcomes
  <2> QED
    BY <1>1, <1>2, <1>5, <2>1
<1> QED
  BY <1>3, <1>4

-----------------------------------------------------------------------------
(* Type correctness *)

LEMMA InitTypeOK == Init => TypeOK
<1> SUFFICES ASSUME Init PROVE TypeOK
  OBVIOUS
<1>1. NTasks \in Nat /\ NTasks > 0
  BY BatchAssumption
<1>2. "pending" \in SchedulerStates
  BY DEF SchedulerStates
<1>3. ControlType
  BY <1>1 DEF Init, ControlType
<1>4. TablesType
  BY <1>2 DEF Init, TablesType
<1>5. CountersType
  BY DEF Init, CountersType
<1>6. FlagsType
  <2>1. \A i \in Tasks : (i \in Precached) \in BOOLEAN
    OBVIOUS
  <2>2. cache \in [Tasks -> BOOLEAN]
    BY <2>1, Zenon DEF Init
  <2>3. cancelled \in BOOLEAN /\ needsReset \in [Tasks -> BOOLEAN]
    BY Zenon DEF Init
  <2> QED
    BY <2>2, <2>3 DEF FlagsType
<1>7. FlightType
  BY DEF Init, FlightType
<1> QED
  BY <1>3, <1>4, <1>5, <1>6, <1>7 DEF TypeOK

LEMMA ChannelHead ==
    ASSUME NEW S, NEW s \in Seq(S), s # <<>> PROVE Head(s) \in S
OBVIOUS

\* The event at the head of the channel names a task and a failure class.
LEMMA HeadTyped ==
    ASSUME FlightType, events # <<>>
    PROVE  Head(events).task \in Tasks /\ Head(events).class \in FailureClasses
<1> DEFINE Event == [task : Tasks, kind : EventKinds, class : FailureClasses]
<1>1. events \in Seq(Event)
  BY DEF FlightType
<1>2. Head(events) \in Event
  BY <1>1, ChannelHead
<1> QED
  BY <1>2

\* The scan and the sweep stay within the batch.
LEMMA ControlStep == TypeOK /\ [Next]_vars => ControlType'
<1> SUFFICES ASSUME TypeOK, [Next]_vars PROVE ControlType'
  OBVIOUS
<1> USE DEF ControlType, control, sweep
<1>1. NTasks \in Nat /\ NTasks > 0 /\ ControlType
  BY BatchAssumption DEF TypeOK
<1>2. CASE UNCHANGED control
  BY <1>1, <1>2
<1>3. ASSUME BeginScan \/ Await PROVE ControlType'
  BY <1>1, <1>3 DEF BeginScan, Await, Handled
<1>4. ASSUME NEW i \in Tasks, Handle(i) PROVE ControlType'
  <2>1. ASSUME NEW what \in Reports, TakeUp(i, what) PROVE ControlType'
    BY <1>1, <2>1 DEF TakeUp
  <2>2. CASE TakeFailure(i)
    <3>1. Head(events).class \in Reports
      BY <2>2, HeadTyped DEF TakeFailure, Live, Receive, TypeOK, Reports
    <3> QED
      BY <2>1, <2>2, <3>1 DEF TakeFailure
  <2>3. CASE TakeStale(i) \/ TakeDone(i)
    BY <2>1, <2>3 DEF TakeStale, TakeDone, Reports
  <2>4. CASE HandleCheckpoint(i) \/ HandleRefusal(i)
    BY <1>3, <2>4 DEF HandleCheckpoint, HandleRefusal
  <2> QED
    BY <1>4, <2>2, <2>3, <2>4 DEF Handle
<1>12. ASSUME NEW i \in Tasks, Route(i) PROVE ControlType'
  <2>1. CASE FailAndJump(i)
    <3>1. JumpTarget(i) \in Tasks
      BY <2>1, BatchAssumption DEF FailAndJump, JumpTarget
    <3> QED
      BY <1>1, <2>1, <3>1 DEF FailAndJump
  <2>2. CASE DiscardStale(i) \/ RouteCriteria(i) \/ FailAndStop(i) \/ FailAndSelfHeal(i)
    BY <1>3, <2>2 DEF DiscardStale, ResetInPlace, RouteCriteria, RouteCriterionRetry,
       FailAndStop, FailAndSelfHeal
  <2> QED
    BY <1>12, <2>1, <2>2 DEF Route
<1>5. ASSUME NEW j \in Tasks, SweepDefer(j) \/ SweepReset(j) PROVE ControlType'
  <2>1. ASSUME Advance(j), UNCHANGED <<pc, cursor>> PROVE ControlType'
    BY <1>1, <2>1 DEF Advance, RevDeps
  <2> QED
    BY <1>1, <1>5, <2>1 DEF SweepDefer, SweepReset, Handled
<1>6. ASSUME NEW i \in Tasks,
             PassOver(i) \/ BlockDispatch(i) \/ NoPermit(i) \/ Launch(i)
      PROVE  ControlType'
  <2>1. i + 1 \in 1 .. NTasks + 1
    BY <1>1 DEF Tasks
  <2> QED
    BY <1>1, <1>3, <1>6, <2>1 DEF PassOver, BlockDispatch, NoPermit, Launch, Scanning
<1>7. ASSUME NEW i \in Tasks, Worker(i) PROVE UNCHANGED control
  BY <1>7 DEF Worker, RefuseBudget, RefuseCapability, RejectDuplicate, ServeFromCache,
     FailToStart, Execute, Succeed, Fail, FailUnresolved, CheckpointPause,
     CheckpointReplan, CheckpointDenied, EndEarly, EndExecution
<1>8. ASSUME NEW i \in Tasks, Drain(i) PROVE UNCHANGED control
  BY <1>8 DEF Drain
<1>9. CASE Start \/ EndScan
  BY <1>1, <1>3, <1>9 DEF Start, EndScan
<1>10. CASE EndSweep \/ BeginDrain \/ EndDrain \/ MarkStranded
  BY <1>1, <1>10 DEF EndSweep, BeginDrain, EndDrain, MarkStranded, Handled
<1>11. CASE Cancel \/ Over
  BY <1>2, <1>11 DEF Cancel, Over, vars
<1> QED
  BY <1>2, <1>4, <1>5, <1>6, <1>7, <1>8, <1>9, <1>10, <1>11, <1>12
     DEF Next, Scheduler, vars

\* Every table keeps a status of its own for every task.
LEMMA TablesStep == TypeOK /\ [Next]_vars => TablesType'
<1> SUFFICES ASSUME TypeOK, [Next]_vars PROVE TablesType'
  OBVIOUS
<1>1. TablesType
  BY DEF TypeOK
<1>2. /\ {"pending", "in_progress", "done", "error", "blocked", "paused"} \subseteq SchedulerStates
      /\ resets \in [Tasks -> Nat] /\ todo \in [Tasks -> SchedulerStates]
      /\ states \in [Tasks -> SchedulerStates]
  BY <1>1 DEF SchedulerStates, Terminal, TablesType
<1>3. ASSUME UNCHANGED <<states, todo, resets>> PROVE TablesType'
  BY <1>1, <1>3 DEF TablesType
<1>4. ASSUME NEW i \in Tasks, NEW st \in SchedulerStates, NEW td \in SchedulerStates,
             NEW r \in ResetOutcomes(i, st, td),
             states' = [states EXCEPT ![i] = r.state],
             todo' = [todo EXCEPT ![i] = r.todo],
             resets' = [resets EXCEPT ![i] = @ + r.again]
      PROVE  TablesType'
  <2>1. r.state \in SchedulerStates /\ r.todo \in SchedulerStates /\ r.again \in {0, 1}
    BY ResetOutcomesType
  <2>2. resets[i] + r.again \in Nat
    BY <1>2, <2>1
  <2> QED
    BY <1>2, <1>4, <2>1, <2>2 DEF TablesType
<1>5. ASSUME NEW i \in Tasks, ResetInPlace(i) PROVE TablesType'
  <2>1. PICK r \in ResetOutcomes(i, states[i], todo[i]) :
          /\ states' = [states EXCEPT ![i] = r.state]
          /\ todo' = [todo EXCEPT ![i] = r.todo]
          /\ resets' = [resets EXCEPT ![i] = @ + r.again]
    BY <1>5 DEF ResetInPlace
  <2> QED
    BY <1>2, <1>4, <2>1
<1>6. ASSUME NEW i \in Tasks, Handle(i) PROVE TablesType'
  <2>1. CASE TakeStale(i) \/ TakeDone(i) \/ HandleCheckpoint(i)
    BY <1>2, <2>1 DEF TakeStale, TakeDone, TakeUp, Failed, HandleCheckpoint, TablesType
  <2>2. CASE TakeFailure(i) \/ HandleRefusal(i)
    BY <1>2, <2>2, TerminalizedType DEF TakeFailure, TakeUp, Failed, HandleRefusal, TablesType
  <2> QED
    BY <1>6, <2>1, <2>2 DEF Handle
<1>14. ASSUME NEW i \in Tasks, Route(i) PROVE TablesType'
  <2>1. CASE DiscardStale(i) \/ FailAndSelfHeal(i)
    BY <1>5, <2>1 DEF DiscardStale, FailAndSelfHeal
  <2>2. CASE RouteCriteria(i)
    <3>1. PICK targets \in SUBSET RepairTargets[i] : RouteCriterionRetry(i, targets)
      BY <2>2 DEF RouteCriteria
    <3> QED
      BY <1>2, <3>1 DEF RouteCriterionRetry, TablesType
  <2>3. CASE FailAndStop(i) \/ FailAndJump(i)
    BY <1>3, <2>3 DEF FailAndStop, FailAndJump
  <2> QED
    BY <1>14, <2>1, <2>2, <2>3 DEF Route
<1>7. ASSUME NEW i \in Tasks, Worker(i) PROVE TablesType'
  <2>1. ASSUME NEW t \in SchedulerStates, todo' = [todo EXCEPT ![i] = t],
               UNCHANGED <<states, resets>>
        PROVE  TablesType'
    BY <1>2, <2>1 DEF TablesType
  <2>2. ASSUME NEW kind, NEW class, NEW leaves \in SUBSET SchedulerStates,
               EndEarly(i, kind, class, leaves)
        PROVE  TablesType'
    BY <2>1, <2>2 DEF EndEarly
  <2>3. /\ {todo[i]} \subseteq SchedulerStates /\ {"done"} \subseteq SchedulerStates
        /\ Persisted(todo[i], "blocked") \subseteq SchedulerStates
        /\ Persisted(todo[i], "error") \subseteq SchedulerStates
    BY <1>2, PersistedType
  <2>4. ASSUME RefuseBudget(i) \/ RefuseCapability(i) \/ RejectDuplicate(i)
               \/ ServeFromCache(i) \/ FailToStart(i)
        PROVE  TablesType'
    BY <2>2, <2>3, <2>4 DEF RefuseBudget, RefuseCapability, RejectDuplicate,
       ServeFromCache, FailToStart
  <2>5. CASE Execute(i)
    BY <1>2, <2>1, <2>5 DEF Execute
  <2>6. CASE CheckpointReplan(i)
    BY <1>2, <2>6 DEF CheckpointReplan, EndExecution, TablesType
  <2>7. ASSUME Succeed(i) \/ Fail(i) \/ FailUnresolved(i) \/ CheckpointPause(i)
               \/ CheckpointDenied(i)
        PROVE  TablesType'
    BY <1>2, <2>1, <2>7 DEF Succeed, Fail, FailUnresolved, CheckpointPause,
       CheckpointDenied, EndExecution
  <2> QED
    BY <1>7, <2>4, <2>5, <2>6, <2>7 DEF Worker
<1>8. ASSUME NEW j \in Tasks, SweepReset(j) PROVE TablesType'
  <2>1. PICK r \in ResetOutcomes(j, states[j], todo[j]) :
          /\ states' = [states EXCEPT ![j] = r.state]
          /\ todo' = [todo EXCEPT ![j] = r.todo]
          /\ resets' = [resets EXCEPT ![j] = @ + r.again]
    BY <1>8 DEF SweepReset
  <2> QED
    BY <1>2, <1>4, <2>1
<1>9. ASSUME NEW i \in Tasks,
             PassOver(i) \/ NoPermit(i) \/ Launch(i) \/ SweepDefer(i) \/ Drain(i)
      PROVE  TablesType'
  BY <1>2, <1>3, <1>9, TerminalizedType
     DEF PassOver, NoPermit, Launch, SweepDefer, Drain, TablesType
<1>10. ASSUME NEW i \in Tasks, BlockDispatch(i) PROVE TablesType'
  BY <1>2, <1>10, PersistedType DEF BlockDispatch, TablesType
<1>11. CASE MarkStranded
  BY <1>2, <1>11 DEF MarkStranded, TablesType
<1>12. CASE Start \/ EndScan \/ EndSweep \/ BeginDrain \/ EndDrain \/ Cancel
  BY <1>3, <1>12 DEF Start, EndScan, EndSweep, BeginDrain, EndDrain, Cancel
<1>13. CASE Over \/ UNCHANGED vars
  BY <1>3, <1>13 DEF Over, vars
<1> QED
  BY <1>6, <1>7, <1>8, <1>9, <1>10, <1>11, <1>12, <1>13, <1>14 DEF Next, Scheduler

\* No retry counter is lowered or left undefined.
LEMMA CountersStep == TypeOK /\ [Next]_vars => CountersType'
<1> SUFFICES ASSUME TypeOK, [Next]_vars PROVE CountersType'
  OBVIOUS
<1>1. /\ retries \in [Tasks -> Nat] /\ critCounts \in [Tasks -> Nat]
      /\ critUsed \in Nat /\ replans \in Nat
  BY DEF TypeOK, CountersType
<1>2. ASSUME UNCHANGED <<counters, replans>> PROVE CountersType'
  BY <1>1, <1>2 DEF CountersType, counters
<1>3. ASSUME NEW i \in Tasks, NEW targets \in SUBSET RepairTargets[i],
             RouteCriterionRetry(i, targets), replans' = replans
      PROVE  CountersType'
  <2> DEFINE room    == critUsed < CriterionRetryBudget
             visited == IF room THEN Visited(i, targets) ELSE {}
             chosen  == {u \in visited : Eligible(i, u)}
             charged == {u \in chosen : states[u] # "pending"}
  <2>1. chosen \in SUBSET Tasks
    BY BatchAssumption DEF Visited
  <2>2. Cardinality(chosen) \in Nat
    BY <2>1, TasksFinite
  <2>3. /\ critUsed' = critUsed + Cardinality(chosen)
        /\ critCounts' = [u \in Tasks |-> IF u \in charged THEN critCounts[u] + 1 ELSE critCounts[u]]
        /\ retries' = [u \in Tasks |-> IF u \in charged THEN retries[u] + 1 ELSE retries[u]]
    BY <1>3 DEF RouteCriterionRetry
  <2> HIDE DEF chosen, charged
  <2> QED
    BY <1>1, <1>3, <2>2, <2>3 DEF CountersType
<1>4. ASSUME NEW i \in Tasks, Handle(i) \/ Route(i) PROVE CountersType'
  <2>1. replans' = replans
    BY <1>4 DEF Handle, TakeStale, TakeDone, TakeFailure, HandleCheckpoint, HandleRefusal,
       Live, Receive, Route, Routing, DiscardStale, RouteCriteria, FailAndStop,
       FailAndSelfHeal, FailAndJump
  <2>2. CASE Handle(i)
    BY <1>2, <2>1, <2>2 DEF Handle, TakeStale, TakeDone, TakeFailure, TakeUp,
       HandleCheckpoint, HandleRefusal
  <2>3. CASE DiscardStale(i) \/ FailAndStop(i)
    BY <1>2, <2>1, <2>3 DEF DiscardStale, FailAndStop
  <2>4. CASE RouteCriteria(i)
    BY <1>3, <2>1, <2>4 DEF RouteCriteria
  <2>5. CASE FailAndSelfHeal(i) \/ FailAndJump(i)
    BY <1>1, <2>1, <2>5 DEF FailAndSelfHeal, FailAndJump, CountersType
  <2> QED
    BY <1>4, <2>2, <2>3, <2>4, <2>5 DEF Route
<1>5. ASSUME NEW i \in Tasks, Worker(i) PROVE CountersType'
  <2>1. UNCHANGED counters /\ (replans' = replans \/ replans' = replans + 1)
    BY <1>5 DEF Worker, RefuseBudget, RefuseCapability, RejectDuplicate, ServeFromCache,
       FailToStart, Execute, Succeed, Fail, FailUnresolved, CheckpointPause,
       CheckpointReplan, CheckpointDenied, EndEarly, EndExecution
  <2> QED
    BY <1>1, <2>1 DEF CountersType, counters
<1>6. ASSUME NEW i \in Tasks,
             \/ PassOver(i) \/ BlockDispatch(i) \/ NoPermit(i) \/ Launch(i)
             \/ SweepDefer(i) \/ SweepReset(i) \/ Drain(i)
      PROVE  CountersType'
  BY <1>2, <1>6 DEF PassOver, BlockDispatch, NoPermit, Launch, SweepDefer, SweepReset, Drain
<1>7. CASE \/ Start \/ EndScan \/ EndSweep \/ BeginDrain \/ EndDrain \/ MarkStranded
           \/ Cancel \/ Over \/ UNCHANGED vars
  BY <1>2, <1>7 DEF Start, EndScan, EndSweep, BeginDrain, EndDrain, MarkStranded,
     Cancel, Over, vars
<1> QED
  BY <1>4, <1>5, <1>6, <1>7 DEF Next, Scheduler

\* The marks stay Boolean: the run's cancellation, the deferred resets, and
\* whether a stored result would satisfy a task.
LEMMA FlagsStep == TypeOK /\ [Next]_vars => FlagsType'
<1> SUFFICES ASSUME TypeOK, [Next]_vars PROVE FlagsType'
  OBVIOUS
<1>1. /\ cancelled \in BOOLEAN
      /\ needsReset \in [Tasks -> BOOLEAN]
      /\ cache \in [Tasks -> BOOLEAN]
  BY DEF TypeOK, FlagsType
<1>2. \A S : Invalidated(S) \in [Tasks -> BOOLEAN]
  <2> SUFFICES ASSUME NEW S PROVE Invalidated(S) \in [Tasks -> BOOLEAN]
    OBVIOUS
  <2>1. \A u \in Tasks : (cache[u] /\ u \notin S) \in BOOLEAN
    OBVIOUS
  <2> QED
    BY <2>1, Zenon DEF Invalidated
<1>3. cancelled' \in BOOLEAN
  <2>1. cancelled' = cancelled \/ cancelled' = TRUE
    BY DEF Next, Scheduler, Start, EndScan, PassOver, BlockDispatch, NoPermit, Launch,
       Handle, TakeStale, TakeDone, TakeFailure, HandleCheckpoint, HandleRefusal, Live,
       Receive, Route, Routing, DiscardStale, RouteCriteria, FailAndStop,
       FailAndSelfHeal, FailAndJump,
       SweepDefer, SweepReset, Drain, EndSweep, BeginDrain, EndDrain, MarkStranded,
       Worker, RefuseBudget, RefuseCapability, RejectDuplicate, ServeFromCache,
       FailToStart, Execute, Succeed, Fail, FailUnresolved, CheckpointPause,
       CheckpointReplan, CheckpointDenied, EndEarly, EndExecution, Cancel, Over, vars
  <2> QED
    BY <1>1, <2>1, Zenon
<1>4. needsReset' \in [Tasks -> BOOLEAN]
  <2>1. ASSUME NEW i \in Tasks, TakeStale(i) PROVE needsReset' = [needsReset EXCEPT ![i] = FALSE]
    BY <2>1 DEF TakeStale
  <2>2. ASSUME NEW j \in Tasks, SweepDefer(j)
        PROVE  needsReset' = needsReset \/ needsReset' = [needsReset EXCEPT ![j] = TRUE]
    BY <2>2 DEF SweepDefer
  <2>3. ASSUME NEW i \in Tasks, Handle(i), ~TakeStale(i) PROVE needsReset' = needsReset
    BY <2>3 DEF Handle, TakeDone, TakeFailure, HandleCheckpoint, HandleRefusal, Live
  <2>9. ASSUME NEW i \in Tasks, Route(i) PROVE needsReset' = needsReset
    BY <2>9 DEF Route, Routing, DiscardStale, RouteCriteria, FailAndStop,
       FailAndSelfHeal, FailAndJump
  <2>4. ASSUME NEW i \in Tasks, Worker(i) PROVE needsReset' = needsReset
    BY <2>4 DEF Worker, RefuseBudget, RefuseCapability, RejectDuplicate, ServeFromCache,
       FailToStart, Execute, Succeed, Fail, FailUnresolved, CheckpointPause,
       CheckpointReplan, CheckpointDenied, EndEarly, EndExecution
  <2>5. \/ \E i \in Tasks : TakeStale(i) \/ SweepDefer(i)
        \/ needsReset' = needsReset
    BY <2>3, <2>4, <2>9 DEF Next, Scheduler, Start, EndScan, PassOver, BlockDispatch, NoPermit,
       Launch, SweepReset, Drain, EndSweep, BeginDrain, EndDrain, MarkStranded,
       Cancel, Over, vars
  <2>6. \A i \in Tasks, b \in BOOLEAN : [needsReset EXCEPT ![i] = b] \in [Tasks -> BOOLEAN]
    BY <1>1, Zenon
  <2>7. ASSUME NEW i \in Tasks, TakeStale(i) PROVE needsReset' \in [Tasks -> BOOLEAN]
    BY <2>1, <2>6, <2>7, Zenon
  <2>8. ASSUME NEW j \in Tasks, SweepDefer(j) PROVE needsReset' \in [Tasks -> BOOLEAN]
    BY <1>1, <2>2, <2>6, <2>8, Zenon
  <2> QED
    BY <1>1, <2>5, <2>7, <2>8, Zenon
<1>5. cache' \in [Tasks -> BOOLEAN]
  <2>1. ASSUME NEW i \in Tasks, Route(i)
        PROVE  cache' = cache \/ \E S : cache' = Invalidated(S)
    BY <2>1 DEF Route, DiscardStale, RouteCriteria, FailAndStop, FailAndSelfHeal,
       FailAndJump, ResetInPlace, RouteCriterionRetry
  <2>9. ASSUME NEW i \in Tasks, Handle(i) PROVE cache' = cache
    BY <2>9 DEF Handle, TakeStale, TakeDone, TakeFailure, TakeUp, HandleCheckpoint,
       HandleRefusal
  <2>2. ASSUME NEW j \in Tasks, SweepReset(j) PROVE cache' = Invalidated({j})
    BY <2>2 DEF SweepReset
  <2>3. ASSUME NEW i \in Tasks, Succeed(i) PROVE cache' = [cache EXCEPT ![i] = TRUE]
    BY <2>3 DEF Succeed
  <2>4. ASSUME NEW i \in Tasks, Worker(i), ~Succeed(i) PROVE cache' = cache
    BY <2>4 DEF Worker, RefuseBudget, RefuseCapability, RejectDuplicate, ServeFromCache,
       FailToStart, Execute, Fail, FailUnresolved, CheckpointPause,
       CheckpointReplan, CheckpointDenied, EndEarly
  <2>5. \/ \E i \in Tasks : Route(i) \/ SweepReset(i) \/ Succeed(i)
        \/ cache' = cache
    BY <2>4, <2>9 DEF Next, Scheduler, Start, EndScan, PassOver, BlockDispatch, NoPermit,
       Launch, SweepDefer, Drain, EndSweep, BeginDrain, EndDrain, MarkStranded,
       Cancel, Over, vars
  <2>6. ASSUME NEW i \in Tasks, Route(i) PROVE cache' \in [Tasks -> BOOLEAN]
    BY <1>1, <1>2, <2>1, <2>6, Zenon
  <2>7. ASSUME NEW i \in Tasks, Succeed(i) PROVE cache' \in [Tasks -> BOOLEAN]
    BY <1>1, <2>3, <2>7, Zenon
  <2>8. ASSUME NEW i \in Tasks, SweepReset(i) PROVE cache' \in [Tasks -> BOOLEAN]
    BY <1>2, <2>2, <2>8, Zenon
  <2> QED
    BY <1>1, <2>5, <2>6, <2>7, <2>8, Zenon
<1> QED
  BY <1>3, <1>4, <1>5 DEF FlagsType

\* Dispatches are counted, and named, only for tasks of the batch.
LEMMA FlightStep == TypeOK /\ [Next]_vars => FlightType'
<1> SUFFICES ASSUME TypeOK, [Next]_vars PROVE FlightType'
  OBVIOUS
<1> DEFINE Event == [task : Tasks, kind : EventKinds, class : FailureClasses]
<1>1. /\ inProgress \in Int /\ sem \in Int /\ slots \subseteq Tasks /\ active \subseteq Tasks
      /\ starting \in [Tasks -> Nat] /\ executing \in [Tasks -> Nat]
      /\ events \in Seq(Event)
  BY DEF TypeOK, FlightType
<1>2. ASSUME UNCHANGED <<holdings, workers, events>> PROVE FlightType'
  BY <1>1, <1>2 DEF FlightType, holdings, workers
<1>3. ASSUME NEW i \in Tasks, events # <<>>, Release(i), UNCHANGED workers PROVE FlightType'
  <2>1. events' \in Seq(Event)
    BY <1>1, <1>3 DEF Release
  <2> QED
    BY <1>1, <1>3, <2>1 DEF Release, FlightType, workers
<1>4. ASSUME NEW i \in Tasks, Handle(i) PROVE FlightType'
  BY <1>3, <1>4 DEF Handle, TakeStale, TakeDone, TakeFailure, HandleCheckpoint,
     HandleRefusal, Live, Receive
<1>10. ASSUME NEW i \in Tasks, Route(i) PROVE FlightType'
  BY <1>2, <1>10 DEF Route, Routing, DiscardStale, RouteCriteria, FailAndStop,
     FailAndSelfHeal, FailAndJump
<1>5. ASSUME NEW i \in Tasks, Drain(i) PROVE FlightType'
  BY <1>3, <1>5 DEF Drain
<1>6. ASSUME NEW i \in Tasks, Launch(i) PROVE FlightType'
  BY <1>1, <1>6 DEF Launch, FlightType
<1>7. ASSUME NEW i \in Tasks, Worker(i) PROVE FlightType'
  <2>1. ASSUME NEW kind \in EventKinds, NEW class \in FailureClasses, Send(i, kind, class)
        PROVE  events' \in Seq(Event)
    BY <1>1, <2>1 DEF Send
  <2>2. ASSUME NEW kind \in EventKinds, NEW class \in FailureClasses, NEW leaves,
               EndEarly(i, kind, class, leaves)
        PROVE  FlightType'
    <3>1. starting' \in [Tasks -> Nat]
      BY <1>1, <2>2 DEF EndEarly
    <3> QED
      BY <1>1, <2>1, <2>2, <3>1 DEF EndEarly, FlightType, holdings
  <2>3. ASSUME NEW kind \in EventKinds, NEW class \in FailureClasses, NEW leaves,
               EndExecution(i, kind, class, leaves)
        PROVE  FlightType'
    <3>1. executing' \in [Tasks -> Nat]
      BY <1>1, <2>3 DEF EndExecution
    <3> QED
      BY <1>1, <2>1, <2>3, <3>1 DEF EndExecution, FlightType, holdings
  <2>4. CASE \/ RefuseBudget(i) \/ RefuseCapability(i) \/ RejectDuplicate(i)
             \/ ServeFromCache(i) \/ FailToStart(i)
    BY <2>2, <2>4 DEF RefuseBudget, RefuseCapability, RejectDuplicate, ServeFromCache,
       FailToStart, EventKinds, FailureClasses
  <2>5. CASE \/ Succeed(i) \/ Fail(i) \/ FailUnresolved(i) \/ CheckpointPause(i)
             \/ CheckpointReplan(i) \/ CheckpointDenied(i)
    <3>1. ClassesRead(i) \subseteq FailureClasses
      BY DEF ClassesRead, FailureClasses
    <3> QED
      BY <2>3, <2>5, <3>1 DEF Succeed, Fail, FailUnresolved, CheckpointPause,
         CheckpointReplan, CheckpointDenied, EventKinds, FailureClasses
  <2>6. CASE Execute(i)
    BY <1>1, <2>6 DEF Execute, FlightType, holdings
  <2> QED
    BY <1>7, <2>4, <2>5, <2>6 DEF Worker
<1>8. ASSUME NEW i \in Tasks,
             \/ PassOver(i) \/ BlockDispatch(i) \/ NoPermit(i)
             \/ SweepDefer(i) \/ SweepReset(i)
      PROVE  FlightType'
  BY <1>2, <1>8 DEF PassOver, BlockDispatch, NoPermit, SweepDefer, SweepReset
<1>9. CASE \/ Start \/ EndScan \/ EndSweep \/ BeginDrain \/ EndDrain \/ MarkStranded
           \/ Cancel \/ Over \/ UNCHANGED vars
  BY <1>2, <1>9 DEF Start, EndScan, EndSweep, BeginDrain, EndDrain, MarkStranded,
     Cancel, Over, vars
<1> QED
  BY <1>4, <1>5, <1>6, <1>7, <1>8, <1>9, <1>10 DEF Next, Scheduler

\* The type invariant of the scheduler holds in every run of every batch.
THEOREM TypeCorrect == Spec => []TypeOK
<1>1. TypeOK /\ [Next]_vars => TypeOK'
  BY ControlStep, TablesStep, CountersStep, FlagsStep, FlightStep DEF TypeOK
<1> QED
  BY InitTypeOK, <1>1, PTL DEF Spec

-----------------------------------------------------------------------------
(***************************************************************************)
(* Dispatches, permits and claims                                          *)
(*                                                                         *)
(* A task that holds a slot is in exactly one of three places: a goroutine *)
(* that has not begun, one that executes, or an event not yet handled.     *)
(* The invariant says so without counting, and adds what makes it          *)
(* inductive: the scheduler's table shows a slot's task as in_progress, so *)
(* no reset, retry, block or second launch is open to it.                  *)
(***************************************************************************)

HasEvent(i) == \E k \in 1 .. Len(events) : events[k].task = i

OnePlace ==
    /\ \A i \in Tasks : /\ starting[i] \in {0, 1} /\ executing[i] \in {0, 1}
                        /\ starting[i] = 1 => executing[i] = 0
                        /\ Running(i) => ~HasEvent(i)
                        /\ i \in slots <=> Running(i) \/ HasEvent(i)
    /\ \A k, l \in 1 .. Len(events) : events[k].task = events[l].task => k = l

SlotsHeld ==
    /\ active = slots
    /\ \A i \in slots : states[i] = "in_progress"

SlotsCompatible == \A i, j \in slots : i # j => ~ClaimsConflict(i, j)

\* The task whose event is being handled has left the flight, and is noted as
\* what its event said.
TakenUp ==
    pc = "handle" =>
        /\ source \in Tasks \ slots
        /\ states[source] = IF report = "ok" THEN "done" ELSE "error"

FlightInv == TypeOK /\ TakenUp /\ OnePlace /\ SlotsHeld /\ SlotsCompatible

\* What the channel holds after a send and after a receive.
LEMMA ChannelAppend ==
    ASSUME NEW S, NEW s \in Seq(S), NEW e \in S
    PROVE  /\ Len(Append(s, e)) = Len(s) + 1
           /\ Append(s, e)[Len(s) + 1] = e
           /\ \A k \in 1 .. Len(s) : Append(s, e)[k] = s[k]
OBVIOUS

LEMMA ChannelTail ==
    ASSUME NEW S, NEW s \in Seq(S), s # <<>>
    PROVE  /\ Len(s) \in Nat /\ Len(s) > 0 /\ Head(s) = s[1]
           /\ Len(Tail(s)) = Len(s) - 1
           /\ \A k \in 1 .. Len(Tail(s)) : Tail(s)[k] = s[k + 1]
OBVIOUS

\* Conflict is symmetric, so a task launched beside the running ones is one
\* they do not conflict with either.
LEMMA ConflictSymmetric ==
    ASSUME NEW i, NEW j, ClaimsConflict(i, j) PROVE ClaimsConflict(j, i)
BY DEF ClaimsConflict

\* A criterion retry touches no task that is in progress.
LEMMA CriterionRetrySparesRunning ==
    ASSUME NEW i \in Tasks, NEW targets \in SUBSET RepairTargets[i],
           RouteCriterionRetry(i, targets),
           NEW u \in Tasks, states[u] = "in_progress"
    PROVE  states'[u] = states[u] /\ todo'[u] = todo[u]
BY DEF RouteCriterionRetry, Eligible, ReplayBlocked

\* What the actions of a worker leave to the scheduler.
LEMMA WorkerSparesScheduler ==
    ASSUME NEW i \in Tasks, Worker(i)
    PROVE  UNCHANGED <<control, cancelled, states, counters, needsReset, holdings>>
BY DEF Worker, RefuseBudget, RefuseCapability, RejectDuplicate, ServeFromCache,
   FailToStart, Execute, Succeed, Fail, FailUnresolved, CheckpointPause,
   CheckpointReplan, CheckpointDenied, EndEarly, EndExecution

\* What the routing of an event leaves alone, and where it leads.
LEMMA RouteFrame ==
    ASSUME NEW i \in Tasks, Route(i)
    PROVE  /\ pc = "handle" /\ source = i /\ report \in Reports
           /\ UNCHANGED <<cancelled, needsReset, holdings, workers, events, replans>>
           /\ pc' \in {"launch", "wait", "wave"}
<1>1. /\ pc = "handle" /\ source = i /\ report \in Reports
      /\ UNCHANGED <<cancelled, needsReset, holdings, workers, events, replans>>
  BY DEF Route, Routing, DiscardStale, RouteCriteria, FailAndStop, FailAndSelfHeal,
     FailAndJump, Reports
<1>2. pc' \in {"launch", "wait", "wave"}
  BY DEF Route, DiscardStale, RouteCriteria, RouteCriterionRetry, FailAndStop,
     FailAndSelfHeal, FailAndJump, ResetInPlace, BeginScan, Await
<1> QED
  BY <1>1, <1>2

\* What run() does with an event it has received: it leaves the flight, and is
\* taken up, rests or starts a scan.
LEMMA HandleFrame ==
    ASSUME NEW i \in Tasks, Handle(i)
    PROVE  /\ pc = "wait" /\ ~cancelled /\ cancelled' = cancelled
           /\ events # <<>> /\ Head(events).task = i /\ Release(i)
           /\ UNCHANGED <<workers, resets, counters, cache, replans>>
           /\ \/ pc' \in {"launch", "wait"} /\ source' = NoTask
              \/ TakeStale(i) /\ pc' = "handle" /\ source' = i /\ report' = "stale"
              \/ TakeDone(i) /\ pc' = "handle" /\ source' = i /\ report' = "ok"
              \/ TakeFailure(i) /\ pc' = "handle" /\ source' = i
                    /\ report' = Head(events).class
<1>1. /\ pc = "wait" /\ ~cancelled /\ cancelled' = cancelled
      /\ events # <<>> /\ Head(events).task = i /\ Release(i)
      /\ UNCHANGED <<workers, replans>>
  BY DEF Handle, TakeStale, TakeDone, TakeFailure, HandleCheckpoint, HandleRefusal, Live,
     Receive
<1>2. UNCHANGED <<resets, counters, cache>>
  BY DEF Handle, TakeStale, TakeDone, TakeFailure, TakeUp, HandleCheckpoint, HandleRefusal
<1>3. CASE HandleCheckpoint(i) \/ HandleRefusal(i)
  BY <1>1, <1>2, <1>3 DEF HandleCheckpoint, HandleRefusal, BeginScan, Await, Handled
<1>4. CASE TakeStale(i) \/ TakeDone(i) \/ TakeFailure(i)
  BY <1>1, <1>2, <1>4 DEF TakeStale, TakeDone, TakeFailure, TakeUp
<1> QED
  BY <1>3, <1>4 DEF Handle

\* The step of a scheduler action that only works on tasks without a slot.
LEMMA SlotsUntouched ==
    ASSUME FlightInv, TypeOK', TakenUp', UNCHANGED <<holdings, workers, events>>,
           \A i \in slots : states'[i] = states[i]
    PROVE  FlightInv'
<1>1. OnePlace'
  BY DEF FlightInv, OnePlace, HasEvent, Running, holdings, workers
<1>2. SlotsHeld'
  BY DEF FlightInv, SlotsHeld, holdings
<1>3. SlotsCompatible'
  BY DEF FlightInv, SlotsCompatible, ClaimsConflict, holdings
<1> QED
  BY <1>1, <1>2, <1>3 DEF FlightInv

\* Handling an event: its task leaves the flight, every other stays in it.
LEMMA ReleaseKeepsFlight ==
    ASSUME FlightInv, TypeOK', TakenUp', NEW i \in Tasks, events # <<>>, Head(events).task = i,
           Release(i), UNCHANGED workers,
           \A j \in slots \ {i} : states'[j] = states[j]
    PROVE  FlightInv'
<1> DEFINE Event == [task : Tasks, kind : EventKinds, class : FailureClasses]
<1>1. /\ events \in Seq(Event) /\ slots \subseteq Tasks
      /\ OnePlace /\ SlotsHeld /\ SlotsCompatible
  BY DEF FlightInv, TypeOK, FlightType
<1>2. /\ Len(events) \in Nat /\ Len(events) > 0 /\ events[1].task = i
      /\ Len(events') = Len(events) - 1
      /\ \A k \in 1 .. Len(events') : events'[k] = events[k + 1]
  BY <1>1, ChannelTail DEF Release
<1>3. slots' = slots \ {i} /\ active' = active \ {i} /\ starting' = starting /\ executing' = executing
  BY DEF Release, workers
<1>4. HasEvent(i) /\ ~Running(i)
  BY <1>1, <1>2 DEF OnePlace, HasEvent
<1>5. \A k, l \in 1 .. Len(events') : events'[k].task = events'[l].task => k = l
  <2> SUFFICES ASSUME NEW k \in 1 .. Len(events'), NEW l \in 1 .. Len(events'),
                      events'[k].task = events'[l].task
               PROVE  k = l
    OBVIOUS
  <2>1. k + 1 \in 1 .. Len(events) /\ l + 1 \in 1 .. Len(events)
    BY <1>2
  <2>2. k + 1 = l + 1
    BY <1>1, <1>2, <2>1 DEF OnePlace
  <2> QED
    BY <2>2
<1>6. ~HasEvent(i)'
  <2> SUFFICES ASSUME NEW k \in 1 .. Len(events'), events'[k].task = i PROVE FALSE
    BY DEF HasEvent
  <2>1. k + 1 \in 1 .. Len(events) /\ 1 \in 1 .. Len(events) /\ k + 1 # 1
    BY <1>2
  <2> QED
    BY <1>1, <1>2, <2>1 DEF OnePlace
<1>7. ASSUME NEW j \in Tasks \ {i} PROVE HasEvent(j)' <=> HasEvent(j)
  <2>1. ASSUME NEW k \in 1 .. Len(events'), events'[k].task = j PROVE HasEvent(j)
    BY <1>2, <2>1 DEF HasEvent
  <2>2. ASSUME NEW k \in 1 .. Len(events), events[k].task = j PROVE HasEvent(j)'
    <3>1. k - 1 \in 1 .. Len(events') /\ events'[k - 1] = events[k]
      BY <1>2, <2>2
    <3> QED
      BY <2>2, <3>1 DEF HasEvent
  <2> QED
    BY <2>1, <2>2 DEF HasEvent
<1>8. \A j \in Tasks : Running(j)' <=> Running(j)
  BY <1>3 DEF Running
<1>9. OnePlace'
  <2>1. ASSUME NEW j \in Tasks
        PROVE  /\ starting'[j] \in {0, 1} /\ executing'[j] \in {0, 1}
               /\ starting'[j] = 1 => executing'[j] = 0
               /\ Running(j)' => ~HasEvent(j)'
               /\ j \in slots' <=> Running(j)' \/ HasEvent(j)'
    <3>1. CASE j = i
      BY <1>1, <1>3, <1>4, <1>6, <1>8, <3>1 DEF OnePlace
    <3>2. CASE j # i
      BY <1>1, <1>3, <1>7, <1>8, <3>2 DEF OnePlace
    <3> QED
      BY <3>1, <3>2
  <2> QED
    BY <1>5, <2>1 DEF OnePlace
<1>10. SlotsHeld' /\ SlotsCompatible'
  BY <1>1, <1>3 DEF SlotsHeld, SlotsCompatible, ClaimsConflict
<1> QED
  BY <1>9, <1>10 DEF FlightInv

\* A goroutine that ends sends its event: the task changes place.
LEMMA SendKeepsFlight ==
    ASSUME FlightInv, TypeOK', TakenUp', NEW i \in Tasks, Running(i), ~Running(i)',
           starting'[i] \in {0, 1}, executing'[i] \in {0, 1},
           \A j \in Tasks \ {i} : starting'[j] = starting[j] /\ executing'[j] = executing[j],
           NEW kind \in EventKinds, NEW class \in FailureClasses, Send(i, kind, class),
           UNCHANGED <<states, holdings>>
    PROVE  FlightInv'
<1> DEFINE Event == [task : Tasks, kind : EventKinds, class : FailureClasses]
           e == [task |-> i, kind |-> kind, class |-> class]
<1>1. /\ events \in Seq(Event) /\ e \in Event /\ OnePlace /\ SlotsHeld /\ SlotsCompatible
      /\ starting \in [Tasks -> Nat] /\ executing \in [Tasks -> Nat]
      /\ starting' \in [Tasks -> Nat] /\ executing' \in [Tasks -> Nat]
  BY DEF FlightInv, TypeOK, FlightType
<1>2. /\ Len(events) \in Nat /\ Len(events') = Len(events) + 1
      /\ events'[Len(events) + 1] = e
      /\ \A k \in 1 .. Len(events) : events'[k] = events[k]
  BY <1>1, ChannelAppend DEF Send
<1>3. ~HasEvent(i) /\ i \in slots /\ slots' = slots /\ active' = active
  BY <1>1 DEF OnePlace, holdings
<1>4. HasEvent(i)'
  BY <1>2 DEF HasEvent
<1>5. ASSUME NEW j \in Tasks \ {i} PROVE HasEvent(j)' <=> HasEvent(j)
  <2>1. ASSUME NEW k \in 1 .. Len(events'), events'[k].task = j PROVE HasEvent(j)
    <3>1. k \in 1 .. Len(events)
      BY <1>2, <2>1
    <3> QED
      BY <1>2, <2>1, <3>1 DEF HasEvent
  <2>2. ASSUME NEW k \in 1 .. Len(events), events[k].task = j PROVE HasEvent(j)'
    BY <1>2, <2>2 DEF HasEvent
  <2> QED
    BY <2>1, <2>2 DEF HasEvent
<1>6. \A k, l \in 1 .. Len(events') : events'[k].task = events'[l].task => k = l
  <2>1. \A k \in 1 .. Len(events) : events'[k].task # i
    BY <1>2, <1>3 DEF HasEvent
  <2>2. SUFFICES ASSUME NEW k \in 1 .. Len(events'), NEW l \in 1 .. Len(events'),
                        events'[k].task = events'[l].task
                 PROVE  k = l
    OBVIOUS
  <2>3. /\ k \in 1 .. Len(events) \/ (k = Len(events) + 1 /\ events'[k].task = i)
        /\ l \in 1 .. Len(events) \/ (l = Len(events) + 1 /\ events'[l].task = i)
    BY <1>2
  <2>4. CASE k \in 1 .. Len(events) /\ l \in 1 .. Len(events)
    BY <1>1, <1>2, <2>2, <2>4 DEF OnePlace
  <2> QED
    BY <2>1, <2>2, <2>3, <2>4
<1>7. OnePlace'
  <2>1. ASSUME NEW j \in Tasks
        PROVE  /\ starting'[j] \in {0, 1} /\ executing'[j] \in {0, 1}
               /\ starting'[j] = 1 => executing'[j] = 0
               /\ Running(j)' => ~HasEvent(j)'
               /\ j \in slots' <=> Running(j)' \/ HasEvent(j)'
    <3>1. CASE j = i
      BY <1>1, <1>3, <1>4, <3>1 DEF OnePlace, Running
    <3>2. CASE j # i
      BY <1>1, <1>3, <1>5, <3>2 DEF OnePlace, Running
    <3> QED
      BY <3>1, <3>2
  <2> QED
    BY <1>6, <2>1 DEF OnePlace
<1>8. SlotsHeld' /\ SlotsCompatible'
  BY <1>1, <1>3 DEF SlotsHeld, SlotsCompatible, ClaimsConflict
<1> QED
  BY <1>7, <1>8 DEF FlightInv

\* Every action of a worker keeps its task in one place.
LEMMA WorkerKeepsFlight ==
    ASSUME FlightInv, TypeOK', TakenUp', NEW i \in Tasks, Worker(i) PROVE FlightInv'
<1>1. /\ starting \in [Tasks -> Nat] /\ executing \in [Tasks -> Nat]
      /\ OnePlace /\ SlotsHeld /\ SlotsCompatible
  BY DEF FlightInv, TypeOK, FlightType
<1>2. ASSUME NEW kind \in EventKinds, NEW class \in FailureClasses, NEW leaves,
             EndEarly(i, kind, class, leaves)
      PROVE  FlightInv'
  <2>1. starting[i] = 1 /\ executing[i] = 0
    BY <1>1, <1>2 DEF EndEarly, OnePlace
  <2>2. starting' = [starting EXCEPT ![i] = 0] /\ executing' = executing
    BY <1>2, <2>1 DEF EndEarly
  <2>3. Running(i) /\ ~Running(i)'
    BY <1>1, <2>1, <2>2 DEF Running
  <2> QED
    BY <1>1, <1>2, <2>1, <2>2, <2>3, SendKeepsFlight DEF EndEarly
<1>3. ASSUME NEW kind \in EventKinds, NEW class \in FailureClasses, NEW leaves,
             EndExecution(i, kind, class, leaves)
      PROVE  FlightInv'
  <2>1. executing[i] = 1 /\ starting[i] = 0
    BY <1>1, <1>3 DEF EndExecution, OnePlace
  <2>2. executing' = [executing EXCEPT ![i] = 0] /\ starting' = starting
    BY <1>3, <2>1 DEF EndExecution
  <2>3. Running(i) /\ ~Running(i)'
    BY <1>1, <2>1, <2>2 DEF Running
  <2> QED
    BY <1>1, <1>3, <2>1, <2>2, <2>3, SendKeepsFlight DEF EndExecution
<1>4. CASE \/ RefuseBudget(i) \/ RefuseCapability(i) \/ RejectDuplicate(i)
           \/ ServeFromCache(i) \/ FailToStart(i)
  BY <1>2, <1>4 DEF RefuseBudget, RefuseCapability, RejectDuplicate, ServeFromCache,
     FailToStart, EventKinds, FailureClasses
<1>5. CASE \/ Succeed(i) \/ Fail(i) \/ FailUnresolved(i) \/ CheckpointPause(i)
           \/ CheckpointReplan(i) \/ CheckpointDenied(i)
  <2>1. ClassesRead(i) \subseteq FailureClasses
    BY DEF ClassesRead, FailureClasses
  <2> QED
    BY <1>3, <1>5, <2>1 DEF Succeed, Fail, FailUnresolved, CheckpointPause,
       CheckpointReplan, CheckpointDenied, EventKinds, FailureClasses
<1>6. CASE Execute(i)
  <2>0. starting[i] = 1 /\ executing[i] = 0
    BY <1>1, <1>6 DEF Execute, OnePlace
  <2>1. /\ starting[i] = 1 /\ executing[i] = 0
        /\ starting' = [starting EXCEPT ![i] = 0] /\ executing' = [executing EXCEPT ![i] = 1]
        /\ UNCHANGED <<states, holdings, events>>
    BY <1>6, <2>0 DEF Execute
  <2>2. \A j \in Tasks : (Running(j)' <=> Running(j)) /\ (HasEvent(j)' <=> HasEvent(j))
    BY <1>1, <2>1 DEF Running, HasEvent
  <2>3. OnePlace'
    BY <1>1, <2>1, <2>2 DEF OnePlace, holdings
  <2> QED
    BY <1>1, <2>1, <2>3 DEF FlightInv, SlotsHeld, SlotsCompatible, ClaimsConflict, holdings
<1> QED
  BY <1>4, <1>5, <1>6 DEF Worker

\* A launch takes a task that holds nothing and conflicts with nothing held.
LEMMA LaunchKeepsFlight ==
    ASSUME FlightInv, TypeOK', TakenUp', NEW i \in Tasks, Launch(i) PROVE FlightInv'
<1>1. /\ starting \in [Tasks -> Nat] /\ executing \in [Tasks -> Nat]
      /\ states \in [Tasks -> SchedulerStates] /\ slots \subseteq Tasks
      /\ OnePlace /\ SlotsHeld /\ SlotsCompatible
  BY DEF FlightInv, TypeOK, FlightType, TablesType
<1>2. states[i] = "pending" /\ ~ResourceConflict(i)
  BY DEF Launch, Launchable
<1>3. i \notin slots /\ starting[i] = 0 /\ executing[i] = 0 /\ ~HasEvent(i)
  BY <1>1, <1>2 DEF SlotsHeld, OnePlace, Running
<1>4. /\ slots' = slots \cup {i} /\ active' = active \cup {i}
      /\ states' = [states EXCEPT ![i] = "in_progress"]
      /\ starting' = [starting EXCEPT ![i] = 1]
      /\ executing' = executing /\ events' = events
  BY <1>1, <1>3 DEF Launch
<1>5. \A j \in Tasks : (HasEvent(j)' <=> HasEvent(j)) /\ (Running(j)' <=> Running(j) \/ j = i)
  BY <1>1, <1>3, <1>4 DEF HasEvent, Running
<1>6. OnePlace'
  BY <1>1, <1>3, <1>4, <1>5 DEF OnePlace
<1>7. SlotsHeld'
  BY <1>1, <1>4 DEF SlotsHeld
<1>8. \A j \in slots : ~ClaimsConflict(i, j) /\ ~ClaimsConflict(j, i)
  BY <1>1, <1>2, <1>3, ConflictSymmetric DEF ResourceConflict, SlotsHeld
<1>9. SlotsCompatible'
  <2>1. ASSUME NEW j \in slots', NEW k \in slots', j # k PROVE ~ClaimsConflict(j, k)
    BY <1>1, <1>4, <1>8, <2>1 DEF SlotsCompatible
  <2> QED
    BY <2>1 DEF SlotsCompatible, ClaimsConflict
<1> QED
  BY <1>6, <1>7, <1>9 DEF FlightInv

\* What handling an event of task i, or draining it, leaves of the others.
LEMMA HandleSparesOthers ==
    ASSUME FlightInv, NEW i \in Tasks, Handle(i) \/ Drain(i)
    PROVE  /\ events # <<>> /\ Head(events).task = i /\ Release(i) /\ UNCHANGED workers
           /\ \A j \in Tasks \ {i} : states'[j] = states[j] /\ todo'[j] = todo[j]
<1>1. states \in [Tasks -> SchedulerStates] /\ todo \in [Tasks -> SchedulerStates]
  BY DEF FlightInv, TypeOK, TablesType
<1>2. events # <<>> /\ Head(events).task = i /\ Release(i) /\ UNCHANGED workers
  BY HandleFrame DEF Drain
<1>3. CASE Handle(i)
  <2>2. PICK s : states' = [states EXCEPT ![i] = s]
    BY <1>3 DEF Handle, TakeStale, TakeDone, TakeFailure, HandleCheckpoint,
       HandleRefusal, Failed
  <2>3. PICK t : todo' = [todo EXCEPT ![i] = t] \/ todo' = todo
    BY <1>3 DEF Handle, TakeStale, TakeDone, TakeFailure, HandleCheckpoint, HandleRefusal
  <2> QED
    BY <1>1, <1>2, <2>2, <2>3
<1>4. CASE Drain(i)
  BY <1>1, <1>2, <1>4 DEF Drain
<1> QED
  BY <1>2, <1>3, <1>4

\* The scheduler's other actions change only tasks that hold no slot.
LEMMA SchedulerSparesSlots ==
    ASSUME FlightInv,
           \/ Start \/ EndScan \/ EndSweep \/ BeginDrain \/ EndDrain \/ MarkStranded
           \/ Cancel \/ Over \/ UNCHANGED vars
           \/ \E i \in Tasks : \/ PassOver(i) \/ BlockDispatch(i) \/ NoPermit(i)
                               \/ SweepDefer(i) \/ SweepReset(i) \/ Route(i)
    PROVE  /\ UNCHANGED <<holdings, workers, events>>
           /\ \A j \in slots : states'[j] = states[j] /\ todo'[j] = todo[j]
<1>1. /\ states \in [Tasks -> SchedulerStates] /\ todo \in [Tasks -> SchedulerStates]
      /\ slots \subseteq Tasks /\ \A j \in slots : states[j] = "in_progress"
  BY DEF FlightInv, SlotsHeld, TypeOK, TablesType, FlightType
<1>2. CASE \/ Start \/ EndScan \/ EndSweep \/ BeginDrain \/ EndDrain
           \/ Cancel \/ Over \/ UNCHANGED vars
  BY <1>2 DEF Start, EndScan, EndSweep, BeginDrain, EndDrain, Cancel, Over, vars
<1>3. CASE MarkStranded
  BY <1>1, <1>3 DEF MarkStranded, Stranded
<1>4. ASSUME NEW i \in Tasks, PassOver(i) \/ NoPermit(i) \/ SweepDefer(i)
      PROVE  UNCHANGED <<holdings, workers, events, states, todo>>
  BY <1>4 DEF PassOver, NoPermit, SweepDefer
<1>5. ASSUME NEW i \in Tasks, BlockDispatch(i), NEW j \in slots
      PROVE  states'[j] = states[j] /\ todo'[j] = todo[j]
  BY <1>1, <1>5 DEF BlockDispatch, Launchable
<1>6. ASSUME NEW i \in Tasks, SweepReset(i), NEW j \in slots
      PROVE  states'[j] = states[j] /\ todo'[j] = todo[j]
  BY <1>1, <1>6 DEF SweepReset, InFlight
<1>7. ASSUME NEW i \in Tasks, BlockDispatch(i) \/ SweepReset(i) \/ Route(i)
      PROVE  UNCHANGED <<holdings, workers, events>>
  BY <1>7, RouteFrame DEF BlockDispatch, SweepReset
<1>8. ASSUME NEW i \in Tasks, Route(i), NEW j \in slots
      PROVE  states'[j] = states[j] /\ todo'[j] = todo[j]
  <2>1. j # i
    BY <1>8, RouteFrame DEF FlightInv, TakenUp
  <2>2. CASE DiscardStale(i) \/ FailAndSelfHeal(i)
    BY <1>1, <2>1, <2>2 DEF DiscardStale, FailAndSelfHeal, ResetInPlace
  <2>3. CASE RouteCriteria(i)
    BY <1>1, <2>3, CriterionRetrySparesRunning DEF RouteCriteria
  <2>4. CASE FailAndStop(i) \/ FailAndJump(i)
    BY <2>4 DEF FailAndStop, FailAndJump
  <2> QED
    BY <1>8, <2>2, <2>3, <2>4 DEF Route
<1> QED
  BY <1>2, <1>3, <1>4, <1>5, <1>6, <1>7, <1>8

\* While an event is being routed only the workers move beside its routing.
LEMMA TakenUpStep == TypeOK /\ TakenUp /\ [Next]_vars => TakenUp'
<1> SUFFICES ASSUME TypeOK, TakenUp, [Next]_vars, pc' = "handle"
             PROVE  /\ source' \in Tasks \ slots'
                    /\ states'[source'] = IF report' = "ok" THEN "done" ELSE "error"
  BY DEF TakenUp
<1>1. states \in [Tasks -> SchedulerStates]
  BY DEF TypeOK, TablesType
<1>2. CASE UNCHANGED <<pc, source, report, states, slots>>
  BY <1>2 DEF TakenUp
<1>3. ASSUME NEW i \in Tasks, Handle(i)
      PROVE  /\ source' \in Tasks \ slots'
             /\ states'[source'] = IF report' = "ok" THEN "done" ELSE "error"
  <2>1. i \notin slots' /\ events # <<>>
    BY <1>3, HandleFrame DEF Release
  <2>2. CASE TakeStale(i)
    BY <1>1, <2>1, <2>2 DEF TakeStale, TakeUp, Failed
  <2>3. CASE TakeDone(i)
    BY <1>1, <2>1, <2>3 DEF TakeDone, TakeUp
  <2>4. CASE TakeFailure(i)
    <3>1. Head(events).class # "ok"
      BY <2>1, HeadTyped DEF TypeOK, FailureClasses
    <3> QED
      BY <1>1, <2>1, <2>4, <3>1 DEF TakeFailure, TakeUp, Failed
  <2> QED
    BY <1>3, <2>2, <2>3, <2>4, HandleFrame
<1>4. ASSUME NEW i \in Tasks, Worker(i) PROVE UNCHANGED <<pc, source, report, states, slots>>
  BY <1>4, WorkerSparesScheduler DEF control, sweep, holdings
<1>5. ASSUME NEW i \in Tasks,
             \/ PassOver(i) \/ BlockDispatch(i) \/ NoPermit(i) \/ Launch(i) \/ Route(i)
             \/ SweepDefer(i) \/ SweepReset(i) \/ Drain(i)
      PROVE  FALSE
  BY <1>5, RouteFrame DEF PassOver, BlockDispatch, NoPermit, Launch, Scanning, Await,
     SweepDefer, SweepReset, Drain, control
<1>6. CASE Cancel \/ Over \/ UNCHANGED vars
  BY <1>2, <1>6 DEF Cancel, Over, vars, control, sweep, holdings
<1>7. CASE Start \/ EndScan \/ EndSweep \/ BeginDrain \/ EndDrain \/ MarkStranded
  BY <1>7 DEF Start, EndScan, EndSweep, BeginDrain, EndDrain, MarkStranded, BeginScan, Await
<1> QED
  BY <1>2, <1>3, <1>4, <1>5, <1>6, <1>7 DEF Next, Scheduler

LEMMA InitFlight == Init => FlightInv
<1> SUFFICES ASSUME Init PROVE FlightInv
  OBVIOUS
<1>1. TypeOK
  BY InitTypeOK
<1>2. OnePlace
  BY DEF Init, OnePlace, Running, HasEvent
<1> QED
  BY <1>1, <1>2 DEF Init, FlightInv, TakenUp, SlotsHeld, SlotsCompatible

LEMMA FlightStepKept == FlightInv /\ [Next]_vars => FlightInv'
<1> SUFFICES ASSUME FlightInv, [Next]_vars PROVE FlightInv'
  OBVIOUS
<1>1. TypeOK' /\ TakenUp'
  BY ControlStep, TablesStep, CountersStep, FlagsStep, FlightStep, TakenUpStep
     DEF TypeOK, FlightInv
<1>2. ASSUME NEW i \in Tasks, Handle(i) \/ Drain(i) PROVE FlightInv'
  <2>1. \A j \in slots \ {i} : states'[j] = states[j]
    BY <1>2, HandleSparesOthers DEF FlightInv, TypeOK, FlightType
  <2> QED
    BY <1>1, <1>2, <2>1, HandleSparesOthers, ReleaseKeepsFlight
<1>3. ASSUME NEW i \in Tasks, Worker(i) PROVE FlightInv'
  BY <1>1, <1>3, WorkerKeepsFlight
<1>4. ASSUME NEW i \in Tasks, Launch(i) PROVE FlightInv'
  BY <1>1, <1>4, LaunchKeepsFlight
<1>5. ASSUME \/ Start \/ EndScan \/ EndSweep \/ BeginDrain \/ EndDrain \/ MarkStranded
             \/ Cancel \/ Over \/ UNCHANGED vars
             \/ \E i \in Tasks : \/ PassOver(i) \/ BlockDispatch(i) \/ NoPermit(i)
                                 \/ SweepDefer(i) \/ SweepReset(i) \/ Route(i)
      PROVE  FlightInv'
  BY <1>1, <1>5, SchedulerSparesSlots, SlotsUntouched
<1> QED
  BY <1>2, <1>3, <1>4, <1>5 DEF Next, Scheduler

\* A slot's task has one goroutine or one event, counted.
LEMMA OnePlaceCounted == FlightInv => OneDispatchInFlight
<1> SUFFICES ASSUME FlightInv, NEW i \in Tasks
             PROVE  starting[i] + executing[i] + Cardinality(EventsOf(i))
                        = IF i \in slots THEN 1 ELSE 0
  BY DEF OneDispatchInFlight
<1> DEFINE Event == [task : Tasks, kind : EventKinds, class : FailureClasses]
<1>1. events \in Seq(Event) /\ OnePlace
  BY DEF FlightInv, TypeOK, FlightType
<1>2. DOMAIN events = 1 .. Len(events)
  BY <1>1
<1>3. CASE HasEvent(i)
  <2>1. PICK k \in 1 .. Len(events) : events[k].task = i
    BY <1>3 DEF HasEvent
  <2>2. EventsOf(i) = {k}
    BY <1>1, <1>2, <2>1 DEF EventsOf, OnePlace
  <2>3. Cardinality(EventsOf(i)) = 1
    BY <2>2, FS_Singleton
  <2> QED
    BY <1>1, <1>3, <2>3 DEF OnePlace, Running
<1>4. CASE ~HasEvent(i)
  <2>1. EventsOf(i) = {}
    BY <1>2, <1>4 DEF EventsOf, HasEvent
  <2>2. Cardinality(EventsOf(i)) = 0
    BY <2>1, FS_EmptySet
  <2> QED
    BY <1>1, <1>4, <2>2 DEF OnePlace, Running
<1> QED
  BY <1>3, <1>4

\* No dispatch is lost and no task runs twice at once.
THEOREM DispatchedOnce == Spec => []OneDispatchInFlight
BY InitFlight, FlightStepKept, OnePlaceCounted, PTL DEF Spec

\* Goroutines of tasks with conflicting resource claims never run together.
THEOREM ClaimsRespected == Spec => []NoConflictInFlight
<1>1. FlightInv => NoConflictInFlight
  BY DEF FlightInv, OnePlace, SlotsCompatible, NoConflictInFlight
<1> QED
  BY InitFlight, FlightStepKept, <1>1, PTL DEF Spec

-----------------------------------------------------------------------------
(***************************************************************************)
(* Permits and counts.  The count and the semaphore follow the number of   *)
(* slots; a task outside the flight is not in_progress until the drain,    *)
(* because a checkpoint event finds the durable status its worker wrote.   *)
(***************************************************************************)

Counted ==
    /\ inProgress = Cardinality(slots)
    /\ sem = IF Limit = 0 THEN 0 ELSE Cardinality(slots)
    /\ Limit > 0 => sem <= Limit

IdleOutside ==
    pc \notin {"drain", "aborted"} => \A i \in Tasks \ slots : states[i] # "in_progress"

CheckpointSettled ==
    \A k \in 1 .. Len(events) :
        events[k].kind = "checkpoint" => todo[events[k].task] \in {"paused", "blocked"}

HoldingInv == FlightInv /\ Counted /\ IdleOutside /\ CheckpointSettled

LEMMA CountedStep == HoldingInv /\ [Next]_vars => Counted'
<1> SUFFICES ASSUME HoldingInv, [Next]_vars PROVE Counted'
  OBVIOUS
<1>1. /\ FlightInv /\ Counted /\ slots \subseteq Tasks /\ Limit \in Nat
      /\ IsFiniteSet(slots) /\ Cardinality(slots) \in Nat
  BY TasksFinite, BatchAssumption DEF HoldingInv, FlightInv, TypeOK, FlightType
<1>2. ASSUME NEW i \in Tasks, Handle(i) \/ Drain(i) PROVE Counted'
  <2>1. Release(i) /\ events # <<>> /\ Head(events).task = i
    BY <1>1, <1>2, HandleSparesOthers
  <2>2. i \in slots
    <3>1. Len(events) \in Nat /\ Len(events) > 0 /\ Head(events) = events[1]
      BY <1>1, <2>1, ChannelTail DEF FlightInv, TypeOK, FlightType
    <3> QED
      BY <1>1, <2>1, <3>1 DEF FlightInv, OnePlace, HasEvent
  <2>3. Cardinality(slots \ {i}) = Cardinality(slots) - 1
    BY <1>1, <2>2, FS_RemoveElement
  <2> QED
    BY <1>1, <2>1, <2>2, <2>3 DEF Release, Counted
<1>3. ASSUME NEW i \in Tasks, Launch(i) PROVE Counted'
  <2>1. i \notin slots
    BY <1>1, <1>3 DEF Launch, Launchable, FlightInv, SlotsHeld
  <2>2. Cardinality(slots \cup {i}) = Cardinality(slots) + 1
    BY <1>1, <2>1, FS_AddElement
  <2> QED
    BY <1>1, <1>3, <2>2 DEF Launch, PermitFree, Counted
<1>4. ASSUME NEW i \in Tasks, Worker(i) PROVE UNCHANGED holdings
  BY <1>4 DEF Worker, RefuseBudget, RefuseCapability, RejectDuplicate, ServeFromCache,
     FailToStart, Execute, Succeed, Fail, FailUnresolved, CheckpointPause,
     CheckpointReplan, CheckpointDenied, EndEarly, EndExecution
<1>5. ASSUME UNCHANGED holdings PROVE Counted'
  BY <1>1, <1>5 DEF Counted, holdings
<1> QED
  BY <1>1, <1>2, <1>3, <1>4, <1>5, SchedulerSparesSlots DEF Next, Scheduler

\* A task leaves the flight with the status its event carried, never in progress.
LEMMA IdleStep == HoldingInv /\ [Next]_vars => IdleOutside'
<1> SUFFICES ASSUME HoldingInv, [Next]_vars, pc' \notin {"drain", "aborted"},
                    NEW u \in Tasks \ slots'
             PROVE  states'[u] # "in_progress"
  BY DEF IdleOutside
<1>1. /\ states \in [Tasks -> SchedulerStates] /\ todo \in [Tasks -> SchedulerStates]
      /\ slots \subseteq Tasks /\ FlightInv /\ OnePlace
      /\ IdleOutside /\ CheckpointSettled
  BY DEF HoldingInv, FlightInv, TypeOK, TablesType, FlightType
<1>2. ASSUME pc \notin {"drain", "aborted"}, slots' = slots, states'[u] = states[u]
      PROVE  states'[u] # "in_progress"
  BY <1>1, <1>2 DEF IdleOutside
<1>3. ASSUME NEW i \in Tasks, Handle(i) PROVE states'[u] # "in_progress"
  <2>1. /\ pc = "wait" /\ slots' = slots \ {i} /\ events # <<>> /\ Head(events).task = i
        /\ Release(i)
    BY <1>3, HandleFrame DEF Release
  <2>2. u # i => states[u] # "in_progress"
    BY <1>1, <2>1 DEF IdleOutside
  <2>3. Len(events) \in Nat /\ Len(events) > 0 /\ Head(events) = events[1]
    BY <1>1, <2>1, ChannelTail DEF FlightInv, TypeOK, FlightType
  <2>4. ASSUME NEW s, s # "in_progress", states' = [states EXCEPT ![i] = s]
        PROVE  states'[u] # "in_progress"
    BY <1>1, <2>2, <2>4
  <2>5. CASE TakeStale(i) \/ TakeDone(i) \/ TakeFailure(i)
    BY <2>4, <2>5 DEF TakeStale, TakeDone, TakeFailure, Failed
  <2>6. CASE HandleCheckpoint(i)
    <3>1. CASE Live(i, {"checkpoint"}) /\ states' = [states EXCEPT ![i] = todo[i]]
      <4>1. todo[i] \in {"paused", "blocked"}
        BY <1>1, <2>1, <2>3, <3>1 DEF Live, Receive, CheckpointSettled
      <4> QED
        BY <2>4, <3>1, <4>1
    <3>2. CASE states' = [states EXCEPT ![i] = "pending"]
      BY <2>4, <3>2
    <3> QED
      BY <2>6, <3>1, <3>2 DEF HandleCheckpoint
  <2>7. CASE HandleRefusal(i)
    BY <2>4, <2>7 DEF HandleRefusal
  <2> QED
    BY <1>3, <2>5, <2>6, <2>7 DEF Handle
<1>13. ASSUME NEW i \in Tasks, Route(i) PROVE states'[u] # "in_progress"
  <2>1. pc = "handle" /\ slots' = slots
    BY <1>13, RouteFrame DEF holdings
  <2>2. states[u] # "in_progress"
    BY <1>1, <2>1 DEF IdleOutside
  <2>3. CASE DiscardStale(i) \/ FailAndSelfHeal(i)
    <3>1. PICK r \in ResetOutcomes(i, states[i], todo[i]) :
             states' = [states EXCEPT ![i] = r.state]
      BY <2>3 DEF DiscardStale, FailAndSelfHeal, ResetInPlace
    <3>2. states[i] \in SchedulerStates /\ todo[i] \in SchedulerStates
      BY <1>1
    <3>3. r.state = "in_progress" => states[i] = "in_progress"
      BY <3>2, ResetOutcomesType
    <3> QED
      BY <1>1, <2>2, <3>1, <3>3
  <2>4. CASE RouteCriteria(i)
    BY <1>1, <2>2, <2>4 DEF RouteCriteria, RouteCriterionRetry
  <2>5. CASE FailAndStop(i) \/ FailAndJump(i)
    BY <2>2, <2>5 DEF FailAndStop, FailAndJump
  <2> QED
    BY <1>13, <2>3, <2>4, <2>5 DEF Route
<1>4. ASSUME NEW j \in Tasks, SweepReset(j) PROVE states'[u] # "in_progress"
  <2>1. PICK r \in ResetOutcomes(j, states[j], todo[j]) :
          states' = [states EXCEPT ![j] = r.state]
    BY <1>4 DEF SweepReset
  <2>2. r.state # "in_progress" /\ slots' = slots /\ pc = "wave"
    BY <1>1, <1>4, ResetOutcomesType DEF SweepReset, InFlight, holdings
  <2> QED
    BY <1>1, <1>2, <2>1, <2>2
<1>5. ASSUME NEW i \in Tasks, BlockDispatch(i) PROVE states'[u] # "in_progress"
  BY <1>1, <1>2, <1>5 DEF BlockDispatch, Scanning, holdings
<1>6. ASSUME NEW i \in Tasks, Launch(i) PROVE states'[u] # "in_progress"
  BY <1>1, <1>6 DEF Launch, Scanning, IdleOutside
<1>7. ASSUME NEW i \in Tasks, PassOver(i) \/ NoPermit(i) \/ SweepDefer(i)
      PROVE  states'[u] # "in_progress"
  BY <1>2, <1>7 DEF PassOver, NoPermit, SweepDefer, Scanning, holdings
<1>8. ASSUME NEW i \in Tasks, Worker(i) PROVE states'[u] # "in_progress"
  <2>1. UNCHANGED <<pc, states, slots>>
    BY <1>8 DEF Worker, RefuseBudget, RefuseCapability, RejectDuplicate, ServeFromCache,
       FailToStart, Execute, Succeed, Fail, FailUnresolved, CheckpointPause,
       CheckpointReplan, CheckpointDenied, EndEarly, EndExecution, control, holdings
  <2> QED
    BY <1>2, <2>1
<1>9. CASE MarkStranded
  BY <1>1, <1>2, <1>9 DEF MarkStranded, Stranded, holdings
<1>10. CASE Start \/ EndScan \/ EndSweep \/ Cancel \/ Over \/ UNCHANGED vars
  BY <1>2, <1>10 DEF Start, EndScan, EndSweep, Cancel, Over, vars, control, holdings
<1>11. ASSUME NEW i \in Tasks, Drain(i) PROVE FALSE
  BY <1>11 DEF Drain, control
<1>12. ~BeginDrain /\ ~EndDrain
  BY DEF BeginDrain, EndDrain
<1> QED
  BY <1>3, <1>4, <1>5, <1>6, <1>7, <1>8, <1>9, <1>10, <1>11, <1>12, <1>13
     DEF Next, Scheduler

LEMMA ChannelElements ==
    ASSUME NEW S, NEW s \in Seq(S) PROVE \A k \in 1 .. Len(s) : s[k] \in S
OBVIOUS

\* A worker that reports a checkpoint has committed paused or blocked, and no
\* one touches a task's durable status while its event is on the way.
LEMMA CheckpointStep == HoldingInv /\ [Next]_vars => CheckpointSettled'
<1> DEFINE Event == [task : Tasks, kind : EventKinds, class : FailureClasses]
<1> SUFFICES ASSUME HoldingInv, [Next]_vars PROVE CheckpointSettled'
  OBVIOUS
<1>1. /\ FlightInv /\ OnePlace /\ CheckpointSettled /\ events \in Seq(Event)
      /\ todo \in [Tasks -> SchedulerStates] /\ Len(events) \in Nat
  BY DEF HoldingInv, FlightInv, TypeOK, TablesType, FlightType
<1>2. \A k \in 1 .. Len(events) : events[k].task \in Tasks /\ events[k].task \in slots
  <2>1. \A k \in 1 .. Len(events) : events[k] \in Event
    BY <1>1, ChannelElements
  <2> QED
    BY <1>1, <2>1 DEF OnePlace, HasEvent
<1>3. ASSUME NEW i \in Tasks, Handle(i) \/ Drain(i) PROVE CheckpointSettled'
  <2>1. /\ events # <<>> /\ Head(events).task = i /\ events' = Tail(events)
        /\ \A j \in Tasks \ {i} : todo'[j] = todo[j]
    BY <1>1, <1>3, HandleSparesOthers DEF Release
  <2>2. /\ Len(events') = Len(events) - 1 /\ Head(events) = events[1]
        /\ \A k \in 1 .. Len(events') : events'[k] = events[k + 1]
    BY <1>1, <2>1, ChannelTail
  <2>3. ASSUME NEW k \in 1 .. Len(events'), events'[k].kind = "checkpoint"
        PROVE  todo'[events'[k].task] \in {"paused", "blocked"}
    <3>1. k + 1 \in 1 .. Len(events) /\ 1 \in 1 .. Len(events) /\ k + 1 # 1
      BY <1>1, <2>2
    <3>2. events[k + 1].task # i
      BY <1>1, <2>1, <2>2, <3>1 DEF OnePlace
    <3> QED
      BY <1>1, <1>2, <2>1, <2>2, <2>3, <3>1, <3>2 DEF CheckpointSettled
  <2> QED
    BY <2>3 DEF CheckpointSettled
<1>4. ASSUME NEW i \in Tasks, NEW kind \in EventKinds, NEW class \in FailureClasses,
             Send(i, kind, class), Running(i),
             \A j \in Tasks \ {i} : todo'[j] = todo[j],
             kind = "checkpoint" => todo'[i] \in {"paused", "blocked"}
      PROVE  CheckpointSettled'
  <2>1. /\ Len(events') = Len(events) + 1
        /\ events'[Len(events) + 1] = [task |-> i, kind |-> kind, class |-> class]
        /\ \A k \in 1 .. Len(events) : events'[k] = events[k]
    BY <1>1, <1>4, ChannelAppend DEF Send
  <2>2. \A k \in 1 .. Len(events) : events[k].task \in Tasks \ {i}
    BY <1>1, <1>2, <1>4 DEF OnePlace, HasEvent
  <2>3. ASSUME NEW k \in 1 .. Len(events'), events'[k].kind = "checkpoint"
        PROVE  todo'[events'[k].task] \in {"paused", "blocked"}
    <3>1. CASE k \in 1 .. Len(events)
      BY <1>1, <1>4, <2>1, <2>2, <2>3, <3>1 DEF CheckpointSettled
    <3>2. CASE k = Len(events) + 1
      BY <1>4, <2>1, <2>3, <3>2
    <3> QED
      BY <1>1, <2>1, <3>1, <3>2
  <2> QED
    BY <2>3 DEF CheckpointSettled
<1>5. ASSUME NEW i \in Tasks, Worker(i) PROVE CheckpointSettled'
  <2>1. starting[i] \in Nat /\ executing[i] \in Nat
    BY <1>1 DEF FlightInv, TypeOK, FlightType
  <2>2. ASSUME NEW kind \in EventKinds \ {"checkpoint"}, NEW class \in FailureClasses,
               NEW leaves, EndEarly(i, kind, class, leaves)
        PROVE  CheckpointSettled'
    BY <1>1, <1>4, <2>1, <2>2 DEF EndEarly, Running
  <2>3. ASSUME NEW kind \in EventKinds, NEW class \in FailureClasses, NEW leaves,
               EndExecution(i, kind, class, leaves),
               kind = "checkpoint" => leaves \in {"paused", "blocked"}
        PROVE  CheckpointSettled'
    BY <1>1, <1>4, <2>1, <2>3 DEF EndExecution, Running
  <2>4. CASE \/ RefuseBudget(i) \/ RefuseCapability(i) \/ RejectDuplicate(i)
             \/ ServeFromCache(i) \/ FailToStart(i)
    BY <2>2, <2>4 DEF RefuseBudget, RefuseCapability, RejectDuplicate, ServeFromCache,
       FailToStart, EventKinds, FailureClasses
  <2>5. CASE \/ Succeed(i) \/ Fail(i) \/ FailUnresolved(i) \/ CheckpointPause(i)
             \/ CheckpointReplan(i) \/ CheckpointDenied(i)
    <3>1. ClassesRead(i) \subseteq FailureClasses
      BY DEF ClassesRead, FailureClasses
    <3> QED
      BY <2>3, <2>5, <3>1 DEF Succeed, Fail, FailUnresolved, CheckpointPause,
         CheckpointReplan, CheckpointDenied, EventKinds, FailureClasses
  <2>6. CASE Execute(i)
    <3>1. ~HasEvent(i)
      BY <1>1, <2>1, <2>6 DEF Execute, OnePlace, Running
    <3>2. events' = events /\ \A j \in Tasks \ {i} : todo'[j] = todo[j]
      BY <1>1, <2>6 DEF Execute
    <3> QED
      BY <1>1, <1>2, <3>1, <3>2 DEF CheckpointSettled, HasEvent
  <2> QED
    BY <1>5, <2>4, <2>5, <2>6 DEF Worker
<1>6. ASSUME UNCHANGED events, \A j \in slots : todo'[j] = todo[j] PROVE CheckpointSettled'
  BY <1>1, <1>2, <1>6 DEF CheckpointSettled
<1>7. ASSUME NEW i \in Tasks, Launch(i) PROVE CheckpointSettled'
  BY <1>6, <1>7 DEF Launch
<1>8. ASSUME \/ Start \/ EndScan \/ EndSweep \/ BeginDrain \/ EndDrain \/ MarkStranded
             \/ Cancel \/ Over \/ UNCHANGED vars
             \/ \E i \in Tasks : \/ PassOver(i) \/ BlockDispatch(i) \/ NoPermit(i)
                                 \/ SweepDefer(i) \/ SweepReset(i) \/ Route(i)
      PROVE  CheckpointSettled'
  <2>1. /\ UNCHANGED <<holdings, workers, events>>
        /\ \A j \in slots : states'[j] = states[j] /\ todo'[j] = todo[j]
    BY <1>1, <1>8, SchedulerSparesSlots
  <2> QED
    BY <1>6, <2>1
<1> QED
  BY <1>3, <1>5, <1>7, <1>8 DEF Next, Scheduler

LEMMA InitHolding == Init => HoldingInv
BY InitFlight, FS_EmptySet, BatchAssumption
   DEF Init, HoldingInv, Counted, IdleOutside, CheckpointSettled

LEMMA HoldingStep == HoldingInv /\ [Next]_vars => HoldingInv'
BY FlightStepKept, CountedStep, IdleStep, CheckpointStep DEF HoldingInv

\* Slots, permits, claims, the in-flight count and the in_progress states agree
\* in every run: releaseInProgress leaks nothing and frees nothing twice.
THEOREM HoldingsExact == Spec => []HoldingsMatchFlight
<1>1. HoldingInv => HoldingsMatchFlight
  BY DEF HoldingInv, FlightInv, SlotsHeld, Counted, IdleOutside, HoldingsMatchFlight
<1> QED
  BY InitHolding, HoldingStep, <1>1, PTL DEF Spec

-----------------------------------------------------------------------------
(* Retry budgets and cancellation *)

\* The loop of routeCriterionRetry returns at the first target that takes the
\* retry, so one event takes at most one.
LEMMA OneTargetChosen ==
    ASSUME NEW i \in Tasks, NEW targets \in SUBSET RepairTargets[i]
    PROVE  LET chosen == {u \in Visited(i, targets) : Eligible(i, u)}
           IN  Cardinality(chosen) \in {0, 1}
<1> DEFINE chosen == {u \in Visited(i, targets) : Eligible(i, u)}
<1>1. targets \subseteq Tasks /\ Tasks \subseteq Nat
  BY BatchAssumption DEF Tasks
<1>2. \A u, v \in chosen : u = v
  BY <1>1 DEF Visited
<1>3. CASE chosen = {}
  BY <1>3, FS_EmptySet
<1>4. CASE chosen # {}
  <2>1. PICK u \in chosen : chosen = {u}
    BY <1>2, <1>4
  <2>2. Cardinality({u}) = 1
    BY FS_Singleton
  <2> QED
    BY <2>1, <2>2
<1> QED
  BY <1>3, <1>4

LEMMA RetriesStep == TypeOK /\ RetriesBounded /\ [Next]_vars => RetriesBounded'
<1> SUFFICES ASSUME TypeOK, RetriesBounded, [Next]_vars PROVE RetriesBounded'
  OBVIOUS
<1>1. /\ retries \in [Tasks -> Nat] /\ critUsed \in Nat /\ MaxRetries \in [Tasks -> Nat]
      /\ CriterionRetryBudget \in Nat
      /\ \A i \in Tasks : retries[i] <= MaxRetries[i]
      /\ critUsed <= CriterionRetryBudget
  BY BatchAssumption DEF TypeOK, CountersType, RetriesBounded, CriterionRetryBudget
<1>2. ASSUME UNCHANGED counters PROVE RetriesBounded'
  BY <1>1, <1>2 DEF RetriesBounded, CriterionRetryBudget, counters
<1>3. ASSUME NEW i \in Tasks, NEW targets \in SUBSET RepairTargets[i],
             RouteCriterionRetry(i, targets)
      PROVE  RetriesBounded'
  <2> DEFINE visited == IF critUsed < CriterionRetryBudget THEN Visited(i, targets) ELSE {}
             chosen  == {u \in visited : Eligible(i, u)}
             charged == {u \in chosen : states[u] # "pending"}
  <2>1. /\ critUsed' = critUsed + Cardinality(chosen)
        /\ retries' = [u \in Tasks |-> IF u \in charged THEN retries[u] + 1 ELSE retries[u]]
    BY <1>3 DEF RouteCriterionRetry
  <2>2. critUsed' <= CriterionRetryBudget
    <3>1. CASE critUsed < CriterionRetryBudget
      <4>1. Cardinality(chosen) \in {0, 1}
        BY <3>1, OneTargetChosen
      <4> QED
        BY <1>1, <2>1, <3>1, <4>1
    <3>2. CASE ~(critUsed < CriterionRetryBudget)
      <4>1. Cardinality(chosen) = 0
        BY <3>2, FS_EmptySet
      <4> QED
        BY <1>1, <2>1, <4>1
    <3> QED
      BY <3>1, <3>2
  <2>3. \A u \in charged : retries[u] < MaxRetries[u]
    BY DEF Eligible, UnderRetryLimit
  <2> HIDE DEF chosen, charged
  <2>4. \A u \in Tasks : retries'[u] <= MaxRetries[u]
    BY <1>1, <2>1, <2>3
  <2> QED
    BY <2>2, <2>4 DEF RetriesBounded, CriterionRetryBudget
<1>4. ASSUME NEW i \in Tasks, Route(i) PROVE RetriesBounded'
  <2>1. CASE DiscardStale(i) \/ FailAndStop(i)
    BY <1>2, <2>1 DEF DiscardStale, FailAndStop
  <2>2. CASE RouteCriteria(i)
    BY <1>3, <2>2 DEF RouteCriteria
  <2>3. CASE FailAndSelfHeal(i) \/ FailAndJump(i)
    <3>1. /\ retries[i] < MaxRetries[i] /\ retries' = [retries EXCEPT ![i] = @ + 1]
          /\ critUsed' = critUsed
      BY <2>3 DEF FailAndSelfHeal, FailAndJump, RetriesLeft
    <3> QED
      BY <1>1, <3>1 DEF RetriesBounded, CriterionRetryBudget
  <2> QED
    BY <1>4, <2>1, <2>2, <2>3 DEF Route
<1>5. ASSUME NEW i \in Tasks, Worker(i) \/ Handle(i) PROVE UNCHANGED counters
  BY <1>5, WorkerSparesScheduler, HandleFrame
<1>6. ASSUME NEW i \in Tasks,
             \/ PassOver(i) \/ BlockDispatch(i) \/ NoPermit(i) \/ Launch(i)
             \/ SweepDefer(i) \/ SweepReset(i) \/ Drain(i)
      PROVE  UNCHANGED counters
  BY <1>6 DEF PassOver, BlockDispatch, NoPermit, Launch, SweepDefer, SweepReset, Drain
<1>7. CASE \/ Start \/ EndScan \/ EndSweep \/ BeginDrain \/ EndDrain \/ MarkStranded
           \/ Cancel \/ Over \/ UNCHANGED vars
  BY <1>2, <1>7 DEF Start, EndScan, EndSweep, BeginDrain, EndDrain, MarkStranded,
     Cancel, Over, vars
<1> QED
  BY <1>2, <1>4, <1>5, <1>6, <1>7 DEF Next, Scheduler

\* No route, nor any sequence of them, spends more retries than the batch gave.
THEOREM RetriesStayBounded == Spec => []RetriesBounded
<1>1. Init => RetriesBounded
  BY BatchAssumption DEF Init, RetriesBounded, CriterionRetryBudget
<1>2. TypeOK /\ RetriesBounded /\ [Next]_vars => RetriesBounded'
  BY RetriesStep
<1> QED
  BY TypeCorrect, <1>1, <1>2, PTL DEF Spec

\* A step of a cancelled run starts no goroutine and takes up no event; only
\* the routing of one taken up before charges a retry, and an event drained
\* changes nothing but what the task held.
LEMMA CancelledStep ==
    ASSUME TypeOK, [Next]_vars, cancelled
    PROVE  /\ \A i \in Tasks : starting'[i] <= starting[i]
           /\ pc' = "handle" => pc = "handle"
           /\ counters' # counters => pc = "handle" /\ pc' # "handle"
           /\ slots' # slots => UNCHANGED <<states, resets, needsReset, cache>>
<1> DEFINE Quiet == /\ \A i \in Tasks : starting'[i] <= starting[i]
                    /\ pc' = "handle" => pc = "handle"
                    /\ counters' # counters => pc = "handle" /\ pc' # "handle"
                    /\ slots' # slots => UNCHANGED <<states, resets, needsReset, cache>>
<1>1. starting \in [Tasks -> Nat]
  BY DEF TypeOK, FlightType
<1>2. ASSUME starting' = starting, UNCHANGED counters, slots' = slots,
             pc' = "handle" => pc = "handle"
      PROVE  Quiet
  BY <1>1, <1>2
<1>3. ASSUME NEW i \in Tasks, Worker(i) PROVE Quiet
  <2>1. UNCHANGED <<pc, counters, slots>>
    BY <1>3, WorkerSparesScheduler DEF control, holdings
  <2>2. starting' = starting \/ starting' = [starting EXCEPT ![i] = @ - 1]
    BY <1>3 DEF Worker, RefuseBudget, RefuseCapability, RejectDuplicate, ServeFromCache,
       FailToStart, Execute, Succeed, Fail, FailUnresolved, CheckpointPause,
       CheckpointReplan, CheckpointDenied, EndEarly, EndExecution
  <2>3. \A j \in Tasks : starting'[j] <= starting[j]
    BY <1>1, <2>2
  <2> QED
    BY <2>1, <2>3
<1>4. ASSUME NEW i \in Tasks, Route(i) PROVE Quiet
  <2>1. pc = "handle" /\ pc' # "handle" /\ UNCHANGED <<starting, slots>>
    BY <1>4, RouteFrame DEF workers, holdings
  <2> QED
    BY <1>1, <2>1
<1>5. ASSUME NEW i \in Tasks,
             \/ PassOver(i) \/ BlockDispatch(i) \/ NoPermit(i) \/ Launch(i) \/ Handle(i)
      PROVE  FALSE
  BY <1>5, HandleFrame DEF PassOver, BlockDispatch, NoPermit, Launch, Scanning
<1>6. ASSUME NEW i \in Tasks, SweepDefer(i) \/ SweepReset(i) PROVE Quiet
  BY <1>2, <1>6 DEF SweepDefer, SweepReset, workers, holdings
<1>7. ASSUME NEW i \in Tasks, Drain(i) PROVE Quiet
  BY <1>1, <1>7 DEF Drain, workers, control
<1>8. CASE \/ Start \/ EndScan \/ EndSweep \/ BeginDrain \/ EndDrain \/ MarkStranded
           \/ Cancel \/ Over \/ UNCHANGED vars
  BY <1>2, <1>8 DEF Start, EndScan, EndSweep, BeginDrain, EndDrain, MarkStranded,
     Cancel, Over, vars, BeginScan, Await, workers, holdings, control
<1> QED
  BY <1>3, <1>4, <1>5, <1>6, <1>7, <1>8 DEF Next, Scheduler

\* Whatever is in flight or in hand when the context ends, nothing new is
\* started and no further event routed; at most the retry of the event in hand
\* is charged.
THEOREM CancelledStartsNothing == Spec => CancelledRunStartsNothing
<1>1. TypeOK /\ [Next]_vars =>
        [cancelled =>
            /\ \A i \in Tasks : starting'[i] <= starting[i]
            /\ pc' = "handle" => pc = "handle"
            /\ counters' # counters => pc = "handle" /\ pc' # "handle"
            /\ slots' # slots => UNCHANGED <<states, resets, needsReset, cache>>]_vars
  BY CancelledStep
<1> QED
  BY TypeCorrect, <1>1, PTL DEF Spec, CancelledRunStartsNothing

-----------------------------------------------------------------------------
(***************************************************************************)
(* Stored results.  A task queued again after a reset has no stored result *)
(* because each way back to pending drops it, or finds it gone: a worker   *)
(* that reports a replan has executed, which it does only without a stored *)
(* result, and it stores one only when it succeeds.                        *)
(***************************************************************************)

NothingStored ==
    /\ RerunExecutes
    /\ \A i \in Tasks : executing[i] > 0 => ~cache[i]
    /\ \A k \in 1 .. Len(events) : events[k].kind = "replan" => ~cache[events[k].task]

CacheInv == HoldingInv /\ NothingStored

LEMMA InvalidatedKeeps ==
    ASSUME NEW S, NEW u \in Tasks
    PROVE  Invalidated(S)[u] => cache[u] /\ u \notin S
BY Zenon DEF Invalidated

\* Only a task that succeeds gains a stored result.
LEMMA CacheShrinks ==
    ASSUME TypeOK, [Next]_vars, NEW u \in Tasks, cache'[u], ~cache[u]
    PROVE  Succeed(u)
<1>1. cache \in [Tasks -> BOOLEAN]
  BY DEF TypeOK, FlagsType
<1>2. ~UNCHANGED cache
  OBVIOUS
<1>3. ASSUME NEW S PROVE cache' # Invalidated(S)
  BY InvalidatedKeeps
<1>4. ASSUME NEW i \in Tasks, Worker(i) PROVE Succeed(u)
  <2>1. Succeed(i)
    BY <1>2, <1>4 DEF Worker, RefuseBudget, RefuseCapability, RejectDuplicate,
       ServeFromCache, FailToStart, Execute, Fail, FailUnresolved, CheckpointPause,
       CheckpointReplan, CheckpointDenied, EndEarly
  <2>2. cache' = [cache EXCEPT ![i] = TRUE]
    BY <2>1 DEF Succeed
  <2>3. u = i
    BY <1>1, <2>2, Zenon
  <2> QED
    BY <2>1, <2>3
<1>5. ASSUME NEW i \in Tasks, Handle(i) \/ Route(i) PROVE FALSE
  <2>1. UNCHANGED cache \/ \E S : cache' = Invalidated(S)
    BY <1>5, HandleFrame DEF Route, DiscardStale, RouteCriteria, FailAndStop,
       FailAndSelfHeal, FailAndJump, ResetInPlace, RouteCriterionRetry
  <2> QED
    BY <1>2, <1>3, <2>1
<1>6. ASSUME NEW i \in Tasks, SweepReset(i) PROVE FALSE
  BY <1>3, <1>6 DEF SweepReset
<1>7. ASSUME NEW i \in Tasks, \/ PassOver(i) \/ BlockDispatch(i) \/ NoPermit(i)
                              \/ Launch(i) \/ SweepDefer(i) \/ Drain(i)
      PROVE  FALSE
  BY <1>2, <1>7 DEF PassOver, BlockDispatch, NoPermit, Launch, SweepDefer, Drain
<1>8. CASE \/ Start \/ EndScan \/ EndSweep \/ BeginDrain \/ EndDrain \/ MarkStranded
           \/ Cancel \/ Over \/ UNCHANGED vars
  BY <1>2, <1>8 DEF Start, EndScan, EndSweep, BeginDrain, EndDrain, MarkStranded,
     Cancel, Over, vars
<1> QED
  BY <1>4, <1>5, <1>6, <1>7, <1>8 DEF Next, Scheduler

\* A task is queued, or charged a reset while queued, without a stored result.
LEMMA QueuedWithoutResult ==
    ASSUME CacheInv, [Next]_vars, NEW u \in Tasks, states'[u] = "pending",
           states[u] # "pending" \/ resets'[u] # resets[u]
    PROVE  ~cache'[u]
<1>1. /\ states \in [Tasks -> SchedulerStates] /\ todo \in [Tasks -> SchedulerStates]
      /\ resets \in [Tasks -> Nat] /\ cache \in [Tasks -> BOOLEAN]
      /\ starting \in [Tasks -> Nat] /\ executing \in [Tasks -> Nat]
      /\ FlightInv /\ OnePlace /\ SlotsHeld /\ NothingStored /\ CheckpointSettled
  BY DEF CacheInv, HoldingInv, FlightInv, TypeOK, TablesType, FlagsType, FlightType
<1>2. ASSUME NEW i \in Tasks, cache' = Invalidated({i}), u # i => states'[u] = states[u],
             u # i => resets'[u] = resets[u]
      PROVE  ~cache'[u]
  BY <1>2, InvalidatedKeeps
<1>3. ASSUME NEW i \in Tasks, NEW targets \in SUBSET RepairTargets[i],
             RouteCriterionRetry(i, targets)
      PROVE  ~cache'[u]
  <2> DEFINE visited == IF critUsed < CriterionRetryBudget THEN Visited(i, targets) ELSE {}
             chosen  == {v \in visited : Eligible(i, v)}
  <2>1. cache' = Invalidated(chosen)
    BY <1>3 DEF RouteCriterionRetry
  <2>2. u \in chosen
    BY <1>1, <1>3 DEF RouteCriterionRetry
  <2> HIDE DEF chosen
  <2> QED
    BY <2>1, <2>2, InvalidatedKeeps
<1>4. ASSUME NEW i \in Tasks, Handle(i) PROVE ~cache'[u]
  <2>1. events # <<>> /\ Head(events) = events[1] /\ 1 \in 1 .. Len(events)
        /\ Head(events).task = i
    <3>1. events # <<>> /\ Head(events).task = i
      BY <1>1, <1>4, HandleSparesOthers
    <3> QED
      BY <1>1, <3>1, ChannelTail DEF FlightInv, TypeOK, FlightType
  <2>2. resets' = resets
    BY <1>4, HandleFrame
  <2>3. CASE TakeStale(i) \/ TakeDone(i) \/ TakeFailure(i) \/ HandleRefusal(i)
    BY <1>1, <2>2, <2>3 DEF TakeStale, TakeDone, TakeFailure, HandleRefusal, Failed
  <2>4. CASE HandleCheckpoint(i)
    <3>1. u = i /\ cache' = cache
      BY <1>1, <2>4 DEF HandleCheckpoint
    <3>2. CASE Live(i, {"checkpoint"}) /\ states' = [states EXCEPT ![i] = todo[i]]
      BY <1>1, <2>1, <3>1, <3>2 DEF Live, Receive, CheckpointSettled
    <3>3. CASE Live(i, {"replan"})
      BY <1>1, <2>1, <3>1, <3>3 DEF Live, Receive, NothingStored
    <3> QED
      BY <2>4, <3>2, <3>3 DEF HandleCheckpoint
  <2> QED
    BY <1>4, <2>3, <2>4 DEF Handle
<1>9. ASSUME NEW i \in Tasks, Route(i) PROVE ~cache'[u]
  <2>1. CASE DiscardStale(i) \/ FailAndSelfHeal(i)
    <3>1. ResetInPlace(i)
      BY <2>1 DEF DiscardStale, FailAndSelfHeal
    <3>2. /\ cache' = Invalidated({i})
          /\ u # i => states'[u] = states[u] /\ resets'[u] = resets[u]
      BY <1>1, <3>1 DEF ResetInPlace
    <3> QED
      BY <1>2, <3>2
  <2>2. CASE RouteCriteria(i)
    BY <1>3, <2>2 DEF RouteCriteria
  <2>3. CASE FailAndStop(i) \/ FailAndJump(i)
    BY <2>3 DEF FailAndStop, FailAndJump
  <2> QED
    BY <1>9, <2>1, <2>2, <2>3 DEF Route
<1>5. ASSUME NEW j \in Tasks, SweepReset(j) PROVE ~cache'[u]
  <2>1. PICK r \in ResetOutcomes(j, states[j], todo[j]) :
           /\ states' = [states EXCEPT ![j] = r.state]
           /\ resets' = [resets EXCEPT ![j] = @ + r.again]
    BY <1>5 DEF SweepReset
  <2>2. u # j => states'[u] = states[u] /\ resets'[u] = resets[u]
    BY <1>1, <2>1
  <2>3. cache' = Invalidated({j})
    BY <1>5 DEF SweepReset
  <2> QED
    BY <1>2, <2>2, <2>3
<1>6. ASSUME NEW i \in Tasks, Worker(i) PROVE FALSE
  <2>1. states' = states
    BY <1>6 DEF Worker, RefuseBudget, RefuseCapability, RejectDuplicate, ServeFromCache,
       FailToStart, Execute, Succeed, Fail, FailUnresolved, CheckpointPause,
       CheckpointReplan, CheckpointDenied, EndEarly, EndExecution
  <2>2. CheckpointReplan(i) /\ u = i
    BY <1>1, <1>6, <2>1 DEF Worker, RefuseBudget, RefuseCapability, RejectDuplicate,
       ServeFromCache, FailToStart, Execute, Succeed, Fail, FailUnresolved,
       CheckpointPause, CheckpointReplan, CheckpointDenied, EndEarly
  <2>3. states[i] = "in_progress"
    <3>1. executing[i] > 0
      BY <2>2 DEF CheckpointReplan, EndExecution
    <3>2. Running(i)
      BY <1>1, <3>1 DEF Running
    <3> QED
      BY <1>1, <3>2 DEF OnePlace, SlotsHeld
  <2> QED
    BY <2>1, <2>2, <2>3
<1>7. ASSUME NEW i \in Tasks, \/ PassOver(i) \/ BlockDispatch(i) \/ NoPermit(i)
                              \/ Launch(i) \/ SweepDefer(i) \/ Drain(i)
      PROVE  FALSE
  BY <1>1, <1>7 DEF PassOver, BlockDispatch, NoPermit, Launch, SweepDefer, Drain
<1>8. CASE \/ Start \/ EndScan \/ EndSweep \/ BeginDrain \/ EndDrain \/ MarkStranded
           \/ Cancel \/ Over \/ UNCHANGED vars
  BY <1>1, <1>8 DEF Start, EndScan, EndSweep, BeginDrain, EndDrain, MarkStranded,
     Stranded, Cancel, Over, vars
<1> QED
  BY <1>4, <1>5, <1>6, <1>7, <1>8, <1>9 DEF Next, Scheduler

\* A goroutine begins to execute only through Execute.
LEMMA ExecutingGrows ==
    ASSUME TypeOK, [Next]_vars, NEW u \in Tasks, executing'[u] > executing[u]
    PROVE  Execute(u)
<1>1. executing \in [Tasks -> Nat]
  BY DEF TypeOK, FlightType
<1>2. ~UNCHANGED executing
  BY <1>1
<1>3. ASSUME NEW i \in Tasks, Worker(i) PROVE Execute(u)
  <2>1. Execute(i) \/ executing' = [executing EXCEPT ![i] = @ - 1]
    BY <1>2, <1>3 DEF Worker, RefuseBudget, RefuseCapability, RejectDuplicate,
       ServeFromCache, FailToStart, Succeed, Fail, FailUnresolved, CheckpointPause,
       CheckpointReplan, CheckpointDenied, EndEarly, EndExecution
  <2>2. Execute(i) /\ i = u
    BY <1>1, <2>1 DEF Execute
  <2> QED
    BY <2>2
<1>4. ASSUME NEW i \in Tasks, Handle(i) \/ Route(i) PROVE FALSE
  BY <1>2, <1>4, HandleFrame, RouteFrame DEF workers
<1>5. ASSUME NEW i \in Tasks,
             \/ PassOver(i) \/ BlockDispatch(i) \/ NoPermit(i) \/ Launch(i)
             \/ SweepDefer(i) \/ SweepReset(i) \/ Drain(i)
      PROVE  FALSE
  BY <1>2, <1>5 DEF PassOver, BlockDispatch, NoPermit, Launch, SweepDefer, SweepReset,
     Drain, workers
<1>6. CASE \/ Start \/ EndScan \/ EndSweep \/ BeginDrain \/ EndDrain \/ MarkStranded
           \/ Cancel \/ Over \/ UNCHANGED vars
  BY <1>2, <1>6 DEF Start, EndScan, EndSweep, BeginDrain, EndDrain, MarkStranded,
     Cancel, Over, vars, workers
<1> QED
  BY <1>3, <1>4, <1>5, <1>6 DEF Next, Scheduler

\* The event a worker sends: a replan is reported only by a task that executes.
LEMMA EventOrigin ==
    ASSUME HoldingInv, [Next]_vars, NEW k \in 1 .. Len(events'), events'[k].kind = "replan"
    PROVE  \/ \E l \in 1 .. Len(events) : events[l] = events'[k]
           \/ /\ executing[events'[k].task] > 0
              /\ cache' = cache
<1> DEFINE Event == [task : Tasks, kind : EventKinds, class : FailureClasses]
<1>1. FlightInv /\ events \in Seq(Event) /\ Len(events) \in Nat
  BY DEF HoldingInv, FlightInv, TypeOK, FlightType
<1>2. CASE events' = events
  BY <1>2
<1>3. ASSUME NEW i \in Tasks, Handle(i) \/ Drain(i)
      PROVE  \E l \in 1 .. Len(events) : events[l] = events'[k]
  <2>1. events # <<>> /\ events' = Tail(events)
    BY <1>1, <1>3, HandleSparesOthers DEF Release
  <2>2. /\ Len(events') = Len(events) - 1
        /\ \A l \in 1 .. Len(events') : events'[l] = events[l + 1]
    BY <1>1, <2>1, ChannelTail
  <2>3. k + 1 \in 1 .. Len(events) /\ events[k + 1] = events'[k]
    BY <1>1, <2>2
  <2> QED
    BY <2>3
<1>4. ASSUME NEW i \in Tasks, NEW kind \in EventKinds, NEW class \in FailureClasses,
             Send(i, kind, class)
      PROVE  \/ \E l \in 1 .. Len(events) : events[l] = events'[k]
             \/ kind = "replan" /\ events'[k].task = i
  <2>1. /\ Len(events') = Len(events) + 1
        /\ events'[Len(events) + 1] = [task |-> i, kind |-> kind, class |-> class]
        /\ \A l \in 1 .. Len(events) : events'[l] = events[l]
    BY <1>1, <1>4, ChannelAppend DEF Send
  <2>2. CASE k \in 1 .. Len(events)
    BY <2>1, <2>2
  <2>3. CASE k = Len(events) + 1
    BY <2>1, <2>3
  <2> QED
    BY <1>1, <2>1, <2>2, <2>3
<1>5. ASSUME NEW i \in Tasks, Worker(i)
      PROVE  \/ \E l \in 1 .. Len(events) : events[l] = events'[k]
             \/ executing[events'[k].task] > 0 /\ cache' = cache
  <2>1. ASSUME NEW kind \in EventKinds \ {"replan"}, NEW class \in FailureClasses,
               NEW leaves, EndEarly(i, kind, class, leaves) \/ EndExecution(i, kind, class, leaves)
        PROVE  \E l \in 1 .. Len(events) : events[l] = events'[k]
    BY <1>4, <2>1 DEF EndEarly, EndExecution
  <2>2. ClassesRead(i) \subseteq FailureClasses
    BY DEF ClassesRead, FailureClasses
  <2>3. CASE \/ RefuseBudget(i) \/ RefuseCapability(i) \/ RejectDuplicate(i)
             \/ ServeFromCache(i) \/ FailToStart(i)
    BY <2>1, <2>3 DEF RefuseBudget, RefuseCapability, RejectDuplicate, ServeFromCache,
       FailToStart, EventKinds, FailureClasses
  <2>4. CASE Succeed(i) \/ Fail(i) \/ FailUnresolved(i) \/ CheckpointPause(i)
    BY <2>1, <2>2, <2>4 DEF Succeed, Fail, FailUnresolved, CheckpointPause,
       EventKinds, FailureClasses
  <2>5. CASE CheckpointReplan(i) \/ CheckpointDenied(i)
    BY <1>4, <2>5 DEF CheckpointReplan, CheckpointDenied, EndExecution,
       EventKinds, FailureClasses
  <2>6. CASE Execute(i)
    BY <1>2, <2>6 DEF Execute
  <2> QED
    BY <1>5, <2>3, <2>4, <2>5, <2>6 DEF Worker
<1>6. ASSUME NEW i \in Tasks, Launch(i) PROVE events' = events
  BY <1>6 DEF Launch
<1> QED
  BY <1>1, <1>2, <1>3, <1>5, <1>6, SchedulerSparesSlots DEF Next, Scheduler

LEMMA NothingStoredStep == CacheInv /\ [Next]_vars => NothingStored'
<1> SUFFICES ASSUME CacheInv, [Next]_vars PROVE NothingStored'
  OBVIOUS
<1> DEFINE Event == [task : Tasks, kind : EventKinds, class : FailureClasses]
<1>1. /\ TypeOK /\ FlightInv /\ OnePlace /\ SlotsHeld /\ NothingStored /\ HoldingInv
      /\ events \in Seq(Event) /\ events' \in Seq(Event)
      /\ executing \in [Tasks -> Nat] /\ starting \in [Tasks -> Nat]
      /\ executing' \in [Tasks -> Nat] /\ resets' \in [Tasks -> Nat]
  BY FlightStepKept DEF CacheInv, HoldingInv, FlightInv, TypeOK, TablesType, FlightType
<1>2. ASSUME NEW u \in Tasks, Succeed(u)
      PROVE  /\ states'[u] = "in_progress" /\ executing'[u] = 0 /\ ~HasEvent(u)
             /\ \A k \in 1 .. Len(events') : events'[k].kind = "replan" =>
                    events'[k].task # u
  <2>1. executing[u] > 0 /\ executing' = [executing EXCEPT ![u] = @ - 1] /\ states' = states
    BY <1>2 DEF Succeed, EndExecution
  <2>2. Running(u)
    BY <1>1, <2>1 DEF Running
  <2>3. states[u] = "in_progress" /\ executing[u] = 1 /\ ~HasEvent(u)
    BY <1>1, <2>1, <2>2 DEF OnePlace, SlotsHeld
  <2>4. executing'[u] = 0
    BY <1>1, <2>1, <2>3
  <2>5. ASSUME NEW k \in 1 .. Len(events'), events'[k].kind = "replan", events'[k].task = u
        PROVE  FALSE
    <3>1. /\ Len(events) \in Nat /\ Len(events') = Len(events) + 1
          /\ events'[Len(events) + 1].kind = "ok"
          /\ \A l \in 1 .. Len(events) : events'[l] = events[l]
      <4>1. [task |-> u, kind |-> "ok", class |-> "execution"] \in Event
        BY DEF EventKinds, FailureClasses
      <4>2. events' = Append(events, [task |-> u, kind |-> "ok", class |-> "execution"])
        BY <1>2 DEF Succeed, EndExecution, Send
      <4> QED
        BY <1>1, <4>1, <4>2, ChannelAppend
    <3>2. k \in 1 .. Len(events)
      BY <2>5, <3>1
    <3> QED
      BY <2>3, <2>5, <3>1, <3>2 DEF HasEvent
  <2> QED
    BY <2>1, <2>3, <2>4, <2>5
<1>3. RerunExecutes'
  <2>1. SUFFICES ASSUME NEW u \in Tasks, states'[u] = "pending", resets'[u] > 0, cache'[u]
                 PROVE  FALSE
    BY DEF RerunExecutes
  <2>2. CASE states[u] # "pending" \/ resets'[u] # resets[u]
    BY <2>1, <2>2, QueuedWithoutResult
  <2>3. CASE states[u] = "pending" /\ resets'[u] = resets[u]
    <3>1. ~cache[u]
      BY <1>1, <2>1, <2>3 DEF NothingStored, RerunExecutes
    <3> QED
      BY <1>1, <1>2, <2>1, <3>1, CacheShrinks
  <2> QED
    BY <2>2, <2>3
<1>4. ASSUME NEW u \in Tasks, executing'[u] > 0, cache'[u] PROVE FALSE
  <2>1. CASE ~cache[u]
    BY <1>1, <1>2, <1>4, <2>1, CacheShrinks
  <2>2. CASE cache[u]
    <3>1. executing[u] = 0
      BY <1>1, <2>2 DEF NothingStored
    <3>2. Execute(u)
      BY <1>1, <1>4, <3>1, ExecutingGrows
    <3> QED
      BY <2>2, <3>2 DEF Execute
  <2> QED
    BY <2>1, <2>2
<1>5. ASSUME NEW k \in 1 .. Len(events'), events'[k].kind = "replan", cache'[events'[k].task]
      PROVE  FALSE
  <2>1. events'[k].task \in Tasks
    <3>1. events'[k] \in Event
      BY <1>1, ChannelElements
    <3> QED
      BY <3>1
  <2>2. ~cache[events'[k].task]
    BY <1>1, <1>5, <2>1, EventOrigin DEF NothingStored
  <2>3. Succeed(events'[k].task)
    BY <1>1, <1>5, <2>1, <2>2, CacheShrinks
  <2> QED
    BY <1>2, <1>5, <2>1, <2>3
<1> QED
  BY <1>3, <1>4, <1>5 DEF NothingStored

\* Whatever resets, replans and retries put a task back in the queue, what it
\* runs on next is never the result of an earlier attempt.
THEOREM RerunsExecute == Spec => []RerunExecutes
<1>1. Init => CacheInv
  <2>1. Init => NothingStored
    BY DEF Init, NothingStored, RerunExecutes
  <2> QED
    BY <2>1, InitHolding DEF CacheInv
<1>2. CacheInv /\ [Next]_vars => CacheInv'
  BY HoldingStep, NothingStoredStep DEF CacheInv
<1>3. CacheInv => RerunExecutes
  BY DEF CacheInv, NothingStored
<1> QED
  BY <1>1, <1>2, <1>3, PTL DEF Spec
-----------------------------------------------------------------------------
(***************************************************************************)
(* The durable status in flight.  What the scheduler may find in the todo  *)
(* projection when it dispatches a task, while the task executes, and when *)
(* it receives the task's event, by the kind of the event.                 *)
(***************************************************************************)

Queued == {"pending"} \cup (IF "denied" \in Faults THEN {"blocked"} ELSE {})

MayCarry(kind) ==
    CASE kind = "ok"         -> {"done"}
      [] kind = "error"      -> Queued \cup {"in_progress", "error", "blocked"}
      [] kind = "budget"     -> Queued
      [] kind = "capability" -> {"blocked"} \cup (IF "journal" \in Faults THEN Queued ELSE {})
      [] kind = "checkpoint" -> IF "pause" \in Faults THEN {"paused", "blocked"} ELSE {}
      [] kind = "replan"     -> Queued

Carried ==
    /\ \A i \in Tasks : starting[i] > 0 => todo[i] \in Queued
    /\ \A i \in Tasks : executing[i] > 0 => todo[i] = "in_progress"
    /\ \A k \in 1 .. Len(events) : todo[events[k].task] \in MayCarry(events[k].kind)

PendingQueued == \A i \in Tasks : states[i] = "pending" => todo[i] \in Queued

StatusInv == HoldingInv /\ Carried /\ PendingQueued

\* A reset that queues a task leaves it queued in the durable projection too.
LEMMA ResetRequeues ==
    ASSUME NEW i \in Tasks, NEW st, NEW td, st = "pending" => td \in Queued,
           NEW r \in ResetOutcomes(i, st, td), r.state = "pending"
    PROVE  r.todo \in Queued
<1>1. CASE st = "pending"
  BY <1>1 DEF ResetOutcomes
<1>2. CASE st # "pending"
  <2>1. i \in Replayable
    BY <1>2 DEF ResetOutcomes
  <2>2. \/ r = [state |-> "pending", todo |-> "pending", again |-> 1, ok |-> TRUE]
        \/ r = [state |-> st, todo |-> td, again |-> 0, ok |-> FALSE]
    BY <1>2, <2>1 DEF ResetOutcomes
  <2> QED
    BY <1>2, <2>2 DEF Queued
<1> QED
  BY <1>1, <1>2

\* The kinds of event a worker sends, and what it leaves its task with.
LEMMA SentStatus ==
    ASSUME StatusInv, NEW i \in Tasks, Worker(i), ~Execute(i)
    PROVE  \E kind \in EventKinds, class \in FailureClasses :
              /\ Send(i, kind, class) /\ Running(i)
              /\ todo'[i] \in MayCarry(kind)
              /\ \A j \in Tasks \ {i} : todo'[j] = todo[j]
<1>1. /\ todo \in [Tasks -> SchedulerStates] /\ starting[i] \in Nat /\ executing[i] \in Nat
      /\ starting[i] > 0 => todo[i] \in Queued
  BY DEF StatusInv, Carried, HoldingInv, FlightInv, TypeOK, TablesType, FlightType
<1>2. ASSUME NEW kind \in EventKinds, NEW class \in FailureClasses, NEW leaves,
             EndEarly(i, kind, class, leaves),
             todo[i] \in Queued => leaves \subseteq MayCarry(kind)
      PROVE  \E k \in EventKinds, c \in FailureClasses :
                /\ Send(i, k, c) /\ Running(i)
                /\ todo'[i] \in MayCarry(k)
                /\ \A j \in Tasks \ {i} : todo'[j] = todo[j]
  <2>1. starting[i] > 0 /\ Send(i, kind, class)
    BY <1>2 DEF EndEarly
  <2>2. PICK t \in leaves : todo' = [todo EXCEPT ![i] = t]
    BY <1>2 DEF EndEarly
  <2> QED
    BY <1>1, <1>2, <2>1, <2>2 DEF Running
<1>3. ASSUME NEW kind \in EventKinds, NEW class \in FailureClasses, NEW t \in MayCarry(kind),
             EndExecution(i, kind, class, t)
      PROVE  \E k \in EventKinds, c \in FailureClasses :
                /\ Send(i, k, c) /\ Running(i)
                /\ todo'[i] \in MayCarry(k)
                /\ \A j \in Tasks \ {i} : todo'[j] = todo[j]
  BY <1>1, <1>3 DEF EndExecution, Running
<1>4. /\ EventKinds = {"ok", "error", "budget", "capability", "checkpoint", "replan"}
      /\ {"execution", "contract", "unclassified"} \subseteq FailureClasses
      /\ ClassesRead(i) \subseteq FailureClasses
  BY DEF EventKinds, FailureClasses, ClassesRead
<1>5. /\ MayCarry("ok") = {"done"}
      /\ MayCarry("error") = Queued \cup {"in_progress", "error", "blocked"}
      /\ MayCarry("budget") = Queued /\ MayCarry("replan") = Queued
      /\ MayCarry("capability") = {"blocked"} \cup (IF "journal" \in Faults THEN Queued ELSE {})
      /\ "pause" \in Faults => MayCarry("checkpoint") = {"paused", "blocked"}
  BY DEF MayCarry
<1>6. ASSUME todo[i] \in Queued
      PROVE  /\ Persisted(todo[i], "blocked") \subseteq MayCarry("capability")
             /\ Persisted(todo[i], "error") \subseteq MayCarry("error")
  <2>1. todo[i] = "pending" \/ todo[i] = "blocked"
    BY <1>6 DEF Queued
  <2>2. CanTransition(todo[i], "blocked")
    BY <2>1 DEF CanTransition
  <2> QED
    BY <1>5, <1>6, <2>2 DEF Persisted
<1>7. CASE RefuseBudget(i) \/ FailToStart(i)
  BY <1>2, <1>4, <1>5, <1>7 DEF RefuseBudget, FailToStart
<1>8. CASE RefuseCapability(i) \/ RejectDuplicate(i)
  BY <1>2, <1>4, <1>6, <1>8 DEF RefuseCapability, RejectDuplicate
<1>9. CASE ServeFromCache(i)
  BY <1>2, <1>4, <1>5, <1>9 DEF ServeFromCache
<1>10. CASE Succeed(i) \/ CheckpointPause(i) \/ CheckpointReplan(i) \/ CheckpointDenied(i)
  BY <1>3, <1>4, <1>5, <1>10
     DEF Succeed, CheckpointPause, CheckpointReplan, CheckpointDenied, Queued
<1>11. CASE Fail(i) \/ FailUnresolved(i)
  BY <1>3, <1>4, <1>5, <1>11 DEF Fail, FailUnresolved
<1> QED
  BY <1>7, <1>8, <1>9, <1>10, <1>11 DEF Worker

\* Until its event is handled only its own goroutine moves a task's status.
LEMMA CarriedStep == StatusInv /\ [Next]_vars => Carried'
<1> DEFINE Event == [task : Tasks, kind : EventKinds, class : FailureClasses]
<1> SUFFICES ASSUME StatusInv, [Next]_vars PROVE Carried'
  OBVIOUS
<1>1. /\ FlightInv /\ OnePlace /\ Carried /\ PendingQueued /\ events \in Seq(Event)
      /\ Len(events) \in Nat /\ slots \subseteq Tasks
      /\ todo \in [Tasks -> SchedulerStates]
      /\ starting \in [Tasks -> Nat] /\ executing \in [Tasks -> Nat]
  BY DEF StatusInv, HoldingInv, FlightInv, TypeOK, TablesType, FlightType
<1>2. /\ \A k \in 1 .. Len(events) : events[k].task \in slots
      /\ \A i \in Tasks : starting[i] > 0 \/ executing[i] > 0 => i \in slots
  <2>1. \A k \in 1 .. Len(events) : events[k] \in Event
    BY <1>1, ChannelElements
  <2> QED
    BY <1>1, <2>1 DEF OnePlace, HasEvent, Running
<1>3. ASSUME NEW i \in Tasks, Handle(i) \/ Drain(i) PROVE Carried'
  <2>1. /\ events # <<>> /\ Head(events).task = i /\ events' = Tail(events)
        /\ UNCHANGED workers
        /\ \A j \in Tasks \ {i} : todo'[j] = todo[j]
    BY <1>1, <1>3, HandleSparesOthers DEF Release
  <2>2. /\ Len(events') = Len(events) - 1 /\ Head(events) = events[1]
        /\ \A k \in 1 .. Len(events') : events'[k] = events[k + 1]
    BY <1>1, <2>1, ChannelTail
  <2>3. ASSUME NEW k \in 1 .. Len(events')
        PROVE  todo'[events'[k].task] \in MayCarry(events'[k].kind)
    <3>1. k + 1 \in 1 .. Len(events) /\ 1 \in 1 .. Len(events) /\ k + 1 # 1
      BY <1>1, <2>2
    <3>2. events[k + 1].task # i
      BY <1>1, <2>1, <2>2, <3>1 DEF OnePlace
    <3> QED
      BY <1>1, <1>2, <2>1, <2>2, <3>1, <3>2 DEF Carried
  <2>4. starting[i] = 0 /\ executing[i] = 0
    <3>1. 1 \in 1 .. Len(events)
      BY <1>1, <2>2
    <3>2. ~Running(i)
      BY <1>1, <2>1, <2>2, <3>1 DEF OnePlace, HasEvent
    <3> QED
      BY <1>1, <3>2 DEF Running
  <2>5. ASSUME NEW u \in Tasks
        PROVE  /\ starting'[u] > 0 => todo'[u] \in Queued
               /\ executing'[u] > 0 => todo'[u] = "in_progress"
    <3>1. starting'[u] = starting[u] /\ executing'[u] = executing[u]
      BY <2>1 DEF workers
    <3>2. CASE u \in slots \ {i}
      BY <1>1, <2>1, <3>1, <3>2 DEF Carried
    <3>3. CASE u \notin slots \ {i}
      BY <1>1, <1>2, <2>4, <3>1, <3>3
    <3> QED
      BY <3>2, <3>3
  <2> QED
    BY <2>3, <2>5 DEF Carried
<1>4. ASSUME NEW i \in Tasks, Worker(i), ~Execute(i) PROVE Carried'
  <2>1. PICK kind \in EventKinds, class \in FailureClasses :
              /\ Send(i, kind, class) /\ Running(i)
              /\ todo'[i] \in MayCarry(kind)
              /\ \A j \in Tasks \ {i} : todo'[j] = todo[j]
    BY <1>4, SentStatus
  <2>2. /\ Len(events') = Len(events) + 1
        /\ events'[Len(events) + 1] = [task |-> i, kind |-> kind, class |-> class]
        /\ \A k \in 1 .. Len(events) : events'[k] = events[k]
    BY <1>1, <2>1, ChannelAppend DEF Send
  <2>3. \A k \in 1 .. Len(events) : events[k].task \in Tasks \ {i}
    BY <1>1, <1>2, <2>1 DEF OnePlace, HasEvent
  <2>4. ASSUME NEW k \in 1 .. Len(events')
        PROVE  todo'[events'[k].task] \in MayCarry(events'[k].kind)
    <3>1. CASE k \in 1 .. Len(events)
      BY <1>1, <2>1, <2>2, <2>3, <3>1 DEF Carried
    <3>2. CASE k = Len(events) + 1
      BY <2>1, <2>2, <3>2
    <3> QED
      BY <1>1, <2>2, <3>1, <3>2
  <2>5. \/ /\ starting[i] > 0
           /\ starting' = [starting EXCEPT ![i] = @ - 1] /\ executing' = executing
        \/ /\ executing[i] > 0
           /\ executing' = [executing EXCEPT ![i] = @ - 1] /\ starting' = starting
    BY <1>4 DEF Worker, RefuseBudget, RefuseCapability, RejectDuplicate, ServeFromCache,
       FailToStart, Succeed, Fail, FailUnresolved, CheckpointPause,
       CheckpointReplan, CheckpointDenied, EndEarly, EndExecution
  <2>6. starting'[i] = 0 /\ executing'[i] = 0
    BY <1>1, <2>5 DEF OnePlace
  <2>7. \A j \in Tasks \ {i} : starting'[j] = starting[j] /\ executing'[j] = executing[j]
    BY <1>1, <2>5
  <2>8. ASSUME NEW u \in Tasks
        PROVE  /\ starting'[u] > 0 => todo'[u] \in Queued
               /\ executing'[u] > 0 => todo'[u] = "in_progress"
    <3>1. CASE u = i
      BY <2>6, <3>1
    <3>2. CASE u # i
      BY <1>1, <2>1, <2>7, <3>2 DEF Carried
    <3> QED
      BY <3>1, <3>2
  <2>9. \A u \in Tasks : starting'[u] > 0 => todo'[u] \in Queued
    BY <2>8
  <2>10. \A u \in Tasks : executing'[u] > 0 => todo'[u] = "in_progress"
    BY <2>8
  <2>11. \A k \in 1 .. Len(events') : todo'[events'[k].task] \in MayCarry(events'[k].kind)
    BY <2>4
  <2> QED
    BY <2>9, <2>10, <2>11 DEF Carried
<1>5. ASSUME NEW i \in Tasks, Execute(i) PROVE Carried'
  <2>1. ~HasEvent(i) /\ starting[i] = 1 /\ executing[i] = 0
    BY <1>1, <1>5 DEF Execute, OnePlace, Running
  <2>2. /\ events' = events /\ todo'[i] = "in_progress" /\ starting'[i] = 0
        /\ \A j \in Tasks \ {i} : /\ todo'[j] = todo[j] /\ starting'[j] = starting[j]
                                  /\ executing'[j] = executing[j]
    BY <1>1, <1>5, <2>1 DEF Execute
  <2> QED
    <3>1. \A k \in 1 .. Len(events) : events[k].task \in Tasks \ {i}
      BY <1>1, <1>2, <2>1 DEF HasEvent
    <3>2. \A k \in 1 .. Len(events') : todo'[events'[k].task] \in MayCarry(events'[k].kind)
      BY <1>1, <2>2, <3>1 DEF Carried
    <3>3. ASSUME NEW u \in Tasks
          PROVE  /\ starting'[u] > 0 => todo'[u] \in Queued
                 /\ executing'[u] > 0 => todo'[u] = "in_progress"
      <4>1. CASE u = i
        BY <2>2, <4>1
      <4>2. CASE u # i
        <5>1. todo'[u] = todo[u] /\ starting'[u] = starting[u] /\ executing'[u] = executing[u]
          BY <2>2, <4>2
        <5> QED
          BY <1>1, <5>1 DEF Carried
      <4> QED
        BY <4>1, <4>2
    <3> QED
      BY <3>2, <3>3 DEF Carried
<1>6. ASSUME NEW i \in Tasks, Launch(i) PROVE Carried'
  <2>1. /\ todo' = todo /\ events' = events /\ executing' = executing
        /\ states[i] = "pending" /\ \A j \in Tasks \ {i} : starting'[j] = starting[j]
    BY <1>1, <1>6 DEF Launch, Launchable
  <2> QED
    <3>1. todo[i] \in Queued
      BY <1>1, <2>1 DEF PendingQueued
    <3> QED
      BY <1>1, <2>1, <3>1 DEF Carried
<1>7. ASSUME \/ Start \/ EndScan \/ EndSweep \/ BeginDrain \/ EndDrain \/ MarkStranded
             \/ Cancel \/ Over \/ UNCHANGED vars
             \/ \E i \in Tasks : \/ PassOver(i) \/ BlockDispatch(i) \/ NoPermit(i)
                                 \/ SweepDefer(i) \/ SweepReset(i) \/ Route(i)
      PROVE  Carried'
  <2>1. /\ UNCHANGED <<holdings, workers, events>>
        /\ \A j \in slots : states'[j] = states[j] /\ todo'[j] = todo[j]
    BY <1>1, <1>7, SchedulerSparesSlots
  <2> QED
    BY <1>1, <1>2, <2>1 DEF Carried, workers
<1> QED
  BY <1>3, <1>4, <1>5, <1>6, <1>7 DEF Next, Scheduler

\* Every way back to pending in the scheduler's table leaves the durable status
\* one that a worker can start from.
LEMMA QueuedStep == StatusInv /\ [Next]_vars => PendingQueued'
<1> SUFFICES ASSUME StatusInv, [Next]_vars, NEW u \in Tasks, states'[u] = "pending"
             PROVE  todo'[u] \in Queued
  BY DEF PendingQueued
<1>1. /\ FlightInv /\ OnePlace /\ PendingQueued /\ CheckpointSettled /\ Carried
      /\ states \in [Tasks -> SchedulerStates] /\ todo \in [Tasks -> SchedulerStates]
      /\ slots \subseteq Tasks /\ \A j \in slots : states[j] = "in_progress"
      /\ \A i \in Tasks : Running(i) => i \in slots
  BY DEF StatusInv, HoldingInv, FlightInv, SlotsHeld, OnePlace, TypeOK, TablesType, FlightType
<1>2. ASSUME states'[u] = states[u], todo'[u] = todo[u] PROVE todo'[u] \in Queued
  BY <1>1, <1>2 DEF PendingQueued
<1>3. ASSUME NEW i \in Tasks, NEW st, NEW td, st = "pending" => td \in Queued,
             NEW r \in ResetOutcomes(i, st, td),
             states' = [states EXCEPT ![i] = r.state], todo' = [todo EXCEPT ![i] = r.todo]
      PROVE  todo'[u] \in Queued
  <2>1. CASE u = i
    BY <1>1, <1>3, <2>1, ResetRequeues
  <2>2. CASE u # i
    BY <1>1, <1>2, <1>3, <2>2
  <2> QED
    BY <2>1, <2>2
<1>4. ASSUME NEW i \in Tasks, NEW targets \in SUBSET RepairTargets[i],
             RouteCriterionRetry(i, targets)
      PROVE  todo'[u] \in Queued
  <2> DEFINE visited == IF critUsed < CriterionRetryBudget THEN Visited(i, targets) ELSE {}
             swept   == {v \in visited : ReplayBlocked(i, v)}
             charged == {v \in {w \in visited : Eligible(i, w)} : states[v] # "pending"}
  <2>1. PICK lost \in SUBSET (swept \cup charged) :
          /\ states' = [v \in Tasks |->
                  IF v \in swept THEN "blocked"
                  ELSE IF v \in charged \ lost THEN "pending" ELSE states[v]]
          /\ todo' = [v \in Tasks |->
                  IF v \in swept \ lost /\ CanTransition(todo[v], "blocked") THEN "blocked"
                  ELSE IF v \in charged \ lost THEN "pending" ELSE todo[v]]
    BY <1>4 DEF RouteCriterionRetry
  <2> HIDE DEF swept, charged
  <2>2. u \notin swept
    BY <2>1
  <2>3. states[u] = "pending" => todo[u] \in Queued
    BY <1>1 DEF PendingQueued
  <2> QED
    BY <1>4, <2>1, <2>2, <2>3 DEF Queued
<1>5. ASSUME NEW i \in Tasks, Handle(i) PROVE todo'[u] \in Queued
  <2>1. /\ events # <<>> /\ Head(events).task = i
        /\ \A j \in Tasks \ {i} : states'[j] = states[j] /\ todo'[j] = todo[j]
    BY <1>1, <1>5, HandleSparesOthers
  <2>2. Len(events) \in Nat /\ 1 \in 1 .. Len(events) /\ Head(events) = events[1]
    BY <1>1, <2>1, ChannelTail DEF FlightInv, TypeOK, FlightType
  <2>3. CASE u # i
    BY <1>2, <2>1, <2>3
  <2>4. CASE HandleCheckpoint(i)
    <3>1. CASE Live(i, {"checkpoint"}) /\ states' = [states EXCEPT ![i] = todo[i]] /\ todo' = todo
      <4>1. todo[i] \in {"paused", "blocked"}
        BY <1>1, <2>1, <2>2, <3>1 DEF Live, Receive, CheckpointSettled
      <4> QED
        BY <1>1, <1>2, <3>1, <4>1
    <3>2. CASE Live(i, {"replan"}) /\ states' = [states EXCEPT ![i] = "pending"] /\ todo' = todo
      <4>1. todo[i] \in Queued
        BY <1>1, <2>1, <2>2, <3>2 DEF Live, Receive, Carried, MayCarry
      <4> QED
        BY <1>1, <1>2, <3>2, <4>1
    <3> QED
      BY <2>4, <3>1, <3>2 DEF HandleCheckpoint
  <2>5. CASE u = i /\ (TakeStale(i) \/ TakeDone(i) \/ TakeFailure(i) \/ HandleRefusal(i))
    BY <1>1, <2>5 DEF TakeStale, TakeDone, TakeFailure, HandleRefusal, Failed
  <2> QED
    BY <1>5, <2>3, <2>4, <2>5 DEF Handle
<1>14. ASSUME NEW i \in Tasks, Route(i) PROVE todo'[u] \in Queued
  <2>1. CASE DiscardStale(i) \/ FailAndSelfHeal(i)
    <3>1. states[i] = "pending" => todo[i] \in Queued
      BY <1>1 DEF PendingQueued
    <3> QED
      BY <1>3, <2>1, <3>1 DEF DiscardStale, FailAndSelfHeal, ResetInPlace
  <2>2. CASE RouteCriteria(i)
    BY <1>4, <2>2 DEF RouteCriteria
  <2>3. CASE FailAndStop(i) \/ FailAndJump(i)
    BY <1>2, <2>3 DEF FailAndStop, FailAndJump
  <2> QED
    BY <1>14, <2>1, <2>2, <2>3 DEF Route
<1>6. ASSUME NEW j \in Tasks, SweepReset(j) PROVE todo'[u] \in Queued
  BY <1>1, <1>3, <1>6 DEF SweepReset, PendingQueued
<1>7. ASSUME NEW i \in Tasks, BlockDispatch(i) PROVE todo'[u] \in Queued
  BY <1>1, <1>2, <1>7 DEF BlockDispatch
<1>8. ASSUME NEW i \in Tasks, Worker(i) PROVE todo'[u] \in Queued
  <2>1. /\ UNCHANGED states /\ Running(i)
        /\ \A j \in Tasks \ {i} : todo'[j] = todo[j]
    <3>1. CASE Execute(i)
      BY <1>1, <3>1 DEF Execute, Running, FlightInv, TypeOK, FlightType
    <3>2. CASE ~Execute(i)
      <4>1. UNCHANGED states
        BY <1>8, <3>2 DEF Worker, RefuseBudget, RefuseCapability, RejectDuplicate, ServeFromCache,
           FailToStart, Succeed, Fail, FailUnresolved, CheckpointPause,
           CheckpointReplan, CheckpointDenied, EndEarly, EndExecution
      <4> QED
        BY <1>8, <3>2, <4>1, SentStatus
    <3> QED
      BY <3>1, <3>2
  <2> QED
    BY <1>1, <1>2, <2>1
<1>9. ASSUME NEW i \in Tasks, Drain(i) PROVE todo'[u] \in Queued
  <2>1. /\ states' = states /\ \E t : todo' = [todo EXCEPT ![i] = t]
        /\ events # <<>> /\ Head(events).task = i
    BY <1>9 DEF Drain
  <2>2. Len(events) \in Nat /\ 1 \in 1 .. Len(events) /\ Head(events) = events[1]
    BY <1>1, <2>1, ChannelTail DEF FlightInv, TypeOK, FlightType
  <2>3. i \in slots
    BY <1>1, <2>1, <2>2 DEF OnePlace, HasEvent
  <2> QED
    BY <1>1, <1>2, <2>1, <2>3
<1>10. ASSUME NEW i \in Tasks, Launch(i) PROVE todo'[u] \in Queued
  BY <1>1, <1>2, <1>10 DEF Launch
<1>11. ASSUME NEW i \in Tasks, PassOver(i) \/ NoPermit(i) \/ SweepDefer(i)
       PROVE  todo'[u] \in Queued
  BY <1>2, <1>11 DEF PassOver, NoPermit, SweepDefer
<1>12. CASE MarkStranded
  BY <1>1, <1>12 DEF MarkStranded, Stranded
<1>13. CASE \/ Start \/ EndScan \/ EndSweep \/ BeginDrain \/ EndDrain
            \/ Cancel \/ Over \/ UNCHANGED vars
  BY <1>2, <1>13 DEF Start, EndScan, EndSweep, BeginDrain, EndDrain, Cancel, Over, vars
<1> QED
  BY <1>5, <1>6, <1>7, <1>8, <1>9, <1>10, <1>11, <1>12, <1>13, <1>14 DEF Next, Scheduler

LEMMA InitStatus == Init => StatusInv
BY InitHolding DEF Init, StatusInv, Carried, PendingQueued, Queued

LEMMA StatusStep == StatusInv /\ [Next]_vars => StatusInv'
BY HoldingStep, CarriedStep, QueuedStep DEF StatusInv

\* A task is dispatched only while the durable projection has it pending, so
\* executeTask finds the status it starts from.  (An escalation the task may not
\* have blocks it durably and queues it: with that fault the claim is false.)
THEOREM DispatchFindsPending ==
    ASSUME "denied" \notin Faults PROVE Spec => []DispatchedWhenPending
<1>1. StatusInv => DispatchedWhenPending
  BY DEF StatusInv, Carried, Queued, DispatchedWhenPending
<1> QED
  BY InitStatus, StatusStep, <1>1, PTL DEF Spec

-----------------------------------------------------------------------------
(***************************************************************************)
(* The end of run().  Outside the flight no task is left in progress, and  *)
(* the scheduler's table and the durable projection agree on what is done  *)
(* and what is blocked, unless a commit of the scheduler itself was lost   *)
(* ("journal").  A task that may not be replayed is exempt: a reset marks  *)
(* it blocked whatever it was, and the projection refuses done to blocked. *)
(* One task may be unsettled: the one whose stale event is in hand, until  *)
(* its reset; and for good, if the run is cancelled before the reset.      *)
(***************************************************************************)

EndedEmpty == pc \in {"start", "returned", "aborted"} => slots = {}

Unsettled ==
    {u \in Tasks \ slots :
        \/ todo[u] = "in_progress"
        \/ pc \notin {"drain", "aborted"} /\ u \in Replayable /\ ~Agreed(u)}

MayBeLeft(u) ==
    /\ states[u] = "error"
    /\ IF pc = "handle" THEN report = "stale" /\ u = source
                        ELSE cancelled /\ pc \in {"wait", "drain", "returned", "aborted"}

OnlyLeftByCancel ==
    "journal" \in Faults \/
    \A u \in Unsettled : MayBeLeft(u) /\ \A v \in Unsettled : v = u

EndInv == StatusInv /\ EndedEmpty /\ OnlyLeftByCancel

\* Whatever ends the run has counted the flight down to nothing.
LEMMA EndedStep == StatusInv /\ EndedEmpty /\ [Next]_vars => EndedEmpty'
<1> SUFFICES ASSUME StatusInv, EndedEmpty, [Next]_vars,
                    pc' \in {"start", "returned", "aborted"}
             PROVE  slots' = {}
  BY DEF EndedEmpty
<1>1. FlightInv /\ Counted /\ slots \subseteq Tasks
  BY DEF StatusInv, HoldingInv, FlightInv, TypeOK, FlightType
<1>2. inProgress = 0 => slots = {}
  <2>1. IsFiniteSet(slots)
    BY <1>1, TasksFinite
  <2> QED
    BY <1>1, <2>1, FS_EmptySet DEF Counted
<1>3. ASSUME NEW i \in Tasks, Handle(i) \/ Route(i) PROVE FALSE
  BY <1>3, HandleFrame, RouteFrame
<1>4. ASSUME NEW i \in Tasks, Launch(i) \/ Drain(i) PROVE FALSE
  BY <1>4 DEF Launch, Scanning, Drain, control
<1>5. ASSUME NEW i \in Tasks, Worker(i) PROVE UNCHANGED <<pc, slots>>
  BY <1>5, WorkerSparesScheduler DEF control, holdings
<1>6. CASE Start \/ MarkStranded \/ EndDrain
  BY <1>2, <1>6 DEF Start, MarkStranded, EndDrain, EndedEmpty, BeginScan, holdings
<1>7. CASE EndScan \/ EndSweep \/ BeginDrain
  BY <1>7 DEF EndScan, EndSweep, BeginDrain, Await
<1>8. CASE Cancel \/ Over \/ UNCHANGED vars
  BY <1>8 DEF Cancel, Over, vars, control, holdings, EndedEmpty
<1>9. ASSUME NEW i \in Tasks,
             PassOver(i) \/ BlockDispatch(i) \/ NoPermit(i) \/ SweepDefer(i) \/ SweepReset(i)
      PROVE  FALSE
  BY <1>9 DEF PassOver, BlockDispatch, NoPermit, SweepDefer, SweepReset, Scanning, Await
<1> QED
  BY <1>3, <1>4, <1>5, <1>6, <1>7, <1>8, <1>9 DEF Next, Scheduler, EndedEmpty

\* The scheduler terminalizes what a worker left in progress, if its commits
\* are not lost; only a reset that the cancelled run refuses leaves it.
LEMMA TerminalizedEnds ==
    ASSUME "journal" \notin Faults, NEW i \in Tasks, NEW kind \in EventKinds,
           todo[i] \in MayCarry(kind), NEW t \in Terminalized(i, kind)
    PROVE  /\ t # "in_progress"
           /\ t = "done" <=> kind = "ok"
           /\ kind = "capability" => t = "blocked"
<1>1. kind \in {"ok", "error", "budget", "capability", "checkpoint", "replan"}
  BY DEF EventKinds
<1>2. CASE kind = "error"
  <2>1. CASE todo[i] = "in_progress"
    BY <1>2, <2>1 DEF Terminalized, Persisted, CanTransition
  <2>2. CASE todo[i] # "in_progress"
    BY <1>2, <2>2 DEF Terminalized, MayCarry, Queued
  <2> QED
    BY <2>1, <2>2
<1>3. CASE kind = "budget"
  <2>1. todo[i] = "pending" \/ todo[i] = "blocked"
    BY <1>3 DEF MayCarry, Queued
  <2>2. t \in {"error", "blocked"}
    BY <1>3, <2>1 DEF Terminalized, Persisted, CanTransition, Terminal
  <2> QED
    BY <1>3, <2>2
<1>4. CASE kind = "capability"
  BY <1>4 DEF Terminalized, MayCarry
<1>5. CASE kind \in {"ok", "checkpoint", "replan"}
  <2>1. t = todo[i]
    BY <1>5 DEF Terminalized
  <2> QED
    BY <1>5, <2>1 DEF MayCarry, Queued
<1> QED
  BY <1>1, <1>2, <1>3, <1>4, <1>5

LEMMA ResetEnds ==
    ASSUME "journal" \notin Faults, NEW i \in Tasks, NEW st, NEW td,
           NEW r \in ResetOutcomes(i, st, td)
    PROVE  \/ /\ r.state = st /\ r.todo = td
              /\ r.ok <=> st = "pending"
              /\ st # "pending" => cancelled
           \/ r.state = "pending" /\ r.todo = "pending" /\ r.ok
           \/ i \notin Replayable /\ r.todo # "in_progress" /\ r.ok
<1>1. CASE st = "pending"
  BY <1>1 DEF ResetOutcomes
<1>2. CASE st # "pending" /\ i \notin Replayable
  <2>1. PICK t \in Persisted(td, "blocked") :
          r = [state |-> "blocked", todo |-> t, again |-> 0, ok |-> TRUE]
    BY <1>2 DEF ResetOutcomes
  <2>2. t # "in_progress"
    BY DEF Persisted, CanTransition
  <2> QED
    BY <1>2, <2>1, <2>2
<1>3. CASE st # "pending" /\ i \in Replayable
  <2>1. \/ r = [state |-> "pending", todo |-> "pending", again |-> 1, ok |-> TRUE]
        \/ r = [state |-> st, todo |-> td, again |-> 0, ok |-> FALSE] /\ cancelled
    BY <1>3 DEF ResetOutcomes
  <2> QED
    BY <1>3, <2>1
<1> QED
  BY <1>1, <1>2, <1>3

\* A criterion retry leaves a task as it is, blocks one it may not replay, or
\* queues it.
LEMMA CriterionRetryEnds ==
    ASSUME NEW i \in Tasks, NEW u \in Tasks, NEW targets \in SUBSET RepairTargets[i],
           todo \in [Tasks -> SchedulerStates], RouteCriterionRetry(i, targets)
    PROVE  \/ states'[u] = states[u] /\ todo'[u] = todo[u]
           \/ states'[u] = "pending" /\ todo'[u] = "pending"
           \/ u \notin Replayable /\ todo'[u] \in {"blocked", todo[u]}
<1> DEFINE visited == IF critUsed < CriterionRetryBudget THEN Visited(i, targets) ELSE {}
           swept   == {v \in visited : ReplayBlocked(i, v)}
           charged == {v \in {w \in visited : Eligible(i, w)} : states[v] # "pending"}
<1>1. PICK lost \in SUBSET (swept \cup charged) :
        /\ states' = [v \in Tasks |->
                IF v \in swept THEN "blocked"
                ELSE IF v \in charged \ lost THEN "pending" ELSE states[v]]
        /\ todo' = [v \in Tasks |->
                IF v \in swept \ lost /\ CanTransition(todo[v], "blocked") THEN "blocked"
                ELSE IF v \in charged \ lost THEN "pending" ELSE todo[v]]
  BY DEF RouteCriterionRetry
<1>2. \A v \in swept : v \notin Replayable
  BY DEF ReplayBlocked
<1>3. \A v \in charged : v \in Replayable
  BY DEF Eligible
<1> HIDE DEF swept, charged
<1> QED
  BY <1>1, <1>2, <1>3

\* What run() leaves the task of a live event with.
LEMMA HandleVerdict ==
    ASSUME StatusInv, "journal" \notin Faults, NEW i \in Tasks, Handle(i), ~TakeStale(i)
    PROVE  todo'[i] # "in_progress" /\ Agreed(i)'
<1>1. /\ CheckpointSettled /\ Carried
      /\ states \in [Tasks -> SchedulerStates] /\ todo \in [Tasks -> SchedulerStates]
      /\ events \in Seq([task : Tasks, kind : EventKinds, class : FailureClasses])
  BY DEF StatusInv, HoldingInv, FlightInv, TypeOK, TablesType, FlightType
<1>2. events # <<>> /\ Head(events).task = i
  BY HandleFrame
<1>3. /\ Head(events).kind \in EventKinds
      /\ todo[i] \in MayCarry(Head(events).kind)
  <2>1. 1 \in 1 .. Len(events) /\ Head(events) = events[1]
    BY <1>1, <1>2, ChannelTail
  <2>2. events[1] \in [task : Tasks, kind : EventKinds, class : FailureClasses]
    BY <1>1, <2>1, ChannelElements
  <2> QED
    BY <1>1, <1>2, <2>1, <2>2 DEF Carried
<1>4. ASSUME NEW st, NEW td, states' = [states EXCEPT ![i] = st], todo' = [todo EXCEPT ![i] = td],
             td # "in_progress", st = "done" <=> td = "done", st = "blocked" => td = "blocked"
      PROVE  todo'[i] # "in_progress" /\ Agreed(i)'
  BY <1>1, <1>4 DEF Agreed
<1>5. todo' = todo => todo' = [todo EXCEPT ![i] = todo[i]]
  BY <1>1
<1>6. CASE TakeDone(i)
  <2>1. Head(events).kind = "ok" /\ todo' = todo /\ states' = [states EXCEPT ![i] = "done"]
    BY <1>6 DEF TakeDone, Live, Receive
  <2>2. todo[i] = "done"
    BY <1>3, <2>1 DEF MayCarry
  <2> QED
    BY <1>4, <1>5, <2>1, <2>2
<1>7. CASE TakeFailure(i)
  <2>1. Head(events).kind = "error" /\ states' = [states EXCEPT ![i] = "error"]
    BY <1>7 DEF TakeFailure, Failed, Live, Receive
  <2>2. PICK t \in Terminalized(i, "error") : todo' = [todo EXCEPT ![i] = t]
    BY <1>7 DEF TakeFailure
  <2>3. t # "in_progress" /\ t # "done"
    BY <1>3, <2>1, <2>2, TerminalizedEnds
  <2> QED
    BY <1>4, <2>1, <2>2, <2>3
<1>8. CASE HandleCheckpoint(i)
  <2>1. todo' = todo
    BY <1>8 DEF HandleCheckpoint
  <2>2. CASE Live(i, {"checkpoint"}) /\ states' = [states EXCEPT ![i] = todo[i]]
    <3>1. todo[i] \in {"paused", "blocked"}
      BY <1>3, <2>2 DEF Live, Receive, MayCarry
    <3> QED
      BY <1>4, <1>5, <2>1, <2>2, <3>1
  <2>3. CASE Live(i, {"replan"}) /\ states' = [states EXCEPT ![i] = "pending"]
    <3>1. todo[i] \in {"pending", "blocked"}
      BY <1>3, <2>3 DEF Live, Receive, MayCarry, Queued
    <3> QED
      BY <1>4, <1>5, <2>1, <2>3, <3>1
  <2> QED
    BY <1>8, <2>2, <2>3 DEF HandleCheckpoint
<1>9. CASE HandleRefusal(i)
  <2>1. PICK kind \in {"budget", "capability"} :
          /\ Live(i, {kind})
          /\ states' = [states EXCEPT ![i] = IF kind = "budget" THEN "error" ELSE "blocked"]
          /\ \E t \in Terminalized(i, kind) : todo' = [todo EXCEPT ![i] = t]
    BY <1>9 DEF HandleRefusal
  <2>2. kind = Head(events).kind
    BY <2>1 DEF Live, Receive
  <2>3. PICK t \in Terminalized(i, kind) : todo' = [todo EXCEPT ![i] = t]
    BY <2>1
  <2>4. t # "in_progress" /\ t # "done" /\ (kind = "capability" => t = "blocked")
    BY <1>3, <2>1, <2>2, TerminalizedEnds
  <2> QED
    BY <1>4, <2>1, <2>3, <2>4
<1> QED
  BY <1>6, <1>7, <1>8, <1>9 DEF Handle

\* No task becomes unsettled but by the discard of its stale event, and only a
\* cancellation keeps it so.
LEMMA VerdictStep == EndInv /\ [Next]_vars => OnlyLeftByCancel'
<1> SUFFICES ASSUME EndInv, [Next]_vars, "journal" \notin Faults, NEW u \in Unsettled'
             PROVE  MayBeLeft(u)' /\ (pc' = "handle" \/ u \in Unsettled)
  <2>1. EndInv /\ "journal" \notin Faults => \A x, y \in Unsettled : x = y
    BY DEF EndInv, OnlyLeftByCancel
  <2> QED
    BY <2>1 DEF OnlyLeftByCancel, MayBeLeft
<1> DEFINE Goal == MayBeLeft(u)' /\ (pc' = "handle" \/ u \in Unsettled)
<1>1. /\ FlightInv /\ StatusInv /\ PendingQueued
      /\ states \in [Tasks -> SchedulerStates] /\ todo \in [Tasks -> SchedulerStates]
      /\ slots \subseteq Tasks /\ cancelled \in BOOLEAN
      /\ \A i \in Tasks : Running(i) => i \in slots
  BY DEF EndInv, StatusInv, HoldingInv, FlightInv, OnePlace, TypeOK, TablesType, FlightType,
     FlagsType
<1>2. u \in Tasks \ slots'
  BY DEF Unsettled
<1>3. u \in Unsettled => MayBeLeft(u)
  BY DEF EndInv, OnlyLeftByCancel
\* A step that leaves the task alone leaves it unsettled.
<1>4. ASSUME pc \in {"drain", "aborted"} => pc' \in {"drain", "aborted"}, u \notin slots,
             states'[u] = states[u] /\ todo'[u] = todo[u]
      PROVE  u \in Unsettled
  BY <1>2, <1>4 DEF Unsettled, Agreed
<1>5. ASSUME u \in Unsettled, states'[u] = states[u], cancelled' = cancelled \/ cancelled',
             \/ UNCHANGED <<pc, source, report>>
             \/ pc \in {"wait", "drain"} /\ pc' \in {"wait", "drain", "returned", "aborted"}
             \/ pc \in {"start", "launch", "wave"}
      PROVE  Goal
  BY <1>3, <1>5 DEF MayBeLeft
<1>6. todo'[u] = "pending" /\ states'[u] = "pending" => FALSE
  BY DEF Unsettled, Agreed
<1>7. ASSUME NEW i \in Tasks, Handle(i) PROVE Goal
  <2>1. /\ pc = "wait" /\ ~cancelled /\ slots' = slots \ {i}
        /\ \A j \in Tasks \ {i} : states'[j] = states[j] /\ todo'[j] = todo[j]
    BY <1>1, <1>7, HandleFrame, HandleSparesOthers DEF Release
  <2>2. u \notin Unsettled
    BY <1>3, <2>1 DEF MayBeLeft
  <2>3. u = i
    BY <1>2, <1>4, <2>1, <2>2
  <2>4. TakeStale(i)
    BY <1>1, <1>7, <2>3, HandleVerdict DEF Unsettled
  <2> QED
    BY <1>1, <2>3, <2>4 DEF TakeStale, TakeUp, Failed, MayBeLeft
<1>8. ASSUME NEW i \in Tasks, Route(i) PROVE Goal
  <2>1. /\ pc = "handle" /\ source = i /\ report \in Reports
        /\ slots' = slots /\ cancelled' = cancelled
        /\ pc' \in {"launch", "wait", "wave"}
    BY <1>8, RouteFrame DEF holdings
  <2>2. states[i] = IF report = "ok" THEN "done" ELSE "error"
    BY <1>1, <2>1 DEF FlightInv, TakenUp
  <2>3. ASSUME u \in Unsettled, states'[u] = states[u], cancelled, pc' = "wait" PROVE Goal
    BY <1>3, <2>1, <2>3 DEF MayBeLeft
  <2>4. CASE DiscardStale(i) \/ FailAndSelfHeal(i)
    <3>1. PICK r \in ResetOutcomes(i, states[i], todo[i]) :
            /\ states' = [states EXCEPT ![i] = r.state] /\ todo' = [todo EXCEPT ![i] = r.todo]
            /\ ~r.ok => pc' = "wait"
      BY <2>4 DEF DiscardStale, FailAndSelfHeal, ResetInPlace, Await
    <3>2. report # "ok"
      BY <2>4 DEF DiscardStale, FailAndSelfHeal, Routing, FailureClasses
    <3>3. CASE u = i
      <4>1. \/ r.state = states[i] /\ r.todo = todo[i] /\ ~r.ok /\ cancelled
            \/ r.state = "pending" /\ r.todo = "pending"
            \/ i \notin Replayable /\ r.todo # "in_progress"
        BY <2>2, <3>2, ResetEnds
      <4>2. states'[u] = r.state /\ todo'[u] = r.todo
        BY <1>1, <3>1, <3>3
      <4>3. ~(i \notin Replayable /\ r.todo # "in_progress")
        BY <3>3, <4>2 DEF Unsettled
      <4>4. states'[u] = states[u] /\ todo'[u] = todo[u] /\ cancelled /\ pc' = "wait"
        BY <1>6, <3>1, <3>3, <4>1, <4>2, <4>3
      <4> QED
        BY <1>2, <1>4, <2>1, <2>3, <4>4
    <3>4. CASE u # i
      <4>1. states'[u] = states[u] /\ todo'[u] = todo[u]
        BY <1>1, <1>2, <3>1, <3>4
      <4> QED
        BY <1>2, <1>3, <1>4, <2>1, <3>4, <4>1 DEF MayBeLeft
    <3> QED
      BY <3>3, <3>4
  <2>5. CASE RouteCriteria(i) \/ FailAndStop(i) \/ FailAndJump(i)
    <3>1. \/ states'[u] = states[u] /\ todo'[u] = todo[u]
          \/ states'[u] = "pending" /\ todo'[u] = "pending"
          \/ u \notin Replayable /\ todo'[u] \in {"blocked", todo[u]}
      BY <1>1, <1>2, <2>5, CriterionRetryEnds DEF RouteCriteria, FailAndStop, FailAndJump
    <3>2. report # "stale"
      BY <2>5 DEF RouteCriteria, FailAndStop, FailAndJump, Routing, FailureClasses
    <3>3. u \notin Unsettled
      BY <1>3, <2>1, <3>2 DEF MayBeLeft
    <3>4. CASE states'[u] = states[u] /\ todo'[u] = todo[u]
      BY <1>2, <1>4, <2>1, <3>3, <3>4
    <3>5. CASE u \notin Replayable /\ todo'[u] \in {"blocked", todo[u]}
      <4>1. todo[u] = "in_progress"
        BY <3>5 DEF Unsettled
      <4> QED
        BY <1>2, <2>1, <3>3, <4>1 DEF Unsettled
    <3> QED
      BY <1>6, <3>1, <3>4, <3>5
  <2> QED
    BY <1>8, <2>4, <2>5 DEF Route
<1>9. ASSUME NEW j \in Tasks, SweepReset(j) PROVE Goal
  <2>1. PICK r \in ResetOutcomes(j, states[j], todo[j]) :
          states' = [states EXCEPT ![j] = r.state] /\ todo' = [todo EXCEPT ![j] = r.todo]
    BY <1>9 DEF SweepReset
  <2>2. slots' = slots /\ pc = "wave"
    BY <1>9 DEF SweepReset, holdings
  <2>3. u \notin Unsettled
    BY <1>3, <2>2 DEF MayBeLeft
  <2>4. ~(states'[u] = states[u] /\ todo'[u] = todo[u])
    BY <1>2, <1>4, <2>2, <2>3
  <2>5. u = j /\ states'[u] = r.state /\ todo'[u] = r.todo
    BY <1>1, <1>2, <2>1, <2>4
  <2>6. \/ r.state = states[j] /\ r.todo = todo[j]
        \/ r.state = "pending" /\ r.todo = "pending"
        \/ j \notin Replayable /\ r.todo # "in_progress"
    BY ResetEnds
  <2> QED
    BY <1>6, <2>4, <2>5, <2>6 DEF Unsettled
<1>10. ASSUME NEW i \in Tasks, BlockDispatch(i) PROVE Goal
  <2>1. PICK s \in {"blocked", "error"} :
          /\ states' = [states EXCEPT ![i] = s]
          /\ \E t \in Persisted(todo[i], s) : todo' = [todo EXCEPT ![i] = t]
    BY <1>10 DEF BlockDispatch
  <2>2. slots' = slots /\ pc = "launch" /\ states[i] = "pending"
    BY <1>10 DEF BlockDispatch, holdings, Launchable, Scanning
  <2>3. u \notin Unsettled
    BY <1>3, <2>2 DEF MayBeLeft
  <2>4. PICK t \in Persisted(todo[i], s) : todo' = [todo EXCEPT ![i] = t]
    BY <2>1
  <2>5. u = i /\ states'[u] = s /\ todo'[u] = t
    BY <1>1, <1>2, <1>4, <2>1, <2>2, <2>3, <2>4
  <2>6. todo[i] \in {"pending", "blocked"}
    BY <1>1, <2>2 DEF PendingQueued, Queued
  <2>7. t \in {"blocked", "error"} /\ (s = "blocked" => t = "blocked")
    BY <2>4, <2>6 DEF Persisted, CanTransition
  <2> QED
    BY <2>5, <2>7 DEF Unsettled, Agreed
<1>11. ASSUME NEW i \in Tasks, Worker(i) PROVE Goal
  <2>1. UNCHANGED <<pc, source, report, cancelled, states, slots>>
    BY <1>11, WorkerSparesScheduler DEF control, sweep, holdings
  <2>2. /\ Running(i)
        /\ \A j \in Tasks \ {i} : todo'[j] = todo[j]
    <3>1. CASE Execute(i)
      BY <1>1, <3>1 DEF Execute, Running, FlightInv, TypeOK, FlightType
    <3>2. CASE ~Execute(i)
      BY <1>1, <1>11, <3>2, SentStatus
    <3> QED
      BY <3>1, <3>2
  <2>3. u # i
    BY <1>1, <1>2, <2>1, <2>2
  <2> QED
    BY <1>2, <1>4, <1>5, <2>1, <2>2, <2>3
<1>12. ASSUME NEW i \in Tasks, Drain(i) PROVE Goal
  <2>1. /\ pc = "drain" /\ pc' = pc /\ slots' = slots \ {i} /\ cancelled' = cancelled
        /\ events # <<>> /\ Head(events).task = i /\ states' = states
    BY <1>12 DEF Drain, Release, control
  <2>2. PICK t \in Terminalized(i, Head(events).kind) : todo' = [todo EXCEPT ![i] = t]
    BY <1>12 DEF Drain
  <2>3. /\ Head(events).kind \in EventKinds
        /\ todo[i] \in MayCarry(Head(events).kind)
    <3>1. events \in Seq([task : Tasks, kind : EventKinds, class : FailureClasses])
      BY <1>1 DEF FlightInv, TypeOK, FlightType
    <3>2. 1 \in 1 .. Len(events) /\ Head(events) = events[1]
      BY <2>1, <3>1, ChannelTail
    <3>3. events[1] \in [task : Tasks, kind : EventKinds, class : FailureClasses]
      BY <3>1, <3>2, ChannelElements
    <3> QED
      BY <1>1, <2>1, <3>2, <3>3 DEF StatusInv, Carried
  <2>4. t # "in_progress"
    BY <2>2, <2>3, TerminalizedEnds
  <2>5. todo'[u] = "in_progress"
    BY <2>1 DEF Unsettled
  <2>6. u # i /\ todo'[u] = todo[u]
    BY <1>1, <1>2, <2>2, <2>4, <2>5
  <2> QED
    BY <1>2, <1>4, <1>5, <2>1, <2>6
<1>13. ASSUME NEW i \in Tasks, Launch(i) PROVE Goal
  <2>1. slots' = slots \cup {i} /\ pc = "launch" /\ todo' = todo
        /\ states' = [states EXCEPT ![i] = "in_progress"]
    BY <1>13 DEF Launch, Scanning
  <2> QED
    BY <1>1, <1>2, <1>3, <1>4, <2>1 DEF MayBeLeft
<1>14. ASSUME NEW i \in Tasks, PassOver(i) \/ NoPermit(i) \/ SweepDefer(i) PROVE Goal
  <2>1. UNCHANGED <<states, todo, slots>> /\ pc \in {"launch", "wave"}
    BY <1>14 DEF PassOver, NoPermit, SweepDefer, holdings, Scanning
  <2> QED
    BY <1>2, <1>3, <1>4, <2>1 DEF MayBeLeft
<1>15. CASE MarkStranded
  <2>1. /\ slots' = slots /\ pc = "wait" /\ pc' = "returned" /\ cancelled' = cancelled
        /\ states' = [i \in Tasks |-> IF i \in Stranded THEN "blocked" ELSE states[i]]
        /\ todo' = [i \in Tasks |-> IF i \in Stranded /\ CanTransition(todo[i], "blocked")
                                    THEN "blocked" ELSE todo[i]]
    BY <1>15 DEF MarkStranded, holdings
  <2>2. u \notin Stranded
    <3>1. u \in Stranded => todo[u] \in {"pending", "blocked"}
      BY <1>1 DEF Stranded, PendingQueued, Queued
    <3>2. u \in Stranded => todo'[u] = "blocked" /\ states'[u] = "blocked"
      BY <1>2, <2>1, <3>1 DEF CanTransition
    <3> QED
      BY <3>2 DEF Unsettled, Agreed
  <2> QED
    BY <1>2, <1>4, <1>5, <2>1, <2>2
<1>16. CASE \/ Start \/ EndScan \/ EndSweep \/ BeginDrain \/ EndDrain
            \/ Cancel \/ Over \/ UNCHANGED vars
  <2>1. UNCHANGED <<states, todo, slots>> /\ (cancelled' = cancelled \/ cancelled')
    BY <1>16 DEF Start, EndScan, EndSweep, BeginDrain, EndDrain, Cancel, Over, vars, holdings
  <2>2. \/ UNCHANGED <<pc, source, report>>
        \/ pc = "wait" /\ pc' = "drain"
        \/ pc = "drain" /\ pc' = "aborted"
        \/ pc \in {"start", "launch", "wave"}
    BY <1>16 DEF Start, EndScan, EndSweep, BeginDrain, EndDrain, Cancel, Over, vars,
       control, sweep
  <2> QED
    BY <1>2, <1>4, <1>5, <2>1, <2>2
<1> QED
  BY <1>7, <1>8, <1>9, <1>10, <1>11, <1>12, <1>13, <1>14, <1>15, <1>16 DEF Next, Scheduler

LEMMA InitEnd == Init => EndInv
<1>1. Init => Unsettled = {}
  BY DEF Init, Unsettled, Agreed
<1> QED
  BY <1>1, InitStatus DEF Init, EndInv, EndedEmpty, OnlyLeftByCancel

LEMMA EndStep == EndInv /\ [Next]_vars => EndInv'
BY StatusStep, EndedStep, VerdictStep DEF EndInv

\* However the run ends, with its tasks finished, stranded, or drained after a
\* cancellation, it leaves no worker, no slot, and no task durably in progress
\* but the one whose stale event was in hand when the run was cancelled.
THEOREM RunLeavesNothingRunning == Spec => []NothingLeftRunning
<1>1. EndInv => NothingLeftRunning
  <2> SUFFICES ASSUME EndInv, pc \in {"returned", "aborted"}
               PROVE  /\ \A i \in Tasks : ~Running(i) /\ EventsOf(i) = {}
                      /\ slots = {}
                      /\ "journal" \in Faults \/ LeftByCancel({i \in Tasks : todo[i] = "in_progress"})
    BY DEF NothingLeftRunning
  <2>1. slots = {} /\ OnePlace
    BY DEF EndInv, EndedEmpty, StatusInv, HoldingInv, FlightInv
  <2>2. DOMAIN events = 1 .. Len(events)
    BY DEF EndInv, StatusInv, HoldingInv, FlightInv, TypeOK, FlightType
  <2>3. \A i \in Tasks : ~Running(i) /\ EventsOf(i) = {}
    BY <2>1, <2>2 DEF OnePlace, HasEvent, EventsOf
  <2>4. {i \in Tasks : todo[i] = "in_progress"} \subseteq Unsettled
    BY <2>1 DEF Unsettled
  <2>5. "journal" \in Faults \/ \A S \in SUBSET Unsettled : LeftByCancel(S)
    BY DEF EndInv, OnlyLeftByCancel, MayBeLeft, LeftByCancel, Unsettled
  <2> QED
    BY <2>1, <2>3, <2>4, <2>5
<1> QED
  BY InitEnd, EndStep, <1>1, PTL DEF Spec

\* The verdict the scheduler returns on a task is the durable one, if its own
\* commits are not lost and every task may be replayed; under cancellation too,
\* for every task but the one just described.
THEOREM VerdictsAreDurable ==
    ASSUME "journal" \notin Faults, Replayable = Tasks
    PROVE  Spec => []VerdictIsDurable
<1>1. EndInv => VerdictIsDurable
  <2> SUFFICES ASSUME EndInv, pc = "returned"
               PROVE  LeftByCancel({i \in Tasks : ~Agreed(i)})
    BY DEF VerdictIsDurable
  <2>1. {i \in Tasks : ~Agreed(i)} \subseteq Unsettled
    BY DEF EndInv, EndedEmpty, Unsettled
  <2>2. \A S \in SUBSET Unsettled : LeftByCancel(S)
    BY DEF EndInv, OnlyLeftByCancel, MayBeLeft, LeftByCancel, Unsettled
  <2> QED
    BY <2>1, <2>2
<1> QED
  BY InitEnd, EndStep, <1>1, PTL DEF Spec

-----------------------------------------------------------------------------
(***************************************************************************)
(* The reset wave.  The sweep keeps the dependents of what it has visited  *)
(* queued or visited.  When nothing is queued any more the visited tasks   *)
(* are therefore closed under dependents, and since the failed task is the *)
(* target of its edge or downstream of it, it has been visited.            *)
(***************************************************************************)

WaveClosed ==
    pc = "wave" =>
        /\ source \in Tasks
        /\ OnFailure[source] \in Tasks /\ OnFailure[source] \in seen \cup frontier
        /\ \A j \in seen : RevDeps(j) \subseteq seen \cup frontier

\* Only a failure with an edge begins a wave, and only the sweep works in one.
LEMMA WavePhase ==
    ASSUME [Next]_vars, pc' = "wave"
    PROVE  \/ \E i \in Tasks : FailAndJump(i)
           \/ pc = "wave" /\ \E j \in Tasks : (SweepDefer(j) \/ SweepReset(j)) /\ Advance(j)
           \/ pc = "wave" /\ UNCHANGED <<control, states, needsReset>>
<1>1. ASSUME NEW i \in Tasks, Handle(i) \/ Route(i), ~FailAndJump(i) PROVE FALSE
  <2>1. ~Handle(i)
    BY HandleFrame
  <2> QED
    BY <1>1, <2>1 DEF Route, DiscardStale, RouteCriteria, RouteCriterionRetry, FailAndStop,
       FailAndSelfHeal, ResetInPlace, BeginScan, Await
<1>2. ASSUME NEW j \in Tasks, SweepDefer(j) \/ SweepReset(j)
      PROVE  pc = "wave" /\ (SweepDefer(j) \/ SweepReset(j)) /\ Advance(j)
  BY <1>2 DEF SweepDefer, SweepReset
<1>3. ASSUME NEW i \in Tasks,
             PassOver(i) \/ BlockDispatch(i) \/ NoPermit(i) \/ Launch(i) \/ Drain(i)
      PROVE  FALSE
  BY <1>3 DEF PassOver, BlockDispatch, NoPermit, Launch, Drain, Scanning, Await, control
<1>4. ASSUME NEW i \in Tasks, Worker(i) PROVE UNCHANGED <<control, states, needsReset>>
  BY <1>4, WorkerSparesScheduler
<1>5. ~Start /\ ~EndScan /\ ~EndSweep /\ ~BeginDrain /\ ~EndDrain /\ ~MarkStranded
  BY DEF Start, EndScan, EndSweep, BeginDrain, EndDrain, MarkStranded, BeginScan, Await
<1>6. CASE Cancel \/ Over \/ UNCHANGED vars
  BY <1>6 DEF Cancel, Over, vars, control
<1> QED
  BY <1>1, <1>2, <1>3, <1>4, <1>5, <1>6 DEF Next, Scheduler, control

LEMMA WaveStep == TypeOK /\ WaveClosed /\ [Next]_vars => WaveClosed'
<1> SUFFICES ASSUME TypeOK, WaveClosed, [Next]_vars, pc' = "wave" PROVE WaveClosed'
  BY DEF WaveClosed
<1>1. CASE \E i \in Tasks : FailAndJump(i)
  <2>1. PICK i \in Tasks : FailAndJump(i)
    BY <1>1
  <2>2. OnFailure[i] \in Tasks
    BY <2>1, BatchAssumption DEF FailAndJump
  <2> QED
    BY <2>1, <2>2 DEF FailAndJump, Routing, JumpTarget, WaveClosed
<1>2. ASSUME pc = "wave", NEW j \in Tasks, j \in frontier, Advance(j) PROVE WaveClosed'
  <2>1. RevDeps(j)' = RevDeps(j) /\ \A k \in Tasks : RevDeps(k)' = RevDeps(k)
    BY DEF RevDeps
  <2>2. seen \subseteq Tasks
    BY DEF TypeOK, ControlType
  <2> QED
    BY <1>2, <2>1, <2>2 DEF Advance, WaveClosed
<1>3. CASE pc = "wave" /\ UNCHANGED <<control, states, needsReset>>
  BY <1>3 DEF WaveClosed, RevDeps, control, sweep
<1> QED
  BY <1>1, <1>2, <1>3, WavePhase DEF SweepDefer, SweepReset

\* What is closed under dependents and holds the target holds the source.
LEMMA ClosedReachesSource ==
    ASSUME seen \subseteq Tasks, NEW i \in Tasks, OnFailure[i] \in seen,
           \A j \in seen : RevDeps(j) \subseteq seen
    PROVE  i \in seen
<1> SUFFICES ASSUME i \notin seen PROVE FALSE
  OBVIOUS
<1> DEFINE S == Tasks \ seen
<1>1. DependsOn \in [Tasks -> SUBSET Tasks]
  BY BatchAssumption
<1>2. \A j \in S : DependsOn[j] \subseteq S
  <2> SUFFICES ASSUME NEW j \in S, NEW d \in DependsOn[j], d \in seen PROVE FALSE
    BY <1>1
  <2>1. j \in RevDeps(d)
    BY DEF RevDeps
  <2> QED
    BY <2>1
<1>3. OnFailure[i] \in {NoTask, i} \/ IsAncestor(OnFailure[i], i)
  BY OnFailureAssumption
<1>4. OnFailure[i] \notin {NoTask, i}
  BY DEF Tasks, NoTask
<1>5. S \in SUBSET Tasks /\ i \in S
  OBVIOUS
<1>6. OnFailure[i] \in S
  BY <1>2, <1>3, <1>4, <1>5 DEF IsAncestor
<1> QED
  BY <1>6

\* A reset wave that runs to its end has visited the task whose failure began
\* it: a failure that was charged a retry is queued again, never left standing.
THEOREM WavesReachTheirSource == Spec => WaveReachesSource
<1>1. Init => WaveClosed
  BY DEF Init, WaveClosed
<1>2. TypeOK /\ WaveClosed /\ [Next]_vars => WaveClosed'
  BY WaveStep
<1>3. TypeOK /\ WaveClosed /\ [Next]_vars
        => [pc = "wave" /\ pc' = "launch" => source \in seen]_vars
  <2> SUFFICES ASSUME TypeOK, WaveClosed, [Next]_vars, pc = "wave", pc' = "launch"
               PROVE  source \in seen
    OBVIOUS
  <2>1. frontier = {}
    <3>1. ASSUME NEW i \in Tasks,
                 \/ Handle(i) \/ Route(i) \/ PassOver(i) \/ BlockDispatch(i) \/ NoPermit(i)
                 \/ Launch(i) \/ SweepDefer(i) \/ SweepReset(i) \/ Drain(i) \/ Worker(i)
          PROVE  FALSE
      BY <3>1, HandleFrame, RouteFrame, WorkerSparesScheduler
         DEF PassOver, BlockDispatch, NoPermit, Launch, Drain, Scanning, SweepDefer,
             SweepReset, control
    <3>2. ~Start /\ ~EndScan /\ ~BeginDrain /\ ~EndDrain /\ ~MarkStranded /\ ~Cancel /\ ~Over
          /\ ~UNCHANGED vars
      BY DEF Start, EndScan, BeginDrain, EndDrain, MarkStranded, Cancel, Over, vars, control
    <3> QED
      BY <3>1, <3>2 DEF Next, Scheduler, EndSweep
  <2>2. /\ source \in Tasks /\ seen \subseteq Tasks /\ OnFailure[source] \in seen
        /\ \A j \in seen : RevDeps(j) \subseteq seen
    BY <2>1 DEF WaveClosed, TypeOK, ControlType
  <2> QED
    BY <2>2, ClosedReachesSource
<1> QED
  BY TypeCorrect, <1>1, <1>2, <1>3, PTL DEF Spec, WaveReachesSource

-----------------------------------------------------------------------------
(***************************************************************************)
(* Results built on results.  Between waves a task that is done, or runs   *)
(* unmarked, has its producers done; within a wave the exceptions are      *)
(* still queued for the sweep, and what the sweep has visited is neither.  *)
(***************************************************************************)

Relies(i) == states[i] = "done" \/ (states[i] = "in_progress" /\ ~needsReset[i])

BuiltOrQueued ==
    "journal" \in Faults \/ cancelled \/
    /\ \A i \in Tasks : \A d \in DependsOn[i] \ CriterionTargets :
          Relies(i) => states[d] = "done" \/ (pc = "wave" /\ i \in frontier)
    /\ pc = "wave" => \A j \in seen : ~Relies(j)

BuiltInv == StatusInv /\ BuiltOrQueued

\* Only the caller ends the run's context, and it is never live again.
LEMMA CancelOnce == [Next]_vars => Cancel \/ UNCHANGED cancelled
<1> SUFFICES ASSUME [Next]_vars PROVE Cancel \/ UNCHANGED cancelled
  OBVIOUS
<1>1. ASSUME NEW i \in Tasks,
             \/ PassOver(i) \/ BlockDispatch(i) \/ NoPermit(i) \/ Launch(i)
             \/ SweepDefer(i) \/ SweepReset(i) \/ Drain(i)
      PROVE  UNCHANGED cancelled
  BY <1>1 DEF PassOver, BlockDispatch, NoPermit, Launch, SweepDefer, SweepReset, Drain
<1>2. ASSUME NEW i \in Tasks, Handle(i) \/ Route(i) PROVE UNCHANGED cancelled
  BY <1>2, HandleFrame, RouteFrame
<1>3. ASSUME NEW i \in Tasks, Worker(i) PROVE UNCHANGED cancelled
  BY <1>3, WorkerSparesScheduler
<1>4. CASE \/ Start \/ EndScan \/ EndSweep \/ BeginDrain \/ EndDrain \/ MarkStranded
           \/ Over \/ UNCHANGED vars
  BY <1>4 DEF Start, EndScan, EndSweep, BeginDrain, EndDrain, MarkStranded, Over, vars
<1> QED
  BY <1>1, <1>2, <1>3, <1>4 DEF Next, Scheduler

\* With a live context and no lost commit a reset takes a task back: what it
\* leaves is queued or blocked.
LEMMA ResetTakesBack ==
    ASSUME "journal" \notin Faults, ~cancelled, NEW i \in Tasks, NEW st, NEW td,
           NEW r \in ResetOutcomes(i, st, td)
    PROVE  r.ok /\ r.state \in {"pending", "blocked"}
<1>1. CASE st = "pending"
  BY <1>1 DEF ResetOutcomes
<1>2. CASE st # "pending" /\ i \notin Replayable
  BY <1>2 DEF ResetOutcomes
<1>3. CASE st # "pending" /\ i \in Replayable
  BY <1>3 DEF ResetOutcomes
<1> QED
  BY <1>1, <1>2, <1>3

\* A criterion retry changes the state of its targets only, and takes them back.
LEMMA CriterionRetryTakesBack ==
    ASSUME NEW i \in Tasks, NEW u \in Tasks, NEW targets \in SUBSET RepairTargets[i],
           RouteCriterionRetry(i, targets)
    PROVE  \/ states'[u] = states[u]
           \/ u \in CriterionTargets /\ states'[u] \in {"pending", "blocked"}
<1> DEFINE visited == IF critUsed < CriterionRetryBudget THEN Visited(i, targets) ELSE {}
           swept   == {v \in visited : ReplayBlocked(i, v)}
           charged == {v \in {w \in visited : Eligible(i, w)} : states[v] # "pending"}
<1>1. PICK lost \in SUBSET (swept \cup charged) :
        states' = [v \in Tasks |->
                IF v \in swept THEN "blocked"
                ELSE IF v \in charged \ lost THEN "pending" ELSE states[v]]
  BY DEF RouteCriterionRetry
<1>2. \A v \in swept \cup charged : v \in targets
  BY DEF Visited
<1>3. targets \subseteq CriterionTargets
  BY DEF CriterionTargets
<1> HIDE DEF swept, charged
<1> QED
  BY <1>1, <1>2, <1>3

\* What handling and routing an event of task i does to the states: i becomes
\* done only if no wave swept it; of the others only targets move.
LEMMA HandleTakesBack ==
    ASSUME StatusInv, "journal" \notin Faults, ~cancelled,
           NEW i \in Tasks, Handle(i) \/ Route(i), NEW u \in Tasks
    PROVE  \/ states'[u] = states[u] /\ needsReset'[u] = needsReset[u]
           \/ u \in CriterionTargets /\ states'[u] \in {"pending", "blocked"}
           \/ u = i /\ states[u] # "done" /\ states'[u] \notin {"done", "in_progress"}
           \/ u = i /\ pc = "wait" /\ ~needsReset[u]
<1>1. /\ FlightInv
      /\ states \in [Tasks -> SchedulerStates] /\ needsReset \in [Tasks -> BOOLEAN]
  BY DEF StatusInv, HoldingInv, FlightInv, TypeOK, TablesType, FlagsType
<1>2. CASE Handle(i) /\ u # i
  <2>1. states'[u] = states[u]
    BY <1>1, <1>2, HandleSparesOthers
  <2>2. needsReset' = needsReset \/ needsReset' = [needsReset EXCEPT ![i] = FALSE]
    BY <1>2 DEF Handle, TakeStale, TakeDone, TakeFailure, HandleCheckpoint, HandleRefusal, Live
  <2> QED
    BY <1>1, <1>2, <2>1, <2>2
<1>3. CASE TakeStale(i) /\ u = i
  <2>1. i \in slots
    <3>1. events # <<>> /\ Head(events).task = i
      BY <1>3 DEF TakeStale, Receive
    <3>2. 1 \in 1 .. Len(events) /\ Head(events) = events[1]
      BY <1>1, <3>1, ChannelTail DEF FlightInv, TypeOK, FlightType
    <3> QED
      BY <1>1, <3>1, <3>2 DEF FlightInv, OnePlace, HasEvent
  <2>2. states[i] = "in_progress"
    BY <1>1, <2>1 DEF FlightInv, SlotsHeld
  <2> QED
    BY <1>1, <1>3, <2>2 DEF TakeStale, Failed
<1>4. CASE Handle(i) /\ ~TakeStale(i) /\ u = i
  <2>1. ~needsReset[i]
    BY <1>4 DEF Handle, TakeDone, TakeFailure, HandleCheckpoint, HandleRefusal, Live
  <2> QED
    BY <1>4, <2>1, HandleFrame
<1>5. CASE Route(i)
  <2>1. source = i /\ pc = "handle" /\ needsReset' = needsReset
    BY <1>5, RouteFrame
  <2>2. CASE DiscardStale(i) \/ FailAndSelfHeal(i)
    <3>1. PICK r \in ResetOutcomes(i, states[i], todo[i]) :
            states' = [states EXCEPT ![i] = r.state]
      BY <2>2 DEF DiscardStale, FailAndSelfHeal, ResetInPlace
    <3>2. states[i] = "error"
      BY <1>1, <2>1, <2>2 DEF DiscardStale, FailAndSelfHeal, Routing, FailureClasses,
         FlightInv, TakenUp
    <3>3. r.state \in {"pending", "blocked"}
      BY <3>2, ResetTakesBack
    <3> QED
      BY <1>1, <2>1, <3>1, <3>2, <3>3
  <2>3. CASE RouteCriteria(i)
    BY <2>1, <2>3, CriterionRetryTakesBack DEF RouteCriteria
  <2>4. CASE FailAndStop(i) \/ FailAndJump(i)
    BY <2>1, <2>4 DEF FailAndStop, FailAndJump
  <2> QED
    BY <1>5, <2>2, <2>3, <2>4 DEF Route
<1> QED
  BY <1>2, <1>3, <1>4, <1>5

LEMMA BuiltStep == BuiltInv /\ [Next]_vars => BuiltOrQueued'
<1> SUFFICES ASSUME BuiltInv, [Next]_vars, "journal" \notin Faults, ~cancelled'
             PROVE  BuiltOrQueued'
  BY BatchAssumption DEF BuiltOrQueued
<1>1. /\ StatusInv /\ FlightInv /\ ~cancelled
      /\ states \in [Tasks -> SchedulerStates] /\ needsReset \in [Tasks -> BOOLEAN]
      /\ slots \subseteq Tasks /\ \A j \in slots : states[j] = "in_progress"
      /\ DependsOn \in [Tasks -> SUBSET Tasks]
      /\ events \in Seq([task : Tasks, kind : EventKinds, class : FailureClasses])
  BY CancelOnce, BatchAssumption
     DEF BuiltInv, StatusInv, HoldingInv, FlightInv, SlotsHeld, TypeOK, TablesType,
         FlagsType, FlightType, Cancel
<1>2. /\ \A a \in Tasks : \A d \in DependsOn[a] \ CriterionTargets :
           Relies(a) => states[d] = "done" \/ (pc = "wave" /\ a \in frontier)
      /\ pc = "wave" => \A j \in seen : ~Relies(j)
  BY <1>1 DEF BuiltInv, BuiltOrQueued
<1>3. ASSUME pc' # "wave",
             \A a \in Tasks : \A d \in DependsOn[a] \ CriterionTargets :
                 Relies(a)' => states'[d] = "done"
      PROVE  BuiltOrQueued'
  BY <1>3 DEF BuiltOrQueued, CriterionTargets
<1>4. ASSUME UNCHANGED <<states, needsReset>>,
             pc = "wave" /\ pc' # "wave" => frontier = {},
             pc' = "wave" => pc = "wave" /\ UNCHANGED <<frontier, seen>>
      PROVE  BuiltOrQueued'
  BY <1>2, <1>4 DEF BuiltOrQueued, Relies, CriterionTargets
<1>5. ASSUME NEW i \in Tasks, Handle(i) \/ Route(i) PROVE BuiltOrQueued'
  <2>1. /\ pc # "wave"
        /\ pc' = "wave" => seen' = {}
        /\ pc = "wait" => events # <<>> /\ Head(events).task = i
    <3>1. CASE Handle(i)
      BY <3>1, HandleFrame
    <3>2. CASE Route(i)
      BY <3>2, RouteFrame DEF Route, DiscardStale, RouteCriteria, RouteCriterionRetry,
         FailAndStop, FailAndSelfHeal, FailAndJump, ResetInPlace, BeginScan, Await
    <3> QED
      BY <1>5, <3>1, <3>2
  <2>2. pc = "wait" => states[i] = "in_progress"
    <3>1. pc = "wait" => 1 \in 1 .. Len(events) /\ Head(events) = events[1]
      BY <1>1, <2>1, ChannelTail
    <3> QED
      BY <1>1, <2>1, <3>1 DEF FlightInv, OnePlace, HasEvent
  <2>3. ASSUME NEW a \in Tasks, NEW d \in DependsOn[a] \ CriterionTargets, Relies(a)'
        PROVE  states'[d] = "done"
    <3>1. Relies(a)
      BY <1>1, <1>5, <2>2, <2>3, HandleTakesBack DEF Relies
    <3>2. states[d] = "done" /\ d \in Tasks /\ ~(pc = "wait" /\ d = i)
      BY <1>1, <1>2, <2>1, <2>2, <3>1
    <3> QED
      BY <1>1, <1>5, <3>2, HandleTakesBack
  <2> QED
    BY <2>1, <2>3 DEF BuiltOrQueued, CriterionTargets
<1>6. ASSUME NEW i \in Tasks, Launch(i) PROVE BuiltOrQueued'
  <2>1. /\ pc = "launch" /\ pc' = pc /\ states' = [states EXCEPT ![i] = "in_progress"]
        /\ needsReset' = needsReset /\ states[i] = "pending"
        /\ \A d \in DependsOn[i] : states[d] = "done"
    BY <1>6 DEF Launch, Scanning, Launchable, ReadyToLaunch
  <2>2. ASSUME NEW a \in Tasks, NEW d \in DependsOn[a] \ CriterionTargets, Relies(a)'
        PROVE  states'[d] = "done"
    <3>1. states[d] = "done" /\ d \in Tasks
      BY <1>1, <1>2, <2>1, <2>2 DEF Relies
    <3> QED
      BY <1>1, <2>1, <3>1
  <2> QED
    BY <1>3, <2>1, <2>2
<1>7. ASSUME NEW i \in Tasks, BlockDispatch(i) PROVE BuiltOrQueued'
  <2>1. PICK s \in {"blocked", "error"} : states' = [states EXCEPT ![i] = s]
    BY <1>7 DEF BlockDispatch
  <2>2. /\ pc = "launch" /\ pc' = pc /\ needsReset' = needsReset /\ states[i] = "pending"
    BY <1>7 DEF BlockDispatch, Scanning, Launchable
  <2>3. ASSUME NEW a \in Tasks, NEW d \in DependsOn[a] \ CriterionTargets, Relies(a)'
        PROVE  states'[d] = "done"
    <3>1. states[d] = "done" /\ d \in Tasks
      BY <1>1, <1>2, <2>1, <2>2, <2>3 DEF Relies
    <3> QED
      BY <1>1, <2>1, <2>2, <3>1
  <2> QED
    BY <1>3, <2>2, <2>3
<1>8. ASSUME pc = "wave", pc' = "wave", NEW j \in frontier, Advance(j), frontier \subseteq Tasks,
             ~Relies(j)',
             \A u \in Tasks \ {j} : states'[u] = states[u] /\ needsReset'[u] = needsReset[u],
             states'[j] = states[j] \/ j \notin seen
      PROVE  BuiltOrQueued'
  <2>1. ASSUME NEW a \in Tasks, NEW d \in DependsOn[a] \ CriterionTargets, Relies(a)'
        PROVE  states'[d] = "done" \/ a \in frontier'
    <3>1. a # j /\ Relies(a) /\ d \in Tasks
      BY <1>1, <1>8, <2>1 DEF Relies
    <3>2. CASE a \in frontier
      BY <1>8, <3>1, <3>2 DEF Advance
    <3>3. CASE states[d] = "done" /\ d # j
      BY <1>8, <3>1, <3>3
    <3>4. CASE states[d] = "done" /\ d = j
      BY <1>8, <3>1, <3>4 DEF Advance, RevDeps
    <3> QED
      BY <1>2, <3>1, <3>2, <3>3, <3>4
  <2>2. \A k \in seen' : ~Relies(k)'
    <3>1. seen \subseteq Tasks
      BY <1>1 DEF FlightInv, TypeOK, ControlType
    <3> QED
      BY <1>2, <1>8, <3>1 DEF Advance, Relies
  <2> QED
    BY <1>8, <2>1, <2>2 DEF BuiltOrQueued, CriterionTargets
<1>9. frontier \subseteq Tasks
  BY <1>1 DEF FlightInv, TypeOK, ControlType
<1>10. ASSUME NEW j \in Tasks, SweepDefer(j) PROVE BuiltOrQueued'
  <2>1. /\ pc = "wave" /\ pc' = pc /\ j \in frontier /\ Advance(j) /\ states' = states
        /\ \A u \in Tasks \ {j} : needsReset'[u] = needsReset[u]
    BY <1>1, <1>10 DEF SweepDefer
  <2>2. ~Relies(j)'
    BY <1>1, <1>2, <1>10 DEF SweepDefer, Relies, InFlight
  <2> QED
    BY <1>8, <1>9, <2>1, <2>2
<1>11. ASSUME NEW j \in Tasks, SweepReset(j) PROVE BuiltOrQueued'
  <2>1. PICK r \in ResetOutcomes(j, states[j], todo[j]) :
          /\ states' = [states EXCEPT ![j] = r.state]
          /\ r.ok => Advance(j) /\ UNCHANGED pc
    BY <1>11 DEF SweepReset
  <2>2. r.ok /\ r.state \in {"pending", "blocked"}
    BY <1>1, ResetTakesBack
  <2>3. pc = "wave" /\ j \in frontier /\ j \notin seen /\ needsReset' = needsReset
    BY <1>11 DEF SweepReset
  <2>4. ~Relies(j)'
    BY <1>1, <2>1, <2>2 DEF Relies
  <2> QED
    BY <1>1, <1>8, <1>9, <2>1, <2>2, <2>3, <2>4
<1>12. CASE MarkStranded
  <2>1. /\ pc = "wait" /\ pc' = "returned" /\ needsReset' = needsReset
        /\ states' = [i \in Tasks |-> IF i \in Stranded THEN "blocked" ELSE states[i]]
    BY <1>12 DEF MarkStranded
  <2>2. ASSUME NEW a \in Tasks, NEW d \in DependsOn[a] \ CriterionTargets, Relies(a)'
        PROVE  states'[d] = "done"
    BY <1>1, <1>2, <2>1, <2>2 DEF Relies, Stranded
  <2> QED
    BY <1>3, <2>1, <2>2
<1>13. ASSUME NEW i \in Tasks, Worker(i) PROVE BuiltOrQueued'
  <2>1. UNCHANGED <<control, states, needsReset>>
    BY <1>13, WorkerSparesScheduler
  <2> QED
    BY <1>4, <2>1 DEF control, sweep
<1>14. ASSUME NEW i \in Tasks, PassOver(i) \/ NoPermit(i) \/ Drain(i) PROVE BuiltOrQueued'
  BY <1>4, <1>14 DEF PassOver, NoPermit, Drain, Scanning, Await, control
<1>15. CASE \/ Start \/ EndScan \/ EndSweep \/ BeginDrain \/ EndDrain
            \/ Cancel \/ Over \/ UNCHANGED vars
  BY <1>4, <1>15 DEF Start, EndScan, EndSweep, BeginDrain, EndDrain, Cancel, Over, vars,
     control, sweep, BeginScan, Await
<1> QED
  BY <1>5, <1>6, <1>7, <1>10, <1>11, <1>12, <1>13, <1>14, <1>15 DEF Next, Scheduler

\* However failures jump back, waves sweep what is in flight and criteria send
\* repairs out, no result stands on a producer the scheduler has taken back.
THEOREM ResultsBuiltOnDone == Spec => []BuiltOnDone
<1>1. Init => BuiltInv
  <2>1. Init => BuiltOrQueued
    BY BatchAssumption DEF Init, BuiltOrQueued, Relies
  <2> QED
    BY <2>1, InitStatus DEF BuiltInv
<1>2. BuiltInv /\ [Next]_vars => BuiltInv'
  BY StatusStep, BuiltStep DEF BuiltInv
<1>3. BuiltInv => BuiltOnDone
  BY DEF BuiltInv, BuiltOrQueued, Relies, BuiltOnDone
<1> QED
  BY <1>1, <1>2, <1>3, PTL DEF Spec

-----------------------------------------------------------------------------
(***************************************************************************)
(* The scan.  While launchReady walks the batch, no task behind its cursor *)
(* can be dispatched: a dispatch takes a producer, an order predecessor or *)
(* a resource away from the others and gives them nothing.  What breaks    *)
(* this is named by the hypothesis of the theorems: a checkpoint pause and *)
(* a lost reset commit end the handling of an event without a scan, and an *)
(* anti-thrashing block in the middle of a scan settles an order           *)
(* predecessor that the scan has passed.                                   *)
(***************************************************************************)

Restful == Faults \cap {"pause", "journal", "thrash"} = {}

Scanned ==
    /\ pc = "launch" => \A u \in Tasks : u < cursor => ~Launchable(u)
    /\ WorkConserving

NonePaused == \A i \in Tasks : states[i] # "paused"

CancelledByFault == cancelled => "cancel" \in Faults

ScanInv == StatusInv /\ Scanned /\ NonePaused /\ CancelledByFault

\* Dispatching a task makes no other task unable to start.
LEMMA LaunchSettlesNothing ==
    ASSUME TypeOK, NEW i \in Tasks, Launch(i), NEW p \in Tasks, CannotStart(p)'
    PROVE  CannotStart(p)
<1>1. /\ states \in [Tasks -> SchedulerStates] /\ states' = [states EXCEPT ![i] = "in_progress"]
      /\ DependsOn \in [Tasks -> SUBSET Tasks]
  BY BatchAssumption DEF TypeOK, TablesType, Launch
<1> SUFFICES ASSUME NEW S \in SUBSET Tasks,
                    \A j \in Tasks :
                        (/\ states[j] = "pending"
                         /\ \E d \in DependsOn[j] : states[d] \in Terminal \ {"done"} \/ d \in S)
                        => j \in S
             PROVE  p \in S
  BY DEF CannotStart
<1>2. ASSUME NEW j \in Tasks, states'[j] = "pending", NEW d \in DependsOn[j],
             states'[d] \in Terminal \ {"done"} \/ d \in S
      PROVE  j \in S
  <2>1. states[j] = "pending" /\ d \in Tasks
    BY <1>1, <1>2
  <2>2. states[d] \in Terminal \ {"done"} \/ d \in S
    BY <1>1, <1>2, <2>1 DEF Terminal
  <2> QED
    BY <2>1, <2>2
<1> QED
  BY <1>2 DEF CannotStart

LEMMA LaunchFreesNothing ==
    ASSUME TypeOK, NEW i \in Tasks, Launch(i), NEW u \in Tasks, Launchable(u)'
    PROVE  u # i /\ Launchable(u)
<1>1. /\ states \in [Tasks -> SchedulerStates] /\ states' = [states EXCEPT ![i] = "in_progress"]
      /\ active' = active \cup {i}
      /\ DependsOn \in [Tasks -> SUBSET Tasks] /\ OrderAfter \in [Tasks -> SUBSET Tasks]
  BY BatchAssumption DEF TypeOK, TablesType, Launch
<1>2. states'[u] = "pending" /\ ReadyToLaunch(u)' /\ ~ResourceConflict(u)'
  BY DEF Launchable
<1>3. u # i /\ states[u] = "pending"
  BY <1>1, <1>2
<1>4. ~ResourceConflict(u)
  BY <1>1, <1>2 DEF ResourceConflict, ClaimsConflict
<1>5. ASSUME NEW d \in DependsOn[u] PROVE states[d] = "done"
  <2>1. states'[d] = "done" /\ d \in Tasks
    BY <1>1, <1>2 DEF ReadyToLaunch
  <2> QED
    BY <1>1, <2>1
<1>6. ASSUME NEW p \in OrderAfter[u] PROVE states[p] \in Terminal \/ CannotStart(p)
  <2>1. p \in Tasks /\ (states'[p] \in Terminal \/ CannotStart(p)')
    BY <1>1, <1>2 DEF ReadyToLaunch, OrderPredecessorsSettled
  <2>2. CASE states'[p] \in Terminal
    BY <1>1, <2>1, <2>2 DEF Terminal
  <2>3. CASE CannotStart(p)'
    BY <2>1, <2>3, LaunchSettlesNothing
  <2> QED
    BY <2>1, <2>2, <2>3
<1> QED
  BY <1>3, <1>4, <1>5, <1>6 DEF Launchable, ReadyToLaunch, OrderPredecessorsSettled

\* Handling an event ends in a scan or a wave, or in its routing; so does the
\* routing, in a run that nobody has cancelled.
LEMMA HandleScans ==
    ASSUME Restful, StatusInv, NEW i \in Tasks, Handle(i) \/ Route(i)
    PROVE  (pc' = "launch" /\ cursor' = 1) \/ pc' \in {"handle", "wave"} \/ cancelled'
<1>1. /\ "journal" \notin Faults /\ "pause" \notin Faults
      /\ events \in Seq([task : Tasks, kind : EventKinds, class : FailureClasses])
  BY DEF Restful, StatusInv, HoldingInv, FlightInv, TypeOK, FlightType
<1>2. CASE TakeStale(i) \/ TakeDone(i) \/ TakeFailure(i)
  BY <1>2 DEF TakeStale, TakeDone, TakeFailure, TakeUp
<1>3. CASE HandleCheckpoint(i)
  <2>1. events # <<>> /\ Head(events).task = i
    BY <1>3, HandleFrame DEF Handle
  <2>2. 1 \in 1 .. Len(events) /\ Head(events) = events[1]
    BY <1>1, <2>1, ChannelTail
  <2>3. Head(events).kind # "checkpoint"
    BY <1>1, <2>2 DEF StatusInv, Carried, MayCarry
  <2> QED
    BY <1>3, <2>3 DEF HandleCheckpoint, BeginScan, Live, Receive
<1>4. CASE HandleRefusal(i)
  BY <1>4 DEF HandleRefusal, BeginScan
<1>5. CASE DiscardStale(i) \/ FailAndSelfHeal(i)
  <2>1. PICK r \in ResetOutcomes(i, states[i], todo[i]) :
          cancelled' = cancelled /\ (r.ok => pc' = "launch" /\ cursor' = 1)
    BY <1>5 DEF DiscardStale, FailAndSelfHeal, Routing, ResetInPlace, BeginScan
  <2>2. ~cancelled /\ cancelled \in BOOLEAN => r.ok
    BY <1>1, ResetTakesBack
  <2>3. cancelled \in BOOLEAN
    BY DEF StatusInv, HoldingInv, FlightInv, TypeOK, FlagsType
  <2> QED
    BY <2>1, <2>2, <2>3
<1>6. CASE RouteCriteria(i) \/ FailAndStop(i) \/ FailAndJump(i)
  BY <1>6 DEF RouteCriteria, RouteCriterionRetry, FailAndStop, FailAndJump, BeginScan
<1> QED
  BY <1>2, <1>3, <1>4, <1>5, <1>6 DEF Handle, Route

LEMMA ScannedStep == Restful /\ ScanInv /\ [Next]_vars => Scanned'
<1> SUFFICES ASSUME Restful, ScanInv, [Next]_vars PROVE Scanned'
  OBVIOUS
<1>1. /\ "journal" \notin Faults /\ "thrash" \notin Faults
      /\ StatusInv /\ TypeOK /\ Scanned /\ cursor \in Nat /\ NTasks \in Nat
  BY BatchAssumption
     DEF Restful, ScanInv, StatusInv, HoldingInv, FlightInv, TypeOK, ControlType
<1>2. ASSUME pc' \notin {"launch", "wait"} PROVE Scanned'
  BY <1>2 DEF Scanned, WorkConserving
<1>3. ASSUME pc' = "launch", cursor' = 1 PROVE Scanned'
  BY <1>3 DEF Scanned, WorkConserving, Tasks
<1>4. ASSUME UNCHANGED <<pc, cursor, cancelled, states, active, sem>> PROVE Scanned'
  BY <1>1, <1>4 DEF Scanned, WorkConserving, Launchable, ReadyToLaunch,
     OrderPredecessorsSettled, CannotStart, ResourceConflict, ClaimsConflict, PermitFree
<1>5. ASSUME NEW i \in Tasks, Handle(i) \/ Route(i) PROVE Scanned'
  <2>1. CASE cancelled' /\ pc' = "wait"
    BY <2>1 DEF Scanned, WorkConserving
  <2>2. CASE pc' = "launch"
    <3>1. cursor' = 1
      <4>1. CASE Handle(i)
        BY <2>2, <4>1 DEF Handle, TakeStale, TakeDone, TakeFailure, TakeUp, HandleCheckpoint,
           HandleRefusal, BeginScan, Await
      <4>2. CASE Route(i)
        BY <2>2, <4>2 DEF Route, DiscardStale, RouteCriteria, RouteCriterionRetry,
           FailAndStop, FailAndSelfHeal, FailAndJump, ResetInPlace, BeginScan, Await
      <4> QED
        BY <1>5, <4>1, <4>2
    <3> QED
      BY <1>3, <2>2, <3>1
  <2> QED
    BY <1>1, <1>2, <1>5, <2>1, <2>2, HandleScans
<1>6. ASSUME NEW i \in Tasks, Launch(i) PROVE Scanned'
  <2>1. pc = "launch" /\ pc' = "launch" /\ cursor = i /\ cursor' = i + 1
    BY <1>6 DEF Launch, Scanning
  <2>2. ASSUME NEW u \in Tasks, u < cursor', Launchable(u)' PROVE FALSE
    <3>1. u # i /\ Launchable(u)
      BY <1>1, <1>6, <2>2, LaunchFreesNothing
    <3> QED
      BY <1>1, <2>1, <2>2, <3>1 DEF Scanned, Tasks
  <2> QED
    BY <2>1, <2>2 DEF Scanned, WorkConserving
<1>7. ASSUME NEW i \in Tasks, PassOver(i) PROVE Scanned'
  <2>1. /\ pc = "launch" /\ pc' = "launch" /\ cursor = i /\ cursor' = i + 1 /\ ~Launchable(i)
        /\ UNCHANGED <<states, active>>
    BY <1>7 DEF PassOver, Scanning, holdings
  <2>2. ASSUME NEW u \in Tasks, u < cursor', Launchable(u)' PROVE FALSE
    <3>1. Launchable(u)
      BY <2>1, <2>2 DEF Launchable, ReadyToLaunch, OrderPredecessorsSettled, CannotStart,
         ResourceConflict, ClaimsConflict
    <3>2. u = i \/ u < cursor
      BY <2>1, <2>2 DEF Tasks
    <3> QED
      BY <1>1, <2>1, <3>1, <3>2 DEF Scanned
  <2> QED
    BY <2>1, <2>2 DEF Scanned, WorkConserving
<1>8. ASSUME NEW i \in Tasks, NoPermit(i) PROVE Scanned'
  <2>1. pc' = "wait" /\ ~PermitFree' 
    BY <1>8 DEF NoPermit, Await, PermitFree, holdings
  <2> QED
    BY <2>1 DEF Scanned, WorkConserving
<1>9. CASE EndScan
  <2>1. /\ pc = "launch" /\ pc' = "wait" /\ (cursor > NTasks \/ cancelled')
        /\ UNCHANGED <<states, active>>
    BY <1>9 DEF EndScan, Await, holdings
  <2>2. ASSUME ~cancelled', NEW u \in Tasks, Launchable(u)' PROVE FALSE
    <3>1. Launchable(u)
      BY <2>1, <2>2 DEF Launchable, ReadyToLaunch, OrderPredecessorsSettled, CannotStart,
         ResourceConflict, ClaimsConflict
    <3>2. u < cursor
      BY <1>1, <2>1, <2>2 DEF Tasks
    <3> QED
      BY <1>1, <2>1, <3>1, <3>2 DEF Scanned
  <2> QED
    BY <2>1, <2>2 DEF Scanned, WorkConserving
<1>10. ASSUME NEW j \in Tasks, SweepDefer(j) PROVE Scanned'
  BY <1>2, <1>10 DEF SweepDefer
<1>11. ASSUME NEW j \in Tasks, SweepReset(j) PROVE Scanned'
  <2>1. CASE pc' = "wave"
    BY <1>2, <2>1
  <2>2. CASE pc' # "wave"
    <3>1. PICK r \in ResetOutcomes(j, states[j], todo[j]) :
            IF r.ok THEN Advance(j) /\ UNCHANGED pc
                    ELSE pc' = "wait" /\ frontier' = {} /\ seen' = {} /\ Handled
      BY <1>11 DEF SweepReset
    <3>2. ~r.ok /\ pc' = "wait" /\ cancelled' = cancelled
      BY <1>11, <2>2, <3>1 DEF SweepReset
    <3>3. cancelled'
      BY <1>1, <3>2, ResetTakesBack
    <3> QED
      BY <3>2, <3>3 DEF Scanned, WorkConserving
  <2> QED
    BY <2>1, <2>2
<1>12. ASSUME NEW i \in Tasks, Worker(i) PROVE Scanned'
  <2>1. UNCHANGED <<pc, cursor, cancelled, states, active, sem>>
    BY <1>12, WorkerSparesScheduler DEF control, holdings
  <2> QED
    BY <1>4, <2>1
<1>13. ASSUME NEW i \in Tasks, Drain(i) PROVE Scanned'
  BY <1>2, <1>13 DEF Drain, control
<1>14. ASSUME NEW i \in Tasks, BlockDispatch(i) PROVE FALSE
  BY <1>1, <1>14 DEF BlockDispatch
<1>15. CASE Cancel
  <2>1. cancelled' /\ UNCHANGED <<pc, cursor, states, active>>
    BY <1>15 DEF Cancel, control, holdings
  <2>2. ASSUME pc = "launch", NEW u \in Tasks, u < cursor, Launchable(u)' PROVE FALSE
    <3>1. Launchable(u)
      BY <2>1, <2>2 DEF Launchable, ReadyToLaunch, OrderPredecessorsSettled, CannotStart,
         ResourceConflict, ClaimsConflict
    <3> QED
      BY <1>1, <2>2, <3>1 DEF Scanned
  <2> QED
    BY <2>1, <2>2 DEF Scanned, WorkConserving
<1>16. CASE Over \/ UNCHANGED vars
  BY <1>4, <1>16 DEF Over, vars, control, holdings
<1>17. CASE Start \/ EndSweep \/ BeginDrain \/ EndDrain \/ MarkStranded
  BY <1>2, <1>3, <1>17 DEF Start, EndSweep, BeginDrain, EndDrain, MarkStranded, BeginScan
<1> QED
  BY <1>5, <1>6, <1>7, <1>8, <1>9, <1>10, <1>11, <1>12, <1>13, <1>14, <1>15, <1>16, <1>17
     DEF Next, Scheduler

\* Where no checkpoint pauses a task, none is ever paused.
LEMMA PausedStep == Restful /\ ScanInv /\ [Next]_vars => NonePaused'
<1> SUFFICES ASSUME Restful, ScanInv, [Next]_vars PROVE NonePaused'
  OBVIOUS
<1>1. /\ "pause" \notin Faults /\ NonePaused /\ Carried
      /\ states \in [Tasks -> SchedulerStates]
      /\ events \in Seq([task : Tasks, kind : EventKinds, class : FailureClasses])
  BY DEF Restful, ScanInv, StatusInv, HoldingInv, FlightInv, TypeOK, FlightType, TablesType
<1>2. ASSUME UNCHANGED states PROVE NonePaused'
  BY <1>1, <1>2 DEF NonePaused
<1>3. ASSUME NEW i \in Tasks, NEW s, s # "paused", states' = [states EXCEPT ![i] = s]
      PROVE  NonePaused'
  BY <1>1, <1>3 DEF NonePaused
<1>4. ASSUME NEW i, NEW st, NEW td, st # "paused", NEW r \in ResetOutcomes(i, st, td)
      PROVE  r.state # "paused"
  <2>1. CASE st = "pending"
    BY <1>4, <2>1 DEF ResetOutcomes
  <2>2. CASE st # "pending" /\ i \notin Replayable
    BY <1>4, <2>2 DEF ResetOutcomes
  <2>3. CASE st # "pending" /\ i \in Replayable
    BY <1>4, <2>3 DEF ResetOutcomes
  <2> QED
    BY <2>1, <2>2, <2>3
<1>5. ASSUME NEW i \in Tasks, NEW targets, RouteCriterionRetry(i, targets) PROVE NonePaused'
  BY <1>1, <1>5 DEF RouteCriterionRetry, NonePaused
<1>6. ASSUME NEW i \in Tasks, Handle(i) \/ Route(i) PROVE NonePaused'
  <2>1. CASE DiscardStale(i) \/ FailAndSelfHeal(i)
    <3>1. PICK r \in ResetOutcomes(i, states[i], todo[i]) : states' = [states EXCEPT ![i] = r.state]
      BY <2>1 DEF DiscardStale, FailAndSelfHeal, ResetInPlace
    <3>2. states[i] # "paused"
      BY <1>1 DEF NonePaused
    <3> QED
      BY <1>3, <1>4, <3>1, <3>2
  <2>2. CASE HandleCheckpoint(i)
    <3>1. /\ events # <<>> /\ Head(events).kind \in {"checkpoint", "replan"}
          /\ Head(events).kind # "checkpoint" => states' = [states EXCEPT ![i] = "pending"]
      BY <2>2 DEF HandleCheckpoint, Live, Receive
    <3>2. 1 \in 1 .. Len(events) /\ Head(events) = events[1]
      BY <1>1, <3>1, ChannelTail
    <3>3. Head(events).kind # "checkpoint"
      BY <1>1, <3>2 DEF Carried, MayCarry
    <3> QED
      BY <1>3, <3>1, <3>3
  <2>3. CASE HandleRefusal(i)
    BY <1>3, <2>3 DEF HandleRefusal
  <2>4. CASE TakeStale(i) \/ TakeDone(i) \/ TakeFailure(i)
    BY <1>3, <2>4 DEF TakeStale, TakeDone, TakeFailure, Failed
  <2>5. CASE RouteCriteria(i)
    BY <1>5, <2>5 DEF RouteCriteria
  <2>6. CASE FailAndStop(i) \/ FailAndJump(i)
    BY <1>2, <2>6 DEF FailAndStop, FailAndJump
  <2> QED
    BY <1>6, <2>1, <2>2, <2>3, <2>4, <2>5, <2>6 DEF Handle, Route
<1>7. ASSUME NEW j \in Tasks, SweepReset(j) PROVE NonePaused'
  <2>1. PICK r \in ResetOutcomes(j, states[j], todo[j]) : states' = [states EXCEPT ![j] = r.state]
    BY <1>7 DEF SweepReset
  <2>2. states[j] # "paused"
    BY <1>1 DEF NonePaused
  <2> QED
    BY <1>3, <1>4, <2>1, <2>2
<1>8. ASSUME NEW i \in Tasks, Worker(i) PROVE NonePaused'
  BY <1>2, <1>8, WorkerSparesScheduler
<1>9. ASSUME NEW i \in Tasks, PassOver(i) \/ NoPermit(i) \/ SweepDefer(i) \/ Drain(i)
      PROVE  NonePaused'
  BY <1>2, <1>9 DEF PassOver, NoPermit, SweepDefer, Drain
<1>10. ASSUME NEW i \in Tasks, Launch(i) \/ BlockDispatch(i) PROVE NonePaused'
  BY <1>3, <1>10 DEF Launch, BlockDispatch
<1>11. CASE MarkStranded
  BY <1>1, <1>11 DEF MarkStranded, NonePaused
<1>12. CASE \/ Start \/ EndScan \/ EndSweep \/ BeginDrain \/ EndDrain
            \/ Cancel \/ Over \/ UNCHANGED vars
  BY <1>2, <1>12 DEF Start, EndScan, EndSweep, BeginDrain, EndDrain, Cancel, Over, vars
<1> QED
  BY <1>6, <1>7, <1>8, <1>9, <1>10, <1>11, <1>12 DEF Next, Scheduler

LEMMA InitScan == Init => ScanInv
<1> SUFFICES ASSUME Init PROVE ScanInv
  OBVIOUS
<1>1. StatusInv
  BY InitStatus
<1> QED
  BY <1>1 DEF Init, ScanInv, Scanned, WorkConserving, NonePaused, CancelledByFault

LEMMA ScanStep == Restful /\ ScanInv /\ [Next]_vars => ScanInv'
<1> SUFFICES ASSUME Restful, ScanInv, [Next]_vars PROVE ScanInv'
  OBVIOUS
<1>1. CancelledByFault'
  BY CancelOnce DEF ScanInv, CancelledByFault, Cancel
<1> QED
  BY <1>1, StatusStep, ScannedStep, PausedStep DEF ScanInv

\* The scheduler never waits for an event with a free permit while a pending
\* task could be dispatched: every handler that can free a task scans again,
\* and the scan passes over nothing it will not visit after the change.
THEOREM NeverRestsOnReadyTask == ASSUME Restful PROVE Spec => []WorkConserving
<1>1. ScanInv => WorkConserving
  BY DEF ScanInv, Scanned
<1>2. ScanInv /\ [Next]_vars => ScanInv'
  BY ScanStep
<1> QED
  BY InitScan, <1>1, <1>2, PTL DEF Spec

\* cannotStart is a least fixed point: it holds of every task waiting on a
\* producer that failed or cannot start, and of pending tasks only.
LEMMA CannotStartClosed ==
    ASSUME NEW j \in Tasks, states[j] = "pending", NEW d \in DependsOn[j],
           states[d] \in Terminal \ {"done"} \/ CannotStart(d)
    PROVE  CannotStart(j)
BY DEF CannotStart

LEMMA CannotStartIsPending ==
    ASSUME NEW d \in Tasks, CannotStart(d) PROVE states[d] = "pending"
<1> DEFINE S == {j \in Tasks : states[j] = "pending"}
<1>1. S \in SUBSET Tasks /\ \A j \in Tasks : states[j] = "pending" => j \in S
  OBVIOUS
<1>2. d \in S
  BY <1>1 DEF CannotStart
<1> QED
  BY <1>2

\* A task whose producers are all done can start.
LEMMA SuppliedCanStart ==
    ASSUME NEW i \in Tasks, \A d \in DependsOn[i] : states[d] = "done" PROVE ~CannotStart(i)
<1> DEFINE S == {j \in Tasks : CannotStart(j)} \ {i}
<1>1. ASSUME NEW j \in Tasks, states[j] = "pending", NEW d \in DependsOn[j],
             states[d] \in Terminal \ {"done"} \/ d \in S
      PROVE  j \in S
  <2>1. CannotStart(j)
    BY <1>1, CannotStartClosed
  <2>2. states[d] # "done"
    <3>1. CASE d \in S
      BY <3>1, CannotStartIsPending
    <3> QED
      BY <1>1, <3>1
  <2> QED
    BY <2>1, <2>2
<1>2. S \in SUBSET Tasks /\ i \notin S
  OBVIOUS
<1> HIDE DEF S
<1>3. ~CannotStart(i)
  BY <1>1, <1>2 DEF CannotStart
<1> QED
  BY <1>3

\* While nothing is in flight and no producer has failed above it, a pending
\* task that can start leaves some task launchable: the batch has no cycle.
LEMMA SomeTaskLaunchable ==
    ASSUME TypeOK, NonePaused, \A i \in Tasks : states[i] # "in_progress", active = {},
           NEW i \in Tasks, states[i] = "pending", ~CannotStart(i)
    PROVE  \E m \in Tasks : Launchable(m)
<1> DEFINE Q == {j \in Tasks : states[j] = "pending" /\ ~CannotStart(j)}
<1>1. /\ states \in [Tasks -> SchedulerStates]
      /\ DependsOn \in [Tasks -> SUBSET Tasks] /\ OrderAfter \in [Tasks -> SUBSET Tasks]
  BY BatchAssumption DEF TypeOK, TablesType
<1>2. Q \in (SUBSET Tasks) \ {{}}
  OBVIOUS
<1>3. PICK m \in Q : (DependsOn[m] \cup OrderAfter[m]) \cap Q = {}
  BY <1>2, AcyclicAssumption
<1>4. m \in Tasks /\ states[m] = "pending" /\ ~CannotStart(m)
  BY <1>3
<1>5. ASSUME NEW t \in Tasks PROVE states[t] = "pending" \/ states[t] \in Terminal
  BY <1>1 DEF SchedulerStates, NonePaused
<1>6. ASSUME NEW d \in DependsOn[m] PROVE states[d] = "done"
  <2>1. d \in Tasks /\ d \notin Q
    BY <1>1, <1>3, <1>4
  <2>2. ~(states[d] \in Terminal \ {"done"}) /\ ~CannotStart(d)
    BY <1>4, CannotStartClosed
  <2> QED
    BY <1>5, <2>1, <2>2
<1>7. ASSUME NEW p \in OrderAfter[m] PROVE states[p] \in Terminal \/ CannotStart(p)
  <2>1. p \in Tasks /\ p \notin Q
    BY <1>1, <1>3, <1>4
  <2> QED
    BY <1>5, <2>1
<1>8. Launchable(m)
  BY <1>4, <1>6, <1>7 DEF Launchable, ReadyToLaunch, OrderPredecessorsSettled, ResourceConflict
<1> QED
  BY <1>4, <1>8

\* When run() gives up on what is pending, every task it strands waits on a
\* declared producer that is not done: no task is stranded by its order, its
\* claims or a permit.  (A cancelled run may strand what its last scan did not
\* reach, so the claim is about runs nobody cancels.)
THEOREM StrandedForACause ==
    ASSUME Restful, "cancel" \notin Faults PROVE Spec => StrandedOnlyByDependency
<1>1. ScanInv /\ [Next]_vars => ScanInv'
  BY ScanStep
<1>2. ScanInv /\ [Next]_vars =>
        [pc = "wait" /\ pc' = "returned" =>
            \A i \in Stranded : \E d \in DependsOn[i] : states[d] # "done"]_vars
  <2> SUFFICES ASSUME ScanInv, [Next]_vars, pc = "wait", pc' = "returned",
                      NEW i \in Stranded, \A d \in DependsOn[i] : states[d] = "done"
               PROVE  FALSE
    OBVIOUS
  <2>1. inProgress = 0
    <3>1. ASSUME NEW u \in Tasks,
                 \/ Handle(u) \/ Route(u) \/ PassOver(u) \/ BlockDispatch(u) \/ NoPermit(u)
                 \/ Launch(u) \/ SweepDefer(u) \/ SweepReset(u) \/ Drain(u) \/ Worker(u)
          PROVE  FALSE
      BY <3>1, HandleFrame, RouteFrame, WorkerSparesScheduler
         DEF PassOver, BlockDispatch, NoPermit, Launch, Drain, Scanning, SweepDefer,
             SweepReset, Await, control
    <3>2. ~Start /\ ~EndScan /\ ~EndSweep /\ ~BeginDrain /\ ~EndDrain /\ ~Cancel /\ ~Over
          /\ ~UNCHANGED vars
      BY DEF Start, EndScan, EndSweep, BeginDrain, EndDrain, Cancel, Over, vars, control
    <3> QED
      BY <3>1, <3>2 DEF Next, Scheduler, MarkStranded
  <2>2. /\ TypeOK /\ NonePaused /\ ~cancelled /\ WorkConserving
        /\ active = slots /\ inProgress = Cardinality(slots) /\ slots \subseteq Tasks
        /\ sem = IF Limit = 0 THEN 0 ELSE Cardinality(slots)
        /\ \A u \in Tasks \ slots : states[u] # "in_progress"
    BY DEF ScanInv, Scanned, CancelledByFault, StatusInv, HoldingInv, FlightInv, SlotsHeld,
       Counted, IdleOutside, TypeOK, FlightType
  <2>3. slots = {}
    BY <2>1, <2>2, TasksFinite, FS_EmptySet
  <2>4. PermitFree
    <3>1. Limit \in Nat
      BY BatchAssumption
    <3> QED
      BY <2>1, <2>2, <3>1 DEF PermitFree
  <2>5. i \in Tasks /\ states[i] = "pending" /\ ~CannotStart(i)
    BY SuppliedCanStart DEF Stranded
  <2>6. \E m \in Tasks : Launchable(m)
    BY <2>2, <2>3, <2>5, SomeTaskLaunchable
  <2> QED
    BY <2>2, <2>4, <2>6 DEF WorkConserving
<1> QED
  BY InitScan, <1>1, <1>2, PTL DEF Spec, StrandedOnlyByDependency
=============================================================================
