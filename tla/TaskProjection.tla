-------------------------- MODULE TaskProjection ---------------------------
(***************************************************************************)
(* The three copies of a team's task list and how they are kept together:  *)
(* the TodoList in memory (internal/team/status.go), the event journal     *)
(* (coordinator_eventstore.go) with the list its events reduce to          *)
(* (event_reducers.go), and the checkpoint (saveCheckpoint in              *)
(* coordinator_session.go).                                                *)
(*                                                                         *)
(* An operation appends its event, then changes the list, and the change   *)
(* saves a checkpoint: a snapshot of the list, from which every task state *)
(* the journal does not have yet is appended first.  The lifecycle         *)
(* operations hold taskProjectionMu from the first read to the end of the  *)
(* save; creation, removal, resolution, and the setters of a worker's      *)
(* lease and result do not.  A restart compares the checkpoint with what   *)
(* the journal replays to.                                                 *)
(*                                                                         *)
(* A task is reduced to what the comparison can tell apart: what it is to  *)
(* do, status, retries, detail, typed result, resolution.  The journal is  *)
(* kept as the idempotency keys of its events and the list they reduce to, *)
(* the reducer being a fold over the events in their order.                *)
(***************************************************************************)
EXTENDS Integers, Sequences, FiniteSets, FiniteSetsExt, SequencesExt

CONSTANTS
    Procs,          \* goroutines of the coordinator and its workers
    Ops,            \* the operations they call, of Operations
    Statuses,       \* the task statuses that occur
    Faults,         \* what may go wrong with an append, of {"refused", "lost"}
    Planned,        \* number of tasks that are there at the beginning
    MaxTasks,       \* bound on the task ids
    MaxDispatches,  \* bound on the dispatches
    MaxRetries,     \* bound on the retries of a task
    MaxOps,         \* bound on the operations
    MaxRestarts     \* bound on the restarts

Nobody == "nobody"

Locked     == {"move", "retry", "resume", "gate"}
Operations == Locked \cup {"create", "remove", "resolve", "lease", "submit"}
Terminal   == {"done", "error", "skipped", "blocked", "protocol_incomplete"}
AllStatuses == Terminal \cup {"pending", "planned", "in_progress", "verifying", "paused"}

ASSUME ProjectionAssumption ==
    /\ Nobody \notin Procs
    /\ Ops \subseteq Operations
    /\ "pending" \in Statuses /\ Statuses \subseteq AllStatuses
    /\ Faults \subseteq {"refused", "lost"}
    /\ Planned <= MaxTasks
    /\ {Planned, MaxTasks, MaxDispatches, MaxRetries, MaxOps, MaxRestarts} \subseteq Nat

Tasks == 1..MaxTasks

VARIABLES
    live,       \* TodoList.items
    next,       \* TodoList.next
    control,    \* control[t]: the occurrence controller of task t
    mu,         \* who holds taskProjectionMu
    emitted,    \* emittedTaskTransitions
    keys,       \* the idempotency keys of the stored events
    replayed,   \* what the stored events reduce to
    checkpoint, \* SessionData.Tasks, as saved
    admitted,   \* RecoveryRequired is not set
    proc,       \* proc[p]: the operation goroutine p is in, and how far
    dispatches, ops, restarts   \* counters of the bounds

vars == <<live, next, control, mu, emitted, keys, replayed, checkpoint, admitted, proc,
          dispatches, ops, restarts>>

-----------------------------------------------------------------------------
(* Tasks, leases, lists *)

\* A worker's identity: the random DispatchID, and the attempt it works on.
Lease   == [dispatch : 0..MaxDispatches, attempt : 0..MaxRetries + 1]
NoLease == [dispatch |-> 0, attempt |-> 0]

\* A result is known by the lease it was submitted under.
Item == [id : Tasks, desc : 0..MaxOps, status : AllStatuses, retries : 0..MaxRetries,
         detail : {"", "retry", "resume", "gate"}, result : Lease, resolved : BOOLEAN,
         lease : Lease]

NewItem(t, desc) == [id |-> t, desc |-> desc, status |-> "pending", retries |-> 0,
               detail |-> "", result |-> NoLease, resolved |-> FALSE, lease |-> NoLease]

\* toCanonicalTaskShadow: neither the lease nor its revision is compared.
Shadow(item)  == [item EXCEPT !.lease = NoLease]
Shadows(list) == [i \in DOMAIN list |-> Shadow(list[i])]

Ids(list)    == {item.id : item \in Range(list)}
Get(list, t) == CHOOSE item \in Range(list) : item.id = t
Put(list, item) ==
    [i \in DOMAIN list |-> IF list[i].id = item.id THEN item ELSE list[i]]
Position(list, t) == CHOOSE i \in DOMAIN list : list[i].id = t
Without(list, t) == IF t \in Ids(list) THEN RemoveAt(list, Position(list, t)) ELSE list

\* TodoList.CanTransition
CanTransition(from, to) ==
    \/ from = to
    \/ to \in CASE from = "pending" -> Terminal \cup {"planned", "in_progress"}
                [] from = "planned" -> (Terminal \ {"done"}) \cup {"in_progress"}
                [] from = "in_progress" -> Terminal \cup {"planned", "paused", "verifying"}
                [] from = "protocol_incomplete" ->
                       {"verifying", "done", "blocked", "error", "in_progress"}
                [] from = "verifying" -> {"done", "blocked", "error"}
                [] from = "paused" -> {"in_progress", "skipped", "blocked", "error"}
                [] from = "error" -> {"in_progress", "blocked"}
                [] from = "blocked" -> {"in_progress"}
                [] OTHER -> {}

-----------------------------------------------------------------------------
(* The journal *)

\* taskTransitionEventKey: the canonical shadow itself.
TransitionKey(item) == <<"task", Shadow(item)>>

Event(kind, key, item) == [kind |-> kind, key |-> key, item |-> item]

\* A variant in which every event moves the status.
StatusFollows(old, event) == IF event.kind = "resolution" THEN old ELSE event.item.status

\* The events by which reduceToTodoList tells what becomes of the status:
\* "reset" is a task_created that carries reset_for_retry, "moved" any other
\* event of a lifecycle status.
StatusAfter(old, event) ==
    CASE event.kind = "reset" -> event.item.status
      [] event.kind = "resolution" -> old
      [] OTHER -> IF event.item.status \in Terminal \/ old \notin Terminal
                  THEN event.item.status ELSE old

\* A field that an event leaves empty keeps its value: nothing takes a detail,
\* a typed result or a resolution away again.
Merge(old, event) ==
    LET new == event.item IN
    [old EXCEPT !.status   = StatusAfter(old.status, event),
                !.retries  = IF new.retries # 0 THEN new.retries ELSE @,
                !.detail   = IF new.detail # "" THEN new.detail ELSE @,
                !.result   = IF new.result # NoLease THEN new.result ELSE @,
                !.resolved = @ \/ new.resolved]

Reduce(list, event) ==
    LET t == event.item.id IN
    IF event.kind = "removed" THEN Without(list, t)
    ELSE IF t \in Ids(list) THEN Put(list, Merge(Get(list, t), event))
    ELSE Append(list, Merge(NewItem(t, event.item.desc), event))

\* One append: its event is stored unless the append was refused or its key is
\* stored already.
Fates == {"stored"} \cup Faults

Store(event, fate) ==
    IF fate = "refused" \/ event.key \in keys
    THEN UNCHANGED <<keys, replayed>>
    ELSE keys' = keys \cup {event.key} /\ replayed' = Reduce(replayed, event)

-----------------------------------------------------------------------------
(* Goroutines *)

Idle == [pc |-> "idle"]

Pcs == {"append", "apply", "publish", "snapshot", "emit", "revoke"}

\* An operation on one task: the item it projects, the event it appends, and
\* the snapshot its checkpoint saves.
Working == [pc : Pcs, op : Operations, item : Item, event : {"moved", "reset", "removed", "resolution"},
            snap : Seq(Item)]

TypeOK ==
    /\ live \in Seq(Item) /\ replayed \in Seq(Item) /\ checkpoint \in Seq(Item)
    /\ next \in 0..MaxTasks
    /\ control \in [Tasks -> [open : BOOLEAN, lease : Lease, reserved : BOOLEAN, result : BOOLEAN]]
    /\ mu \in Procs \cup {Nobody}
    /\ admitted \in BOOLEAN
    /\ proc \in [Procs -> {Idle} \cup Working]
    /\ dispatches \in 0..MaxDispatches /\ ops \in 0..MaxOps /\ restarts \in 0..MaxRestarts

Closed == [open |-> FALSE, lease |-> NoLease, reserved |-> FALSE, result |-> FALSE]

Start(p, pc, op, item, event) ==
    /\ admitted /\ op \in Ops /\ ops < MaxOps /\ ops' = ops + 1
    /\ proc[p] = Idle
    /\ proc' = [proc EXCEPT ![p] = [pc |-> pc, op |-> op, item |-> item, event |-> event,
                                    snap |-> <<>>]]

At(p, pc)   == proc[p].pc = pc
Goto(p, pc) == proc' = [proc EXCEPT ![p].pc = pc]
Op(p)       == proc[p].op
Target(p)   == proc[p].item.id

Stop(p) ==
    /\ proc' = [proc EXCEPT ![p] = Idle]
    /\ mu' = IF mu = p THEN Nobody ELSE mu

\* controller.projectionMu: held by OpenLease and Publish up to the end of
\* the checkpoint that the setter saves.
HoldsProjection(p, t) ==
    /\ proc[p] # Idle /\ Op(p) \in {"lease", "submit"} /\ Target(p) = t
    /\ Op(p) = "submit" => proc[p].pc \in {"snapshot", "emit"}

ProjectionFree(t) == \A p \in Procs : ~HoldsProjection(p, t)

storeVars == <<emitted, keys, replayed, checkpoint>>
boundVars == <<admitted, dispatches, restarts>>

-----------------------------------------------------------------------------
(* The lifecycle operations *)

\* A variant that counts a retry twice.
ProjectedTwice(op, item, status) ==
    CASE op = "move"   -> [item EXCEPT !.status = status, !.lease = NoLease]
      [] op = "retry"  -> [item EXCEPT !.status = "pending", !.retries = @ + 2, !.lease = NoLease]
      [] OTHER         -> [item EXCEPT !.status = "pending", !.detail = op, !.lease = NoLease]

\* The task as the operation leaves it.
Projected(op, item, status) ==
    CASE op = "move"   -> [item EXCEPT !.status = status, !.lease = NoLease]
      [] op = "retry"  -> [item EXCEPT !.status = "pending", !.retries = @ + 1,
                                       !.detail = "retry", !.result = NoLease, !.lease = NoLease]
      [] op = "resume" -> [item EXCEPT !.status = "pending", !.detail = "resume",
                                       !.lease = NoLease]
      [] op = "gate"   -> [item EXCEPT !.status = "pending", !.detail = "gate",
                                       !.result = NoLease, !.resolved = FALSE,
                                       !.lease = NoLease]

Quiet == \A p \in Procs : proc[p] = Idle

Under(op, t) == \E p \in Procs : proc[p] # Idle /\ Op(p) = op /\ Target(p) = t

\* Who calls them when: a task is started from pending, planned or paused; the
\* scheduler resets a task whose execution has returned; a resume and the
\* refresh of the gates come before any dispatch.
Moves(from, to) ==
    /\ from # to /\ CanTransition(from, to)
    /\ to = "in_progress" => from \in {"pending", "planned", "paused"}

Applies(op, item, status) ==
    CASE op = "move"   -> Moves(item.status, status)
      [] op = "retry"  -> /\ item.status \in {"done", "error", "blocked", "in_progress"}
                          /\ item.retries < MaxRetries /\ ~Under("lease", item.id)
      [] op = "resume" -> item.status \in {"in_progress", "verifying", "paused"} /\ Quiet
      [] op = "gate"   -> item.status \in {"done", "error", "blocked", "skipped"} /\ Quiet

\* taskProjectionMu is taken, and the live task read and projected.
BeginTransition(p) ==
    /\ mu = Nobody /\ mu' = p
    /\ \E op \in Locked, item \in Range(live), status \in Statuses :
           /\ op # "move" => status = "pending"
           /\ Applies(op, item, status) /\ ~Under("remove", item.id)
           /\ Start(p, "append", op, Projected(op, item, status),
                    IF op = "retry" THEN "reset" ELSE "moved")
    /\ UNCHANGED <<live, next, control, storeVars, boundVars>>

\* CommitTaskCreation: the id is reserved before the event is appended.
BeginCreation(p) ==
    /\ next < MaxTasks /\ next' = next + 1
    /\ Start(p, "append", "create", NewItem(next', ops'), "moved")
    /\ UNCHANGED <<live, control, mu, storeVars, boundVars>>

\* CommitTaskRemoval, of tasks whose batch has not been dispatched.
BeginRemoval(p) ==
    /\ \E item \in Range(live) :
           /\ item.status = "pending" /\ \A op \in Operations : ~Under(op, item.id)
           /\ Start(p, "append", "remove", item, "removed")
    /\ UNCHANGED <<live, next, control, mu, storeVars, boundVars>>

Resolvable(item) == item.status \in {"error", "blocked"}

BeginResolution(p) ==
    /\ \E item \in Range(live) :
           /\ Resolvable(item) /\ ~item.resolved
           /\ Start(p, "append", "resolve", [item EXCEPT !.resolved = TRUE], "resolution")
    /\ UNCHANGED <<live, next, control, mu, storeVars, boundVars>>

\* The key of the operation's own event, and whether it is remembered with the
\* transitions: that of a stale gate names the run and the revision.
EventKey(p) ==
    LET item == proc[p].item IN
    CASE Op(p) = "gate"    -> <<"gate", Shadow(item), ops>>
      [] Op(p) = "remove"  -> <<"removed", Shadow(item)>>
      [] Op(p) = "resolve" -> <<"resolution", Shadow([item EXCEPT !.resolved = FALSE])>>
      [] OTHER             -> TransitionKey(item)

\* A variant that remembers the event and goes on when the append fails.
AppendForgiving(p) ==
    /\ At(p, "append") /\ Op(p) # "submit"
    /\ \E fate \in Fates :
           Store(Event(proc[p].event, EventKey(p), proc[p].item), fate)
    /\ Goto(p, "apply") /\ emitted' = emitted \cup {EventKey(p)}
    /\ UNCHANGED <<live, next, control, mu, checkpoint, boundVars, ops>>

AppendEvent(p) ==
    /\ At(p, "append") /\ Op(p) # "submit"
    /\ \E fate \in Fates :
           /\ Store(Event(proc[p].event, EventKey(p), proc[p].item), fate)
           /\ IF fate = "stored"
              THEN /\ Goto(p, "apply") /\ UNCHANGED mu
                   /\ emitted' = IF Op(p) \in {"move", "retry", "resume", "create"}
                                 THEN emitted \cup {EventKey(p)} ELSE emitted
              ELSE Stop(p) /\ UNCHANGED emitted
    /\ UNCHANGED <<live, next, control, checkpoint, boundVars, ops>>

\* A task that has gone, or cannot be resolved any more, is an error.
Refuses(p) ==
    /\ Op(p) # "create"
    /\ \/ Target(p) \notin Ids(live)
       \/ Op(p) = "resolve" /\ ~Resolvable(Get(live, Target(p)))

\* The list is changed: a lifecycle operation overwrites the whole task with
\* its projection, whatever a setter has written to it meanwhile.
Applied(p) ==
    LET item == proc[p].item
        current == Get(live, item.id) IN
    IF Refuses(p) THEN live
    ELSE CASE Op(p) = "create" -> Append(live, item)
           [] Op(p) = "remove" -> Without(live, item.id)
           [] Op(p) = "resolve" -> Put(live, [current EXCEPT !.resolved = TRUE])
           [] Op(p) = "lease" ->
                  Put(live, [current EXCEPT !.lease = item.lease, !.result = NoLease])
           [] OTHER -> Put(live, item)

\* onChange comes after a change.
Apply(p) ==
    /\ At(p, "apply")
    /\ live' = Applied(p)
    /\ IF Refuses(p) THEN Stop(p) ELSE Goto(p, "snapshot") /\ UNCHANGED mu
    /\ UNCHANGED <<next, control, storeVars, boundVars, ops>>

-----------------------------------------------------------------------------
(* saveCheckpoint *)

TakeSnapshot(p) ==
    /\ At(p, "snapshot")
    /\ proc' = [proc EXCEPT ![p].snap = live, ![p].pc = "emit"]
    /\ UNCHANGED <<live, next, control, mu, storeVars, boundVars, ops>>

\* Back in the operation: a commit still has to revoke the worker's lease.
Callback(p) ==
    IF Op(p) \in {"move", "retry", "gate"} THEN Goto(p, "revoke") /\ UNCHANGED mu ELSE Stop(p)

Missing(p) == {i \in DOMAIN proc[p].snap : TransitionKey(proc[p].snap[i]) \notin emitted}

\* emitTaskEventsFromCheckpoint, one task at a time; an append that fails
\* defers the checkpoint.
EmitMissing(p) ==
    /\ At(p, "emit") /\ Missing(p) # {}
    /\ LET item == proc[p].snap[Min(Missing(p))]
           key  == TransitionKey(item) IN
       \E fate \in Fates :
           /\ Store(Event("moved", key, item), fate)
           /\ IF fate = "stored" THEN emitted' = emitted \cup {key} /\ UNCHANGED <<proc, mu>>
              ELSE Callback(p) /\ UNCHANGED emitted
    /\ UNCHANGED <<live, next, control, checkpoint, boundVars, ops>>

SaveSession(p) ==
    /\ At(p, "emit") /\ Missing(p) = {}
    /\ checkpoint' = proc[p].snap
    /\ Callback(p)
    /\ UNCHANGED <<live, next, control, emitted, keys, replayed, boundVars, ops>>

\* revokeTaskOccurrence
Revoke(p) ==
    /\ At(p, "revoke") /\ ProjectionFree(Target(p))
    /\ control' = [control EXCEPT ![Target(p)] = Closed]
    /\ Stop(p)
    /\ UNCHANGED <<live, next, storeVars, boundVars, ops>>

-----------------------------------------------------------------------------
(* Leases and results *)

\* activateTaskDispatch, for a task whose start has been committed.
OpenLease(p) ==
    /\ \E item \in Range(live) :
           /\ item.status = "in_progress" /\ ~control[item.id].open
           /\ ProjectionFree(item.id)
           /\ ~Under("lease", item.id) /\ ~Under("retry", item.id)
           /\ dispatches < MaxDispatches /\ dispatches' = dispatches + 1
           /\ LET lease == [dispatch |-> dispatches', attempt |-> item.retries + 1] IN
              /\ control' = [control EXCEPT ![item.id] = [Closed EXCEPT !.open = TRUE,
                                                                        !.lease = lease]]
              /\ Start(p, "apply", "lease", [item EXCEPT !.lease = lease], "moved")
    /\ UNCHANGED <<live, next, mu, storeVars, admitted, restarts>>

\* beginTaskResultSubmission, by the worker that holds the lease.
BeginSubmission(p) ==
    /\ \E item \in Range(live) :
           LET c == control[item.id] IN
           /\ c.open /\ ~c.reserved /\ ~c.result
           /\ ~Under("lease", item.id)
           /\ control' = [control EXCEPT ![item.id].reserved = TRUE]
           /\ Start(p, "append", "submit", [item EXCEPT !.lease = c.lease], "moved")
    /\ UNCHANGED <<live, next, mu, storeVars, boundVars>>

Owns(p) == control[Target(p)].open /\ control[Target(p)].lease = proc[p].item.lease

\* commit: the result is latched in the controller if the lease is still the
\* same.  A stale result, and one that fails its validation, is rolled back,
\* which clears the reservation whoever holds it by now.
LatchResult(p) ==
    /\ At(p, "append") /\ Op(p) = "submit"
    /\ LET t == Target(p) IN
       \/ /\ Owns(p) /\ control[t].reserved
          /\ control' = [control EXCEPT ![t].result = TRUE, ![t].reserved = FALSE]
          /\ Goto(p, "publish") /\ UNCHANGED mu
       \/ /\ control' = [control EXCEPT ![t].reserved = FALSE]
          /\ Stop(p)
    /\ UNCHANGED <<live, next, storeVars, boundVars, ops>>

\* A variant that asks only for the task.
HasTask(p) == Target(p) \in Ids(live)

\* TrySetTypedResultForDispatch: the task itself must still have the lease.
HasLease(p) ==
    /\ Target(p) \in Ids(live)
    /\ Get(live, Target(p)).lease = proc[p].item.lease

PublishResult(p) ==
    /\ At(p, "publish") /\ ProjectionFree(Target(p))
    /\ LET t == Target(p) IN
       IF Owns(p) /\ control[t].result /\ HasLease(p)
       THEN /\ live' = Put(live, [Get(live, t) EXCEPT !.result = proc[p].item.lease])
            /\ Goto(p, "snapshot") /\ UNCHANGED <<mu, control>>
       ELSE /\ control' = [control EXCEPT ![t].reserved = FALSE, ![t].result = @ /\ ~Owns(p)]
            /\ Stop(p) /\ UNCHANGED live
    /\ UNCHANGED <<next, storeVars, boundVars, ops>>

-----------------------------------------------------------------------------
(* Restart *)

Agree  == Shadows(checkpoint) = Shadows(replayed)
Repair == IsPrefix(Shadows(checkpoint), Shadows(replayed))

\* The journal's keys are remembered again; a checkpoint that the journal has
\* outgrown by whole tasks is replaced; any other disagreement requires
\* recovery, and no run is admitted.
Restart ==
    /\ restarts < MaxRestarts /\ restarts' = restarts + 1
    /\ proc' = [p \in Procs |-> Idle] /\ mu' = Nobody
    /\ control' = [t \in Tasks |-> Closed]
    /\ emitted' = keys
    /\ admitted' = (admitted /\ (Agree \/ Repair))
    /\ live' = IF ~Agree /\ Repair THEN replayed ELSE checkpoint
    /\ checkpoint' = live'
    /\ next' = Max({0} \cup Ids(live'))
    /\ UNCHANGED <<keys, replayed, dispatches, ops>>

Init ==
    /\ live = [t \in 1..Planned |-> NewItem(t, 0)]
    /\ replayed = live /\ checkpoint = live
    /\ keys = {TransitionKey(item) : item \in Range(live)} /\ emitted = keys
    /\ next = Planned
    /\ control = [t \in Tasks |-> Closed]
    /\ mu = Nobody /\ admitted = TRUE
    /\ proc = [p \in Procs |-> Idle]
    /\ dispatches = 0 /\ ops = 0 /\ restarts = 0

Begin(p) ==
    \/ BeginTransition(p) \/ BeginCreation(p) \/ BeginRemoval(p) \/ BeginResolution(p)
    \/ OpenLease(p) \/ BeginSubmission(p)

Work(p) ==
    \/ AppendEvent(p) \/ Apply(p) \/ TakeSnapshot(p) \/ EmitMissing(p) \/ SaveSession(p)
    \/ Revoke(p) \/ LatchResult(p) \/ PublishResult(p)

Next ==
    \/ \E p \in Procs : Begin(p) \/ Work(p)
    \/ Restart

Spec == Init /\ [][Next]_vars

-----------------------------------------------------------------------------
(* Properties *)

\* A completed task never reaches the checkpoint before its terminal event,
\* with its result, is durable (saveCheckpoint): also when the save that
\* writes it is the delayed one of another goroutine.  (A checkpoint that a
\* restart has replaced by the replayed list may owe the status to one event
\* and the result to another.)
CompletionIsJournaled ==
    \A item \in Range(checkpoint) :
        item.status \in Terminal =>
            /\ \E k \in keys : /\ k[1] = "task" /\ k[2].id = item.id /\ k[2].desc = item.desc
                               /\ k[2].status = item.status
                               /\ restarts = 0 => k[2].result = item.result
            /\ item.result # NoLease =>
                   \E k \in keys : k[2].id = item.id /\ k[2].desc = item.desc
                                   /\ k[2].result = item.result

\* A result belongs to the attempt the task is in: the late submission of an
\* earlier attempt, which was latched before the retry, is not projected into it.
\* (A restart that adopts the replayed list may bring one back, because the
\* reducer takes no result away; what is published afterwards is right again.)
ResultOfThisAttempt ==
    \A item \in Range(live) :
        item.result # NoLease /\ (restarts = 0 \/ item.result = item.lease) =>
            item.result.attempt = item.retries + 1

Between(t) ==
    \E p \in Procs : At(p, "apply") /\ Target(p) = t

\* The journal has another ending of the task, which may be the last event that
\* is stored: of an earlier attempt, or one that the attempt went on from.  A
\* refresh of the gates leads back to states whose keys are stored already, for
\* which nothing is appended.
EndedOtherwise(item, status) ==
    \E k \in keys :
        /\ k[2].id = item.id
        /\ \/ k[1] = "gate"
           \/ /\ k[1] = "task" /\ k[2].status = status
              /\ \/ k[2].retries < item.retries
                 \/ status = "protocol_incomplete" \/ CanTransition(status, item.status)

\* What the list shows as finished replays as finished, whatever delayed saves
\* have appended of earlier states: a late event that is not terminal does not
\* reopen a task (reduceToTodoList).  It replays with the same ending, but for
\* those cases.  (A second retry may go back to stored keys after a restart,
\* because the count that a late event brings replaces the newer one.)
TerminalReplays ==
    restarts = 0 \/ MaxRetries <= 1 =>
        \A item \in Range(live) : item.status \in Terminal /\ admitted /\ ~Between(item.id) =>
            /\ item.id \in Ids(replayed)
            /\ LET copy == Get(replayed, item.id) IN
               \/ copy.status = item.status
               \/ copy.status \in Terminal /\ EndedOtherwise(item, copy.status)

\* With nothing under way the checkpoint shows the list.
CheckpointIsCurrent ==
    Quiet /\ admitted => Shadows(checkpoint) = Shadows(live)

=============================================================================
