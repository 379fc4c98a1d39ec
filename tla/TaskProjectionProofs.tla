----------------------- MODULE TaskProjectionProofs ------------------------
(***************************************************************************)
(* Theorems about TaskProjection for any number of goroutines, tasks,      *)
(* dispatches, retries, operations and restarts.                           *)
(*                                                                         *)
(* Three invariants, one section each.  AttemptInv keeps the copies of a   *)
(* task on the attempt it is in: ids are unique, a lifecycle operation     *)
(* holds taskProjectionMu and what it is about to write counts the retries *)
(* the list counts.  JournalInv keeps what a snapshot can bring into the   *)
(* checkpoint within what has been appended.  EndingInv, of the first      *)
(* lifetime of the process, orders the states of a task that the journal   *)
(* has or can still be given: each precedes the one the list shows.        *)
(***************************************************************************)
EXTENDS TaskProjection, WellFoundedInduction, TLAPS

-----------------------------------------------------------------------------
(* Least and greatest numbers *)

\* A set of numbers has a least one (the ids and positions of the lists).
LEMMA SomeLeast ==
  ASSUME NEW S \in SUBSET Nat, S # {}
  PROVE  \E x \in S : \A y \in S : x <= y
<1>1. PICK x \in S : \A y \in S : ~(<<y, x>> \in OpToRel(<, Nat))
  BY NatLessThanWellFounded, WFMin
<1>2. ASSUME NEW y \in S PROVE x <= y
  <2>1. <<y, x>> \in Nat \X Nat /\ <<y, x>>[1] = y /\ <<y, x>>[2] = x
    OBVIOUS
  <2>2. ~(y < x)
    BY <1>1, <2>1 DEF OpToRel
  <2> QED
    BY <2>2
<1> QED
  BY <1>2

\* Min, by which emitTaskEventsFromCheckpoint takes the first missing task.
LEMMA MinIsLeast ==
  ASSUME NEW S \in SUBSET Nat, S # {}
  PROVE  Min(S) \in S /\ \A y \in S : Min(S) <= y
BY SomeLeast DEF Min

\* Max, by which a restart finds the last id of the list.
LEMMA MaxIsGreatest ==
  ASSUME NEW n \in Nat, NEW S \in SUBSET (0 .. n), S # {}
  PROVE  Max(S) \in S /\ \A y \in S : y <= Max(S)
<1> DEFINE T == {n - x : x \in S}
<1>1. T \in SUBSET Nat /\ T # {}
  <2>1. \A x \in S : n - x \in Nat
    OBVIOUS
  <2>2. T \subseteq Nat
    BY <2>1
  <2>3. PICK x \in S : TRUE
    OBVIOUS
  <2>4. n - x \in T
    BY <2>3
  <2> QED
    BY <2>2, <2>4
<1>2. PICK m \in T : \A y \in T : m <= y
  BY <1>1, SomeLeast
<1>3. PICK x \in S : m = n - x
  BY <1>2
<1>4. \A y \in S : x >= y
  <2> TAKE y \in S
  <2>1. n - y \in T
    OBVIOUS
  <2>2. n - x <= n - y
    BY <1>2, <1>3, <2>1
  <2> QED
    BY <2>2
<1> QED
  BY <1>3, <1>4 DEF Max

-----------------------------------------------------------------------------
(* Lists of tasks *)

\* todoItemByID: what it finds is a task of the list, with that id.
LEMMA GetIsThere ==
  ASSUME NEW list, NEW t \in Ids(list)
  PROVE  Get(list, t) \in Range(list) /\ Get(list, t).id = t
BY DEF Get, Ids

\* The tasks of a list of tasks.
LEMMA RangeOfList ==
  ASSUME NEW list \in Seq(Item)
  PROVE  /\ Range(list) \subseteq Item
         /\ \A x : x \in Range(list) <=> \E i \in 1 .. Len(list) : list[i] = x
BY DEF Range

\* TryApplyProjectedItem: a task is overwritten where it is.
LEMMA PutInList ==
  ASSUME NEW list \in Seq(Item), NEW item \in Item
  PROVE  /\ Put(list, item) \in Seq(Item)
         /\ \A x \in Range(Put(list, item)) :
                x = item \/ (x \in Range(list) /\ x.id # item.id)
         /\ Ids(Put(list, item)) = Ids(list)
<1> DEFINE new == Put(list, item)
<1>1. new \in Seq(Item) /\ Len(new) = Len(list)
  BY DEF Put
<1>2. \A i \in 1 .. Len(list) : new[i] = IF list[i].id = item.id THEN item ELSE list[i]
  BY DEF Put
<1>3. \A x \in Range(new) : x = item \/ (x \in Range(list) /\ x.id # item.id)
  BY <1>1, <1>2, RangeOfList
<1>4. \A i \in 1 .. Len(list) : new[i].id = list[i].id
  BY <1>2
<1>5. Ids(new) = Ids(list)
  <2> HIDE DEF new
  <2>1. \A t : t \in Ids(new) <=> \E i \in 1 .. Len(list) : new[i].id = t
    BY <1>1, RangeOfList DEF Ids
  <2>2. \A t : t \in Ids(list) <=> \E i \in 1 .. Len(list) : list[i].id = t
    BY RangeOfList DEF Ids
  <2> QED
    BY <1>4, <2>1, <2>2
<1> QED
  BY <1>1, <1>3, <1>5

\* A created task is put at the end.
LEMMA AppendToList ==
  ASSUME NEW list \in Seq(Item), NEW item \in Item
  PROVE  /\ Append(list, item) \in Seq(Item)
         /\ Range(Append(list, item)) = Range(list) \cup {item}
         /\ Ids(Append(list, item)) = Ids(list) \cup {item.id}
<1> DEFINE new == Append(list, item)
<1>1. new \in Seq(Item) /\ Len(new) = Len(list) + 1
  OBVIOUS
<1>2. \A i \in 1 .. Len(list) : new[i] = list[i]
  OBVIOUS
<1>3. new[Len(list) + 1] = item
  OBVIOUS
<1>4. Range(new) = Range(list) \cup {item}
  <2> HIDE DEF new
  <2>1. \A x : x \in Range(new) <=> \E i \in 1 .. Len(list) + 1 : new[i] = x
    BY <1>1, RangeOfList
  <2>2. \A x \in Range(new) : x \in Range(list) \cup {item}
    BY <1>2, <1>3, <2>1, RangeOfList
  <2>3. \A x \in Range(list) : x \in Range(new)
    BY <1>2, <2>1, RangeOfList
  <2>4. item \in Range(new)
    BY <1>3, <2>1
  <2> QED
    BY <2>2, <2>3, <2>4
<1> QED
  BY <1>1, <1>4 DEF Ids

\* A list without the task at a position.
LEMMA RemovedAt ==
  ASSUME NEW list \in Seq(Item), NEW i \in 1 .. Len(list)
  PROVE  LET new == RemoveAt(list, i) IN
         /\ new \in Seq(Item) /\ Len(new) = Len(list) - 1
         /\ \A j \in 1 .. Len(list) - 1 : new[j] = IF j < i THEN list[j] ELSE list[j + 1]
<1> DEFINE new == RemoveAt(list, i)
           before == SubSeq(list, 1, i - 1)
           after  == SubSeq(list, i + 1, Len(list))
<1>1. /\ before \in Seq(Item) /\ Len(before) = i - 1
      /\ \A j \in 1 .. i - 1 : before[j] = list[j]
  OBVIOUS
<1>2. /\ after \in Seq(Item) /\ Len(after) = Len(list) - i
      /\ \A j \in 1 .. Len(list) - i : after[j] = list[i + j]
  OBVIOUS
<1>3. new = before \o after
  BY DEF RemoveAt
<1> HIDE DEF new, before, after
<1>4. new \in Seq(Item) /\ Len(new) = Len(list) - 1
  BY <1>1, <1>2, <1>3
<1>5. ASSUME NEW j \in 1 .. Len(list) - 1
      PROVE  new[j] = IF j < i THEN list[j] ELSE list[j + 1]
  <2>1. CASE j < i
    BY <1>1, <1>2, <1>3, <2>1
  <2>2. CASE ~(j < i)
    <3>1. new[j] = after[j - (i - 1)]
      BY <1>1, <1>2, <1>3, <2>2
    <3>2. j - (i - 1) \in 1 .. Len(list) - i /\ i + (j - (i - 1)) = j + 1
      BY <2>2
    <3> QED
      BY <1>2, <2>2, <3>1, <3>2
  <2> QED
    BY <2>1, <2>2
<1> QED
  BY <1>4, <1>5 DEF new

\* DeleteIDs, and the reducer's removal: nothing is added.
LEMMA WithoutList ==
  ASSUME NEW list \in Seq(Item), NEW t
  PROVE  /\ Without(list, t) \in Seq(Item)
         /\ Range(Without(list, t)) \subseteq Range(list)
<1>1. CASE t \notin Ids(list)
  BY <1>1 DEF Without
<1>2. CASE t \in Ids(list)
  <2> DEFINE i == Position(list, t)
             new == RemoveAt(list, i)
  <2>1. \E j \in DOMAIN list : list[j].id = t
    BY <1>2 DEF Ids, Range
  <2>2. i \in 1 .. Len(list)
    BY <2>1 DEF Position
  <2> HIDE DEF i
  <2>3. /\ new \in Seq(Item) /\ Len(new) = Len(list) - 1
        /\ \A j \in 1 .. Len(list) - 1 : new[j] = IF j < i THEN list[j] ELSE list[j + 1]
    BY <2>2, RemovedAt
  <2>4. \A j \in 1 .. Len(list) - 1 : new[j] = list[j] \/ new[j] = list[j + 1]
    BY <2>3
  <2> HIDE DEF new
  <2>5. \A x \in Range(new) : x \in Range(list)
    <3> TAKE x \in Range(new)
    <3>1. PICK j \in 1 .. Len(list) - 1 : new[j] = x
      BY <2>3, RangeOfList
    <3>2. j \in 1 .. Len(list) /\ j + 1 \in 1 .. Len(list)
      OBVIOUS
    <3> QED
      BY <2>4, <3>1, <3>2, RangeOfList
  <2> QED
    BY <1>2, <2>3, <2>5 DEF Without, new, i
<1> QED
  BY <1>1, <1>2

-----------------------------------------------------------------------------
(* Tasks *)

\* The fields of a task.
LEMMA ItemFields ==
  ASSUME NEW item \in Item
  PROVE  /\ item.id \in Tasks /\ item.desc \in 0 .. MaxOps /\ item.status \in AllStatuses
         /\ item.retries \in 0 .. MaxRetries /\ item.detail \in {"", "retry", "resume", "gate"}
         /\ item.result \in Lease /\ item.resolved \in BOOLEAN /\ item.lease \in Lease
BY DEF Item

\* The constants are numbers.
LEMMA Bounds ==
  /\ Planned \in Nat /\ MaxTasks \in Nat /\ MaxDispatches \in Nat /\ MaxRetries \in Nat
  /\ MaxOps \in Nat /\ MaxRestarts \in Nat /\ Planned <= MaxTasks
BY ProjectionAssumption

\* Ids are numbers within the bound.
LEMMA IdsOfList ==
  ASSUME NEW list \in Seq(Item)
  PROVE  Ids(list) \subseteq 0 .. MaxTasks
<1>1. \A x \in Range(list) : x.id \in Tasks
  BY RangeOfList, ItemFields
<1>2. \A t \in Tasks : t \in 0 .. MaxTasks
  BY Bounds DEF Tasks
<1> QED
  BY <1>1, <1>2 DEF Ids

\* The empty lease is a lease.
LEMMA NoLeaseIsLease == NoLease \in Lease
BY Bounds DEF NoLease, Lease

\* CommitTaskCreation makes a task.
LEMMA NewItemTyped ==
  ASSUME NEW t \in Tasks, NEW desc \in 0 .. MaxOps
  PROVE  NewItem(t, desc) \in Item
BY Bounds, NoLeaseIsLease DEF NewItem, Item, AllStatuses

\* What a lifecycle operation makes of a task it applies to is a task: only a
\* retry counts, and it is refused at the limit.
LEMMA ProjectedTyped ==
  ASSUME NEW item \in Item, NEW op \in Locked, NEW status \in Statuses,
         Applies(op, item, status)
  PROVE  Projected(op, item, status) \in Item
<1>1. status \in AllStatuses
  BY ProjectionAssumption
<1>2. "pending" \in AllStatuses
  BY DEF AllStatuses
<1>3. CASE op = "move"
  BY <1>1, <1>3, NoLeaseIsLease DEF Projected, Item
<1>4. CASE op = "retry"
  <2>1. item.retries + 1 \in 0 .. MaxRetries
    <3>1. item.retries < MaxRetries
      BY <1>4 DEF Applies
    <3>2. item.retries \in 0 .. MaxRetries
      BY ItemFields
    <3> QED
      BY <3>1, <3>2, Bounds
  <2> QED
    BY <1>2, <1>4, <2>1, NoLeaseIsLease DEF Projected, Item
<1>5. CASE op = "resume"
  BY <1>2, <1>5, NoLeaseIsLease DEF Projected, Item
<1>6. CASE op = "gate"
  BY <1>2, <1>6, NoLeaseIsLease DEF Projected, Item
<1> QED
  BY <1>3, <1>4, <1>5, <1>6 DEF Locked

\* A lifecycle operation leaves the task which it is and what it is to do, and
\* takes its lease away; only a retry changes the number of retries, and only a
\* retry and a refresh of the gates take the result.
LEMMA ProjectedFields ==
  ASSUME NEW item \in Item, NEW op \in Locked, NEW status \in Statuses
  PROVE  LET new == Projected(op, item, status) IN
         /\ new.id = item.id /\ new.desc = item.desc /\ new.lease = NoLease
         /\ op # "retry" => new.retries = item.retries
         /\ op \in {"move", "resume"} => new.result = item.result
         /\ op \in {"retry", "gate"} => new.status = "pending" /\ new.result = NoLease
<1>1. CASE op = "move"
  BY <1>1 DEF Projected, Item
<1>2. CASE op = "retry"
  BY <1>2 DEF Projected, Item
<1>3. CASE op = "resume"
  BY <1>3 DEF Projected, Item
<1>4. CASE op = "gate"
  BY <1>4 DEF Projected, Item
<1> QED
  BY <1>1, <1>2, <1>3, <1>4 DEF Locked

\* The shadow of a task differs from it in the lease only.
LEMMA ShadowFields ==
  ASSUME NEW item \in Item
  PROVE  /\ Shadow(item) \in Item
         /\ Shadow(item).id = item.id /\ Shadow(item).desc = item.desc
         /\ Shadow(item).status = item.status /\ Shadow(item).result = item.result
BY NoLeaseIsLease DEF Shadow, Item

\* reduceToTodoList, on one task: the copy stays the copy of the same task; its
\* status is the event's or the copy's own, and so is its result.
LEMMA MergeTyped ==
  ASSUME NEW old \in Item, NEW event, event.item \in Item
  PROVE  LET new == Merge(old, event) IN
         /\ new \in Item
         /\ new.id = old.id /\ new.desc = old.desc /\ new.lease = old.lease
         /\ new.status = StatusAfter(old.status, event)
         /\ new.result = IF event.item.result # NoLease THEN event.item.result ELSE old.result
<1> DEFINE e == event.item
<1>1. StatusAfter(old.status, event) \in AllStatuses
  BY ItemFields DEF StatusAfter
<1>2. /\ (IF e.retries # 0 THEN e.retries ELSE old.retries) \in 0 .. MaxRetries
      /\ (IF e.detail # "" THEN e.detail ELSE old.detail) \in {"", "retry", "resume", "gate"}
      /\ (IF e.result # NoLease THEN e.result ELSE old.result) \in Lease
      /\ (old.resolved \/ e.resolved) \in BOOLEAN
  BY ItemFields
<1> HIDE DEF e
<1> QED
  BY <1>1, <1>2, ItemFields DEF Merge, Item, e

\* reduceToTodoList, on the list: every task of the new list is one of the old,
\* or what the event makes of one, or of a new task.
LEMMA ReduceTyped ==
  ASSUME NEW list \in Seq(Item), NEW event, event.item \in Item
  PROVE  LET t == event.item.id
             new == Reduce(list, event) IN
         /\ new \in Seq(Item)
         /\ \A x \in Range(new) :
               \/ x \in Range(list) /\ (event.kind = "removed" \/ x.id # t)
               \/ /\ event.kind # "removed"
                  /\ \/ t \in Ids(list) /\ x = Merge(Get(list, t), event)
                     \/ t \notin Ids(list) /\ x = Merge(NewItem(t, event.item.desc), event)
<1> DEFINE t == event.item.id
<1>1. CASE event.kind = "removed"
  BY <1>1, WithoutList DEF Reduce
<1>2. CASE event.kind # "removed" /\ t \in Ids(list)
  <2>1. Get(list, t) \in Item /\ Get(list, t).id = t
    BY <1>2, GetIsThere, RangeOfList
  <2> DEFINE new == Merge(Get(list, t), event)
  <2>2. new \in Item /\ new.id = t
    BY <2>1, MergeTyped
  <2>3. Reduce(list, event) = Put(list, new)
    BY <1>2 DEF Reduce
  <2> HIDE DEF new
  <2>4. /\ Put(list, new) \in Seq(Item)
        /\ \A x \in Range(Put(list, new)) : x = new \/ (x \in Range(list) /\ x.id # t)
    BY <2>2, PutInList
  <2> QED
    BY <1>2, <2>3, <2>4 DEF new
<1>3. CASE event.kind # "removed" /\ t \notin Ids(list)
  <2>1. NewItem(t, event.item.desc) \in Item
    BY ItemFields, NewItemTyped
  <2> DEFINE new == Merge(NewItem(t, event.item.desc), event)
  <2>2. new \in Item
    BY <2>1, MergeTyped
  <2>3. Reduce(list, event) = Append(list, new)
    BY <1>3 DEF Reduce
  <2> HIDE DEF new
  <2>4. Append(list, new) \in Seq(Item) /\ Range(Append(list, new)) = Range(list) \cup {new}
    BY <2>2, AppendToList
  <2>5. \A x \in Range(list) : x.id # t
    BY <1>3 DEF Ids
  <2> QED
    BY <1>3, <2>3, <2>4, <2>5 DEF new
<1> QED
  BY <1>1, <1>2, <1>3

-----------------------------------------------------------------------------
(* Type correctness *)

\* A goroutine that is at a step of an operation is in an operation.
LEMMA AtWorks ==
  ASSUME TypeOK, NEW p \in Procs, proc[p] # Idle
  PROVE  proc[p] \in Working
BY DEF TypeOK

\* The same, from the step.
LEMMA AtStep ==
  ASSUME TypeOK, NEW p \in Procs, NEW pc \in Pcs, At(p, pc)
  PROVE  proc[p] # Idle /\ proc[p] \in Working
<1>1. proc[p] # Idle
  BY DEF At, Pcs, Idle
<1> QED
  BY <1>1, AtWorks

\* The fields of an operation under way.
LEMMA WorkingFields ==
  ASSUME NEW w \in Working
  PROVE  /\ w.pc \in Pcs /\ w.op \in Operations /\ w.item \in Item
         /\ w.event \in {"moved", "reset", "removed", "resolution"} /\ w.snap \in Seq(Item)
         /\ \A pc \in Pcs : [w EXCEPT !.pc = pc] \in Working
BY DEF Working

\* An operation begins with a task that is one.
LEMMA StartTyped ==
  ASSUME TypeOK, NEW p \in Procs, NEW pc \in Pcs, NEW op, NEW item \in Item,
         NEW event \in {"moved", "reset", "removed", "resolution"},
         Start(p, pc, op, item, event)
  PROVE  /\ proc' \in [Procs -> {Idle} \cup Working]
         /\ ops' \in 0 .. MaxOps /\ ops' = ops + 1 /\ admitted
<1>1. op \in Operations
  BY ProjectionAssumption DEF Start
<1>2. << >> \in Seq(Item)
  OBVIOUS
<1> DEFINE new == [pc |-> pc, op |-> op, item |-> item, event |-> event, snap |-> << >>]
<1>3. new \in Working
  BY <1>1, <1>2 DEF Working
<1>4. proc' = [proc EXCEPT ![p] = new]
  BY DEF Start
<1> HIDE DEF new
<1>5. ops < MaxOps /\ ops' = ops + 1 /\ admitted
  BY DEF Start
<1> QED
  BY <1>3, <1>4, <1>5, Bounds DEF TypeOK

\* An operation goes on to its next step.
LEMMA GotoTyped ==
  ASSUME TypeOK, NEW p \in Procs, NEW pc \in Pcs, proc[p] # Idle, Goto(p, pc)
  PROVE  /\ proc' \in [Procs -> {Idle} \cup Working]
         /\ proc'[p] = [proc[p] EXCEPT !.pc = pc]
         /\ \A q \in Procs \ {p} : proc'[q] = proc[q]
<1>1. [proc[p] EXCEPT !.pc = pc] \in Working
  BY AtWorks, WorkingFields
<1>2. proc' = [proc EXCEPT ![p] = [proc[p] EXCEPT !.pc = pc]]
  BY DEF Goto
<1> QED
  BY <1>1, <1>2 DEF TypeOK

\* An operation ends.
LEMMA StopTyped ==
  ASSUME TypeOK, NEW p \in Procs, Stop(p)
  PROVE  /\ proc' \in [Procs -> {Idle} \cup Working]
         /\ proc'[p] = Idle
         /\ \A q \in Procs \ {p} : proc'[q] = proc[q]
         /\ mu' \in Procs \cup {Nobody}
BY DEF TypeOK, Stop

\* Back from its save, an operation goes on or ends.
LEMMA CallbackTyped ==
  ASSUME TypeOK, NEW p \in Procs, proc[p] # Idle, Callback(p)
  PROVE  /\ proc' \in [Procs -> {Idle} \cup Working]
         /\ proc'[p] = Idle \/ proc'[p] = [proc[p] EXCEPT !.pc = "revoke"]
         /\ \A q \in Procs \ {p} : proc'[q] = proc[q]
         /\ mu' \in Procs \cup {Nobody}
<1>1. CASE Goto(p, "revoke") /\ UNCHANGED mu
  BY <1>1, GotoTyped DEF Pcs, TypeOK
<1>2. CASE Stop(p)
  BY <1>2, StopTyped
<1> QED
  BY <1>1, <1>2 DEF Callback

\* An append leaves a list of tasks.
LEMMA StoreTyped ==
  ASSUME TypeOK, NEW event, event.item \in Item, NEW fate, Store(event, fate)
  PROVE  replayed' \in Seq(Item)
BY ReduceTyped DEF TypeOK, Store

\* What an operation makes of the list is a list of tasks.
LEMMA AppliedTyped ==
  ASSUME TypeOK, NEW p \in Procs, proc[p] # Idle
  PROVE  Applied(p) \in Seq(Item)
<1> DEFINE item == proc[p].item
           t == item.id
           current == Get(live, t)
<1>1. item \in Item /\ live \in Seq(Item)
  BY AtWorks, WorkingFields DEF TypeOK
<1> HIDE DEF item
<1>2. t \in Ids(live) => current \in Item
  BY <1>1, GetIsThere, RangeOfList
<1>3. CASE Op(p) = "create"
  BY <1>1, <1>3, AppendToList DEF Applied, Refuses, item
<1>4. CASE Refuses(p)
  BY <1>1, <1>4 DEF Applied
<1>5. CASE Op(p) # "create" /\ ~Refuses(p)
  <2>0. t \in Ids(live)
    BY <1>5 DEF Refuses, Target, item
  <2>1. [current EXCEPT !.resolved = TRUE] \in Item
    BY <1>2, <2>0 DEF Item
  <2>2. [current EXCEPT !.lease = item.lease, !.result = NoLease] \in Item
    BY <1>1, <1>2, <2>0, NoLeaseIsLease DEF Item
  <2>3. /\ Put(live, item) \in Seq(Item)
        /\ Put(live, [current EXCEPT !.resolved = TRUE]) \in Seq(Item)
        /\ Put(live, [current EXCEPT !.lease = item.lease, !.result = NoLease]) \in Seq(Item)
        /\ Without(live, t) \in Seq(Item)
    BY <1>1, <2>1, <2>2, PutInList, WithoutList
  <2> QED
    BY <1>1, <1>5, <2>3 DEF Applied, item
<1> QED
  BY <1>3, <1>4, <1>5

\* The first task of the snapshot that the journal does not have.
LEMMA FirstMissing ==
  ASSUME TypeOK, NEW p \in Procs, At(p, "emit"), Missing(p) # {}
  PROVE  /\ Min(Missing(p)) \in DOMAIN proc[p].snap
         /\ proc[p].snap[Min(Missing(p))] \in Item
         /\ proc[p].snap[Min(Missing(p))] \in Range(proc[p].snap)
<1>1. proc[p].snap \in Seq(Item)
  BY AtStep, WorkingFields DEF Pcs
<1>2. Missing(p) \in SUBSET Nat
  BY <1>1 DEF Missing
<1>3. Min(Missing(p)) \in Missing(p)
  BY <1>2, MinIsLeast
<1>4. Min(Missing(p)) \in DOMAIN proc[p].snap
  BY <1>3 DEF Missing
<1> QED
  BY <1>1, <1>4, RangeOfList DEF Range

\* The program begins with tasks.
LEMMA TypeInit == Init => TypeOK
<1> SUFFICES ASSUME Init PROVE TypeOK
  OBVIOUS
<1>1. live \in Seq(Item)
  <2>1. \A t \in 1 .. Planned : NewItem(t, 0) \in Item
    BY Bounds, NewItemTyped DEF Tasks
  <2> QED
    BY <2>1, Bounds DEF Init
<1>2. Closed \in [open : BOOLEAN, lease : Lease, reserved : BOOLEAN, result : BOOLEAN]
  BY NoLeaseIsLease DEF Closed
<1>3. next \in 0 .. MaxTasks /\ dispatches \in 0 .. MaxDispatches /\ ops \in 0 .. MaxOps
      /\ restarts \in 0 .. MaxRestarts
  BY Bounds DEF Init
<1> QED
  BY <1>1, <1>2, <1>3 DEF Init, TypeOK

\* The lists, the journal's copy and the checkpoint do not change when an
\* operation begins.
LEMMA TypeBegin ==
  ASSUME TypeOK, NEW p \in Procs, Begin(p)
  PROVE  TypeOK'
<1>1. live \in Seq(Item) /\ replayed \in Seq(Item) /\ checkpoint \in Seq(Item)
      /\ next \in 0 .. MaxTasks /\ dispatches \in 0 .. MaxDispatches
  BY DEF TypeOK
<1>2. \A x \in Range(live) : x \in Item
  BY <1>1, RangeOfList
<1>3. {"append", "apply"} \subseteq Pcs
  BY DEF Pcs
<1>4. CASE BeginTransition(p)
  <2>1. PICK op \in Locked, item \in Range(live), status \in Statuses :
           /\ Applies(op, item, status)
           /\ Start(p, "append", op, Projected(op, item, status),
                    IF op = "retry" THEN "reset" ELSE "moved")
    BY <1>4 DEF BeginTransition
  <2>2. Projected(op, item, status) \in Item
    BY <1>2, <2>1, ProjectedTyped
  <2>3. proc' \in [Procs -> {Idle} \cup Working] /\ ops' \in 0 .. MaxOps
    BY <1>3, <2>1, <2>2, StartTyped
  <2> QED
    BY <1>4, <2>3 DEF BeginTransition, TypeOK, storeVars, boundVars
<1>5. CASE BeginCreation(p)
  <2>1. next' \in Tasks /\ next' \in 0 .. MaxTasks
    BY <1>1, <1>5, Bounds DEF BeginCreation, Tasks
  <2>2. Start(p, "append", "create", NewItem(next', ops'), "moved")
    BY <1>5 DEF BeginCreation
  <2>3. ops' \in 0 .. MaxOps
    BY <2>2, Bounds DEF Start, TypeOK
  <2>4. NewItem(next', ops') \in Item
    BY <2>1, <2>3, NewItemTyped
  <2>5. proc' \in [Procs -> {Idle} \cup Working]
    BY <1>3, <2>2, <2>4, StartTyped
  <2> QED
    BY <1>5, <2>1, <2>3, <2>5 DEF BeginCreation, TypeOK, storeVars, boundVars
<1>6. CASE BeginRemoval(p)
  <2>1. PICK item \in Range(live) : Start(p, "append", "remove", item, "removed")
    BY <1>6 DEF BeginRemoval
  <2>2. proc' \in [Procs -> {Idle} \cup Working] /\ ops' \in 0 .. MaxOps
    BY <1>2, <1>3, <2>1, StartTyped
  <2> QED
    BY <1>6, <2>2 DEF BeginRemoval, TypeOK, storeVars, boundVars
<1>7. CASE BeginResolution(p)
  <2>1. PICK item \in Range(live) :
           Start(p, "append", "resolve", [item EXCEPT !.resolved = TRUE], "resolution")
    BY <1>7 DEF BeginResolution
  <2>2. [item EXCEPT !.resolved = TRUE] \in Item
    BY <1>2 DEF Item
  <2>3. proc' \in [Procs -> {Idle} \cup Working] /\ ops' \in 0 .. MaxOps
    BY <1>3, <2>1, <2>2, StartTyped
  <2> QED
    BY <1>7, <2>3 DEF BeginResolution, TypeOK, storeVars, boundVars
<1>8. CASE OpenLease(p)
  <2> DEFINE lease(x) == [dispatch |-> dispatches', attempt |-> x.retries + 1]
  <2>1. PICK item \in Range(live) :
           /\ dispatches < MaxDispatches /\ dispatches' = dispatches + 1
           /\ control' = [control EXCEPT ![item.id] = [Closed EXCEPT !.open = TRUE,
                                                                     !.lease = lease(item)]]
           /\ Start(p, "apply", "lease", [item EXCEPT !.lease = lease(item)], "moved")
    BY <1>8 DEF OpenLease
  <2>2. dispatches' \in 0 .. MaxDispatches
    BY <1>1, <2>1, Bounds
  <2>3. lease(item) \in Lease
    <3>1. item.retries + 1 \in 0 .. MaxRetries + 1
      <4>1. item.retries \in 0 .. MaxRetries
        BY <1>2, ItemFields
      <4> QED
        BY <4>1, Bounds
    <3> QED
      BY <2>2, <3>1 DEF Lease
  <2> HIDE DEF lease
  <2>4. [item EXCEPT !.lease = lease(item)] \in Item
    BY <1>2, <2>3 DEF Item
  <2>5. control' \in [Tasks -> [open : BOOLEAN, lease : Lease, reserved : BOOLEAN,
                               result : BOOLEAN]]
    <3>1. [Closed EXCEPT !.open = TRUE, !.lease = lease(item)]
            \in [open : BOOLEAN, lease : Lease, reserved : BOOLEAN, result : BOOLEAN]
      BY <2>3, NoLeaseIsLease DEF Closed
    <3> QED
      BY <2>1, <3>1 DEF TypeOK
  <2>6. proc' \in [Procs -> {Idle} \cup Working] /\ ops' \in 0 .. MaxOps
    BY <1>3, <2>1, <2>4, StartTyped
  <2> QED
    BY <1>8, <2>2, <2>5, <2>6 DEF OpenLease, TypeOK, storeVars
<1>9. CASE BeginSubmission(p)
  <2>1. PICK item \in Range(live) :
           /\ control' = [control EXCEPT ![item.id].reserved = TRUE]
           /\ Start(p, "append", "submit", [item EXCEPT !.lease = control[item.id].lease],
                    "moved")
    BY <1>9 DEF BeginSubmission
  <2>2. item \in Item /\ item.id \in Tasks
    BY <1>2, ItemFields
  <2>3. control[item.id].lease \in Lease
    BY <2>2 DEF TypeOK
  <2>4. [item EXCEPT !.lease = control[item.id].lease] \in Item
    BY <2>2, <2>3 DEF Item
  <2>5. control' \in [Tasks -> [open : BOOLEAN, lease : Lease, reserved : BOOLEAN,
                               result : BOOLEAN]]
    BY <2>1, <2>2 DEF TypeOK
  <2>6. proc' \in [Procs -> {Idle} \cup Working] /\ ops' \in 0 .. MaxOps
    BY <1>3, <2>1, <2>4, StartTyped
  <2> QED
    BY <1>9, <2>5, <2>6 DEF BeginSubmission, TypeOK, storeVars, boundVars
<1> QED
  BY <1>4, <1>5, <1>6, <1>7, <1>8, <1>9 DEF Begin

\* The steps of an operation keep the types.
LEMMA TypeWork ==
  ASSUME TypeOK, NEW p \in Procs, Work(p)
  PROVE  TypeOK'
<1>1. {"append", "apply", "publish", "snapshot", "emit", "revoke"} = Pcs
  BY DEF Pcs
<1>2. \A pc \in Pcs : At(p, pc) => proc[p] # Idle /\ proc[p] \in Working
                                   /\ proc[p].item \in Item /\ Target(p) \in Tasks
  BY AtStep, WorkingFields, ItemFields DEF Target
<1>3. CASE AppendEvent(p)
  <2>1. At(p, "append") /\ proc[p] # Idle /\ proc[p].item \in Item
    BY <1>1, <1>2, <1>3 DEF AppendEvent
  <2>2. PICK fate \in Fates :
           /\ Store(Event(proc[p].event, EventKey(p), proc[p].item), fate)
           /\ \/ Goto(p, "apply") /\ UNCHANGED mu
              \/ Stop(p)
    BY <1>3 DEF AppendEvent
  <2>3. Event(proc[p].event, EventKey(p), proc[p].item).item \in Item
    BY <2>1 DEF Event
  <2>4. replayed' \in Seq(Item)
    BY <2>2, <2>3, StoreTyped
  <2>5. proc' \in [Procs -> {Idle} \cup Working] /\ mu' \in Procs \cup {Nobody}
    BY <1>1, <2>1, <2>2, GotoTyped, StopTyped DEF TypeOK
  <2> QED
    BY <1>3, <2>4, <2>5 DEF AppendEvent, TypeOK, boundVars
<1>4. CASE Apply(p)
  <2>1. At(p, "apply") /\ proc[p] # Idle
    BY <1>1, <1>2, <1>4 DEF Apply
  <2>2. live' \in Seq(Item)
    BY <1>4, <2>1, AppliedTyped DEF Apply
  <2>3. Stop(p) \/ (Goto(p, "snapshot") /\ UNCHANGED mu)
    BY <1>4 DEF Apply
  <2>4. proc' \in [Procs -> {Idle} \cup Working] /\ mu' \in Procs \cup {Nobody}
    BY <1>1, <2>1, <2>3, GotoTyped, StopTyped DEF TypeOK
  <2> QED
    BY <1>4, <2>2, <2>4 DEF Apply, TypeOK, storeVars, boundVars
<1>5. CASE TakeSnapshot(p)
  <2>1. proc[p] \in Working /\ live \in Seq(Item)
    BY <1>1, <1>2, <1>5 DEF TakeSnapshot, TypeOK
  <2>2. [proc[p] EXCEPT !.snap = live, !.pc = "emit"] \in Working
    BY <1>1, <2>1 DEF Working
  <2>3. proc' = [proc EXCEPT ![p] = [proc[p] EXCEPT !.snap = live, !.pc = "emit"]]
    BY <1>5 DEF TakeSnapshot
  <2> QED
    BY <1>5, <2>2, <2>3 DEF TakeSnapshot, TypeOK, storeVars, boundVars
<1>6. CASE EmitMissing(p)
  <2> DEFINE item == proc[p].snap[Min(Missing(p))]
             key  == TransitionKey(item)
  <2>1. At(p, "emit") /\ proc[p] # Idle /\ Missing(p) # {}
    BY <1>1, <1>2, <1>6 DEF EmitMissing
  <2>2. item \in Item
    BY <2>1, FirstMissing
  <2>3. PICK fate \in Fates : /\ Store(Event("moved", key, item), fate)
                              /\ UNCHANGED <<proc, mu>> \/ Callback(p)
    BY <1>6 DEF EmitMissing
  <2> HIDE DEF item
  <2>4. Event("moved", key, item).item \in Item
    BY <2>2 DEF Event
  <2> HIDE DEF key
  <2>5. replayed' \in Seq(Item)
    BY <2>3, <2>4, StoreTyped
  <2>6. proc' \in [Procs -> {Idle} \cup Working] /\ mu' \in Procs \cup {Nobody}
    BY <2>1, <2>3, CallbackTyped DEF TypeOK
  <2> QED
    BY <1>6, <2>5, <2>6 DEF EmitMissing, TypeOK, boundVars
<1>7. CASE SaveSession(p)
  <2>1. At(p, "emit") /\ proc[p] # Idle /\ proc[p].snap \in Seq(Item)
    BY <1>1, <1>2, <1>7, WorkingFields DEF SaveSession
  <2>2. proc' \in [Procs -> {Idle} \cup Working] /\ mu' \in Procs \cup {Nobody}
    BY <1>7, <2>1, CallbackTyped DEF SaveSession
  <2> QED
    BY <1>7, <2>1, <2>2 DEF SaveSession, TypeOK, boundVars
<1>8. CASE Revoke(p)
  <2>1. Closed \in [open : BOOLEAN, lease : Lease, reserved : BOOLEAN, result : BOOLEAN]
    BY NoLeaseIsLease DEF Closed
  <2>2. proc' \in [Procs -> {Idle} \cup Working] /\ mu' \in Procs \cup {Nobody}
    BY <1>8, StopTyped DEF Revoke
  <2> QED
    BY <1>8, <2>1, <2>2 DEF Revoke, TypeOK, storeVars, boundVars
<1>9. CASE LatchResult(p)
  <2>1. At(p, "append") /\ proc[p] # Idle /\ Target(p) \in Tasks
    BY <1>1, <1>2, <1>9 DEF LatchResult
  <2>2. control' \in [Tasks -> [open : BOOLEAN, lease : Lease, reserved : BOOLEAN,
                               result : BOOLEAN]]
    <3> DEFINE c == control[Target(p)]
    <3>1. c \in [open : BOOLEAN, lease : Lease, reserved : BOOLEAN, result : BOOLEAN]
      BY <2>1 DEF TypeOK
    <3>2. /\ [c EXCEPT !.result = TRUE, !.reserved = FALSE]
               \in [open : BOOLEAN, lease : Lease, reserved : BOOLEAN, result : BOOLEAN]
          /\ [c EXCEPT !.reserved = FALSE]
               \in [open : BOOLEAN, lease : Lease, reserved : BOOLEAN, result : BOOLEAN]
      BY <3>1
    <3>3. \/ control' = [control EXCEPT ![Target(p)] =
                            [c EXCEPT !.result = TRUE, !.reserved = FALSE]]
          \/ control' = [control EXCEPT ![Target(p)] = [c EXCEPT !.reserved = FALSE]]
      BY <1>9 DEF LatchResult
    <3> HIDE DEF c
    <3> QED
      BY <3>2, <3>3 DEF TypeOK
  <2>3. Stop(p) \/ (Goto(p, "publish") /\ UNCHANGED mu)
    BY <1>9 DEF LatchResult
  <2>4. proc' \in [Procs -> {Idle} \cup Working] /\ mu' \in Procs \cup {Nobody}
    BY <1>1, <2>1, <2>3, GotoTyped, StopTyped DEF TypeOK
  <2> QED
    BY <1>9, <2>2, <2>4 DEF LatchResult, TypeOK, storeVars, boundVars
<1>10. CASE PublishResult(p)
  <2> DEFINE t == Target(p)
  <2>1. At(p, "publish") /\ proc[p] # Idle /\ t \in Tasks /\ proc[p].item \in Item
    BY <1>1, <1>2, <1>10 DEF PublishResult
  <2>2. CASE Owns(p) /\ control[t].result /\ HasLease(p)
    <3> DEFINE new == [Get(live, t) EXCEPT !.result = proc[p].item.lease]
    <3>1. Get(live, t) \in Item /\ live \in Seq(Item)
      BY <2>2, GetIsThere, RangeOfList DEF HasLease, TypeOK
    <3>2. new \in Item
      BY <2>1, <3>1, ItemFields DEF Item
    <3>3. /\ live' = Put(live, new) /\ Goto(p, "snapshot") /\ UNCHANGED <<mu, control>>
      BY <1>10, <2>2 DEF PublishResult
    <3> HIDE DEF new
    <3>4. live' \in Seq(Item)
      BY <3>1, <3>2, <3>3, PutInList
    <3>5. proc' \in [Procs -> {Idle} \cup Working]
      BY <1>1, <2>1, <3>3, GotoTyped
    <3> QED
      BY <1>10, <3>3, <3>4, <3>5 DEF PublishResult, TypeOK, storeVars, boundVars
  <2>3. CASE ~(Owns(p) /\ control[t].result /\ HasLease(p))
    <3>1. /\ control' = [control EXCEPT ![t].reserved = FALSE, ![t].result = @ /\ ~Owns(p)]
          /\ Stop(p) /\ UNCHANGED live
      BY <1>10, <2>3 DEF PublishResult
    <3>2. control[t] \in [open : BOOLEAN, lease : Lease, reserved : BOOLEAN, result : BOOLEAN]
      BY <2>1 DEF TypeOK
    <3>3. [control[t] EXCEPT !.reserved = FALSE, !.result = @ /\ ~Owns(p)]
            \in [open : BOOLEAN, lease : Lease, reserved : BOOLEAN, result : BOOLEAN]
      <4>1. (control[t].result /\ ~Owns(p)) \in BOOLEAN
        OBVIOUS
      <4> QED
        BY <3>2, <4>1
    <3>4. control' \in [Tasks -> [open : BOOLEAN, lease : Lease, reserved : BOOLEAN,
                                 result : BOOLEAN]]
      BY <3>1, <3>3 DEF TypeOK
    <3>5. proc' \in [Procs -> {Idle} \cup Working] /\ mu' \in Procs \cup {Nobody}
      BY <3>1, StopTyped
    <3> QED
      BY <1>10, <3>1, <3>4, <3>5 DEF PublishResult, TypeOK, storeVars, boundVars
  <2> QED
    BY <2>2, <2>3
<1> QED
  BY <1>3, <1>4, <1>5, <1>6, <1>7, <1>8, <1>9, <1>10 DEF Work

\* A restart takes over one of the two saved lists.
LEMMA TypeRestart == TypeOK /\ Restart => TypeOK'
<1> SUFFICES ASSUME TypeOK, Restart PROVE TypeOK'
  OBVIOUS
<1>1. live' \in Seq(Item) /\ checkpoint' = live'
  BY DEF Restart, TypeOK
<1>2. Ids(live') \subseteq 1 .. MaxTasks
  BY <1>1, RangeOfList, ItemFields DEF Ids, Tasks
<1>3. {0} \cup Ids(live') \in SUBSET (0 .. MaxTasks)
  BY <1>2, Bounds
<1>4. next' \in 0 .. MaxTasks
  BY <1>3, MaxIsGreatest, Bounds DEF Restart
<1>5. Closed \in [open : BOOLEAN, lease : Lease, reserved : BOOLEAN, result : BOOLEAN]
  BY NoLeaseIsLease DEF Closed
<1>6. restarts' \in 0 .. MaxRestarts
  BY Bounds DEF Restart, TypeOK
<1>7. admitted' \in BOOLEAN
  BY DEF Restart
<1> QED
  BY <1>1, <1>4, <1>5, <1>6, <1>7 DEF Restart, TypeOK

\* The variables stay in their types: in particular no task is retried beyond
\* its limit, which the counters of the whole list rest on (CommitTaskReset).
THEOREM TypesHold == Spec => []TypeOK
<1>1. TypeOK /\ [Next]_vars => TypeOK'
  <2> SUFFICES ASSUME TypeOK, [Next]_vars PROVE TypeOK'
    OBVIOUS
  <2>1. CASE UNCHANGED vars
    BY <2>1 DEF vars, TypeOK
  <2>2. ASSUME NEW p \in Procs, Begin(p) \/ Work(p) PROVE TypeOK'
    BY <2>2, TypeBegin, TypeWork
  <2>3. CASE Restart
    BY <2>3, TypeRestart
  <2> QED
    BY <2>1, <2>2, <2>3 DEF Next
<1> QED
  BY TypeInit, <1>1, PTL DEF Spec

-----------------------------------------------------------------------------
(* The attempt a result belongs to *)

Busy(p) == proc[p] # Idle

\* The operation has not written its change to the list yet.
Pending(p) == Busy(p) /\ proc[p].pc \in {"append", "apply"}

Creating(p) == Pending(p) /\ Op(p) = "create"

\* No two different tasks of a list have the same id.
Uniform(list) == \A x, y \in Range(list) : x.id = y.id => x = y

ListsAreUniform ==
    /\ Uniform(live) /\ Uniform(replayed) /\ Uniform(checkpoint)
    /\ \A p \in Procs : Busy(p) => Uniform(proc[p].snap)

\* An id that is being created is nobody else's.
IdsAreFresh ==
    /\ \A t \in Ids(live) : t <= next
    /\ \A p \in Procs : Busy(p) => Target(p) <= next
    /\ \A p \in Procs : Creating(p) =>
           /\ Target(p) \notin Ids(live)
           /\ \A q \in Procs \ {p} : Busy(q) => Target(q) # Target(p)

\* A lifecycle operation holds taskProjectionMu until it ends, and until it has
\* written its projection nobody else changes how often the task was retried.
\* A new task has neither a lease nor a result; a submission writes no task over.
ProjectionsAreCurrent ==
    /\ \A p \in Procs : Busy(p) /\ Op(p) \in Locked =>
           /\ mu = p
           /\ proc[p].item.lease = NoLease
           /\ Pending(p) /\ Op(p) # "retry" =>
                  \A x \in Range(live) : x.id = Target(p) => x.retries = proc[p].item.retries
    /\ \A p \in Procs : Busy(p) /\ Op(p) = "create" =>
           proc[p].item.lease = NoLease /\ proc[p].item.result = NoLease
    /\ \A p \in Procs : Busy(p) /\ Op(p) = "submit" => proc[p].pc # "apply"

FitsAttempt(x) == x.lease # NoLease => x.lease.attempt = x.retries + 1

\* A lease is one of the attempt the task is in: where it is written, where it
\* is about to be written, and where it has been saved.
LeasesAreCurrent ==
    /\ \A x \in Range(live) : FitsAttempt(x)
    /\ \A x \in Range(checkpoint) : FitsAttempt(x)
    /\ \A x \in Range(replayed) : x.lease = NoLease
    /\ \A p \in Procs : Busy(p) => \A x \in Range(proc[p].snap) : FitsAttempt(x)
    /\ \A p \in Procs : Busy(p) /\ Op(p) = "lease" =>
           /\ Pending(p) => \A x \in Range(live) :
                  x.id = Target(p) => proc[p].item.lease.attempt = x.retries + 1
           /\ \A q \in Procs : Busy(q) /\ Op(q) = "retry" => Target(q) # Target(p)

RightResult(x) == x.result # NoLease => x.result.attempt = x.retries + 1

\* Before a restart has adopted a replayed list, every result is of the attempt
\* of its task, in the list and in the projections about to overwrite it.
ResultsAreCurrent ==
    restarts = 0 =>
        /\ \A x \in Range(live) : RightResult(x)
        /\ \A p \in Procs : Busy(p) /\ Op(p) \in Locked => RightResult(proc[p].item)

AttemptInv ==
    /\ TypeOK /\ ListsAreUniform /\ IdsAreFresh /\ ProjectionsAreCurrent
    /\ LeasesAreCurrent /\ ResultsAreCurrent

\* The invariant gives the property: a result that is shown was submitted under
\* a lease, and TrySetTypedResultForDispatch asked the task for that lease.
LEMMA AttemptInvResult == AttemptInv => ResultOfThisAttempt
<1> SUFFICES ASSUME AttemptInv, NEW item \in Range(live), item.result # NoLease,
                    restarts = 0 \/ item.result = item.lease
             PROVE  item.result.attempt = item.retries + 1
  BY DEF ResultOfThisAttempt
<1>1. CASE restarts = 0
  BY <1>1 DEF AttemptInv, ResultsAreCurrent, RightResult
<1>2. CASE item.result = item.lease
  BY <1>2 DEF AttemptInv, LeasesAreCurrent, FitsAttempt
<1> QED
  BY <1>1, <1>2

\* An append keeps the ids of the replayed list apart, and the reducer gives no
\* task a lease.
LEMMA ReplayedUniform ==
  ASSUME TypeOK, Uniform(replayed), \A x \in Range(replayed) : x.lease = NoLease,
         NEW event, event.item \in Item, NEW fate, Store(event, fate)
  PROVE  Uniform(replayed') /\ \A x \in Range(replayed') : x.lease = NoLease
<1> DEFINE t == event.item.id
           new == IF t \in Ids(replayed) THEN Merge(Get(replayed, t), event)
                  ELSE Merge(NewItem(t, event.item.desc), event)
<1>1. CASE UNCHANGED replayed
  BY <1>1
<1>2. CASE replayed' = Reduce(replayed, event)
  <2>1. \A x \in Range(replayed') :
           \/ x \in Range(replayed) /\ (event.kind = "removed" \/ x.id # t)
           \/ event.kind # "removed" /\ x = new
    BY <1>2, ReduceTyped DEF TypeOK
  <2>2. new.id = t /\ new.lease = NoLease
    <3>1. CASE t \in Ids(replayed)
      <4>1. /\ Get(replayed, t) \in Item /\ Get(replayed, t).id = t
            /\ Get(replayed, t).lease = NoLease
        BY <3>1, GetIsThere, RangeOfList DEF TypeOK
      <4> QED
        BY <3>1, <4>1, MergeTyped
    <3>2. CASE t \notin Ids(replayed)
      <4>1. NewItem(t, event.item.desc) \in Item
        BY ItemFields, NewItemTyped
      <4>2. NewItem(t, event.item.desc).id = t /\ NewItem(t, event.item.desc).lease = NoLease
        BY DEF NewItem
      <4> QED
        BY <3>2, <4>1, <4>2, MergeTyped
    <3> QED
      BY <3>1, <3>2
  <2> HIDE DEF new
  <2> QED
    BY <2>1, <2>2 DEF Uniform
<1> QED
  BY <1>1, <1>2 DEF Store

\* What a step of operation p may do to the goroutines: it goes on or ends, and
\* when its change has been written it is not pending any more.
Continues(p) ==
    /\ \A q \in Procs \ {p} : proc'[q] = proc[q] /\ (mu = q => mu' = q)
    /\ proc'[p] # Idle =>
           /\ proc[p] # Idle /\ mu' = mu
           /\ proc'[p].op = proc[p].op /\ proc'[p].item = proc[p].item
           /\ proc'[p].event = proc[p].event
           /\ proc'[p].pc \in {"append", "apply"} =>
                  proc[p].pc \in {"append", "apply"} /\ live' = live
           /\ proc'[p].pc = "apply" => proc[p].op # "submit"
           /\ proc'[p].snap = proc[p].snap \/ proc'[p].snap = live

\* What a step of operation p may do to the list: it writes the task it is
\* about, and only a retry changes how often that was retried.
Writes(p) ==
    \A x \in Range(live') :
        \/ \E y \in Range(live) :
               /\ y.id = x.id
               /\ y.retries = x.retries \/ (Busy(p) /\ Op(p) = "retry" /\ x.id = Target(p))
        \/ Creating(p) /\ x.id = Target(p)

\* Such a step keeps the invariant.
LEMMA AttemptStep ==
  ASSUME AttemptInv, TypeOK', NEW p \in Procs, Continues(p), Writes(p),
         UNCHANGED <<next, restarts>>,
         Uniform(live'), \A x \in Range(live') : FitsAttempt(x),
         restarts = 0 => \A x \in Range(live') : RightResult(x),
         Uniform(replayed'), \A x \in Range(replayed') : x.lease = NoLease,
         Uniform(checkpoint'), \A x \in Range(checkpoint') : FitsAttempt(x)
  PROVE  AttemptInv'
<1>1. /\ TypeOK /\ ListsAreUniform /\ IdsAreFresh /\ ProjectionsAreCurrent
      /\ LeasesAreCurrent /\ ResultsAreCurrent
  BY DEF AttemptInv
<1>2. \A q \in Procs : Busy(q)' =>
         /\ Busy(q) /\ Op(q)' = Op(q) /\ proc'[q].item = proc[q].item /\ Target(q)' = Target(q)
         /\ Pending(q)' => Pending(q)
         /\ mu = q => mu' = q
  BY DEF Continues, Busy, Op, Target, Pending
<1>3. Pending(p)' => live' = live
  BY DEF Continues, Pending, Busy
<1>4. ListsAreUniform'
  <2>1. ASSUME NEW q \in Procs, Busy(q)' PROVE Uniform(proc'[q].snap)
    BY <1>1, <2>1 DEF Continues, Busy, ListsAreUniform
  <2> QED
    BY <2>1 DEF ListsAreUniform
<1>5. \A x \in Range(live') : x.id \in Ids(live) \/ (Creating(p) /\ x.id = Target(p))
  BY DEF Writes, Ids
<1>6. IdsAreFresh'
  <2>1. \A t \in Ids(live') : t <= next
    <3>1. \A x \in Range(live') : x.id <= next
      BY <1>1, <1>5 DEF IdsAreFresh, Creating, Pending
    <3> QED
      BY <3>1 DEF Ids
  <2>2. \A q \in Procs : Busy(q)' => Target(q)' <= next
    BY <1>1, <1>2 DEF IdsAreFresh
  <2>3. ASSUME NEW q \in Procs, Creating(q)'
        PROVE  /\ Target(q)' \notin Ids(live')
               /\ \A r \in Procs \ {q} : Busy(r)' => Target(r)' # Target(q)'
    <3>1. Creating(q) /\ Target(q)' = Target(q)
      BY <1>2, <2>3 DEF Creating, Pending
    <3>2. \A r \in Procs \ {q} : Busy(r)' => Target(r)' # Target(q)'
      BY <1>1, <1>2, <3>1 DEF IdsAreFresh
    <3>3. Target(q) \notin Ids(live)
      BY <1>1, <3>1 DEF IdsAreFresh
    <3>4. Target(q) \notin Ids(live')
      <4>1. CASE q = p
        BY <1>3, <2>3, <3>3, <4>1 DEF Creating
      <4>2. CASE q # p
        <5>1. Creating(p) => Target(p) # Target(q)
          BY <1>1, <3>1, <4>2 DEF IdsAreFresh, Creating, Pending
        <5>2. \A x \in Range(live') : x.id # Target(q)
          BY <1>5, <3>3, <5>1
        <5> QED
          BY <5>2 DEF Ids
      <4> QED
        BY <4>1, <4>2
    <3> QED
      BY <3>1, <3>2, <3>4
  <2> QED
    BY <2>1, <2>2, <2>3 DEF IdsAreFresh
<1>7. ASSUME NEW q \in Procs \ {p}, Busy(q), Op(q) \in Locked \ {"retry"} \/ Op(q) = "lease",
             NEW x \in Range(live'), x.id = Target(q)
      PROVE  \E y \in Range(live) : y.id = Target(q) /\ y.retries = x.retries
  <2>1. ~(Creating(p) /\ x.id = Target(p))
    BY <1>1, <1>7 DEF IdsAreFresh
  <2>2. ~(Busy(p) /\ Op(p) = "retry" /\ x.id = Target(p))
    <3>1. CASE Op(q) \in Locked \ {"retry"}
      BY <1>1, <1>7, <3>1 DEF ProjectionsAreCurrent, Locked
    <3>2. CASE Op(q) = "lease"
      BY <1>1, <1>7, <3>2 DEF LeasesAreCurrent
    <3> QED
      BY <1>7, <3>1, <3>2
  <2> QED
    BY <1>7, <2>1, <2>2 DEF Writes
<1>8. ProjectionsAreCurrent'
  <2>0. ASSUME NEW q \in Procs, Busy(q)', Op(q)' = "create"
        PROVE  proc'[q].item.lease = NoLease /\ proc'[q].item.result = NoLease
    BY <1>1, <1>2, <2>0 DEF ProjectionsAreCurrent
  <2>a. ASSUME NEW q \in Procs, Busy(q)', Op(q)' = "submit"
        PROVE  proc'[q].pc # "apply"
    BY <1>1, <1>2, <2>a DEF ProjectionsAreCurrent, Continues, Busy, Op
  <2> SUFFICES ASSUME NEW q \in Procs, Busy(q)', Op(q)' \in Locked
               PROVE  /\ mu' = q
                      /\ proc'[q].item.lease = NoLease
                      /\ Pending(q)' /\ Op(q)' # "retry" => \A x \in Range(live') :
                             x.id = Target(q)' => x.retries = proc'[q].item.retries
    BY <2>0, <2>a DEF ProjectionsAreCurrent
  <2>1. /\ Busy(q) /\ Op(q)' = Op(q) /\ proc'[q].item = proc[q].item /\ Target(q)' = Target(q)
        /\ Pending(q)' => Pending(q)
        /\ mu = q => mu' = q
    BY <1>2
  <2>2. /\ mu = q /\ proc[q].item.lease = NoLease
        /\ Pending(q) /\ Op(q) # "retry" =>
               \A x \in Range(live) : x.id = Target(q) => x.retries = proc[q].item.retries
    BY <1>1, <2>1 DEF ProjectionsAreCurrent
  <2>3. ASSUME Pending(q)', Op(q) # "retry", NEW x \in Range(live'), x.id = Target(q)
        PROVE  x.retries = proc[q].item.retries
    <3>1. CASE q = p
      BY <1>3, <2>1, <2>2, <2>3, <3>1
    <3>2. CASE q # p
      <4>1. PICK y \in Range(live) : y.id = Target(q) /\ y.retries = x.retries
        BY <1>7, <2>1, <2>3, <3>2
      <4> QED
        BY <2>1, <2>2, <2>3, <4>1
    <3> QED
      BY <3>1, <3>2
  <2> QED
    BY <2>1, <2>2, <2>3
<1>9. LeasesAreCurrent'
  <2>1. ASSUME NEW q \in Procs, Busy(q)', NEW x \in Range(proc'[q].snap)
        PROVE  FitsAttempt(x)
    BY <1>1, <2>1 DEF Continues, Busy, LeasesAreCurrent
  <2>2. ASSUME NEW q \in Procs, Busy(q)', Op(q)' = "lease", Pending(q)',
               NEW x \in Range(live'), x.id = Target(q)'
        PROVE  proc'[q].item.lease.attempt = x.retries + 1
    <3>1. /\ Busy(q) /\ Op(q) = "lease" /\ proc'[q].item = proc[q].item
          /\ Target(q)' = Target(q) /\ Pending(q)
      BY <1>2, <2>2
    <3>2. CASE q = p
      BY <1>1, <1>3, <2>2, <3>1, <3>2 DEF LeasesAreCurrent
    <3>3. CASE q # p
      <4>1. PICK y \in Range(live) : y.id = Target(q) /\ y.retries = x.retries
        BY <1>7, <2>2, <3>1, <3>3
      <4> QED
        BY <1>1, <3>1, <4>1 DEF LeasesAreCurrent
    <3> QED
      BY <3>2, <3>3
  <2>3. ASSUME NEW q \in Procs, Busy(q)', Op(q)' = "lease",
               NEW r \in Procs, Busy(r)', Op(r)' = "retry"
        PROVE  Target(r)' # Target(q)'
    BY <1>1, <1>2, <2>3 DEF LeasesAreCurrent
  <2> QED
    BY <2>1, <2>2, <2>3 DEF LeasesAreCurrent, FitsAttempt
<1>10. ResultsAreCurrent'
  <2>1. ASSUME restarts = 0, NEW q \in Procs, Busy(q)', Op(q)' \in Locked
        PROVE  RightResult(proc'[q].item)
    BY <1>1, <1>2, <2>1 DEF ResultsAreCurrent
  <2> QED
    BY <2>1 DEF ResultsAreCurrent, RightResult
<1> QED
  BY <1>4, <1>6, <1>8, <1>9, <1>10 DEF AttemptInv

\* The ways an operation goes on.
LEMMA GotoContinues ==
  ASSUME TypeOK, NEW p \in Procs, NEW pc \in Pcs, Busy(p), Goto(p, pc), UNCHANGED mu,
         pc \in {"append", "apply"} => Pending(p) /\ live' = live /\ Op(p) # "submit"
  PROVE  Continues(p)
<1>1. /\ proc'[p] = [proc[p] EXCEPT !.pc = pc]
      /\ \A q \in Procs \ {p} : proc'[q] = proc[q]
  BY GotoTyped DEF Busy
<1>2. proc[p] \in Working
  BY AtWorks DEF Busy
<1>3. /\ proc'[p].pc = pc /\ proc'[p].op = proc[p].op /\ proc'[p].item = proc[p].item
      /\ proc'[p].snap = proc[p].snap /\ proc'[p].event = proc[p].event
  BY <1>1, <1>2 DEF Working
<1> QED
  BY <1>1, <1>3 DEF Continues, Busy, Pending, Op

\* The way it ends.
LEMMA StopContinues ==
  ASSUME TypeOK, NEW p \in Procs, Stop(p)
  PROVE  Continues(p)
<1>1. proc'[p] = Idle /\ \A q \in Procs \ {p} : proc'[q] = proc[q]
  BY StopTyped
<1>2. \A q \in Procs \ {p} : mu = q => mu' = q
  BY DEF Stop
<1> QED
  BY <1>1, <1>2 DEF Continues

\* A commit goes on to revoke the lease, any other operation ends with its save.
LEMMA CallbackContinues ==
  ASSUME TypeOK, NEW p \in Procs, Busy(p), Callback(p)
  PROVE  Continues(p)
BY GotoContinues, StopContinues DEF Callback, Pcs

\* A step that leaves the list alone.
LEMMA AttemptListKept ==
  ASSUME AttemptInv, TypeOK', NEW p \in Procs, Continues(p),
         UNCHANGED <<live, next, restarts>>,
         Uniform(replayed'), \A x \in Range(replayed') : x.lease = NoLease,
         Uniform(checkpoint'), \A x \in Range(checkpoint') : FitsAttempt(x)
  PROVE  AttemptInv'
<1>1. Writes(p)
  BY DEF Writes
<1>2. /\ Uniform(live') /\ \A x \in Range(live') : FitsAttempt(x)
      /\ restarts = 0 => \A x \in Range(live') : RightResult(x)
  BY DEF AttemptInv, ListsAreUniform, LeasesAreCurrent, ResultsAreCurrent
<1> QED
  BY <1>1, <1>2, AttemptStep

\* A step that overwrites a task of the list.
LEMMA AttemptPut ==
  ASSUME AttemptInv, TypeOK', NEW p \in Procs, Continues(p),
         UNCHANGED <<next, restarts, replayed, checkpoint>>,
         NEW new \in Item, live' = Put(live, new), NEW y \in Range(live), y.id = new.id,
         y.retries = new.retries \/ (Busy(p) /\ Op(p) = "retry" /\ new.id = Target(p)),
         FitsAttempt(new), restarts = 0 => RightResult(new)
  PROVE  AttemptInv'
<1>1. \A x \in Range(live') : x = new \/ (x \in Range(live) /\ x.id # new.id)
  BY PutInList DEF AttemptInv, TypeOK
<1>2. Uniform(live')
  BY <1>1 DEF AttemptInv, ListsAreUniform, Uniform
<1>3. /\ \A x \in Range(live') : FitsAttempt(x)
      /\ restarts = 0 => \A x \in Range(live') : RightResult(x)
  BY <1>1 DEF AttemptInv, LeasesAreCurrent, ResultsAreCurrent
<1>4. Writes(p)
  BY <1>1 DEF Writes
<1>5. /\ Uniform(replayed') /\ \A x \in Range(replayed') : x.lease = NoLease
      /\ Uniform(checkpoint') /\ \A x \in Range(checkpoint') : FitsAttempt(x)
  BY DEF AttemptInv, ListsAreUniform, LeasesAreCurrent
<1> QED
  BY <1>2, <1>3, <1>4, <1>5, AttemptStep

\* The change of an operation, by which a retry gives the task its new attempt
\* and takes the earlier result and lease with it.
LEMMA AttemptApply ==
  ASSUME AttemptInv, TypeOK', NEW p \in Procs, Apply(p)
  PROVE  AttemptInv'
<1> DEFINE item == proc[p].item
           current == Get(live, item.id)
<1>1. /\ TypeOK /\ ListsAreUniform /\ IdsAreFresh /\ ProjectionsAreCurrent
      /\ LeasesAreCurrent /\ ResultsAreCurrent
  BY DEF AttemptInv
<1>2. At(p, "apply") /\ "apply" \in Pcs /\ "snapshot" \in Pcs
  BY DEF Apply, Pcs
<1>3. Busy(p) /\ Pending(p) /\ item \in Item /\ Op(p) \in Operations
  BY <1>1, <1>2, AtStep, WorkingFields DEF Busy, Pending, At, Op
<1>4. Continues(p)
  <2>1. Stop(p) \/ (Goto(p, "snapshot") /\ UNCHANGED mu)
    BY DEF Apply
  <2> QED
    BY <1>1, <1>2, <1>3, <2>1, StopContinues, GotoContinues
<1>5. /\ UNCHANGED <<next, restarts, replayed, checkpoint>>
      /\ live' = Applied(p)
  BY DEF Apply, storeVars, boundVars
<1>6. /\ Uniform(replayed') /\ \A x \in Range(replayed') : x.lease = NoLease
      /\ Uniform(checkpoint') /\ \A x \in Range(checkpoint') : FitsAttempt(x)
  BY <1>1, <1>5 DEF ListsAreUniform, LeasesAreCurrent
<1>7. CASE Refuses(p)
  <2>1. live' = live
    BY <1>5, <1>7 DEF Applied
  <2> QED
    BY <1>4, <1>5, <1>6, <2>1, AttemptListKept
<1>8. ASSUME ~Refuses(p), Op(p) # "create"
      PROVE  /\ item.id \in Ids(live)
             /\ current \in Range(live) /\ current.id = item.id /\ current \in Item
             /\ \A x \in Range(live) : x.id = item.id => x = current
  <2>1. item.id \in Ids(live)
    BY <1>8 DEF Refuses, Target
  <2>2. current \in Range(live) /\ current.id = item.id
    BY <2>1, GetIsThere
  <2> QED
    BY <1>1, <2>1, <2>2, RangeOfList DEF TypeOK, ListsAreUniform, Uniform
<1>9. CASE ~Refuses(p) /\ Op(p) = "create"
  <2>1. live' = Append(live, item)
    BY <1>5, <1>9 DEF Applied
  <2>2. /\ Range(live') = Range(live) \cup {item}
    BY <1>1, <1>3, <2>1, AppendToList DEF TypeOK
  <2>3. item.id = Target(p) /\ Creating(p) /\ item.id \notin Ids(live)
    BY <1>1, <1>3, <1>9 DEF Target, Creating, IdsAreFresh
  <2>4. Uniform(live')
    BY <1>1, <2>2, <2>3 DEF ListsAreUniform, Uniform, Ids
  <2>5. Writes(p)
    BY <2>2, <2>3 DEF Writes
  <2>6. item.lease = NoLease /\ item.result = NoLease
    BY <1>1, <1>3, <1>9 DEF ProjectionsAreCurrent
  <2>7. /\ \A x \in Range(live') : FitsAttempt(x)
        /\ restarts = 0 => \A x \in Range(live') : RightResult(x)
    BY <1>1, <2>2, <2>6 DEF LeasesAreCurrent, ResultsAreCurrent, FitsAttempt, RightResult
  <2> HIDE DEF item
  <2> QED
    BY <1>4, <1>5, <1>6, <2>4, <2>5, <2>7, AttemptStep
<1>10. CASE ~Refuses(p) /\ Op(p) = "remove"
  <2>1. live' = Without(live, item.id)
    BY <1>5, <1>10 DEF Applied
  <2> HIDE DEF item
  <2>2. Range(live') \subseteq Range(live)
    BY <1>1, <2>1, WithoutList DEF TypeOK
  <2>3. Uniform(live') /\ Writes(p)
    BY <1>1, <2>2 DEF ListsAreUniform, Uniform, Writes
  <2>4. /\ \A x \in Range(live') : FitsAttempt(x)
        /\ restarts = 0 => \A x \in Range(live') : RightResult(x)
    BY <1>1, <2>2 DEF LeasesAreCurrent, ResultsAreCurrent
  <2> QED
    BY <1>4, <1>5, <1>6, <2>3, <2>4, AttemptStep
<1>11. CASE ~Refuses(p) /\ Op(p) = "resolve"
  <2> DEFINE new == [current EXCEPT !.resolved = TRUE]
  <2>1. current \in Range(live) /\ current \in Item
    BY <1>8, <1>11
  <2>2. live' = Put(live, new)
    BY <1>5, <1>11 DEF Applied
  <2> HIDE DEF current
  <2>3. /\ new \in Item /\ new.id = current.id /\ new.retries = current.retries
        /\ new.lease = current.lease /\ new.result = current.result
    BY <2>1 DEF Item
  <2>4. FitsAttempt(new) /\ (restarts = 0 => RightResult(new))
    BY <1>1, <2>1, <2>3
       DEF LeasesAreCurrent, ResultsAreCurrent, FitsAttempt, RightResult
  <2> HIDE DEF new
  <2> QED
    BY <1>4, <1>5, <2>1, <2>2, <2>3, <2>4, AttemptPut
<1>12. CASE ~Refuses(p) /\ Op(p) = "lease"
  <2> DEFINE new == [current EXCEPT !.lease = item.lease, !.result = NoLease]
  <2>1. current \in Range(live) /\ current \in Item /\ current.id = item.id
    BY <1>8, <1>12
  <2>2. live' = Put(live, new)
    BY <1>5, <1>12 DEF Applied
  <2>3. item.lease.attempt = current.retries + 1
    BY <1>1, <1>3, <1>12, <2>1 DEF LeasesAreCurrent, Target
  <2>4. item.lease \in Lease
    BY <1>3, ItemFields
  <2> HIDE DEF current, item
  <2>5. /\ new \in Item /\ new.id = current.id /\ new.retries = current.retries
        /\ new.lease = item.lease /\ new.result = NoLease
    BY <2>1, <2>4, NoLeaseIsLease DEF Item
  <2>6. FitsAttempt(new) /\ RightResult(new)
    BY <2>3, <2>5 DEF FitsAttempt, RightResult
  <2> HIDE DEF new
  <2> QED
    BY <1>4, <1>5, <2>1, <2>2, <2>5, <2>6, AttemptPut
<1>13. CASE ~Refuses(p) /\ Op(p) \in Locked
  <2>1. current \in Range(live) /\ current.id = item.id
    BY <1>8, <1>13 DEF Locked
  <2>2. live' = Put(live, item)
    BY <1>5, <1>13 DEF Applied, Locked
  <2>3. FitsAttempt(item) /\ (restarts = 0 => RightResult(item))
    BY <1>1, <1>3, <1>13 DEF ProjectionsAreCurrent, ResultsAreCurrent, FitsAttempt
  <2>4. item.id = Target(p) /\ (Op(p) = "retry" \/ current.retries = item.retries)
    BY <1>1, <1>3, <1>13, <2>1 DEF ProjectionsAreCurrent, Target
  <2> HIDE DEF current, item
  <2> QED
    BY <1>3, <1>4, <1>5, <2>1, <2>2, <2>3, <2>4, AttemptPut
<1>14. Op(p) # "submit"
  BY <1>1, <1>2, <1>3 DEF ProjectionsAreCurrent, At
<1> QED
  BY <1>3, <1>7, <1>9, <1>10, <1>11, <1>12, <1>13, <1>14 DEF Operations

\* A published result is written into a task that still has the lease it was
\* submitted under (TrySetTypedResultForDispatch), so its attempt is the task's.
LEMMA AttemptPublish ==
  ASSUME AttemptInv, TypeOK', NEW p \in Procs, PublishResult(p)
  PROVE  AttemptInv'
<1> DEFINE t == Target(p)
           lease == proc[p].item.lease
           current == Get(live, t)
           new == [current EXCEPT !.result = lease]
<1>1. /\ TypeOK /\ ListsAreUniform /\ LeasesAreCurrent /\ ResultsAreCurrent
  BY DEF AttemptInv
<1>2. At(p, "publish") /\ "publish" \in Pcs /\ "snapshot" \in Pcs
  BY DEF PublishResult, Pcs
<1>3. Busy(p) /\ proc[p].item \in Item
  BY <1>1, <1>2, AtStep, WorkingFields DEF Busy
<1>4. UNCHANGED <<next, restarts, replayed, checkpoint>>
  BY DEF PublishResult, storeVars, boundVars
<1>5. /\ Uniform(replayed') /\ \A x \in Range(replayed') : x.lease = NoLease
      /\ Uniform(checkpoint') /\ \A x \in Range(checkpoint') : FitsAttempt(x)
  BY <1>1, <1>4 DEF ListsAreUniform, LeasesAreCurrent
<1>6. CASE Owns(p) /\ control[t].result /\ HasLease(p)
  <2>1. live' = Put(live, new) /\ Goto(p, "snapshot") /\ UNCHANGED <<mu, control>>
    BY <1>6 DEF PublishResult
  <2>2. current \in Range(live) /\ current \in Item /\ current.lease = lease
    BY <1>1, <1>6, GetIsThere, RangeOfList DEF HasLease, TypeOK
  <2>3. lease \in Lease
    BY <1>3, ItemFields
  <2> HIDE DEF current, lease
  <2>4. /\ new \in Item /\ new.id = current.id /\ new.retries = current.retries
        /\ new.lease = current.lease /\ new.result = lease
    BY <2>2, <2>3 DEF Item
  <2>5. FitsAttempt(new) /\ RightResult(new)
    BY <1>1, <2>2, <2>4 DEF LeasesAreCurrent, FitsAttempt, RightResult
  <2>6. Continues(p)
    BY <1>1, <1>2, <1>3, <2>1, GotoContinues
  <2> HIDE DEF new
  <2> QED
    BY <1>4, <2>1, <2>2, <2>4, <2>5, <2>6, AttemptPut
<1>7. CASE ~(Owns(p) /\ control[t].result /\ HasLease(p))
  <2>1. Stop(p) /\ UNCHANGED live
    BY <1>7 DEF PublishResult
  <2>2. Continues(p)
    BY <1>1, <2>1, StopContinues
  <2> QED
    BY <1>4, <1>5, <2>1, <2>2, AttemptListKept
<1> QED
  BY <1>6, <1>7

\* The steps of an operation keep the attempts right.
LEMMA AttemptWork ==
  ASSUME AttemptInv, NEW p \in Procs, Work(p)
  PROVE  AttemptInv'
<1>1. /\ TypeOK /\ ListsAreUniform /\ LeasesAreCurrent
  BY DEF AttemptInv
<1>2. TypeOK'
  BY <1>1, TypeWork
<1>3. {"append", "apply", "publish", "snapshot", "emit", "revoke"} = Pcs
  BY DEF Pcs
<1>4. \A pc \in Pcs : At(p, pc) => Busy(p) /\ proc[p] \in Working /\ proc[p].item \in Item
  BY <1>1, AtStep, WorkingFields DEF Busy
<1>5. /\ Uniform(replayed) /\ \A x \in Range(replayed) : x.lease = NoLease
      /\ Uniform(checkpoint) /\ \A x \in Range(checkpoint) : FitsAttempt(x)
  BY <1>1 DEF ListsAreUniform, LeasesAreCurrent
<1>6. CASE AppendEvent(p)
  <2>1. At(p, "append") /\ Busy(p) /\ Pending(p) /\ Op(p) # "submit" /\ proc[p].item \in Item
    BY <1>3, <1>4, <1>6 DEF AppendEvent, Pending, At
  <2>2. UNCHANGED <<live, next, restarts, checkpoint>>
    BY <1>6 DEF AppendEvent, boundVars
  <2>3. PICK fate \in Fates :
           /\ Store(Event(proc[p].event, EventKey(p), proc[p].item), fate)
           /\ \/ Goto(p, "apply") /\ UNCHANGED mu
              \/ Stop(p)
    BY <1>6 DEF AppendEvent
  <2>4. Continues(p)
    BY <1>1, <1>3, <2>1, <2>2, <2>3, GotoContinues, StopContinues
  <2>5. Event(proc[p].event, EventKey(p), proc[p].item).item \in Item
    BY <2>1 DEF Event
  <2>6. Uniform(replayed') /\ \A x \in Range(replayed') : x.lease = NoLease
    BY <1>1, <1>5, <2>3, <2>5, ReplayedUniform
  <2> QED
    BY <1>2, <1>5, <2>2, <2>4, <2>6, AttemptListKept
<1>7. CASE Apply(p)
  BY <1>2, <1>7, AttemptApply
<1>8. CASE TakeSnapshot(p)
  <2>1. At(p, "snapshot") /\ proc[p] \in Working /\ Busy(p)
    BY <1>3, <1>4, <1>8 DEF TakeSnapshot
  <2>2. /\ proc' = [proc EXCEPT ![p] = [proc[p] EXCEPT !.snap = live, !.pc = "emit"]]
        /\ UNCHANGED <<live, next, restarts, mu, replayed, checkpoint>>
    BY <1>8 DEF TakeSnapshot, storeVars, boundVars
  <2>3. /\ \A q \in Procs \ {p} : proc'[q] = proc[q]
        /\ proc'[p] = [proc[p] EXCEPT !.snap = live, !.pc = "emit"]
    BY <1>1, <2>2 DEF TypeOK
  <2>4. /\ proc'[p].op = proc[p].op /\ proc'[p].item = proc[p].item
        /\ proc'[p].pc = "emit" /\ proc'[p].snap = live /\ proc'[p].event = proc[p].event
    BY <2>1, <2>3 DEF Working
  <2>5. Continues(p)
    BY <2>1, <2>2, <2>3, <2>4 DEF Continues, Busy
  <2> QED
    BY <1>2, <1>5, <2>2, <2>5, AttemptListKept
<1>9. CASE EmitMissing(p)
  <2> DEFINE item == proc[p].snap[Min(Missing(p))]
             key  == TransitionKey(item)
  <2>1. At(p, "emit") /\ Busy(p) /\ Missing(p) # {}
    BY <1>3, <1>4, <1>9 DEF EmitMissing
  <2>2. item \in Item
    BY <1>1, <2>1, FirstMissing
  <2>3. UNCHANGED <<live, next, restarts, checkpoint>>
    BY <1>9 DEF EmitMissing, boundVars
  <2>4. PICK fate \in Fates : /\ Store(Event("moved", key, item), fate)
                              /\ UNCHANGED <<proc, mu>> \/ Callback(p)
    BY <1>9 DEF EmitMissing
  <2> HIDE DEF item
  <2>5. Event("moved", key, item).item \in Item
    BY <2>2 DEF Event
  <2> HIDE DEF key
  <2>6. Uniform(replayed') /\ \A x \in Range(replayed') : x.lease = NoLease
    BY <1>1, <1>5, <2>4, <2>5, ReplayedUniform
  <2>7. Continues(p)
    <3>1. CASE UNCHANGED <<proc, mu>>
      BY <2>1, <3>1 DEF Continues, At, Busy
    <3>2. CASE Callback(p)
      BY <1>1, <2>1, <3>2, CallbackContinues
    <3> QED
      BY <2>4, <3>1, <3>2
  <2> QED
    BY <1>2, <1>5, <2>3, <2>6, <2>7, AttemptListKept
<1>10. CASE SaveSession(p)
  <2>1. At(p, "emit") /\ Busy(p) /\ checkpoint' = proc[p].snap
    BY <1>3, <1>4, <1>10 DEF SaveSession
  <2>2. UNCHANGED <<live, next, restarts, replayed>>
    BY <1>10 DEF SaveSession, boundVars
  <2>3. Continues(p)
    BY <1>1, <1>10, <2>1, CallbackContinues DEF SaveSession
  <2>4. Uniform(checkpoint') /\ \A x \in Range(checkpoint') : FitsAttempt(x)
    BY <1>1, <2>1 DEF ListsAreUniform, LeasesAreCurrent
  <2>5. Uniform(replayed') /\ \A x \in Range(replayed') : x.lease = NoLease
    BY <1>5, <2>2
  <2> QED
    BY <1>2, <2>2, <2>3, <2>4, <2>5, AttemptListKept
<1>11. CASE Revoke(p)
  <2>1. Continues(p)
    BY <1>1, <1>11, StopContinues DEF Revoke
  <2>2. UNCHANGED <<live, next, restarts, replayed, checkpoint>>
    BY <1>11 DEF Revoke, storeVars, boundVars
  <2> QED
    BY <1>2, <1>5, <2>1, <2>2, AttemptListKept
<1>12. CASE LatchResult(p)
  <2>1. Busy(p) /\ (Stop(p) \/ (Goto(p, "publish") /\ UNCHANGED mu))
    BY <1>3, <1>4, <1>12 DEF LatchResult
  <2>2. Continues(p)
    BY <1>1, <1>3, <2>1, StopContinues, GotoContinues
  <2>3. UNCHANGED <<live, next, restarts, replayed, checkpoint>>
    BY <1>12 DEF LatchResult, storeVars, boundVars
  <2> QED
    BY <1>2, <1>5, <2>2, <2>3, AttemptListKept
<1>13. CASE PublishResult(p)
  BY <1>2, <1>13, AttemptPublish
<1> QED
  BY <1>6, <1>7, <1>8, <1>9, <1>10, <1>11, <1>12, <1>13 DEF Work

\* The task an operation begins with is the live one, projected, or a new one.
LEMMA AttemptStart ==
  ASSUME AttemptInv, TypeOK', NEW p \in Procs,
         NEW pc \in Pcs, NEW op, NEW item \in Item, NEW event, Start(p, pc, op, item, event),
         UNCHANGED <<live, replayed, checkpoint, restarts>>,
         next' = next \/ next' = next + 1,
         IF op = "create"
         THEN next' = next + 1 /\ item.id = next' /\ item.lease = NoLease
              /\ item.result = NoLease
         ELSE item.id \in Ids(live),
         IF op \in Locked
         THEN mu = Nobody /\ mu' = p /\ item.lease = NoLease /\ (restarts = 0 => RightResult(item))
         ELSE mu' = mu,
         op \in Locked /\ op # "retry" =>
             \A x \in Range(live) : x.id = item.id => x.retries = item.retries,
         op = "lease" => /\ \A x \in Range(live) :
                                x.id = item.id => item.lease.attempt = x.retries + 1
                         /\ ~Under("retry", item.id),
         op = "retry" => ~Under("lease", item.id),
         op = "submit" => pc # "apply"
  PROVE  AttemptInv'
<1>1. /\ TypeOK /\ ListsAreUniform /\ IdsAreFresh /\ ProjectionsAreCurrent
      /\ LeasesAreCurrent /\ ResultsAreCurrent
  BY DEF AttemptInv
<1> DEFINE new == [pc |-> pc, op |-> op, item |-> item, event |-> event, snap |-> << >>]
<1>2. /\ proc'[p] = new /\ \A q \in Procs \ {p} : proc'[q] = proc[q]
      /\ ~Busy(p)
  BY <1>1 DEF Start, TypeOK, Busy
<1>3. /\ proc'[p].op = op /\ proc'[p].item = item /\ proc'[p].pc = pc /\ proc'[p].snap = << >>
      /\ Target(p)' = item.id /\ Op(p)' = op
  BY <1>2 DEF Target, Op
<1>4. \A q \in Procs \ {p} :
         /\ proc'[q] = proc[q] /\ Busy(q)' = Busy(q) /\ Target(q)' = Target(q) /\ Op(q)' = Op(q)
         /\ Pending(q)' = Pending(q) /\ Creating(q)' = Creating(q)
  BY <1>2 DEF Busy, Target, Op, Pending, Creating
<1>5. Range(<< >>) = {}
  BY DEF Range
<1> HIDE DEF new
<1>6. next \in Nat /\ next <= next'
  BY <1>1, Bounds DEF TypeOK
<1>7. ListsAreUniform'
  <2>1. ASSUME NEW q \in Procs, Busy(q)' PROVE Uniform(proc'[q].snap)
    BY <1>1, <1>3, <1>4, <1>5, <2>1 DEF ListsAreUniform, Uniform
  <2> QED
    BY <1>1, <2>1 DEF ListsAreUniform
<1>8. Ids(live) \subseteq Nat /\ \A t \in Ids(live) : t <= next
  <2>1. Ids(live) \subseteq 0 .. MaxTasks
    BY <1>1, IdsOfList DEF TypeOK
  <2> QED
    BY <1>1, <2>1, Bounds DEF IdsAreFresh
<1>9. \A q \in Procs : Busy(q) => Target(q) \in Nat /\ Target(q) <= next
  <2> TAKE q \in Procs
  <2> HAVE Busy(q)
  <2>1. proc[q].item \in Item
    BY <1>1, AtWorks, WorkingFields DEF Busy
  <2>2. Target(q) \in Tasks
    BY <2>1, ItemFields DEF Target
  <2> QED
    BY <1>1, <2>2, Bounds DEF IdsAreFresh, Tasks
<1>10. item.id \in Nat /\ item.id <= next'
  <2>1. item.id \in Tasks
    BY ItemFields
  <2>2. item.id \in Nat
    BY <2>1, Bounds DEF Tasks
  <2>3. CASE op = "create"
    BY <1>6, <2>3
  <2>4. CASE op # "create"
    BY <1>6, <1>8, <2>2, <2>4
  <2> QED
    BY <2>2, <2>3, <2>4
<1>11. IdsAreFresh'
  <2>1. \A t \in Ids(live') : t <= next'
    BY <1>6, <1>8
  <2>2. ASSUME NEW q \in Procs, Busy(q)' PROVE Target(q)' <= next'
    <3>1. CASE q = p
      BY <1>3, <1>10, <3>1
    <3>2. CASE q # p
      <4>1. Target(q) \in Nat /\ Target(q) <= next
        BY <1>4, <1>9, <2>2, <3>2
      <4> QED
        BY <1>4, <1>6, <3>2, <4>1
    <3> QED
      BY <3>1, <3>2
  <2>3. ASSUME NEW q \in Procs, Creating(q)'
        PROVE  /\ Target(q)' \notin Ids(live)
               /\ \A r \in Procs \ {q} : Busy(r)' => Target(r)' # Target(q)'
    <3>1. CASE q = p
      <4>1. op = "create"
        BY <1>3, <2>3, <3>1 DEF Creating
      <4>2. item.id = next + 1
        BY <4>1
      <4>3. item.id \notin Ids(live)
        BY <1>6, <1>8, <4>2
      <4>4. \A r \in Procs \ {q} : Busy(r)' => Target(r)' # item.id
        BY <1>4, <1>6, <1>9, <3>1, <4>2
      <4> QED
        BY <1>3, <3>1, <4>3, <4>4
    <3>2. CASE q # p
      <4>1. Creating(q) /\ Target(q)' = Target(q) /\ Busy(q)
        BY <1>4, <2>3, <3>2 DEF Creating, Pending
      <4>2. Target(q) \notin Ids(live)
        BY <1>1, <4>1 DEF IdsAreFresh
      <4>3. item.id # Target(q)
        <5>1. CASE op = "create"
          BY <1>6, <1>9, <4>1, <5>1
        <5>2. CASE op # "create"
          BY <4>2, <5>2
        <5> QED
          BY <5>1, <5>2
      <4>4. ASSUME NEW r \in Procs \ {q}, Busy(r)' PROVE Target(r)' # Target(q)
        BY <1>1, <1>3, <1>4, <4>1, <4>3, <4>4 DEF IdsAreFresh
      <4> QED
        BY <4>1, <4>2, <4>4
    <3> QED
      BY <3>1, <3>2
  <2> QED
    BY <2>1, <2>2, <2>3 DEF IdsAreFresh
<1>12. ProjectionsAreCurrent'
  <2>1. ASSUME NEW q \in Procs, Busy(q)', Op(q)' \in Locked
        PROVE  /\ mu' = q
               /\ proc'[q].item.lease = NoLease
               /\ Pending(q)' /\ Op(q)' # "retry" => \A x \in Range(live') :
                      x.id = Target(q)' => x.retries = proc'[q].item.retries
    <3>1. CASE q = p
      BY <1>3, <2>1, <3>1
    <3>2. CASE q # p
      <4>1. /\ mu = q /\ proc[q].item.lease = NoLease
            /\ Pending(q) /\ Op(q) # "retry" => \A x \in Range(live) :
                   x.id = Target(q) => x.retries = proc[q].item.retries
        BY <1>1, <1>4, <2>1, <3>2 DEF ProjectionsAreCurrent
      <4>2. mu # Nobody
        BY <4>1, ProjectionAssumption
      <4> QED
        BY <1>4, <3>2, <4>1, <4>2
    <3> QED
      BY <3>1, <3>2
  <2>2. ASSUME NEW q \in Procs, Busy(q)', Op(q)' = "create"
        PROVE  proc'[q].item.lease = NoLease /\ proc'[q].item.result = NoLease
    BY <1>1, <1>3, <1>4, <2>2 DEF ProjectionsAreCurrent
  <2>3. ASSUME NEW q \in Procs, Busy(q)', Op(q)' = "submit"
        PROVE  proc'[q].pc # "apply"
    BY <1>1, <1>3, <1>4, <2>3 DEF ProjectionsAreCurrent
  <2> QED
    BY <2>1, <2>2, <2>3 DEF ProjectionsAreCurrent
<1>13. LeasesAreCurrent'
  <2>1. ASSUME NEW q \in Procs, Busy(q)', NEW x \in Range(proc'[q].snap)
        PROVE  FitsAttempt(x)
    BY <1>1, <1>3, <1>4, <1>5, <2>1 DEF LeasesAreCurrent
  <2>2. ASSUME NEW q \in Procs, Busy(q)', Op(q)' = "lease", Pending(q)',
               NEW x \in Range(live), x.id = Target(q)'
        PROVE  proc'[q].item.lease.attempt = x.retries + 1
    <3>1. CASE q = p
      BY <1>3, <2>2, <3>1
    <3>2. CASE q # p
      BY <1>1, <1>4, <2>2, <3>2 DEF LeasesAreCurrent
    <3> QED
      BY <3>1, <3>2
  <2>3. ASSUME NEW q \in Procs, Busy(q)', Op(q)' = "lease",
               NEW r \in Procs, Busy(r)', Op(r)' = "retry"
        PROVE  Target(r)' # Target(q)'
    <3>1. CASE q = p
      <4>1. r # p /\ op = "lease"
        BY <1>3, <2>3, <3>1
      <4> QED
        BY <1>3, <1>4, <2>3, <3>1, <4>1 DEF Under, Busy
    <3>2. CASE q # p /\ r = p
      BY <1>3, <1>4, <2>3, <3>2 DEF Under, Busy
    <3>3. CASE q # p /\ r # p
      BY <1>1, <1>4, <2>3, <3>3 DEF LeasesAreCurrent
    <3> QED
      BY <3>1, <3>2, <3>3
  <2> QED
    BY <1>1, <2>1, <2>2, <2>3 DEF LeasesAreCurrent, FitsAttempt
<1>14. ResultsAreCurrent'
  <2>1. ASSUME restarts = 0, NEW q \in Procs, Busy(q)', Op(q)' \in Locked
        PROVE  RightResult(proc'[q].item)
    BY <1>1, <1>3, <1>4, <2>1 DEF ResultsAreCurrent
  <2> QED
    BY <1>1, <2>1 DEF ResultsAreCurrent, RightResult
<1> QED
  BY <1>7, <1>11, <1>12, <1>13, <1>14 DEF AttemptInv

\* An operation begins with what its callers may ask for: a lease is opened for
\* the attempt of the live task, and never while that is being retried.
LEMMA AttemptBegin ==
  ASSUME AttemptInv, NEW p \in Procs, Begin(p)
  PROVE  AttemptInv'
<1>1. /\ TypeOK /\ ListsAreUniform /\ ResultsAreCurrent
  BY DEF AttemptInv
<1>2. TypeOK'
  BY <1>1, TypeBegin
<1>3. {"append", "apply"} \subseteq Pcs
  BY DEF Pcs
<1>4. \A x \in Range(live) : x \in Item /\ x.id \in Ids(live)
  BY <1>1, RangeOfList DEF TypeOK, Ids
<1>5. \A x, y \in Range(live) : x.id = y.id => x = y
  BY <1>1 DEF ListsAreUniform, Uniform
<1>6. CASE BeginTransition(p)
  <2>1. PICK op \in Locked, item \in Range(live), status \in Statuses :
           /\ Applies(op, item, status)
           /\ Start(p, "append", op, Projected(op, item, status),
                    IF op = "retry" THEN "reset" ELSE "moved")
    BY <1>6 DEF BeginTransition
  <2> DEFINE new == Projected(op, item, status)
             event == IF op = "retry" THEN "reset" ELSE "moved"
  <2>2. new \in Item
    BY <1>4, <2>1, ProjectedTyped
  <2>3. /\ new.id = item.id /\ new.lease = NoLease
        /\ op # "retry" => new.retries = item.retries
        /\ op \in {"move", "resume"} => new.result = item.result
        /\ op \in {"retry", "gate"} => new.result = NoLease
    BY <1>4, ProjectedFields
  <2>4. op = "retry" => ~Under("lease", item.id)
    BY <2>1 DEF Applies
  <2>5. restarts = 0 => RightResult(new)
    <3>1. CASE op \in {"move", "resume"}
      BY <1>1, <2>3, <3>1 DEF ResultsAreCurrent, RightResult
    <3>2. CASE op \in {"retry", "gate"}
      BY <2>3, <3>2 DEF RightResult
    <3> QED
      BY <3>1, <3>2 DEF Locked
  <2>6. /\ UNCHANGED <<live, replayed, checkpoint, restarts, next>>
        /\ mu = Nobody /\ mu' = p
    BY <1>6 DEF BeginTransition, storeVars, boundVars
  <2>7. op \notin {"create", "lease", "submit"}
    BY DEF Locked
  <2>8. Start(p, "append", op, new, event)
    BY <2>1
  <2>9. op # "retry" => \A x \in Range(live) : x.id = new.id => x.retries = new.retries
    BY <1>5, <2>3
  <2> HIDE DEF new, event
  <2> QED
    BY <1>2, <1>3, <1>4, <2>2, <2>3, <2>4, <2>5, <2>6, <2>7, <2>8, <2>9, AttemptStart
<1>7. CASE BeginCreation(p)
  <2> DEFINE new == NewItem(next', ops')
  <2>1. /\ Start(p, "append", "create", new, "moved") /\ next' = next + 1
        /\ UNCHANGED <<live, mu, replayed, checkpoint, restarts>>
    BY <1>7 DEF BeginCreation, storeVars, boundVars
  <2>2. next' \in Tasks /\ ops' \in 0 .. MaxOps
    <3>1. next' \in 1 .. MaxTasks
      BY <1>1, <1>7, Bounds DEF BeginCreation, TypeOK
    <3> QED
      BY <1>2, <3>1 DEF TypeOK, Tasks
  <2>3. new \in Item
    BY <2>2, NewItemTyped
  <2>4. new.id = next' /\ new.lease = NoLease /\ new.result = NoLease
    BY DEF NewItem
  <2>5. "create" \notin Locked
    BY DEF Locked
  <2> HIDE DEF new
  <2> QED
    BY <1>2, <1>3, <2>1, <2>3, <2>4, <2>5, AttemptStart
<1>8. CASE BeginRemoval(p)
  <2>1. PICK item \in Range(live) : Start(p, "append", "remove", item, "removed")
    BY <1>8 DEF BeginRemoval
  <2>2. UNCHANGED <<live, mu, next, replayed, checkpoint, restarts>>
    BY <1>8 DEF BeginRemoval, storeVars, boundVars
  <2>3. "remove" \notin Locked
    BY DEF Locked
  <2> QED
    BY <1>2, <1>3, <1>4, <2>1, <2>2, <2>3, AttemptStart
<1>9. CASE BeginResolution(p)
  <2>1. PICK item \in Range(live) :
           Start(p, "append", "resolve", [item EXCEPT !.resolved = TRUE], "resolution")
    BY <1>9 DEF BeginResolution
  <2> DEFINE new == [item EXCEPT !.resolved = TRUE]
  <2>2. new \in Item /\ new.id = item.id
    BY <1>4 DEF Item
  <2>3. UNCHANGED <<live, mu, next, replayed, checkpoint, restarts>>
    BY <1>9 DEF BeginResolution, storeVars, boundVars
  <2>4. "resolve" \notin Locked
    BY DEF Locked
  <2>5. Start(p, "append", "resolve", new, "resolution")
    BY <2>1
  <2> HIDE DEF new
  <2> QED
    BY <1>2, <1>3, <1>4, <2>2, <2>3, <2>4, <2>5, AttemptStart
<1>10. CASE OpenLease(p)
  <2> DEFINE lease(x) == [dispatch |-> dispatches', attempt |-> x.retries + 1]
             new(x)   == [x EXCEPT !.lease = lease(x)]
  <2>1. PICK item \in Range(live) :
           /\ ~Under("retry", item.id)
           /\ dispatches' = dispatches + 1 /\ dispatches < MaxDispatches
           /\ Start(p, "apply", "lease", new(item), "moved")
    BY <1>10 DEF OpenLease
  <2>2. lease(item).attempt = item.retries + 1
    OBVIOUS
  <2>3. lease(item) \in Lease
    <3>1. item.retries \in 0 .. MaxRetries /\ dispatches \in 0 .. MaxDispatches
      BY <1>1, <1>4, ItemFields DEF TypeOK
    <3>2. item.retries + 1 \in 0 .. MaxRetries + 1 /\ dispatches' \in 0 .. MaxDispatches
      BY <2>1, <3>1, Bounds
    <3> QED
      BY <3>2 DEF Lease
  <2> HIDE DEF lease
  <2>4. new(item) \in Item /\ new(item).id = item.id /\ new(item).lease = lease(item)
    BY <1>4, <2>3 DEF Item
  <2>5. UNCHANGED <<live, mu, next, replayed, checkpoint, restarts>>
    BY <1>10 DEF OpenLease, storeVars
  <2>6. "lease" \notin Locked
    BY DEF Locked
  <2>7. \A x \in Range(live) : x.id = item.id => lease(item).attempt = x.retries + 1
    BY <1>5, <2>2
  <2> HIDE DEF new
  <2> QED
    BY <1>2, <1>3, <1>4, <2>1, <2>4, <2>5, <2>6, <2>7, AttemptStart
<1>11. CASE BeginSubmission(p)
  <2> DEFINE new(x) == [x EXCEPT !.lease = control[x.id].lease]
  <2>1. PICK item \in Range(live) : Start(p, "append", "submit", new(item), "moved")
    BY <1>11 DEF BeginSubmission
  <2>2. control[item.id].lease \in Lease
    BY <1>1, <1>4, ItemFields DEF TypeOK
  <2>3. new(item) \in Item /\ new(item).id = item.id
    BY <1>4, <2>2 DEF Item
  <2>4. UNCHANGED <<live, mu, next, replayed, checkpoint, restarts>>
    BY <1>11 DEF BeginSubmission, storeVars, boundVars
  <2>5. "submit" \notin Locked
    BY DEF Locked
  <2> HIDE DEF new
  <2> QED
    BY <1>2, <1>3, <1>4, <2>1, <2>3, <2>4, <2>5, AttemptStart
<1> QED
  BY <1>6, <1>7, <1>8, <1>9, <1>10, <1>11 DEF Begin

\* A restart finds leases of the right attempt in the checkpoint, and none in
\* the replayed list.
LEMMA AttemptRestart == AttemptInv /\ Restart => AttemptInv'
<1> SUFFICES ASSUME AttemptInv, Restart PROVE AttemptInv'
  OBVIOUS
<1>1. TypeOK /\ ListsAreUniform /\ LeasesAreCurrent
  BY DEF AttemptInv
<1>2. TypeOK'
  BY <1>1, TypeRestart
<1>3. /\ live' \in {checkpoint, replayed} /\ checkpoint' = live' /\ replayed' = replayed
      /\ next' = Max({0} \cup Ids(live')) /\ restarts' = restarts + 1
      /\ proc' = [q \in Procs |-> Idle]
  BY DEF Restart
<1>4. \A q \in Procs : ~Busy(q)'
  BY <1>3 DEF Busy
<1>5. ListsAreUniform'
  BY <1>1, <1>3, <1>4 DEF ListsAreUniform
<1>6. \A x \in Range(live') : FitsAttempt(x)
  BY <1>1, <1>3 DEF LeasesAreCurrent, FitsAttempt
<1>7. LeasesAreCurrent'
  BY <1>1, <1>3, <1>4, <1>6 DEF LeasesAreCurrent, FitsAttempt
<1>8. \A t \in Ids(live') : t <= next'
  <2>1. {0} \cup Ids(live') \in SUBSET (0 .. MaxTasks)
    BY <1>2, IdsOfList, Bounds DEF TypeOK
  <2> QED
    BY <1>3, <2>1, MaxIsGreatest, Bounds
<1>9. IdsAreFresh' /\ ProjectionsAreCurrent'
  BY <1>4, <1>8 DEF IdsAreFresh, ProjectionsAreCurrent, Creating, Pending
<1>10. ResultsAreCurrent'
  <2>1. restarts' # 0
    BY <1>1, <1>3, Bounds DEF TypeOK
  <2> QED
    BY <2>1 DEF ResultsAreCurrent
<1> QED
  BY <1>2, <1>5, <1>7, <1>9, <1>10 DEF AttemptInv

\* The tasks the program begins with have neither leases nor results.
LEMMA AttemptInit == Init => AttemptInv
<1> SUFFICES ASSUME Init PROVE AttemptInv
  OBVIOUS
<1>1. TypeOK
  BY TypeInit
<1>2. \A q \in Procs : ~Busy(q)
  BY DEF Init, Busy
<1>3. /\ replayed = live /\ checkpoint = live /\ next = Planned
      /\ live = [t \in 1 .. Planned |-> NewItem(t, 0)]
  BY DEF Init
<1>4. \A x \in Range(live) : \E t \in 1 .. Planned : x = NewItem(t, 0)
  BY <1>3 DEF Range
<1>5. \A t : NewItem(t, 0).id = t /\ NewItem(t, 0).lease = NoLease
             /\ NewItem(t, 0).result = NoLease
  BY DEF NewItem
<1>6. \A x \in Range(live) : x.id \in 1 .. Planned /\ x = NewItem(x.id, 0)
                             /\ x.lease = NoLease /\ x.result = NoLease
  BY <1>4, <1>5
<1>7. ListsAreUniform
  BY <1>2, <1>3, <1>6 DEF ListsAreUniform, Uniform
<1>8. IdsAreFresh
  BY <1>2, <1>3, <1>6, Bounds DEF IdsAreFresh, Ids, Creating, Pending
<1>9. ProjectionsAreCurrent
  BY <1>2 DEF ProjectionsAreCurrent
<1>10. LeasesAreCurrent
  BY <1>2, <1>3, <1>6 DEF LeasesAreCurrent, FitsAttempt
<1>11. ResultsAreCurrent
  BY <1>2, <1>6 DEF ResultsAreCurrent, RightResult
<1> QED
  BY <1>1, <1>7, <1>8, <1>9, <1>10, <1>11 DEF AttemptInv

\* The bookkeeping of attempts holds in every state.
LEMMA AttemptAlways == Spec => []AttemptInv
<1>1. AttemptInv /\ [Next]_vars => AttemptInv'
  <2> SUFFICES ASSUME AttemptInv, [Next]_vars PROVE AttemptInv'
    OBVIOUS
  <2>1. CASE UNCHANGED vars
    BY <2>1 DEF vars, AttemptInv, TypeOK, ListsAreUniform, Uniform, IdsAreFresh, Creating,
                Pending, Busy, Op, Target, ProjectionsAreCurrent, LeasesAreCurrent, FitsAttempt,
                ResultsAreCurrent, RightResult
  <2>2. ASSUME NEW p \in Procs, Begin(p) \/ Work(p) PROVE AttemptInv'
    BY <2>2, AttemptBegin, AttemptWork
  <2>3. CASE Restart
    BY <2>3, AttemptRestart
  <2> QED
    BY <2>1, <2>2, <2>3 DEF Next
<1> QED
  BY AttemptInit, <1>1, PTL DEF Spec

\* No result of an earlier attempt is projected into a later one: neither by a
\* submission that was latched before the retry (publishTaskResultProjection),
\* nor by a lifecycle operation that overwrites the task with what it read
\* before (TryApplyProjectedItem), whatever they are interleaved with.
THEOREM ResultsAreOfTheirAttempt == Spec => []ResultOfThisAttempt
BY AttemptAlways, AttemptInvResult, PTL

-----------------------------------------------------------------------------
(* What a checkpoint shows as finished is in the journal *)

\* Every task that a list, an operation or a snapshot holds.
Held == Range(live) \cup Range(replayed)
        \cup {proc[p].item : p \in {q \in Procs : Busy(q)}}
        \cup UNION {Range(proc[p].snap) : p \in {q \in Procs : Busy(q)}}

SameTask(x, y) == x.id = y.id /\ x.desc = y.desc

\* An id stands for one task, in memory as in the journal's copy: only then are
\* the keys of the one those of the other.
DescsAgree ==
    admitted => /\ \A x, y \in Held : x.id = y.id => x.desc = y.desc
                /\ \A x \in Held : x.id <= next

\* The events of the operations whose keys are not the task's own shadow.
KindsOfOps ==
    \A p \in Procs : Busy(p) =>
        /\ Op(p) = "gate" => proc[p].item.status = "pending" /\ proc[p].item.result = NoLease
        /\ Op(p) = "resolve" => proc[p].event = "resolution"
        /\ Op(p) = "remove" => proc[p].event = "removed"

\* The event by which the task ended, and that of its result, are stored.
Ended(x) == x.status \in Terminal =>
    \E k \in keys : k[1] = "task" /\ k[2].id = x.id /\ k[2].desc = x.desc
                    /\ k[2].status = x.status

Resulted(x) == x.result # NoLease =>
    \E k \in keys : k[2].id = x.id /\ k[2].desc = x.desc /\ k[2].result = x.result

ReplayedIsJournaled == \A x \in Range(replayed) : Ended(x) /\ Resulted(x)

JournalInv ==
    /\ TypeOK /\ emitted \subseteq keys
    /\ ~admitted => \A p \in Procs : ~Busy(p)
    /\ DescsAgree /\ KindsOfOps /\ ReplayedIsJournaled /\ CompletionIsJournaled

\* The key of the event shows the ending and the result that the event brings.
KeyShows(event) ==
    /\ event.kind \notin {"removed", "resolution"} /\ event.item.status \in Terminal =>
           /\ event.key[1] = "task" /\ event.key[2].id = event.item.id
           /\ event.key[2].desc = event.item.desc /\ event.key[2].status = event.item.status
    /\ event.kind # "removed" /\ event.item.result # NoLease =>
           /\ event.key[2].id = event.item.id /\ event.key[2].desc = event.item.desc
           /\ event.key[2].result = event.item.result

\* taskTransitionEventKey is made of the whole shadow.
LEMMA TransitionKeyShows ==
  ASSUME NEW item \in Item, NEW kind
  PROVE  /\ KeyShows(Event(kind, TransitionKey(item), item))
         /\ TransitionKey(item)[1] = "task" /\ TransitionKey(item)[2] = Shadow(item)
BY ShadowFields DEF KeyShows, Event, TransitionKey

\* An append keeps the replayed list to what the keys show, whether its event is
\* stored, refused, lost or known.
LEMMA StoreJournals ==
  ASSUME TypeOK, DescsAgree, admitted, ReplayedIsJournaled,
         NEW event, event.item \in Item, event.item \in Held, KeyShows(event),
         NEW fate, Store(event, fate)
  PROVE  /\ ReplayedIsJournaled' /\ keys \subseteq keys'
         /\ fate # "refused" => event.key \in keys'
         /\ \A x \in Range(replayed') : \E y \in Held : SameTask(x, y)
<1> DEFINE t == event.item.id
           old == Get(replayed, t)
           fresh == NewItem(t, event.item.desc)
<1>1. CASE UNCHANGED <<keys, replayed>> /\ (fate = "refused" \/ event.key \in keys)
  BY <1>1 DEF ReplayedIsJournaled, Ended, Resulted, Held, SameTask
<1>2. CASE keys' = keys \cup {event.key} /\ replayed' = Reduce(replayed, event)
  <2>1. \A x \in Range(replayed') :
           \/ x \in Range(replayed)
           \/ /\ event.kind # "removed"
              /\ \/ t \in Ids(replayed) /\ x = Merge(old, event)
                 \/ t \notin Ids(replayed) /\ x = Merge(fresh, event)
    BY <1>2, ReduceTyped DEF TypeOK
  <2>2. ASSUME NEW x \in Range(replayed)
        PROVE  Ended(x)' /\ Resulted(x)' /\ \E y \in Held : SameTask(x, y)
    BY <1>2, <2>2 DEF ReplayedIsJournaled, Ended, Resulted, Held, SameTask
  <2>3. ASSUME event.kind # "removed",
               NEW was \in Item, SameTask(was, event.item), Ended(was), Resulted(was),
               NEW x, x = Merge(was, event)
        PROVE  Ended(x)' /\ Resulted(x)' /\ SameTask(x, event.item)
    <3>1. /\ x.id = was.id /\ x.desc = was.desc /\ x.status = StatusAfter(was.status, event)
          /\ x.result = IF event.item.result # NoLease THEN event.item.result ELSE was.result
      BY <2>3, MergeTyped
    <3>2. SameTask(x, event.item)
      BY <2>3, <3>1 DEF SameTask
    <3>3. Ended(x)'
      <4> SUFFICES ASSUME x.status \in Terminal
                   PROVE  \E k \in keys' : k[1] = "task" /\ k[2].id = x.id /\ k[2].desc = x.desc
                                           /\ k[2].status = x.status
        BY DEF Ended
      <4>1. CASE x.status = was.status
        BY <1>2, <2>3, <3>1, <4>1 DEF Ended
      <4>2. CASE x.status # was.status
        <5>1. event.kind # "resolution" /\ x.status = event.item.status
          BY <3>1, <4>2 DEF StatusAfter
        <5>2. /\ event.key[1] = "task" /\ event.key[2].id = event.item.id
              /\ event.key[2].desc = event.item.desc
              /\ event.key[2].status = event.item.status
          BY <2>3, <5>1 DEF KeyShows
        <5> QED
          BY <1>2, <3>2, <5>1, <5>2 DEF SameTask
      <4> QED
        BY <4>1, <4>2
    <3>4. Resulted(x)'
      <4>1. CASE event.item.result # NoLease
        <5>1. /\ event.key[2].id = event.item.id /\ event.key[2].desc = event.item.desc
              /\ event.key[2].result = event.item.result
          BY <2>3, <4>1 DEF KeyShows
        <5> QED
          BY <1>2, <3>1, <3>2, <4>1, <5>1 DEF Resulted, SameTask
      <4>2. CASE event.item.result = NoLease
        BY <1>2, <2>3, <3>1, <4>2 DEF Resulted
      <4> QED
        BY <4>1, <4>2
    <3> QED
      BY <3>2, <3>3, <3>4
  <2>4. ASSUME t \in Ids(replayed)
        PROVE  old \in Item /\ SameTask(old, event.item) /\ Ended(old) /\ Resulted(old)
    <3>1. old \in Range(replayed) /\ old.id = t /\ old \in Item
      BY <2>4, GetIsThere, RangeOfList DEF TypeOK
    <3>2. old \in Held
      BY <3>1 DEF Held
    <3> QED
      BY <3>1, <3>2 DEF DescsAgree, SameTask, ReplayedIsJournaled
  <2>5. fresh \in Item /\ SameTask(fresh, event.item) /\ Ended(fresh) /\ Resulted(fresh)
    <3>1. fresh \in Item
      BY ItemFields, NewItemTyped
    <3> QED
      BY <3>1 DEF NewItem, SameTask, Ended, Resulted, Terminal
  <2> HIDE DEF old, fresh
  <2>6. ASSUME NEW x \in Range(replayed')
        PROVE  Ended(x)' /\ Resulted(x)' /\ \E y \in Held : SameTask(x, y)
    <3>1. CASE x \in Range(replayed)
      BY <2>2, <3>1
    <3>2. CASE event.kind # "removed" /\ t \in Ids(replayed) /\ x = Merge(old, event)
      BY <2>3, <2>4, <3>2
    <3>3. CASE event.kind # "removed" /\ x = Merge(fresh, event)
      BY <2>3, <2>5, <3>3
    <3> QED
      BY <2>1, <2>6, <3>1, <3>2, <3>3
  <2> QED
    BY <1>2, <2>6 DEF ReplayedIsJournaled, Ended, Resulted
<1> QED
  BY <1>1, <1>2 DEF Store

\* The key of an operation's own event shows what the event brings.
LEMMA EventKeyShows ==
  ASSUME TypeOK, KindsOfOps, NEW p \in Procs, Busy(p)
  PROVE  KeyShows(Event(proc[p].event, EventKey(p), proc[p].item))
<1> DEFINE item == proc[p].item
<1>1. item \in Item
  BY AtWorks, WorkingFields DEF Busy
<1>2. CASE Op(p) = "gate"
  <2>1. item.status = "pending" /\ item.result = NoLease
    BY <1>2 DEF KindsOfOps
  <2> HIDE DEF item
  <2> QED
    BY <2>1 DEF KeyShows, Event, Terminal, item
<1>3. CASE Op(p) = "remove"
  BY <1>3 DEF KeyShows, Event, KindsOfOps
<1>4. CASE Op(p) = "resolve"
  <2> DEFINE unresolved == [item EXCEPT !.resolved = FALSE]
  <2>1. proc[p].event = "resolution"
    BY <1>4 DEF KindsOfOps
  <2>2. EventKey(p)[2] = Shadow(unresolved)
    BY <1>4 DEF EventKey
  <2>3. /\ unresolved \in Item /\ unresolved.id = item.id /\ unresolved.desc = item.desc
        /\ unresolved.result = item.result
    BY <1>1 DEF Item
  <2> HIDE DEF unresolved
  <2>4. /\ EventKey(p)[2].id = item.id /\ EventKey(p)[2].desc = item.desc
        /\ EventKey(p)[2].result = item.result
    BY <2>2, <2>3, ShadowFields
  <2> QED
    BY <2>1, <2>4 DEF KeyShows, Event
<1>5. CASE Op(p) \notin {"gate", "remove", "resolve"}
  <2>1. EventKey(p) = TransitionKey(item)
    BY <1>5 DEF EventKey
  <2> QED
    BY <1>1, <2>1, TransitionKeyShows
<1> QED
  BY <1>2, <1>3, <1>4, <1>5

\* A step of an operation that saves what the journal has, and holds no task it
\* did not hold before, keeps the invariant.
LEMMA JournalStep ==
  ASSUME JournalInv, TypeOK', NEW p \in Procs, Busy(p), Continues(p),
         UNCHANGED <<next, admitted, restarts>>,
         \A x \in Range(live') : \E y \in Held : SameTask(x, y),
         \A x \in Range(replayed') : \E y \in Held : SameTask(x, y),
         keys \subseteq keys', emitted' \subseteq keys', ReplayedIsJournaled',
         checkpoint' = checkpoint \/ CompletionIsJournaled'
  PROVE  JournalInv'
<1>1. \A q \in Procs : Busy(q)' =>
         /\ Busy(q) /\ Op(q)' = Op(q) /\ proc'[q].item = proc[q].item
         /\ proc'[q].event = proc[q].event
         /\ proc'[q].snap = proc[q].snap \/ proc'[q].snap = live
  BY DEF Continues, Busy, Op
<1>2. ASSUME NEW x \in Held' PROVE \E y \in Held : SameTask(x, y)
  <2>1. CASE x \in Range(live') \/ x \in Range(replayed')
    BY <2>1
  <2>2. CASE \E q \in Procs : Busy(q)' /\ (x = proc'[q].item \/ x \in Range(proc'[q].snap))
    <3>1. PICK q \in Procs : Busy(q)' /\ (x = proc'[q].item \/ x \in Range(proc'[q].snap))
      BY <2>2
    <3>2. x = proc[q].item \/ x \in Range(proc[q].snap) \/ x \in Range(live)
      BY <1>1, <3>1
    <3>3. x \in Held
      BY <1>1, <3>1, <3>2 DEF Held
    <3> QED
      BY <3>3 DEF SameTask
  <2>3. \/ x \in Range(live') \/ x \in Range(replayed')
        \/ \E q \in Procs : Busy(q)' /\ (x = proc'[q].item \/ x \in Range(proc'[q].snap))
    BY <1>2 DEF Held
  <2> QED
    BY <2>1, <2>2, <2>3
<1>3. DescsAgree'
  <2> SUFFICES ASSUME admitted
               PROVE  /\ \A x, y \in Held' : x.id = y.id => x.desc = y.desc
                      /\ \A x \in Held' : x.id <= next
    BY DEF DescsAgree
  <2>1. /\ \A x, y \in Held : x.id = y.id => x.desc = y.desc
        /\ \A x \in Held : x.id <= next
    BY DEF JournalInv, DescsAgree
  <2> QED
    BY <1>2, <2>1 DEF SameTask
<1>4. KindsOfOps'
  BY <1>1 DEF JournalInv, KindsOfOps
<1>5. admitted' /\ ReplayedIsJournaled'
  BY DEF JournalInv
<1>6. CompletionIsJournaled'
  BY DEF JournalInv, CompletionIsJournaled
<1> QED
  BY <1>3, <1>4, <1>5, <1>6 DEF JournalInv

\* A step that leaves the journal and the checkpoint alone.
LEMMA JournalKept ==
  ASSUME JournalInv, TypeOK', NEW p \in Procs, Busy(p), Continues(p),
         UNCHANGED <<next, admitted, restarts, emitted, keys, replayed, checkpoint>>,
         \A x \in Range(live') : \E y \in Held : SameTask(x, y)
  PROVE  JournalInv'
<1>1. \A x \in Range(replayed') : \E y \in Held : SameTask(x, y)
  BY DEF Held, SameTask
<1>2. ReplayedIsJournaled' /\ emitted' \subseteq keys'
  BY DEF JournalInv, ReplayedIsJournaled, Ended, Resulted
<1> QED
  BY <1>1, <1>2, JournalStep

\* What an operation writes to the list is the task it is about, or what the
\* list has already.
LEMMA AppliedIsHeld ==
  ASSUME TypeOK, NEW p \in Procs, Busy(p), NEW x \in Range(Applied(p))
  PROVE  \E y \in Held : SameTask(x, y)
<1> DEFINE item == proc[p].item
           current == Get(live, item.id)
<1>1. item \in Item /\ item \in Held /\ live \in Seq(Item)
  BY AtWorks, WorkingFields DEF Busy, Held, TypeOK
<1>2. \A y \in Range(live) : y \in Held /\ SameTask(y, y)
  BY DEF Held, SameTask
<1>3. CASE Refuses(p)
  BY <1>2, <1>3 DEF Applied
<1>4. CASE ~Refuses(p) /\ Op(p) = "create"
  <2>1. Applied(p) = Append(live, item)
    BY <1>4 DEF Applied
  <2>2. x \in Range(live) \/ x = item
    BY <1>1, <2>1, AppendToList
  <2> QED
    BY <1>1, <1>2, <2>2 DEF SameTask
<1>5. CASE ~Refuses(p) /\ Op(p) = "remove"
  <2>1. Applied(p) = Without(live, item.id)
    BY <1>5 DEF Applied
  <2> QED
    BY <1>1, <1>2, <2>1, WithoutList
<1>6. CASE ~Refuses(p) /\ Op(p) \notin {"create", "remove"}
  <2>1. current \in Range(live) /\ current \in Item
    BY <1>1, <1>6, GetIsThere, RangeOfList DEF Refuses, Target
  <2>2. \E new \in Item : /\ Applied(p) = Put(live, new)
                          /\ SameTask(new, current) \/ new = item
    <3>1. CASE Op(p) = "resolve"
      <4> DEFINE new == [current EXCEPT !.resolved = TRUE]
      <4>1. Applied(p) = Put(live, new)
        BY <1>6, <3>1 DEF Applied
      <4>2. new \in Item /\ SameTask(new, current)
        BY <2>1 DEF Item, SameTask
      <4> QED
        BY <4>1, <4>2
    <3>2. CASE Op(p) = "lease"
      <4> DEFINE new == [current EXCEPT !.lease = item.lease, !.result = NoLease]
      <4>1. Applied(p) = Put(live, new)
        BY <1>6, <3>2 DEF Applied
      <4>2. new \in Item /\ SameTask(new, current)
        BY <1>1, <2>1, ItemFields, NoLeaseIsLease DEF Item, SameTask
      <4> QED
        BY <4>1, <4>2
    <3>3. CASE Op(p) \notin {"resolve", "lease"}
      <4>1. Applied(p) = Put(live, item)
        BY <1>6, <3>3 DEF Applied
      <4> QED
        BY <1>1, <4>1
    <3> QED
      BY <3>1, <3>2, <3>3
  <2>3. PICK new \in Item : Applied(p) = Put(live, new) /\ (SameTask(new, current) \/ new = item)
    BY <2>2
  <2>4. x = new \/ x \in Range(live)
    BY <1>1, <2>3, PutInList
  <2>5. current \in Held
    BY <1>2, <2>1
  <2> HIDE DEF current, item
  <2> QED
    BY <1>1, <1>2, <2>3, <2>4, <2>5 DEF SameTask
<1> QED
  BY <1>3, <1>4, <1>5, <1>6

\* The steps of an operation: an event is remembered as emitted only when it is
\* stored, and the checkpoint is saved only when all of its tasks are.
LEMMA JournalWork ==
  ASSUME JournalInv, NEW p \in Procs, Work(p)
  PROVE  JournalInv'
<1>1. /\ TypeOK /\ emitted \subseteq keys /\ (~admitted => \A q \in Procs : ~Busy(q))
      /\ DescsAgree /\ KindsOfOps /\ ReplayedIsJournaled /\ CompletionIsJournaled
  BY DEF JournalInv
<1>2. TypeOK'
  BY <1>1, TypeWork
<1>3. {"append", "apply", "publish", "snapshot", "emit", "revoke"} = Pcs
  BY DEF Pcs
<1>4. \A pc \in Pcs : At(p, pc) => /\ Busy(p) /\ proc[p] \in Working /\ proc[p].item \in Item
                                   /\ proc[p].item \in Held
  BY <1>1, AtStep, WorkingFields DEF Busy, Held
<1>5. \A x \in Range(live) : \E y \in Held : SameTask(x, y)
  BY DEF Held, SameTask
<1>6. CASE AppendEvent(p)
  <2> DEFINE event == Event(proc[p].event, EventKey(p), proc[p].item)
  <2>1. At(p, "append") /\ Busy(p) /\ Pending(p) /\ Op(p) # "submit" /\ admitted
    BY <1>1, <1>3, <1>4, <1>6 DEF AppendEvent, Pending, At
  <2>2. UNCHANGED <<live, next, admitted, restarts, checkpoint>>
    BY <1>6 DEF AppendEvent, boundVars
  <2>3. PICK fate \in Fates :
           /\ Store(event, fate)
           /\ IF fate = "stored"
              THEN /\ Goto(p, "apply") /\ UNCHANGED mu
                   /\ emitted' = IF Op(p) \in {"move", "retry", "resume", "create"}
                                 THEN emitted \cup {EventKey(p)} ELSE emitted
              ELSE Stop(p) /\ UNCHANGED emitted
    BY <1>6 DEF AppendEvent
  <2>4. event.item \in Item /\ event.item \in Held /\ event.key = EventKey(p)
    BY <1>3, <1>4, <2>1 DEF Event
  <2>5. KeyShows(event)
    BY <1>1, <2>1, EventKeyShows
  <2>6. Continues(p)
    BY <1>1, <1>3, <2>1, <2>2, <2>3, GotoContinues, StopContinues
  <2> HIDE DEF event
  <2>7. /\ ReplayedIsJournaled' /\ keys \subseteq keys'
        /\ fate # "refused" => event.key \in keys'
        /\ \A x \in Range(replayed') : \E y \in Held : SameTask(x, y)
    BY <1>1, <2>1, <2>3, <2>4, <2>5, StoreJournals
  <2>8. emitted' \subseteq keys'
    BY <1>1, <2>3, <2>4, <2>7
  <2> QED
    BY <1>2, <1>5, <2>1, <2>2, <2>6, <2>7, <2>8, JournalStep
<1>7. CASE Apply(p)
  <2>1. At(p, "apply") /\ Busy(p)
    BY <1>3, <1>4, <1>7 DEF Apply
  <2>2. Continues(p)
    <3>1. Stop(p) \/ (Goto(p, "snapshot") /\ UNCHANGED mu)
      BY <1>7 DEF Apply
    <3> QED
      BY <1>1, <1>3, <2>1, <3>1, StopContinues, GotoContinues
  <2>3. /\ UNCHANGED <<next, admitted, restarts, emitted, keys, replayed, checkpoint>>
        /\ live' = Applied(p)
    BY <1>7 DEF Apply, storeVars, boundVars
  <2>4. \A x \in Range(live') : \E y \in Held : SameTask(x, y)
    BY <1>1, <2>1, <2>3, AppliedIsHeld
  <2> QED
    BY <1>2, <2>1, <2>2, <2>3, <2>4, JournalKept
<1>8. CASE TakeSnapshot(p)
  <2>1. At(p, "snapshot") /\ proc[p] \in Working /\ Busy(p)
    BY <1>3, <1>4, <1>8 DEF TakeSnapshot
  <2>2. /\ proc' = [proc EXCEPT ![p] = [proc[p] EXCEPT !.snap = live, !.pc = "emit"]]
        /\ UNCHANGED <<live, next, mu, admitted, restarts, emitted, keys, replayed, checkpoint>>
    BY <1>8 DEF TakeSnapshot, storeVars, boundVars
  <2>3. /\ \A q \in Procs \ {p} : proc'[q] = proc[q]
        /\ proc'[p] = [proc[p] EXCEPT !.snap = live, !.pc = "emit"]
    BY <1>1, <2>2 DEF TypeOK
  <2>4. /\ proc'[p].op = proc[p].op /\ proc'[p].item = proc[p].item
        /\ proc'[p].pc = "emit" /\ proc'[p].snap = live /\ proc'[p].event = proc[p].event
    BY <2>1, <2>3 DEF Working
  <2>5. Continues(p)
    BY <2>1, <2>2, <2>3, <2>4 DEF Continues, Busy
  <2> QED
    BY <1>2, <1>5, <2>1, <2>2, <2>5, JournalKept
<1>9. CASE EmitMissing(p)
  <2> DEFINE item == proc[p].snap[Min(Missing(p))]
             key  == TransitionKey(item)
             event == Event("moved", key, item)
  <2>1. At(p, "emit") /\ Busy(p) /\ Missing(p) # {} /\ admitted
    BY <1>1, <1>3, <1>4, <1>9 DEF EmitMissing
  <2>2. item \in Item /\ item \in Range(proc[p].snap)
    BY <1>1, <2>1, FirstMissing
  <2>3. UNCHANGED <<live, next, admitted, restarts, checkpoint>>
    BY <1>9 DEF EmitMissing, boundVars
  <2>4. PICK fate \in Fates :
           /\ Store(event, fate)
           /\ IF fate = "stored" THEN emitted' = emitted \cup {key} /\ UNCHANGED <<proc, mu>>
              ELSE Callback(p) /\ UNCHANGED emitted
    BY <1>9 DEF EmitMissing
  <2>5. item \in Held
    BY <2>1, <2>2 DEF Held
  <2> HIDE DEF item
  <2>6. event.item \in Item /\ event.item \in Held /\ event.key = key /\ KeyShows(event)
    BY <2>2, <2>5, TransitionKeyShows DEF Event
  <2>7. Continues(p)
    <3>1. CASE UNCHANGED <<proc, mu>>
      BY <2>1, <3>1 DEF Continues, At, Busy
    <3>2. CASE Callback(p)
      BY <1>1, <2>1, <3>2, CallbackContinues
    <3> QED
      BY <2>4, <3>1, <3>2
  <2> HIDE DEF event, key
  <2>8. /\ ReplayedIsJournaled' /\ keys \subseteq keys'
        /\ fate # "refused" => event.key \in keys'
        /\ \A x \in Range(replayed') : \E y \in Held : SameTask(x, y)
    BY <1>1, <2>1, <2>4, <2>6, StoreJournals
  <2>9. emitted' \subseteq keys'
    BY <1>1, <2>4, <2>6, <2>8
  <2> QED
    BY <1>2, <1>5, <2>1, <2>3, <2>7, <2>8, <2>9, JournalStep
<1>10. CASE SaveSession(p)
  <2>1. /\ At(p, "emit") /\ Busy(p) /\ checkpoint' = proc[p].snap /\ Missing(p) = {}
        /\ proc[p].snap \in Seq(Item)
    BY <1>3, <1>4, <1>10, WorkingFields DEF SaveSession
  <2>2. UNCHANGED <<live, next, admitted, restarts, emitted, keys, replayed>>
    BY <1>10 DEF SaveSession, boundVars
  <2>3. Continues(p)
    BY <1>1, <1>10, <2>1, CallbackContinues DEF SaveSession
  <2>4. ASSUME NEW x \in Range(checkpoint')
        PROVE  /\ TransitionKey(x) \in keys /\ TransitionKey(x)[1] = "task"
               /\ TransitionKey(x)[2].id = x.id /\ TransitionKey(x)[2].desc = x.desc
               /\ TransitionKey(x)[2].status = x.status /\ TransitionKey(x)[2].result = x.result
    <3>1. PICK i \in DOMAIN proc[p].snap : x = proc[p].snap[i]
      BY <2>1, <2>4 DEF Range
    <3>2. TransitionKey(x) \in emitted
      BY <2>1, <3>1 DEF Missing
    <3>3. x \in Item
      BY <2>1, <2>4, RangeOfList
    <3> QED
      BY <1>1, <3>2, <3>3, ShadowFields, TransitionKeyShows
  <2>5. CompletionIsJournaled'
    BY <2>2, <2>4 DEF CompletionIsJournaled
  <2>6. /\ \A x \in Range(replayed') : \E y \in Held : SameTask(x, y)
        /\ ReplayedIsJournaled' /\ emitted' \subseteq keys'
    BY <1>1, <2>2 DEF Held, SameTask, ReplayedIsJournaled, Ended, Resulted
  <2> QED
    BY <1>2, <1>5, <2>1, <2>2, <2>3, <2>5, <2>6, JournalStep
<1>11. CASE Revoke(p)
  <2>1. Busy(p) /\ Continues(p)
    BY <1>1, <1>3, <1>4, <1>11, StopContinues DEF Revoke
  <2>2. UNCHANGED <<live, next, admitted, restarts, emitted, keys, replayed, checkpoint>>
    BY <1>11 DEF Revoke, storeVars, boundVars
  <2> QED
    BY <1>2, <1>5, <2>1, <2>2, JournalKept
<1>12. CASE LatchResult(p)
  <2>1. Busy(p) /\ (Stop(p) \/ (Goto(p, "publish") /\ UNCHANGED mu))
    BY <1>3, <1>4, <1>12 DEF LatchResult
  <2>2. Continues(p)
    BY <1>1, <1>3, <2>1, StopContinues, GotoContinues
  <2>3. UNCHANGED <<live, next, admitted, restarts, emitted, keys, replayed, checkpoint>>
    BY <1>12 DEF LatchResult, storeVars, boundVars
  <2> QED
    BY <1>2, <1>5, <2>1, <2>2, <2>3, JournalKept
<1>13. CASE PublishResult(p)
  <2> DEFINE t == Target(p)
             current == Get(live, t)
             new == [current EXCEPT !.result = proc[p].item.lease]
  <2>1. At(p, "publish") /\ Busy(p) /\ proc[p].item \in Item
    BY <1>3, <1>4, <1>13 DEF PublishResult
  <2>2. UNCHANGED <<next, admitted, restarts, emitted, keys, replayed, checkpoint>>
    BY <1>13 DEF PublishResult, storeVars, boundVars
  <2>3. CASE Owns(p) /\ control[t].result /\ HasLease(p)
    <3>1. live' = Put(live, new) /\ Goto(p, "snapshot") /\ UNCHANGED <<mu, control>>
      BY <1>13, <2>3 DEF PublishResult
    <3>2. current \in Range(live) /\ current \in Item /\ current \in Held
      BY <1>1, <2>3, GetIsThere, RangeOfList DEF HasLease, TypeOK, Held
    <3> HIDE DEF current
    <3>3. new \in Item /\ SameTask(new, current)
      BY <2>1, <3>2, ItemFields DEF Item, SameTask
    <3> HIDE DEF new
    <3>4. \A x \in Range(live') : x = new \/ x \in Range(live)
      BY <1>1, <3>1, <3>3, PutInList DEF TypeOK
    <3>5. \A x \in Range(live') : \E y \in Held : SameTask(x, y)
      BY <1>5, <3>2, <3>3, <3>4
    <3>6. Continues(p)
      BY <1>1, <1>3, <2>1, <3>1, GotoContinues
    <3> QED
      BY <1>2, <2>1, <2>2, <3>5, <3>6, JournalKept
  <2>4. CASE ~(Owns(p) /\ control[t].result /\ HasLease(p))
    <3>1. Stop(p) /\ UNCHANGED live
      BY <1>13, <2>4 DEF PublishResult
    <3>2. Continues(p)
      BY <1>1, <3>1, StopContinues
    <3> QED
      BY <1>2, <1>5, <2>1, <2>2, <3>1, <3>2, JournalKept
  <2> QED
    BY <2>3, <2>4
<1> QED
  BY <1>6, <1>7, <1>8, <1>9, <1>10, <1>11, <1>12, <1>13 DEF Work

\* An operation begins with a task that is held already, or with a new id.
LEMMA JournalStart ==
  ASSUME JournalInv, TypeOK', NEW p \in Procs,
         NEW pc, NEW op, NEW item \in Item, NEW event, Start(p, pc, op, item, event),
         UNCHANGED <<live, replayed, checkpoint, restarts, keys, emitted, admitted>>,
         \/ next' = next /\ \E y \in Held : SameTask(item, y)
         \/ next' = next + 1 /\ item.id = next',
         op = "gate" => item.status = "pending" /\ item.result = NoLease,
         op = "resolve" => event = "resolution",
         op = "remove" => event = "removed"
  PROVE  JournalInv'
<1>1. /\ TypeOK /\ emitted \subseteq keys
      /\ DescsAgree /\ KindsOfOps /\ ReplayedIsJournaled /\ CompletionIsJournaled
  BY DEF JournalInv
<1> DEFINE new == [pc |-> pc, op |-> op, item |-> item, event |-> event, snap |-> << >>]
<1>2. /\ proc'[p] = new /\ \A q \in Procs \ {p} : proc'[q] = proc[q]
      /\ ~Busy(p) /\ admitted
  BY <1>1 DEF Start, TypeOK, Busy
<1>3. /\ proc'[p].op = op /\ proc'[p].item = item /\ proc'[p].event = event
      /\ proc'[p].snap = << >> /\ Op(p)' = op
  BY <1>2 DEF Op
<1>4. \A q \in Procs \ {p} : proc'[q] = proc[q] /\ Busy(q)' = Busy(q) /\ Op(q)' = Op(q)
  BY <1>2 DEF Busy, Op
<1>5. Range(<< >>) = {}
  BY DEF Range
<1> HIDE DEF new
<1>6. \A x \in Held' : x = item \/ x \in Held
  <2> TAKE x \in Held'
  <2>1. CASE x \in Range(live') \/ x \in Range(replayed')
    BY <2>1 DEF Held
  <2>2. ASSUME NEW q \in Procs, Busy(q)', x = proc'[q].item \/ x \in Range(proc'[q].snap)
        PROVE  x = item \/ x \in Held
    BY <1>3, <1>4, <1>5, <2>2 DEF Held
  <2>3. \/ x \in Range(live') \/ x \in Range(replayed')
        \/ \E q \in Procs : Busy(q)' /\ (x = proc'[q].item \/ x \in Range(proc'[q].snap))
    BY DEF Held
  <2> QED
    BY <2>1, <2>2, <2>3
<1>7. Held \subseteq Item
  <2>1. \A q \in Procs : Busy(q) => proc[q].item \in Item /\ proc[q].snap \in Seq(Item)
    BY <1>1, AtWorks, WorkingFields DEF Busy
  <2> QED
    BY <1>1, <2>1, RangeOfList DEF Held, TypeOK
<1>8. \A x \in Held : x.id \in Nat /\ x.id <= next
  <2>1. \A x \in Held : x.id \in Tasks
    BY <1>7, ItemFields
  <2> QED
    BY <1>1, <1>2, <2>1, Bounds DEF DescsAgree, Tasks
<1>9. next \in Nat
  BY <1>1, Bounds DEF TypeOK
<1>10. DescsAgree'
  <2> SUFFICES /\ \A x, y \in Held' : x.id = y.id => x.desc = y.desc
               /\ \A x \in Held' : x.id <= next'
    BY DEF DescsAgree
  <2>1. \A x, y \in Held : x.id = y.id => x.desc = y.desc
    BY <1>1, <1>2 DEF DescsAgree
  <2>2. CASE next' = next /\ \E y \in Held : SameTask(item, y)
    BY <1>6, <1>8, <2>1, <2>2 DEF SameTask
  <2>3. CASE next' = next + 1 /\ item.id = next'
    <3>1. \A x \in Held : x.id <= next' /\ x.id # item.id
      BY <1>8, <1>9, <2>3
    <3> QED
      BY <1>6, <1>9, <2>1, <2>3, <3>1
  <2> QED
    BY <2>2, <2>3
<1>11. KindsOfOps'
  <2> SUFFICES ASSUME NEW q \in Procs, Busy(q)'
               PROVE  /\ Op(q)' = "gate" => /\ proc'[q].item.status = "pending"
                                            /\ proc'[q].item.result = NoLease
                      /\ Op(q)' = "resolve" => proc'[q].event = "resolution"
                      /\ Op(q)' = "remove" => proc'[q].event = "removed"
    BY DEF KindsOfOps
  <2>1. CASE q = p
    BY <1>3, <2>1
  <2>2. CASE q # p
    BY <1>1, <1>4, <2>2 DEF KindsOfOps
  <2> QED
    BY <2>1, <2>2
<1>12. ReplayedIsJournaled' /\ CompletionIsJournaled' /\ emitted' \subseteq keys' /\ admitted'
  BY <1>1, <1>2 DEF ReplayedIsJournaled, Ended, Resulted, CompletionIsJournaled
<1> QED
  BY <1>10, <1>11, <1>12 DEF JournalInv

\* The operations begin with tasks of the list, or a new one.
LEMMA JournalBegin ==
  ASSUME JournalInv, NEW p \in Procs, Begin(p)
  PROVE  JournalInv'
<1>1. TypeOK
  BY DEF JournalInv
<1>2. TypeOK'
  BY <1>1, TypeBegin
<1>3. \A x \in Range(live) : x \in Item /\ x \in Held
  BY <1>1, RangeOfList DEF TypeOK, Held
<1>4. CASE BeginTransition(p)
  <2>1. PICK op \in Locked, item \in Range(live), status \in Statuses :
           /\ Applies(op, item, status)
           /\ Start(p, "append", op, Projected(op, item, status),
                    IF op = "retry" THEN "reset" ELSE "moved")
    BY <1>4 DEF BeginTransition
  <2> DEFINE new == Projected(op, item, status)
             event == IF op = "retry" THEN "reset" ELSE "moved"
  <2>2. new \in Item
    BY <1>3, <2>1, ProjectedTyped
  <2>3. /\ new.id = item.id /\ new.desc = item.desc
        /\ op = "gate" => new.status = "pending" /\ new.result = NoLease
    BY <1>3, ProjectedFields
  <2>4. UNCHANGED <<live, replayed, checkpoint, restarts, next, keys, emitted, admitted>>
    BY <1>4 DEF BeginTransition, storeVars, boundVars
  <2>5. op \notin {"resolve", "remove"}
    BY DEF Locked
  <2>6. Start(p, "append", op, new, event)
    BY <2>1
  <2>7. \E y \in Held : SameTask(new, y)
    BY <1>3, <2>3 DEF SameTask
  <2> HIDE DEF new, event
  <2> QED
    BY <1>2, <2>2, <2>3, <2>4, <2>5, <2>6, <2>7, JournalStart
<1>5. CASE BeginCreation(p)
  <2> DEFINE new == NewItem(next', ops')
  <2>1. /\ Start(p, "append", "create", new, "moved") /\ next' = next + 1
        /\ UNCHANGED <<live, replayed, checkpoint, restarts, keys, emitted, admitted>>
    BY <1>5 DEF BeginCreation, storeVars, boundVars
  <2>2. next' \in Tasks /\ ops' \in 0 .. MaxOps
    <3>1. next' \in 1 .. MaxTasks
      BY <1>1, <1>5, Bounds DEF BeginCreation, TypeOK
    <3> QED
      BY <1>2, <3>1 DEF TypeOK, Tasks
  <2>3. new \in Item /\ new.id = next'
    BY <2>2, NewItemTyped DEF NewItem
  <2> HIDE DEF new
  <2> QED
    BY <1>2, <2>1, <2>3, JournalStart
<1>6. CASE BeginRemoval(p)
  <2>1. PICK item \in Range(live) : Start(p, "append", "remove", item, "removed")
    BY <1>6 DEF BeginRemoval
  <2>2. UNCHANGED <<live, replayed, checkpoint, restarts, next, keys, emitted, admitted>>
    BY <1>6 DEF BeginRemoval, storeVars, boundVars
  <2>3. \E y \in Held : SameTask(item, y)
    BY <1>3 DEF SameTask
  <2> QED
    BY <1>2, <1>3, <2>1, <2>2, <2>3, JournalStart
<1>7. CASE BeginResolution(p)
  <2> DEFINE new(x) == [x EXCEPT !.resolved = TRUE]
  <2>1. PICK item \in Range(live) : Start(p, "append", "resolve", new(item), "resolution")
    BY <1>7 DEF BeginResolution
  <2>2. UNCHANGED <<live, replayed, checkpoint, restarts, next, keys, emitted, admitted>>
    BY <1>7 DEF BeginResolution, storeVars, boundVars
  <2>3. new(item) \in Item /\ \E y \in Held : SameTask(new(item), y)
    BY <1>3 DEF SameTask, Item
  <2> HIDE DEF new
  <2> QED
    BY <1>2, <2>1, <2>2, <2>3, JournalStart
<1>8. CASE OpenLease(p)
  <2> DEFINE lease(x) == [dispatch |-> dispatches', attempt |-> x.retries + 1]
             new(x)   == [x EXCEPT !.lease = lease(x)]
  <2>1. PICK item \in Range(live) :
           /\ dispatches' = dispatches + 1 /\ dispatches < MaxDispatches
           /\ Start(p, "apply", "lease", new(item), "moved")
    BY <1>8 DEF OpenLease
  <2>2. lease(item) \in Lease
    <3>1. item.retries \in 0 .. MaxRetries /\ dispatches \in 0 .. MaxDispatches
      BY <1>1, <1>3, ItemFields DEF TypeOK
    <3>2. item.retries + 1 \in 0 .. MaxRetries + 1 /\ dispatches' \in 0 .. MaxDispatches
      BY <2>1, <3>1, Bounds
    <3> QED
      BY <3>2 DEF Lease
  <2> HIDE DEF lease
  <2>3. new(item) \in Item /\ \E y \in Held : SameTask(new(item), y)
    BY <1>3, <2>2 DEF Item, SameTask
  <2>4. UNCHANGED <<live, replayed, checkpoint, restarts, next, keys, emitted, admitted>>
    BY <1>8 DEF OpenLease, storeVars
  <2> HIDE DEF new
  <2> QED
    BY <1>2, <2>1, <2>3, <2>4, JournalStart
<1>9. CASE BeginSubmission(p)
  <2> DEFINE new(x) == [x EXCEPT !.lease = control[x.id].lease]
  <2>1. PICK item \in Range(live) : Start(p, "append", "submit", new(item), "moved")
    BY <1>9 DEF BeginSubmission
  <2>2. control[item.id].lease \in Lease
    BY <1>1, <1>3, ItemFields DEF TypeOK
  <2>3. new(item) \in Item /\ \E y \in Held : SameTask(new(item), y)
    BY <1>3, <2>2 DEF Item, SameTask
  <2>4. UNCHANGED <<live, replayed, checkpoint, restarts, next, keys, emitted, admitted>>
    BY <1>9 DEF BeginSubmission, storeVars, boundVars
  <2> HIDE DEF new
  <2> QED
    BY <1>2, <2>1, <2>3, <2>4, JournalStart
<1> QED
  BY <1>4, <1>5, <1>6, <1>7, <1>8, <1>9 DEF Begin

\* Lists with the same shadows hold the same tasks (CompareCanonicalProjection).
LEMMA SameShadows ==
  ASSUME NEW a \in Seq(Item), NEW b \in Seq(Item), Shadows(a) = Shadows(b)
  PROVE  \A x \in Range(a) : \E y \in Range(b) : SameTask(x, y)
<1> TAKE x \in Range(a)
<1>1. PICK i \in DOMAIN a : x = a[i]
  BY DEF Range
<1>2. DOMAIN a = DOMAIN b /\ Shadow(a[i]) = Shadow(b[i])
  <2>1. DOMAIN Shadows(a) = DOMAIN a /\ DOMAIN Shadows(b) = DOMAIN b
    BY DEF Shadows
  <2>2. i \in DOMAIN b
    BY <2>1
  <2>3. Shadows(a)[i] = Shadow(a[i]) /\ Shadows(b)[i] = Shadow(b[i])
    BY <2>2 DEF Shadows
  <2> QED
    BY <2>1, <2>3
<1>3. a[i] \in Item /\ b[i] \in Item /\ b[i] \in Range(b)
  BY <1>2 DEF Range
<1>4. a[i].id = b[i].id /\ a[i].desc = b[i].desc
  BY <1>2, <1>3, ShadowFields
<1> QED
  BY <1>1, <1>3, <1>4 DEF SameTask

\* A restart admits a run only with a list that is, task by task, the journal's.
LEMMA JournalRestart == JournalInv /\ Restart => JournalInv'
<1> SUFFICES ASSUME JournalInv, Restart PROVE JournalInv'
  OBVIOUS
<1>1. /\ TypeOK /\ emitted \subseteq keys
      /\ DescsAgree /\ KindsOfOps /\ ReplayedIsJournaled /\ CompletionIsJournaled
  BY DEF JournalInv
<1>2. TypeOK'
  BY <1>1, TypeRestart
<1>3. /\ live' = IF ~Agree /\ Repair THEN replayed ELSE checkpoint
      /\ checkpoint' = live' /\ UNCHANGED <<keys, replayed>> /\ emitted' = keys
      /\ next' = Max({0} \cup Ids(live')) /\ restarts' = restarts + 1
      /\ proc' = [q \in Procs |-> Idle]
      /\ admitted' = (admitted /\ (Agree \/ Repair))
  BY DEF Restart
<1>4. \A q \in Procs : ~Busy(q)'
  BY <1>3 DEF Busy
<1>5. restarts' # 0
  BY <1>1, <1>3, Bounds DEF TypeOK
<1>6. CompletionIsJournaled'
  <2>1. CASE checkpoint' = checkpoint
    BY <1>1, <1>3, <1>5, <2>1 DEF CompletionIsJournaled
  <2>2. CASE checkpoint' = replayed
    BY <1>1, <1>3, <1>5, <2>2 DEF CompletionIsJournaled, ReplayedIsJournaled, Ended, Resulted
  <2> QED
    BY <1>3, <2>1, <2>2
<1>7. ReplayedIsJournaled'
  BY <1>1, <1>3 DEF ReplayedIsJournaled, Ended, Resulted
<1>8. Held' = Range(live') \cup Range(replayed)
  BY <1>3, <1>4 DEF Held
<1>9. \A t \in Ids(live') : t <= next'
  <2>1. {0} \cup Ids(live') \in SUBSET (0 .. MaxTasks)
    BY <1>2, IdsOfList, Bounds DEF TypeOK
  <2> QED
    BY <1>3, <2>1, MaxIsGreatest, Bounds
<1>10. DescsAgree'
  <2> SUFFICES ASSUME admitted, Agree \/ Repair
               PROVE  /\ \A x, y \in Held' : x.id = y.id => x.desc = y.desc
                      /\ \A x \in Held' : x.id <= next'
    BY <1>3 DEF DescsAgree
  <2>1. /\ \A x \in Range(live') : \E y \in Range(replayed) : SameTask(x, y)
        /\ \A x \in Range(replayed) : \E y \in Range(live') : SameTask(x, y)
    <3>1. CASE Agree
      <4>1. live' = checkpoint
        BY <1>3, <3>1
      <4> QED
        BY <1>1, <3>1, <4>1, SameShadows DEF Agree, TypeOK
    <3>2. CASE ~Agree
      <4>1. live' = replayed
        BY <1>3, <3>2
      <4> QED
        BY <4>1 DEF SameTask
    <3> QED
      BY <3>1, <3>2
  <2>2. \A x, y \in Range(replayed) : x.id = y.id => x.desc = y.desc
    BY <1>1 DEF DescsAgree, Held
  <2>3. \A x \in Held' : \E y \in Range(replayed) : SameTask(x, y)
    BY <1>8, <2>1 DEF SameTask
  <2>4. \A x \in Held' : x.id \in Ids(live')
    BY <1>8, <2>1 DEF SameTask, Ids
  <2> QED
    BY <1>9, <2>2, <2>3, <2>4 DEF SameTask
<1>11. KindsOfOps'
  BY <1>4 DEF KindsOfOps
<1> QED
  BY <1>2, <1>3, <1>4, <1>6, <1>7, <1>10, <1>11 DEF JournalInv

\* In the beginning the journal holds what the list shows.
LEMMA JournalInit == Init => JournalInv
<1> SUFFICES ASSUME Init PROVE JournalInv
  OBVIOUS
<1>1. TypeOK
  BY TypeInit
<1>2. \A q \in Procs : ~Busy(q)
  BY DEF Init, Busy
<1>3. /\ replayed = live /\ checkpoint = live /\ next = Planned /\ admitted = TRUE
      /\ live = [t \in 1 .. Planned |-> NewItem(t, 0)] /\ emitted = keys
  BY DEF Init
<1>4. \A x \in Range(live) : \E t \in 1 .. Planned : x = NewItem(t, 0)
  BY <1>3 DEF Range
<1>5. \A x \in Range(live) : /\ x.id \in 1 .. Planned /\ x.desc = 0 /\ x.status = "pending"
                             /\ x.result = NoLease
  <2>1. \A t : /\ NewItem(t, 0).id = t /\ NewItem(t, 0).desc = 0
               /\ NewItem(t, 0).status = "pending" /\ NewItem(t, 0).result = NoLease
    BY DEF NewItem
  <2> QED
    BY <1>4, <2>1
<1>6. Held = Range(live)
  BY <1>2, <1>3 DEF Held
<1>7. DescsAgree
  BY <1>3, <1>5, <1>6, Bounds DEF DescsAgree
<1>8. ReplayedIsJournaled /\ CompletionIsJournaled
  BY <1>3, <1>5 DEF ReplayedIsJournaled, CompletionIsJournaled, Ended, Resulted, Terminal
<1>9. KindsOfOps
  BY <1>2 DEF KindsOfOps
<1> QED
  BY <1>1, <1>2, <1>3, <1>7, <1>8, <1>9 DEF JournalInv

\* The invariant holds in every run.
LEMMA JournalAlways == Spec => []JournalInv
<1>1. JournalInv /\ [Next]_vars => JournalInv'
  <2> SUFFICES ASSUME JournalInv, [Next]_vars PROVE JournalInv'
    OBVIOUS
  <2>1. CASE UNCHANGED vars
    <3>1. TypeOK' /\ Held' = Held
      BY <2>1 DEF vars, JournalInv, TypeOK, Held, Busy
    <3>2. DescsAgree'
      BY <2>1, <3>1 DEF vars, JournalInv, DescsAgree
    <3>3. KindsOfOps' /\ (~admitted' => \A q \in Procs : ~Busy(q)')
      BY <2>1 DEF vars, JournalInv, KindsOfOps, Busy, Op
    <3>4. ReplayedIsJournaled' /\ CompletionIsJournaled' /\ emitted' \subseteq keys'
      BY <2>1 DEF vars, JournalInv, ReplayedIsJournaled, Ended, Resulted, CompletionIsJournaled
    <3> QED
      BY <3>1, <3>2, <3>3, <3>4 DEF JournalInv
  <2>2. ASSUME NEW p \in Procs, Begin(p) \/ Work(p) PROVE JournalInv'
    BY <2>2, JournalBegin, JournalWork
  <2>3. CASE Restart
    BY <2>3, JournalRestart
  <2> QED
    BY <2>1, <2>2, <2>3 DEF Next
<1> QED
  BY JournalInit, <1>1, PTL DEF Spec

\* No checkpoint shows a task as finished, or a finished task's result, that the
\* journal does not have (saveCheckpoint): however late a goroutine saves its
\* snapshot, whichever appends are refused or lost, and after a restart that has
\* taken its list from either copy.
THEOREM CompletionsAreJournaled == Spec => []CompletionIsJournaled
<1>1. JournalInv => CompletionIsJournaled
  BY DEF JournalInv
<1> QED
  BY JournalAlways, <1>1, PTL

-----------------------------------------------------------------------------
(* The endings that replay *)

SameState(x, y) == x.id = y.id /\ x.status = y.status /\ x.retries = y.retries

\* A lifecycle operation whose event is stored and whose projection is about to
\* be written.
Committed(p, t) ==
    Busy(p) /\ Op(p) \in Locked /\ proc[p].pc = "apply" /\ Target(p) = t

\* The newest state of every task: what the list shows, or is about to.
Current ==
    {x \in Range(live) : \A p \in Procs : ~Committed(p, x.id)}
    \cup {proc[p].item : p \in {q \in Procs : Committed(q, Target(q))}}

\* The states of tasks whose own events are stored, and those that can still be
\* appended: a snapshot is a list that was, and the list will be one.
Stored == {k[2] : k \in {l \in keys : l[1] = "task"}}

Seen == Stored \cup Range(live)
        \cup UNION {Range(proc[p].snap) : p \in {q \in Procs : Busy(q)}}

\* A refresh of the gates has taken the task back to an earlier state.
Gated(t) == \E k \in keys : k[1] = "gate" /\ k[2].id = t

\* The endings an attempt can go on to.
GoesOnTo(from, to) ==
    from = to \/ from = "protocol_incomplete" \/ (from = "error" /\ to = "blocked")

\* What has been seen of a task is of an earlier attempt, or an ending that the
\* newest state comes after.
Precedes(y, c) ==
    \/ y.retries < c.retries
    \/ /\ y.retries = c.retries
       /\ y.status \in Terminal => Gated(y.id) \/ GoesOnTo(y.status, c.status)

Removing(t) ==
    \E p \in Procs : Busy(p) /\ Op(p) = "remove" /\ proc[p].pc = "apply" /\ Target(p) = t

\* The replayed list shows the task as finished.
Finished(t) == \E x \in Range(replayed) : x.id = t /\ x.status \in Terminal

Distinct(list) == \A i, j \in DOMAIN list : list[i].id = list[j].id => i = j

KeysAreOfTasks == \A k \in keys : k[1] = "task" => k[2] \in Item

\* What an operation makes of a task the list still has.
Projects(op, x, new) ==
    CASE op = "move"   -> Moves(x.status, new.status) /\ new.retries = x.retries
      [] op = "retry"  -> new.retries = x.retries + 1 /\ new.status = "pending"
      [] op = "resume" -> /\ new.retries = x.retries /\ new.status = "pending"
                          /\ x.status \notin Terminal
      [] op = "gate"   -> new.retries = x.retries /\ new.status = "pending"

OperationsFit ==
    /\ \A p \in Procs : Pending(p) /\ Op(p) \in Locked =>
           /\ Target(p) \in Ids(live)
           /\ \A x \in Range(live) : x.id = Target(p) => Projects(Op(p), x, proc[p].item)
    /\ \A p, q \in Procs : Busy(p) /\ Op(p) = "remove" /\ Busy(q) /\ Op(q) \in Locked =>
           Target(p) # Target(q)
    /\ \A p \in Procs : Busy(p) =>
           /\ Op(p) = "create" => proc[p].item.status = "pending" /\ proc[p].item.retries = 0
           /\ Op(p) = "lease" => proc[p].pc # "append"
           /\ proc[p].event =
                  CASE Op(p) = "retry" -> "reset" [] Op(p) = "remove" -> "removed"
                    [] Op(p) = "resolve" -> "resolution" [] OTHER -> "moved"

\* A new id has not been seen, but for the event of its own creation.
NewIdsAreUnseen ==
    /\ \A y \in Seen : y.id <= next
    /\ \A p \in Procs : Creating(p) =>
           \A y \in Seen : y.id = Target(p) =>
               proc[p].pc = "apply" /\ y.retries = 0 /\ y.status = "pending"

SeenPrecedes == \A y \in Seen, c \in Current : y.id = c.id => Precedes(y, c)

\* An ending of the attempt that a task is in keeps its copy finished.
EndingsAreKept ==
    \A y \in Stored, c \in Current :
        y.id = c.id /\ y.retries = c.retries /\ y.status \in Terminal /\ ~Removing(c.id) =>
            Finished(c.id)

EndingsAreStored ==
    \A c \in Current : c.status \in Terminal => \E y \in Stored : SameState(y, c)

FirstLife ==
    /\ admitted /\ Distinct(live) /\ KeysAreOfTasks /\ OperationsFit /\ NewIdsAreUnseen
    /\ SeenPrecedes /\ EndingsAreKept /\ EndingsAreStored

EndingInv == restarts = 0 => FirstLife

\* The shadow of a task is in the same state.
LEMMA ShadowState ==
  ASSUME NEW item \in Item
  PROVE  SameState(Shadow(item), item)
BY NoLeaseIsLease DEF Shadow, Item, SameState

\* An overwritten list has the ids it had, each where it was.
LEMMA PutDistinct ==
  ASSUME NEW list \in Seq(Item), Distinct(list), NEW item \in Item
  PROVE  Distinct(Put(list, item))
BY DEF Distinct, Put

\* A list with a new id.
LEMMA AppendDistinct ==
  ASSUME NEW list \in Seq(Item), Distinct(list), NEW item \in Item, item.id \notin Ids(list)
  PROVE  Distinct(Append(list, item))
<1> DEFINE new == Append(list, item)
<1>1. /\ DOMAIN new = 1 .. Len(list) + 1 /\ DOMAIN list = 1 .. Len(list)
      /\ \A i \in 1 .. Len(list) : new[i] = list[i]
      /\ new[Len(list) + 1] = item
  OBVIOUS
<1>2. \A i \in 1 .. Len(list) : list[i].id # item.id
  BY RangeOfList DEF Ids
<1> HIDE DEF new
<1>3. Len(list) \in Nat
  OBVIOUS
<1> SUFFICES ASSUME NEW i \in DOMAIN new, NEW j \in DOMAIN new, new[i].id = new[j].id
             PROVE  i = j
  BY DEF Distinct, new
<1> QED
  BY <1>1, <1>2, <1>3 DEF Distinct

\* DeleteIDs takes away the one task it is told to.
LEMMA WithoutDistinct ==
  ASSUME NEW list \in Seq(Item), NEW t
  PROVE  /\ \A x \in Range(list) : x.id # t => x \in Range(Without(list, t))
         /\ Distinct(list) => Distinct(Without(list, t)) /\ t \notin Ids(Without(list, t))
<1>1. CASE t \notin Ids(list)
  BY <1>1 DEF Without
<1>2. CASE t \in Ids(list)
  <2> DEFINE k   == Position(list, t)
             new == Without(list, t)
  <2>1. k \in 1 .. Len(list) /\ list[k].id = t
    <3>1. \E i \in DOMAIN list : list[i].id = t
      BY <1>2 DEF Ids, Range
    <3> QED
      BY <3>1 DEF Position
  <2>2. new = RemoveAt(list, k)
    BY <1>2 DEF Without
  <2> HIDE DEF k, new
  <2>3. /\ Len(list) \in Nat /\ Len(new) = Len(list) - 1 /\ DOMAIN new = 1 .. Len(list) - 1
        /\ \A i \in 1 .. Len(list) - 1 : new[i] = IF i < k THEN list[i] ELSE list[i + 1]
    <3>1. /\ new \in Seq(Item) /\ Len(new) = Len(list) - 1
          /\ \A i \in 1 .. Len(list) - 1 : new[i] = IF i < k THEN list[i] ELSE list[i + 1]
      BY <2>1, <2>2, RemovedAt
    <3>2. DOMAIN new = 1 .. Len(list) - 1
      BY <3>1
    <3> QED
      BY <3>1, <3>2
  <2>4. ASSUME NEW x \in Range(list), x.id # t
        PROVE  x \in Range(new)
    <3>1. PICK i \in 1 .. Len(list) : list[i] = x
      BY RangeOfList
    <3>2. CASE i < k
      BY <2>1, <2>3, <3>1, <3>2 DEF Range
    <3>3. CASE i > k
      <4>1. i - 1 \in 1 .. Len(list) - 1 /\ ~(i - 1 < k)
        BY <2>1, <2>3, <3>1, <3>3
      <4>2. new[i - 1] = x
        BY <2>3, <3>1, <4>1
      <4> QED
        BY <2>3, <4>1, <4>2 DEF Range
    <3> QED
      BY <2>1, <2>4, <3>1, <3>2, <3>3
  <2>5. ASSUME Distinct(list)
        PROVE  Distinct(new) /\ t \notin Ids(new)
    <3>1. \A i, j \in 1 .. Len(list) : list[i].id = list[j].id => i = j
      BY <2>5 DEF Distinct
    <3>2. Distinct(new)
      <4> SUFFICES ASSUME NEW i \in 1 .. Len(list) - 1, NEW j \in 1 .. Len(list) - 1,
                          new[i].id = new[j].id
                   PROVE  i = j
        BY <2>3 DEF Distinct
      <4> QED
        BY <2>1, <2>3, <3>1
    <3>3. \A i \in 1 .. Len(list) - 1 : new[i].id # t
      BY <2>1, <2>3, <3>1
    <3> QED
      BY <2>3, <3>2, <3>3 DEF Ids, Range
  <2> QED
    BY <2>4, <2>5 DEF new
<1> QED
  BY <1>1, <1>2

\* The members of Current and of Seen.
LEMMA CurrentIs ==
  \A x : x \in Current <=>
      \/ x \in Range(live) /\ \A p \in Procs : ~Committed(p, x.id)
      \/ \E p \in Procs : Busy(p) /\ Op(p) \in Locked /\ proc[p].pc = "apply" /\ x = proc[p].item
BY DEF Current, Committed

LEMMA SeenIs ==
  \A x : x \in Seen <=>
      \/ x \in Stored \/ x \in Range(live)
      \/ \E p \in Procs : Busy(p) /\ x \in Range(proc[p].snap)
BY DEF Seen

LEMMA StoredIs ==
  \A x : x \in Stored <=> \E k \in keys : k[1] = "task" /\ x = k[2]
BY DEF Stored

\* They are tasks.
LEMMA StatesTyped ==
  ASSUME TypeOK, KeysAreOfTasks
  PROVE  Current \subseteq Item /\ Seen \subseteq Item /\ Stored \subseteq Seen
<1>1. \A p \in Procs : Busy(p) => proc[p].item \in Item /\ Range(proc[p].snap) \subseteq Item
  BY AtWorks, WorkingFields, RangeOfList DEF Busy
<1>2. Range(live) \subseteq Item
  BY RangeOfList DEF TypeOK
<1>3. Stored \subseteq Item
  BY StoredIs DEF KeysAreOfTasks
<1> QED
  BY <1>1, <1>2, <1>3, CurrentIs, SeenIs

\* Of every task there is one newest state, because whoever is about to write one
\* holds taskProjectionMu; and a task that is being created has none.
LEMMA CurrentIsOne ==
  ASSUME AttemptInv
  PROVE  /\ \A c, d \in Current : c.id = d.id => c = d
         /\ \A c \in Current : c.id <= next
         /\ \A c \in Current, p \in Procs : Creating(p) => c.id # Target(p)
<1>1. /\ Uniform(live) /\ IdsAreFresh
      /\ \A p \in Procs : Busy(p) /\ Op(p) \in Locked => mu = p
  BY DEF AttemptInv, ListsAreUniform, ProjectionsAreCurrent
<1>2. ASSUME NEW c \in Current, NEW d \in Current, c.id = d.id
      PROVE  c = d
  <2>1. CASE c \in Range(live) /\ \A p \in Procs : ~Committed(p, c.id)
    <3>1. \A p \in Procs : Busy(p) /\ Op(p) \in Locked /\ proc[p].pc = "apply" =>
              proc[p].item.id # d.id
      BY <1>2, <2>1 DEF Committed, Target
    <3>2. d \in Range(live)
      BY <3>1, CurrentIs
    <3> QED
      BY <1>1, <1>2, <2>1, <3>2 DEF Uniform
  <2>2. ASSUME NEW p \in Procs, Busy(p), Op(p) \in Locked, proc[p].pc = "apply", c = proc[p].item
        PROVE  c = d
    <3>1. Committed(p, d.id)
      BY <1>2, <2>2 DEF Committed, Target
    <3>2. PICK q \in Procs : Busy(q) /\ Op(q) \in Locked /\ d = proc[q].item
      BY <3>1, CurrentIs
    <3>3. p = q
      BY <1>1, <2>2, <3>2
    <3> QED
      BY <2>2, <3>2, <3>3
  <2> QED
    BY <2>1, <2>2, CurrentIs
<1>3. ASSUME NEW c \in Current
      PROVE  /\ c.id <= next
             /\ \A p \in Procs : Creating(p) => c.id # Target(p)
  <2>1. CASE c \in Range(live)
    BY <1>1, <2>1 DEF IdsAreFresh, Ids
  <2>2. ASSUME NEW q \in Procs, Busy(q), Op(q) \in Locked, c = proc[q].item
        PROVE  /\ c.id <= next
               /\ \A p \in Procs : Creating(p) => c.id # Target(p)
    <3>1. \A p \in Procs : Creating(p) => p # q
      BY <2>2 DEF Creating, Locked
    <3> QED
      BY <1>1, <2>2, <3>1 DEF IdsAreFresh, Target
  <2> QED
    BY <2>1, <2>2, CurrentIs
<1> QED
  BY <1>2, <1>3

\* Precedes asks for ids, statuses and retries only, and holds on: an event of
\* the gates stays.
LEMMA PrecedesStill ==
  ASSUME NEW y, NEW z, NEW c, NEW d, SameState(y, z), SameState(c, d), Precedes(z, d),
         keys \subseteq keys'
  PROVE  Precedes(y, c)'
<1>1. Gated(z.id) => Gated(z.id)'
  BY DEF Gated
<1> QED
  BY <1>1 DEF Precedes, SameState, GoesOnTo

\* A state precedes itself.
LEMMA PrecedesItself ==
  ASSUME NEW y, NEW c, SameState(y, c)
  PROVE  Precedes(y, c)
BY DEF Precedes, SameState, GoesOnTo

\* reduceToTodoList: a finished copy stays finished, unless its task is removed
\* or reset for a retry.
LEMMA FinishedStays ==
  ASSUME TypeOK, Uniform(replayed), NEW event, event.item \in Item, NEW fate, Store(event, fate),
         NEW t, Finished(t), event.item.id # t \/ event.kind \notin {"removed", "reset"}
  PROVE  Finished(t)'
<1> DEFINE id == event.item.id
           old == Get(replayed, id)
           new == Merge(old, event)
<1>1. PICK x \in Range(replayed) : x.id = t /\ x.status \in Terminal
  BY DEF Finished
<1>2. CASE UNCHANGED replayed
  BY <1>2 DEF Finished
<1>3. CASE replayed' = Reduce(replayed, event) /\ event.kind = "removed"
  <2>1. replayed' = Without(replayed, id)
    BY <1>3 DEF Reduce
  <2>2. x \in Range(replayed')
    BY <1>1, <1>3, <2>1, WithoutDistinct DEF TypeOK
  <2> QED
    BY <1>1, <2>2 DEF Finished
<1>4. CASE replayed' = Reduce(replayed, event) /\ event.kind # "removed" /\ id \notin Ids(replayed)
  <2> DEFINE fresh == Merge(NewItem(id, event.item.desc), event)
  <2>1. replayed' = Append(replayed, fresh)
    BY <1>4 DEF Reduce
  <2>2. fresh \in Item
    <3>1. NewItem(id, event.item.desc) \in Item
      BY ItemFields, NewItemTyped
    <3> QED
      BY <3>1, MergeTyped
  <2> HIDE DEF fresh
  <2>3. x \in Range(replayed')
    BY <1>1, <2>1, <2>2, AppendToList DEF TypeOK
  <2> QED
    BY <1>1, <2>3 DEF Finished
<1>5. CASE replayed' = Reduce(replayed, event) /\ event.kind # "removed" /\ id \in Ids(replayed)
  <2>1. replayed' = Put(replayed, new)
    BY <1>5 DEF Reduce
  <2>2. old \in Range(replayed) /\ old \in Item /\ old.id = id
    BY <1>5, GetIsThere, RangeOfList DEF TypeOK
  <2>3. new \in Item /\ new.id = id /\ new.status = StatusAfter(old.status, event)
    BY <2>2, MergeTyped
  <2> HIDE DEF new, old
  <2>4. PICK i \in 1 .. Len(replayed) : replayed[i] = x
    BY <1>1, RangeOfList DEF TypeOK
  <2>5. replayed'[i] = (IF x.id = id THEN new ELSE x) /\ i \in DOMAIN replayed'
    BY <2>1, <2>3, <2>4 DEF Put, TypeOK
  <2>6. CASE t # id
    BY <1>1, <2>5, <2>6 DEF Finished, Range
  <2>7. CASE t = id
    <3>1. new \in Range(replayed')
      BY <1>1, <2>5, <2>7 DEF Range
    <3>2. old.status \in Terminal => new.status \in Terminal
      BY <1>5, <2>3, <2>7 DEF StatusAfter
    <3> QED
      BY <1>1, <2>2, <2>3, <2>7, <3>1, <3>2 DEF Finished, Uniform
  <2> QED
    BY <2>6, <2>7
<1> QED
  BY <1>2, <1>3, <1>4, <1>5 DEF Store

\* The terminal event of a task finishes its copy.
LEMMA FinishedByEvent ==
  ASSUME TypeOK, NEW event, event.item \in Item, event.kind = "moved",
         event.item.status \in Terminal, replayed' = Reduce(replayed, event)
  PROVE  Finished(event.item.id)'
<1> DEFINE id == event.item.id
           old == Get(replayed, id)
           fresh == NewItem(id, event.item.desc)
<1>1. \A status : StatusAfter(status, event) = event.item.status
  BY DEF StatusAfter
<1>2. CASE id \notin Ids(replayed)
  <2> DEFINE new == Merge(fresh, event)
  <2>1. replayed' = Append(replayed, new)
    BY <1>2 DEF Reduce
  <2>2. fresh \in Item /\ fresh.id = id
    BY ItemFields, NewItemTyped DEF NewItem
  <2> HIDE DEF fresh
  <2>3. new \in Item /\ new.id = id /\ new.status = event.item.status
    BY <1>1, <2>2, MergeTyped
  <2> HIDE DEF new
  <2>4. new \in Range(replayed')
    BY <2>1, <2>3, AppendToList DEF TypeOK
  <2> QED
    BY <2>3, <2>4 DEF Finished
<1>3. CASE id \in Ids(replayed)
  <2> DEFINE new == Merge(old, event)
  <2>1. replayed' = Put(replayed, new)
    BY <1>3 DEF Reduce
  <2>2. old \in Range(replayed) /\ old \in Item /\ old.id = id
    BY <1>3, GetIsThere, RangeOfList DEF TypeOK
  <2> HIDE DEF old
  <2>3. new \in Item /\ new.id = id /\ new.status = event.item.status
    BY <1>1, <2>2, MergeTyped
  <2> HIDE DEF new
  <2>4. PICK i \in 1 .. Len(replayed) : replayed[i] = old
    BY <2>2, RangeOfList DEF TypeOK
  <2>5. replayed'[i] = new /\ i \in DOMAIN replayed'
    BY <2>1, <2>2, <2>3, <2>4 DEF Put, TypeOK
  <2> QED
    BY <2>3, <2>5 DEF Finished, Range
<1> QED
  BY <1>2, <1>3

\* What a step of operation p that ends its append, or comes later, may do to the
\* list: it writes the task it has projected, leaves every state as it is, or
\* adds the task it creates.
ListFollows(p) ==
    \A x \in Range(live') :
        \/ Committed(p, x.id) /\ SameState(x, proc[p].item)
        \/ ~Committed(p, x.id) /\ \E y \in Range(live) : SameState(x, y)
        \/ Creating(p) /\ proc[p].pc = "apply" /\ SameState(x, proc[p].item)

\* The task operation p creates.
Creates(p, x) == Creating(p) /\ proc[p].pc = "apply" /\ SameState(x, proc[p].item)

\* After such a step the newest state of a task is what it was, or that of a new
\* task.
LEMMA CurrentFollows ==
  ASSUME TypeOK, NEW p \in Procs, Continues(p), ~Pending(p)', ListFollows(p), NEW c \in Current'
  PROVE  (\E d \in Current : SameState(c, d)) \/ Creates(p, c)
<1>1. \A q \in Procs \ {p} : proc'[q] = proc[q]
  BY DEF Continues
<1>2. \A x : SameState(x, x)
  BY DEF SameState
<1>3. \/ c \in Range(live') /\ \A q \in Procs : ~Committed(q, c.id)'
      \/ \E q \in Procs : Busy(q)' /\ Op(q)' \in Locked /\ proc'[q].pc = "apply" /\ c = proc'[q].item
  BY DEF Current, Committed
<1>4. CASE c \in Range(live') /\ \A q \in Procs : ~Committed(q, c.id)'
  <2>1. \A q \in Procs \ {p} : ~Committed(q, c.id)
    BY <1>1, <1>4 DEF Committed, Busy, Op, Target
  <2>2. CASE Committed(p, c.id) /\ SameState(c, proc[p].item)
    <3>1. proc[p].item \in Current
      BY <2>2, CurrentIs DEF Committed
    <3> QED
      BY <2>2, <3>1
  <2>3. CASE ~Committed(p, c.id) /\ \E y \in Range(live) : SameState(c, y)
    <3>1. PICK y \in Range(live) : SameState(c, y)
      BY <2>3
    <3>2. \A q \in Procs : ~Committed(q, y.id)
      BY <2>1, <2>3, <3>1 DEF SameState
    <3> QED
      BY <3>1, <3>2, CurrentIs
  <2>4. CASE Creating(p) /\ proc[p].pc = "apply" /\ SameState(c, proc[p].item)
    BY <2>4 DEF Creates
  <2> QED
    BY <1>4, <2>2, <2>3, <2>4 DEF ListFollows
<1>5. ASSUME NEW q \in Procs, Busy(q)', Op(q)' \in Locked, proc'[q].pc = "apply", c = proc'[q].item
      PROVE  c \in Current
  <2>1. q # p
    BY <1>5 DEF Pending
  <2> QED
    BY <1>1, <1>5, <2>1, CurrentIs DEF Busy, Op
<1> QED
  BY <1>2, <1>3, <1>4, <1>5

\* And nothing is seen that was not seen before, or current.
LEMMA SeenFollows ==
  ASSUME TypeOK, NEW p \in Procs, Continues(p), ListFollows(p), NEW y \in Seen',
         y \in Stored' => \E z \in Seen : SameState(y, z)
  PROVE  (\E z \in Seen \cup Current : SameState(y, z)) \/ Creates(p, y)
<1>1. \A x : SameState(x, x)
  BY DEF SameState
<1>2. CASE y \in Range(live')
  <2>1. CASE Committed(p, y.id) /\ SameState(y, proc[p].item)
    <3>1. proc[p].item \in Current
      BY <2>1, CurrentIs DEF Committed
    <3> QED
      BY <2>1, <3>1
  <2>2. CASE \E z \in Range(live) : SameState(y, z)
    BY <2>2, SeenIs
  <2>3. CASE Creating(p) /\ proc[p].pc = "apply" /\ SameState(y, proc[p].item)
    BY <2>3 DEF Creates
  <2> QED
    BY <1>2, <2>1, <2>2, <2>3 DEF ListFollows
<1>3. ASSUME NEW q \in Procs, Busy(q)', y \in Range(proc'[q].snap)
      PROVE  y \in Seen \/ y \in Range(live')
  <2>1. Busy(q) /\ (proc'[q].snap = proc[q].snap \/ proc'[q].snap = live)
    BY <1>3 DEF Continues, Busy
  <2> QED
    BY <1>3, <2>1, SeenIs
<1>4. y \in Stored' \/ y \in Range(live') \/ \E q \in Procs : Busy(q)' /\ y \in Range(proc'[q].snap)
  BY DEF Seen
<1> QED
  BY <1>1, <1>2, <1>3, <1>4

\* Such a step keeps the history: what is seen precedes what is current.
LEMMA HistoryStep ==
  ASSUME AttemptInv, KeysAreOfTasks, OperationsFit, NewIdsAreUnseen, SeenPrecedes,
         NEW p \in Procs, Continues(p), ~Pending(p)', ListFollows(p),
         next' = next, keys \subseteq keys',
         \A y \in Stored' : \E z \in Seen : SameState(y, z)
  PROVE  NewIdsAreUnseen' /\ SeenPrecedes'
<1>1. TypeOK /\ IdsAreFresh
  BY DEF AttemptInv
<1>2. ASSUME NEW y \in Seen'
      PROVE  (\E z \in Seen \cup Current : SameState(y, z)) \/ Creates(p, y)
  BY <1>1, SeenFollows
<1>3. ASSUME NEW c \in Current'
      PROVE  (\E d \in Current : SameState(c, d)) \/ Creates(p, c)
  BY <1>1, CurrentFollows
<1>4. /\ \A c, d \in Current : c.id = d.id => c = d
      /\ \A c \in Current : c.id <= next
      /\ \A c \in Current, q \in Procs : Creating(q) => c.id # Target(q)
  BY CurrentIsOne
<1>5. ASSUME NEW x, Creates(p, x)
      PROVE  /\ x.id = Target(p) /\ x.status = "pending" /\ x.retries = 0
             /\ Busy(p) /\ Creating(p)
  BY <1>5 DEF Creates, Creating, Pending, SameState, Target, OperationsFit
<1>6. /\ \A y \in Seen : y.id <= next
      /\ \A q \in Procs : Creating(q) => \A y \in Seen : y.id = Target(q) =>
             proc[q].pc = "apply" /\ y.retries = 0 /\ y.status = "pending"
  BY DEF NewIdsAreUnseen
<1>7. NewIdsAreUnseen'
  <2>1. ASSUME NEW y \in Seen'
        PROVE  y.id <= next
    <3>1. CASE \E z \in Seen \cup Current : SameState(y, z)
      BY <1>4, <1>6, <3>1 DEF SameState
    <3>2. CASE Creates(p, y)
      BY <1>1, <1>5, <3>2 DEF IdsAreFresh
    <3> QED
      BY <1>2, <3>1, <3>2
  <2>2. ASSUME NEW q \in Procs, Creating(q)', NEW y \in Seen', y.id = Target(q)'
        PROVE  proc'[q].pc = "apply" /\ y.retries = 0 /\ y.status = "pending"
    <3>1. q # p
      BY <2>2 DEF Creating
    <3>2. /\ proc'[q] = proc[q] /\ Creating(q) /\ Target(q)' = Target(q)
      BY <2>2, <3>1 DEF Continues, Creating, Pending, Busy, Op, Target
    <3>3. CASE \E z \in Seen \cup Current : SameState(y, z)
      <4>1. PICK z \in Seen \cup Current : SameState(y, z)
        BY <3>3
      <4>2. z.id = Target(q)
        BY <2>2, <3>2, <4>1 DEF SameState
      <4>3. z \in Seen
        BY <1>4, <3>2, <4>2
      <4> QED
        BY <1>6, <3>2, <4>1, <4>2, <4>3 DEF SameState
    <3>4. CASE Creates(p, y)
      <4>1. Busy(p) /\ Target(p) = Target(q)
        BY <1>5, <2>2, <3>2, <3>4
      <4> QED
        BY <1>1, <3>1, <3>2, <4>1 DEF IdsAreFresh
    <3> QED
      BY <1>2, <3>3, <3>4
  <2> QED
    BY <2>1, <2>2 DEF NewIdsAreUnseen
<1>8. SeenPrecedes'
  <2> SUFFICES ASSUME NEW y \in Seen', NEW c \in Current', y.id = c.id
               PROVE  Precedes(y, c)'
    BY DEF SeenPrecedes
  <2>1. ASSUME NEW d \in Current, SameState(c, d), NEW z \in Seen, SameState(y, z)
        PROVE  Precedes(y, c)'
    <3>1. Precedes(z, d)
      BY <2>1 DEF SeenPrecedes, SameState
    <3> QED
      BY <2>1, <3>1, PrecedesStill
  <2>2. ASSUME NEW d \in Current, SameState(c, d), NEW z \in Current, SameState(y, z)
        PROVE  Precedes(y, c)'
    <3>1. z = d
      BY <1>4, <2>2 DEF SameState
    <3>2. Precedes(z, d)
      BY <3>1, PrecedesItself DEF SameState
    <3> QED
      BY <2>2, <3>2, PrecedesStill
  <2>3. ASSUME NEW d \in Current, SameState(c, d), Creates(p, y)
        PROVE  FALSE
    BY <1>4, <1>5, <2>3 DEF SameState
  <2>4. ASSUME Creates(p, c), NEW z \in Current, SameState(y, z)
        PROVE  FALSE
    BY <1>4, <1>5, <2>4 DEF SameState
  <2>5. ASSUME Creates(p, c), Creates(p, y) \/ \E z \in Seen : SameState(y, z)
        PROVE  Precedes(y, c)'
    <3>1. y.retries = 0 /\ y.status = "pending"
      BY <1>5, <1>6, <2>5 DEF SameState
    <3>2. c.retries = 0
      BY <1>5, <2>5
    <3> QED
      BY <3>1, <3>2 DEF Precedes, Terminal
  <2> QED
    BY <1>2, <1>3, <2>1, <2>2, <2>3, <2>4, <2>5
<1> QED
  BY <1>7, <1>8

\* The operations that wait for the list still find what they have projected.
LEMMA OperationsStep ==
  ASSUME AttemptInv, OperationsFit, NEW p \in Procs, Busy(p), Continues(p),
         ListFollows(p) \/ live' = live, Busy(p)' => proc'[p].pc # "append",
         \A t \in Ids(live) : t \in Ids(live') \/ (Op(p) = "remove" /\ t = Target(p))
  PROVE  OperationsFit'
<1>1. /\ IdsAreFresh
      /\ \A q \in Procs : Busy(q) /\ Op(q) \in Locked => mu = q
  BY DEF AttemptInv, ProjectionsAreCurrent
<1>2. \A q \in Procs : Busy(q)' =>
         /\ Busy(q) /\ Op(q)' = Op(q) /\ proc'[q].item = proc[q].item /\ Target(q)' = Target(q)
         /\ proc'[q].event = proc[q].event
         /\ Pending(q)' => Pending(q)
         /\ proc'[q].pc = "append" => proc[q].pc = "append"
  BY DEF Continues, Busy, Op, Target, Pending
<1>3. ASSUME NEW q \in Procs, Pending(q)', Op(q)' \in Locked
      PROVE  /\ Target(q)' \in Ids(live')
             /\ \A x \in Range(live') : x.id = Target(q)' =>
                    Projects(Op(q)', x, proc'[q].item)
  <2>1. Pending(q) /\ Busy(q) /\ Op(q) \in Locked /\ Op(q)' = Op(q) /\ Target(q)' = Target(q)
        /\ proc'[q].item = proc[q].item
    BY <1>2, <1>3 DEF Pending
  <2>2. /\ Target(q) \in Ids(live)
        /\ \A x \in Range(live) : x.id = Target(q) => Projects(Op(q), x, proc[q].item)
    BY <2>1 DEF OperationsFit
  <2>3. Target(q) \in Ids(live')
    <3>1. ~(Op(p) = "remove" /\ Target(q) = Target(p))
      BY <2>1 DEF OperationsFit
    <3> QED
      BY <2>2, <3>1
  <2>4. ASSUME NEW x \in Range(live'), x.id = Target(q)
        PROVE  Projects(Op(q), x, proc[q].item)
    <3>1. CASE live' = live
      BY <2>2, <2>4, <3>1
    <3>2. CASE live' # live
      <4>1. q # p
        BY <1>3, <3>2 DEF Pending, Busy, Continues
      <4>2. ~Committed(p, x.id)
        BY <1>1, <2>1, <4>1 DEF Committed
      <4>3. ~(Creating(p) /\ SameState(x, proc[p].item))
        BY <1>1, <2>1, <2>4, <4>1 DEF IdsAreFresh, SameState, Target
      <4>4. PICK y \in Range(live) : SameState(x, y)
        BY <3>2, <4>2, <4>3 DEF ListFollows
      <4>5. Projects(Op(q), y, proc[q].item)
        BY <2>2, <2>4, <4>4 DEF SameState
      <4> QED
        BY <4>4, <4>5 DEF SameState, Projects
    <3> QED
      BY <3>1, <3>2
  <2> QED
    BY <2>1, <2>3, <2>4
<1>4. ASSUME NEW q \in Procs, NEW r \in Procs, Busy(q)', Op(q)' = "remove",
             Busy(r)', Op(r)' \in Locked
      PROVE  Target(q)' # Target(r)'
  BY <1>2, <1>4 DEF OperationsFit
<1>5. ASSUME NEW q \in Procs, Busy(q)'
      PROVE  /\ Op(q)' = "create" => proc'[q].item.status = "pending" /\ proc'[q].item.retries = 0
             /\ Op(q)' = "lease" => proc'[q].pc # "append"
             /\ proc'[q].event =
                    CASE Op(q)' = "retry" -> "reset" [] Op(q)' = "remove" -> "removed"
                      [] Op(q)' = "resolve" -> "resolution" [] OTHER -> "moved"
  <2>1. /\ Busy(q) /\ Op(q)' = Op(q) /\ proc'[q].item = proc[q].item
        /\ proc'[q].event = proc[q].event
        /\ proc'[q].pc = "append" => proc[q].pc = "append"
    BY <1>2, <1>5
  <2> QED
    BY <2>1 DEF OperationsFit
<1> QED
  BY <1>3, <1>4, <1>5 DEF OperationsFit

\* A step after the append of an operation keeps the invariant.
LEMMA EndingStep ==
  ASSUME AttemptInv, FirstLife, NEW p \in Procs, Busy(p), Continues(p), ~Pending(p)',
         ListFollows(p), Distinct(live'),
         \A t \in Ids(live) : t \in Ids(live') \/ (Op(p) = "remove" /\ t = Target(p)),
         Op(p) = "remove" /\ proc[p].pc = "apply" => Target(p) \notin Ids(live'),
         UNCHANGED <<next, admitted>>,
         keys \subseteq keys', KeysAreOfTasks',
         \A y \in Stored' : /\ \E z \in Seen : SameState(y, z)
                            /\ y \in Stored \/ (y.status \in Terminal => Finished(y.id)'),
         \A t : Finished(t) => Finished(t)'
  PROVE  FirstLife'
<1>1. /\ TypeOK /\ KeysAreOfTasks /\ OperationsFit /\ NewIdsAreUnseen
      /\ SeenPrecedes /\ EndingsAreKept /\ EndingsAreStored /\ admitted
  BY DEF AttemptInv, FirstLife
<1>2. NewIdsAreUnseen' /\ SeenPrecedes'
  BY <1>1, HistoryStep
<1>3. OperationsFit'
  BY <1>1, OperationsStep DEF Pending
<1>4. ASSUME NEW c \in Current'
      PROVE  (\E d \in Current : SameState(c, d)) \/ Creates(p, c)
  BY <1>1, CurrentFollows
<1>5. ASSUME NEW x, Creates(p, x)
      PROVE  x.status \notin Terminal /\ Creating(p) /\ x.id = Target(p)
  BY <1>1, <1>5 DEF Creates, Creating, Pending, SameState, Target, OperationsFit, Terminal
<1>6. Stored \subseteq Seen /\ Stored \subseteq Stored'
  BY <1>1, StatesTyped DEF Stored
<1>7. EndingsAreKept'
  <2> SUFFICES ASSUME NEW y \in Stored', NEW c \in Current', y.id = c.id,
                      y.retries = c.retries, y.status \in Terminal, ~Removing(c.id)'
               PROVE  Finished(c.id)'
    BY DEF EndingsAreKept
  <2>1. CASE y \notin Stored
    BY <2>1
  <2>2. CASE y \in Stored /\ Creates(p, c)
    <3>1. y.status = "pending"
      BY <1>1, <1>5, <1>6, <2>2 DEF NewIdsAreUnseen
    <3> QED
      BY <3>1 DEF Terminal
  <2>3. ASSUME y \in Stored, NEW d \in Current, SameState(c, d)
        PROVE  Finished(c.id)'
    <3>1. ~Removing(d.id)
      <4> SUFFICES ASSUME NEW q \in Procs, Busy(q), Op(q) = "remove", proc[q].pc = "apply",
                          Target(q) = c.id
                   PROVE  FALSE
        BY <2>3 DEF Removing, SameState
      <4>1. CASE q # p
        <5>1. proc'[q] = proc[q]
          BY <4>1 DEF Continues
        <5> QED
          BY <5>1 DEF Removing, Busy, Op, Target
      <4>2. CASE q = p
        <5>1. c \notin Range(live')
          BY <4>2 DEF Ids
        <5>2. PICK r \in Procs : Busy(r)' /\ Op(r)' \in Locked /\ c = proc'[r].item
          BY <5>1 DEF Current, Committed
        <5>3. Busy(r) /\ Op(r) \in Locked /\ c = proc[r].item
          BY <5>2 DEF Continues, Busy, Op
        <5> QED
          BY <1>1, <4>2, <5>3 DEF OperationsFit, Target
      <4> QED
        BY <4>1, <4>2
    <3>2. Finished(d.id)
      BY <1>1, <2>3, <3>1 DEF EndingsAreKept, SameState
    <3> QED
      BY <2>3, <3>2 DEF SameState
  <2> QED
    BY <1>4, <2>1, <2>2, <2>3
<1>8. EndingsAreStored'
  <2> SUFFICES ASSUME NEW c \in Current', c.status \in Terminal
               PROVE  \E y \in Stored' : SameState(y, c)
    BY DEF EndingsAreStored
  <2>1. PICK d \in Current : SameState(c, d)
    BY <1>4, <1>5
  <2>2. PICK y \in Stored : SameState(y, d)
    BY <1>1, <2>1 DEF EndingsAreStored, SameState
  <2> QED
    BY <1>6, <2>1, <2>2 DEF SameState
<1> QED
  BY <1>1, <1>2, <1>3, <1>7, <1>8 DEF FirstLife

\* What has been seen precedes what an operation makes of the newest state: a
\* finished task is moved only to "blocked" from "error" and on from
\* "protocol_incomplete", a resume takes unfinished tasks only, a retry counts
\* them, and a refresh of the gates has its own event.
LEMMA ProjectsOn ==
  ASSUME NEW x \in Item, NEW y \in Item, NEW new \in Item, NEW op \in Locked,
         Projects(op, x, new), Precedes(y, x), keys \subseteq keys', op = "gate" => Gated(y.id)'
  PROVE  Precedes(y, new)'
<1>1. x.retries \in Nat /\ y.retries \in Nat /\ new.retries \in Nat
  <2>1. /\ x.retries \in 0 .. MaxRetries /\ y.retries \in 0 .. MaxRetries
        /\ new.retries \in 0 .. MaxRetries
    BY ItemFields
  <2> QED
    BY <2>1, Bounds
<1>2. Gated(y.id) => Gated(y.id)'
  BY DEF Gated
<1>3. y.retries <= x.retries
  BY <1>1 DEF Precedes
<1>4. CASE op = "retry"
  <2>1. y.retries < new.retries
    BY <1>1, <1>3, <1>4 DEF Projects
  <2> QED
    BY <2>1 DEF Precedes
<1>5. CASE op = "gate"
  <2>1. new.retries = x.retries /\ Gated(y.id)'
    BY <1>5 DEF Projects
  <2> QED
    BY <2>1 DEF Precedes
<1>6. CASE op = "resume"
  <2>1. new.retries = x.retries /\ x.status \notin Terminal
    BY <1>6 DEF Projects
  <2>2. y.status \in Terminal /\ GoesOnTo(y.status, x.status) => GoesOnTo(y.status, new.status)
    BY <2>1 DEF GoesOnTo, Terminal
  <2> QED
    BY <1>2, <2>1, <2>2 DEF Precedes
<1>7. CASE op = "move"
  <2>1. new.retries = x.retries /\ Moves(x.status, new.status)
    BY <1>7 DEF Projects
  <2>2. y.status \in Terminal /\ GoesOnTo(y.status, x.status) => GoesOnTo(y.status, new.status)
    <3> SUFFICES ASSUME x.status \in Terminal, x.status # "protocol_incomplete"
                 PROVE  x.status = "error" /\ new.status = "blocked"
      BY DEF GoesOnTo, Terminal
    <3>1. x.status # new.status /\ CanTransition(x.status, new.status)
          /\ (new.status = "in_progress" => x.status \notin Terminal)
      BY <2>1 DEF Moves, Terminal
    <3>2. CASE x.status = "error"
      <4>1. new.status \in {"in_progress", "blocked"}
        BY <3>1, <3>2 DEF CanTransition
      <4> QED
        BY <3>1, <3>2, <4>1
    <3>3. CASE x.status = "blocked"
      <4>1. new.status \in {"in_progress"}
        BY <3>1, <3>3 DEF CanTransition
      <4> QED
        BY <3>1, <4>1
    <3>4. CASE x.status \in {"done", "skipped"}
      BY <3>1, <3>4 DEF CanTransition
    <3> QED
      BY <3>2, <3>3, <3>4 DEF Terminal
  <2> QED
    BY <1>2, <2>1, <2>2 DEF Precedes
<1> QED
  BY <1>4, <1>5, <1>6, <1>7 DEF Locked

\* The append of an operation's event keeps the invariant: what it stores is the
\* new state of the task, and from then on that is the newest.
LEMMA EndingStored ==
  ASSUME AttemptInv, FirstLife, NEW p \in Procs, At(p, "append"), Op(p) # "submit",
         Store(Event(proc[p].event, EventKey(p), proc[p].item), "stored"),
         Goto(p, "apply"), UNCHANGED <<live, next, mu, admitted>>
  PROVE  FirstLife'
<1> DEFINE item  == proc[p].item
           event == Event(proc[p].event, EventKey(p), item)
           own   == Shadow(item)
<1>1. /\ TypeOK /\ IdsAreFresh /\ Distinct(live) /\ KeysAreOfTasks /\ OperationsFit
      /\ NewIdsAreUnseen /\ SeenPrecedes /\ EndingsAreKept /\ EndingsAreStored /\ admitted
      /\ Uniform(replayed)
      /\ \A q \in Procs : Busy(q) /\ Op(q) \in Locked => mu = q
  BY DEF AttemptInv, FirstLife, ListsAreUniform, ProjectionsAreCurrent
<1>2. Busy(p) /\ proc[p] \in Working /\ proc[p].pc = "append" /\ Pending(p) /\ item \in Item
  BY <1>1, AtStep, WorkingFields DEF Pcs, Busy, Pending, At
<1>3. /\ \A q \in Procs \ {p} : proc'[q] = proc[q]
      /\ Busy(p)' /\ proc'[p].pc = "apply" /\ proc'[p].op = proc[p].op /\ proc'[p].item = item
      /\ proc'[p].snap = proc[p].snap /\ Op(p)' = Op(p) /\ Target(p)' = Target(p)
  <2>1. /\ proc'[p] = [proc[p] EXCEPT !.pc = "apply"]
        /\ \A q \in Procs \ {p} : proc'[q] = proc[q]
    BY <1>1, <1>2, GotoTyped DEF Pcs, Busy
  <2>2. [proc[p] EXCEPT !.pc = "apply"] # Idle
    BY <1>2 DEF Idle, Working
  <2> QED
    BY <1>2, <2>1, <2>2 DEF Busy, Op, Target, Working
<1>4. Continues(p)
  BY <1>1, <1>2, GotoContinues DEF Pcs
<1>5. OperationsFit'
  BY <1>1, <1>2, <1>3, <1>4, OperationsStep
<1>6. /\ event.item = item /\ event.key = EventKey(p) /\ event.kind = proc[p].event
      /\ own \in Item /\ SameState(own, item) /\ own.id = Target(p)
  BY <1>2, ShadowState, ShadowFields DEF Event, Target
<1>7. /\ keys' = keys \cup {EventKey(p)}
      /\ \/ EventKey(p) \in keys /\ UNCHANGED replayed
         \/ replayed' = Reduce(replayed, event)
  BY <1>6 DEF Store
<1>8. Op(p) \in {"move", "retry", "resume", "gate", "create", "remove", "resolve"}
  BY <1>1, <1>2, WorkingFields DEF OperationsFit, Operations, Locked, Op
<1>9. /\ Op(p) \in {"move", "retry", "resume", "create"} => EventKey(p) = <<"task", own>>
      /\ Op(p) \in {"gate", "remove", "resolve"} => EventKey(p)[1] # "task"
      /\ Op(p) = "gate" => EventKey(p)[1] = "gate" /\ EventKey(p)[2] = own
  BY DEF EventKey, TransitionKey
<1>10. /\ Op(p) \in {"move", "resume", "gate", "create"} => event.kind = "moved"
       /\ event.kind \in {"removed", "reset"} => Op(p) \in {"remove", "retry"}
  BY <1>1, <1>2, <1>6 DEF OperationsFit
<1> HIDE DEF event, own
<1>11. KeysAreOfTasks'
  <2>1. EventKey(p)[1] = "task" => EventKey(p)[2] \in Item
    BY <1>6, <1>8, <1>9
  <2> QED
    BY <1>1, <1>7, <2>1 DEF KeysAreOfTasks
<1>12. /\ \A y \in Stored' : y \in Stored \/ (y = own /\ EventKey(p) \notin keys
                                              /\ Op(p) \in {"move", "retry", "resume", "create"})
       /\ Stored \subseteq Stored'
       /\ Op(p) \in {"move", "retry", "resume", "create"} => own \in Stored'
  <2>1. ASSUME NEW y \in Stored'
        PROVE  y \in Stored \/ (y = own /\ EventKey(p) \notin keys
                                /\ Op(p) \in {"move", "retry", "resume", "create"})
    <3>1. PICK k \in keys' : k[1] = "task" /\ y = k[2]
      BY DEF Stored
    <3>2. CASE k \in keys
      BY <3>1, <3>2, StoredIs
    <3>3. CASE k \notin keys
      <4>1. k = EventKey(p) /\ EventKey(p) \notin keys
        BY <1>7, <3>3
      <4> QED
        BY <1>8, <1>9, <3>1, <4>1
    <3> QED
      BY <3>2, <3>3
  <2>2. Stored \subseteq Stored'
    BY <1>7 DEF Stored
  <2>3. Op(p) \in {"move", "retry", "resume", "create"} => own \in Stored'
    <3> SUFFICES ASSUME Op(p) \in {"move", "retry", "resume", "create"} PROVE own \in Stored'
      OBVIOUS
    <3>1. EventKey(p) \in keys' /\ EventKey(p)[1] = "task" /\ EventKey(p)[2] = own
      BY <1>7, <1>9
    <3> QED
      BY <3>1 DEF Stored
  <2> QED
    BY <2>1, <2>2, <2>3
<1>13. \A y \in Seen' : y \in Seen \/ (y = own /\ y \in Stored')
  <2> TAKE y \in Seen'
  <2>1. \/ y \in Stored' \/ y \in Range(live)
        \/ \E q \in Procs : Busy(q)' /\ y \in Range(proc'[q].snap)
    BY DEF Seen
  <2>2. ASSUME NEW q \in Procs, Busy(q)', y \in Range(proc'[q].snap)
        PROVE  y \in Seen
    <3>1. Busy(q) /\ proc'[q].snap = proc[q].snap
      BY <1>2, <1>3, <2>2 DEF Busy
    <3> QED
      BY <2>2, <3>1, SeenIs
  <2> QED
    BY <1>12, <2>1, <2>2, SeenIs
<1>14. \A c \in Current' :
          \/ c \in Current /\ (Op(p) \in Locked => c.id # Target(p))
          \/ c = item /\ Op(p) \in Locked
  <2> TAKE c \in Current'
  <2>1. \/ c \in Range(live) /\ \A q \in Procs : ~Committed(q, c.id)'
        \/ \E q \in Procs : Busy(q)' /\ Op(q)' \in Locked /\ proc'[q].pc = "apply"
                            /\ c = proc'[q].item
    BY DEF Current, Committed
  <2>2. CASE c \in Range(live) /\ \A q \in Procs : ~Committed(q, c.id)'
    <3>1. \A q \in Procs : ~Committed(q, c.id)
      <4> TAKE q \in Procs
      <4>1. CASE q = p
        BY <1>2, <4>1 DEF Committed
      <4>2. CASE q # p
        BY <1>3, <2>2, <4>2 DEF Committed, Busy, Op, Target
      <4> QED
        BY <4>1, <4>2
    <3>2. Op(p) \in Locked => c.id # Target(p)
      BY <1>3, <2>2 DEF Committed
    <3> QED
      BY <2>2, <3>1, <3>2, CurrentIs
  <2>3. ASSUME NEW q \in Procs, Busy(q)', Op(q)' \in Locked, proc'[q].pc = "apply",
               c = proc'[q].item
        PROVE  \/ c \in Current /\ Op(p) \notin Locked
               \/ c = item /\ Op(p) \in Locked
    <3>1. CASE q = p
      BY <1>3, <2>3, <3>1
    <3>2. CASE q # p
      <4>1. Busy(q) /\ Op(q) \in Locked /\ proc[q].pc = "apply" /\ c = proc[q].item
        BY <1>3, <2>3, <3>2 DEF Busy, Op
      <4>2. Op(p) \notin Locked
        BY <1>1, <1>2, <3>2, <4>1
      <4> QED
        BY <4>1, <4>2, CurrentIs
    <3> QED
      BY <3>1, <3>2
  <2> QED
    BY <2>1, <2>2, <2>3
<1>15. Op(p) \in Locked => \E x \in Current : x.id = Target(p) /\ Projects(Op(p), x, item)
  <2> SUFFICES ASSUME Op(p) \in Locked
               PROVE  \E x \in Current : x.id = Target(p) /\ Projects(Op(p), x, item)
    OBVIOUS
  <2>1. PICK x \in Range(live) : x.id = Target(p)
    BY <1>1, <1>2 DEF OperationsFit, Ids
  <2>2. Projects(Op(p), x, item)
    BY <1>1, <1>2, <2>1 DEF OperationsFit
  <2>3. \A q \in Procs : ~Committed(q, x.id)
    BY <1>1, <1>2 DEF Committed
  <2> QED
    BY <2>1, <2>2, <2>3, CurrentIs
<1>16. /\ Current \subseteq Item /\ Seen \subseteq Item /\ Stored \subseteq Seen
       /\ \A c, d \in Current : c.id = d.id => c = d
       /\ \A c \in Current, q \in Procs : Creating(q) => c.id # Target(q)
  BY <1>1, StatesTyped, CurrentIsOne
<1>17. Op(p) = "create" => Creating(p)
  BY <1>2 DEF Creating
<1>18. /\ item.id = Target(p) /\ own.id = item.id /\ own.status = item.status
       /\ own.retries = item.retries
  BY <1>6 DEF Target, SameState
<1> HIDE DEF item
<1>19. NewIdsAreUnseen'
  <2>1. ASSUME NEW y \in Seen'
        PROVE  y.id <= next
    BY <1>1, <1>2, <1>6, <1>13 DEF NewIdsAreUnseen, IdsAreFresh
  <2>2. ASSUME NEW q \in Procs, Creating(q)', NEW y \in Seen', y.id = Target(q)'
        PROVE  proc'[q].pc = "apply" /\ y.retries = 0 /\ y.status = "pending"
    <3>1. CASE q = p
      <4>1. Op(p) = "create" /\ Target(p)' = Target(p)
        BY <1>3, <2>2, <3>1 DEF Creating
      <4>2. y \notin Seen
        BY <1>1, <1>2, <1>17, <2>2, <3>1, <4>1 DEF NewIdsAreUnseen
      <4>3. item.status = "pending" /\ item.retries = 0
        BY <1>1, <1>2, <4>1 DEF OperationsFit, item
      <4> QED
        BY <1>3, <1>13, <1>18, <3>1, <4>2, <4>3
    <3>2. CASE q # p
      <4>1. proc'[q] = proc[q] /\ Creating(q) /\ Target(q)' = Target(q)
        BY <1>3, <2>2, <3>2 DEF Creating, Pending, Busy, Op, Target
      <4>2. Target(p) # Target(q)
        BY <1>1, <1>2, <3>2, <4>1 DEF IdsAreFresh
      <4>3. y \in Seen
        BY <1>6, <1>13, <2>2, <4>1, <4>2
      <4> QED
        BY <1>1, <2>2, <4>1, <4>3 DEF NewIdsAreUnseen
    <3> QED
      BY <3>1, <3>2
  <2> QED
    BY <2>1, <2>2 DEF NewIdsAreUnseen
<1>20. SeenPrecedes'
  <2> SUFFICES ASSUME NEW y \in Seen', NEW c \in Current', y.id = c.id
               PROVE  Precedes(y, c)'
    BY DEF SeenPrecedes
  <2>0. keys \subseteq keys' /\ SameState(y, y) /\ SameState(c, c)
    BY <1>7 DEF SameState
  <2>1. CASE y \in Seen /\ c \in Current
    BY <1>1, <2>0, <2>1, PrecedesStill DEF SeenPrecedes
  <2>2. CASE y = own /\ c = item
    BY <1>6, <2>0, <2>2, PrecedesItself, PrecedesStill
  <2>3. CASE y = own /\ y \notin Seen /\ c \in Current /\ c.id # Target(p)
    BY <1>6, <2>3
  <2>4. CASE y = own /\ y \notin Seen /\ Op(p) \notin Locked /\ c \in Current
    <3>1. y \notin Stored
      BY <1>16, <2>4
    <3>2. y \in Stored'
      BY <1>13, <2>4
    <3>3. Op(p) = "create"
      BY <1>12, <2>4, <3>1, <3>2 DEF Locked
    <3> QED
      BY <1>2, <1>6, <1>16, <1>17, <2>4, <3>3
  <2>5. CASE y \in Seen /\ c = item /\ Op(p) \in Locked
    <3>1. PICK x \in Current : x.id = Target(p) /\ Projects(Op(p), x, item)
      BY <1>15, <2>5
    <3>2. Precedes(y, x)
      BY <1>1, <1>18, <2>5, <3>1 DEF SeenPrecedes
    <3>3. Op(p) = "gate" => Gated(y.id)'
      <4> SUFFICES ASSUME Op(p) = "gate" PROVE Gated(y.id)'
        OBVIOUS
      <4>1. EventKey(p) \in keys' /\ EventKey(p)[1] = "gate" /\ EventKey(p)[2].id = y.id
        BY <1>7, <1>9, <1>18, <2>5
      <4> QED
        BY <4>1 DEF Gated
    <3>4. x \in Item /\ y \in Item /\ item \in Item
      BY <1>2, <1>16, <2>5
    <3> QED
      BY <2>0, <2>5, <3>1, <3>2, <3>3, <3>4, ProjectsOn
  <2> QED
    BY <1>13, <1>14, <2>1, <2>2, <2>3, <2>4, <2>5
<1>21. EndingsAreStored'
  <2> SUFFICES ASSUME NEW c \in Current', c.status \in Terminal
               PROVE  \E y \in Stored' : SameState(y, c)
    BY DEF EndingsAreStored
  <2>1. CASE c \in Current
    BY <1>1, <1>12, <2>1 DEF EndingsAreStored
  <2>2. CASE c = item /\ Op(p) \in Locked
    <3>1. PICK x \in Current : Projects(Op(p), x, item)
      BY <1>15, <2>2
    <3>2. Op(p) # "gate"
      BY <2>2, <3>1 DEF Projects, Terminal
    <3>3. own \in Stored'
      BY <1>12, <2>2, <3>2 DEF Locked
    <3> QED
      BY <1>6, <2>2, <3>3
  <2> QED
    BY <1>14, <2>1, <2>2
<1>22. \A t : Removing(t) => Removing(t)'
  <2> TAKE t
  <2> SUFFICES ASSUME NEW q \in Procs, Busy(q), Op(q) = "remove", proc[q].pc = "apply",
                      Target(q) = t
               PROVE  Removing(t)'
    BY DEF Removing
  <2>1. q # p
    BY <1>2
  <2> QED
    BY <1>3, <2>1 DEF Removing, Busy, Op, Target
<1>23. Op(p) = "remove" => \A t : t = Target(p) => Removing(t)'
  BY <1>3 DEF Removing
<1>24. Store(event, "stored")
  BY DEF event, item
<1>25. EndingsAreKept'
  <2> SUFFICES ASSUME NEW y \in Stored', NEW c \in Current', y.id = c.id,
                      y.retries = c.retries, y.status \in Terminal, ~Removing(c.id)'
               PROVE  Finished(c.id)'
    BY DEF EndingsAreKept
  <2>1. CASE y \notin Stored
    <3>1. /\ y = own /\ EventKey(p) \notin keys
          /\ Op(p) \in {"move", "retry", "resume", "create"}
      BY <1>12, <2>1
    <3>2. Op(p) = "move"
      <4>1. CASE Op(p) = "create"
        <5>1. item.status = "pending"
          BY <1>1, <1>2, <4>1 DEF OperationsFit, item
        <5> QED
          BY <1>18, <3>1, <5>1 DEF Terminal
      <4>2. CASE Op(p) \in {"retry", "resume"}
        <5>1. PICK x \in Current : Projects(Op(p), x, item)
          BY <1>15, <4>2 DEF Locked
        <5>2. item.status = "pending"
          BY <4>2, <5>1 DEF Projects
        <5> QED
          BY <1>18, <3>1, <5>2 DEF Terminal
      <4> QED
        BY <3>1, <4>1, <4>2
    <3>3. replayed' = Reduce(replayed, event) /\ event.kind = "moved"
      BY <1>7, <1>10, <3>1, <3>2
    <3>4. event.item \in Item /\ event.item.status \in Terminal /\ event.item.id = c.id
      BY <1>2, <1>6, <1>18, <3>1
    <3> QED
      BY <1>1, <3>3, <3>4, FinishedByEvent
  <2>2. CASE y \in Stored /\ c = item /\ Op(p) \in Locked
    <3>1. PICK x \in Current : x.id = Target(p) /\ Projects(Op(p), x, item)
      BY <1>15, <2>2
    <3>2. Op(p) # "retry"
      <4> SUFFICES ASSUME Op(p) = "retry" PROVE FALSE
        OBVIOUS
      <4>1. item.retries = x.retries + 1
        BY <3>1 DEF Projects
      <4>2. Precedes(y, x)
        BY <1>1, <1>16, <1>18, <2>2, <3>1 DEF SeenPrecedes
      <4>3. x.retries \in 0 .. MaxRetries /\ y.retries \in 0 .. MaxRetries
        BY <1>16, <2>2, ItemFields
      <4> QED
        BY <2>2, <4>1, <4>2, <4>3, Bounds DEF Precedes
    <3>3. item.retries = x.retries
      BY <2>2, <3>1, <3>2 DEF Projects, Locked
    <3>4. Finished(c.id)
      BY <1>1, <1>18, <1>22, <2>2, <3>1, <3>3 DEF EndingsAreKept
    <3>5. event.kind \notin {"removed", "reset"}
      BY <1>10, <2>2, <3>2 DEF Locked
    <3> QED
      BY <1>1, <1>2, <1>6, <1>24, <3>4, <3>5, FinishedStays
  <2>3. CASE y \in Stored /\ c \in Current /\ (Op(p) \in Locked => c.id # Target(p))
    <3>1. Finished(c.id)
      BY <1>1, <1>22, <2>3 DEF EndingsAreKept
    <3>2. event.item.id # c.id \/ event.kind \notin {"removed", "reset"}
      <4>1. CASE Op(p) = "remove"
        BY <1>6, <1>18, <1>23, <4>1
      <4>2. CASE Op(p) = "retry"
        BY <1>6, <1>18, <2>3, <4>2 DEF Locked
      <4> QED
        BY <1>10, <4>1, <4>2
    <3> QED
      BY <1>1, <1>2, <1>6, <1>24, <3>1, <3>2, FinishedStays
  <2> QED
    BY <1>14, <2>1, <2>2, <2>3
<1> QED
  BY <1>1, <1>5, <1>11, <1>19, <1>20, <1>21, <1>25 DEF FirstLife


\* How an operation changes the list: a lifecycle operation writes the state it
\* has committed, the others leave the states of the tasks as they are.
LEMMA ApplyFollows ==
  ASSUME AttemptInv, FirstLife, NEW p \in Procs, Apply(p)
  PROVE  /\ ListFollows(p) /\ Distinct(live')
         /\ \A t \in Ids(live) : t \in Ids(live') \/ (Op(p) = "remove" /\ t = Target(p))
         /\ Op(p) = "remove" => Target(p) \notin Ids(live')
<1> DEFINE item == proc[p].item
           current == Get(live, item.id)
<1>1. /\ TypeOK /\ IdsAreFresh /\ Distinct(live) /\ live \in Seq(Item)
      /\ \A q \in Procs : Busy(q) /\ Op(q) = "submit" => proc[q].pc # "apply"
  BY DEF AttemptInv, FirstLife, TypeOK, ProjectionsAreCurrent
<1>2. /\ Busy(p) /\ proc[p].pc = "apply" /\ item \in Item /\ item.id = Target(p)
      /\ Op(p) \in Operations /\ live' = Applied(p)
  BY <1>1, AtStep, WorkingFields DEF Apply, Pcs, Busy, At, Target, Op
<1> HIDE DEF item
<1>3. \A x : Committed(p, x.id) <=> Op(p) \in Locked /\ x.id = item.id
  BY <1>2 DEF Committed
<1>4. \A x : SameState(x, x)
  BY DEF SameState
<1>5. CASE Refuses(p)
  <2>1. live' = live
    BY <1>2, <1>5 DEF Applied
  <2>2. Op(p) \in Locked \cup {"remove"} => Target(p) \notin Ids(live)
    BY <1>5 DEF Refuses, Locked
  <2>3. \A x \in Range(live) : ~Committed(p, x.id)
    BY <1>2, <1>3, <2>2 DEF Ids
  <2> QED
    BY <1>1, <1>4, <2>1, <2>2, <2>3 DEF ListFollows
<1>6. CASE ~Refuses(p) /\ Op(p) = "create"
  <2>1. live' = Append(live, item)
    BY <1>2, <1>6 DEF Applied, item
  <2>2. Creating(p)
    BY <1>2, <1>6 DEF Creating, Pending
  <2>3. item.id \notin Ids(live)
    BY <1>1, <1>2, <2>2 DEF IdsAreFresh
  <2>4. Distinct(live') /\ Range(live') = Range(live) \cup {item} /\ Ids(live) \subseteq Ids(live')
    BY <1>1, <1>2, <2>1, <2>3, AppendDistinct, AppendToList
  <2>5. \A x : ~Committed(p, x.id)
    BY <1>3, <1>6 DEF Locked
  <2> QED
    BY <1>2, <1>4, <1>6, <2>2, <2>4, <2>5 DEF ListFollows, item
<1>7. CASE ~Refuses(p) /\ Op(p) = "remove"
  <2>1. live' = Without(live, item.id)
    BY <1>2, <1>7 DEF Applied, item
  <2>2. /\ Distinct(live') /\ item.id \notin Ids(live') /\ Range(live') \subseteq Range(live)
        /\ \A x \in Range(live) : x.id # item.id => x \in Range(live')
    BY <1>1, <2>1, WithoutDistinct, WithoutList
  <2>3. \A x : ~Committed(p, x.id)
    BY <1>3, <1>7 DEF Locked
  <2>4. \A t \in Ids(live) : t \in Ids(live') \/ t = item.id
    BY <2>2 DEF Ids
  <2> QED
    BY <1>2, <1>4, <1>7, <2>2, <2>3, <2>4 DEF ListFollows
<1>8. CASE ~Refuses(p) /\ Op(p) \in {"resolve", "lease"}
  <2>1. current \in Range(live) /\ current \in Item
    BY <1>1, <1>2, <1>8, GetIsThere, RangeOfList DEF Refuses
  <2>2. \E new \in Item : live' = Put(live, new) /\ SameState(new, current)
    <3>1. CASE Op(p) = "resolve"
      <4> DEFINE new == [current EXCEPT !.resolved = TRUE]
      <4>1. live' = Put(live, new)
        BY <1>2, <1>8, <3>1 DEF Applied, item
      <4>2. new \in Item /\ SameState(new, current)
        BY <2>1 DEF Item, SameState
      <4> QED
        BY <4>1, <4>2
    <3>2. CASE Op(p) = "lease"
      <4> DEFINE new == [current EXCEPT !.lease = item.lease, !.result = NoLease]
      <4>1. live' = Put(live, new)
        BY <1>2, <1>8, <3>2 DEF Applied, item
      <4>2. new \in Item /\ SameState(new, current)
        BY <1>2, <2>1, ItemFields, NoLeaseIsLease DEF Item, SameState
      <4> QED
        BY <4>1, <4>2
    <3> QED
      BY <1>8, <3>1, <3>2
  <2>3. PICK new \in Item : live' = Put(live, new) /\ SameState(new, current)
    BY <2>2
  <2> HIDE DEF current
  <2>4. /\ Distinct(live') /\ Ids(live') = Ids(live)
        /\ \A x \in Range(live') : x = new \/ x \in Range(live)
    BY <1>1, <2>3, PutDistinct, PutInList
  <2>5. \A x : ~Committed(p, x.id)
    BY <1>3, <1>8 DEF Locked
  <2> QED
    BY <1>4, <1>8, <2>1, <2>3, <2>4, <2>5 DEF ListFollows
<1>9. CASE ~Refuses(p) /\ Op(p) \in Locked
  <2>1. live' = Put(live, item)
    BY <1>2, <1>9 DEF Applied, item, Locked
  <2>2. /\ Distinct(live') /\ Ids(live') = Ids(live)
        /\ \A x \in Range(live') : x = item \/ (x \in Range(live) /\ x.id # item.id)
    BY <1>1, <1>2, <2>1, PutDistinct, PutInList
  <2>3. Op(p) # "remove"
    BY <1>9 DEF Locked
  <2>4. ListFollows(p)
    <3> SUFFICES ASSUME NEW x \in Range(live')
                 PROVE  \/ Committed(p, x.id) /\ SameState(x, proc[p].item)
                        \/ ~Committed(p, x.id) /\ \E y \in Range(live) : SameState(x, y)
      BY DEF ListFollows
    <3> QED
      BY <1>3, <1>4, <1>9, <2>2 DEF item
  <2> QED
    BY <2>2, <2>3, <2>4
<1> QED
  BY <1>1, <1>2, <1>5, <1>6, <1>7, <1>8, <1>9 DEF Operations, Locked

\* Where operation p is not about to write, it may leave the list alone.
LEMMA ListKeptFollows ==
  ASSUME NEW p \in Procs, proc[p].pc # "apply", live' = live
  PROVE  ListFollows(p)
BY DEF ListFollows, Committed, SameState

\* A step of operation p that appends nothing, elsewhere than at the list.
LEMMA EndingKept ==
  ASSUME AttemptInv, FirstLife, NEW p \in Procs, Busy(p), Continues(p), ~Pending(p)',
         proc[p].pc # "apply", UNCHANGED <<live, next, admitted, keys, replayed>>
  PROVE  FirstLife'
<1>1. ListFollows(p)
  BY ListKeptFollows
<1>2. TypeOK /\ Distinct(live') /\ KeysAreOfTasks /\ KeysAreOfTasks' /\ Stored' = Stored
  BY DEF AttemptInv, FirstLife, KeysAreOfTasks, Stored, Distinct
<1>3. \A y \in Stored : y \in Seen /\ SameState(y, y)
  BY <1>2, StatesTyped DEF SameState
<1>4. \A t : Finished(t) => Finished(t)'
  BY DEF Finished
<1> QED
  BY <1>1, <1>2, <1>3, <1>4, EndingStep


\* A checkpoint appends what a snapshot shows: states that have been seen.
LEMMA EndingEmitted ==
  ASSUME "lost" \notin Faults, AttemptInv, FirstLife, NEW p \in Procs, EmitMissing(p)
  PROVE  FirstLife'
<1> DEFINE item  == proc[p].snap[Min(Missing(p))]
           key   == TransitionKey(item)
           event == Event("moved", key, item)
           own   == Shadow(item)
<1>1. TypeOK /\ KeysAreOfTasks /\ Distinct(live) /\ Uniform(replayed)
  BY DEF AttemptInv, FirstLife, ListsAreUniform
<1>2. At(p, "emit") /\ Missing(p) # {} /\ UNCHANGED <<live, next, admitted>>
  BY DEF EmitMissing, boundVars
<1>3. Busy(p) /\ proc[p].pc = "emit" /\ proc[p] \in Working
  BY <1>1, <1>2, AtStep DEF Pcs, Busy, At
<1>4. item \in Item /\ item \in Range(proc[p].snap)
  BY <1>1, <1>2, FirstMissing
<1>5. PICK fate \in Fates :
         /\ Store(event, fate)
         /\ IF fate = "stored" THEN emitted' = emitted \cup {key} /\ UNCHANGED <<proc, mu>>
            ELSE Callback(p) /\ UNCHANGED emitted
  BY DEF EmitMissing
<1>6. Continues(p) /\ ~Pending(p)'
  <2>1. CASE UNCHANGED <<proc, mu>>
    BY <1>2, <1>3, <2>1 DEF Continues, Pending, Busy
  <2>2. CASE Callback(p)
    <3>1. proc'[p] = Idle \/ proc'[p] = [proc[p] EXCEPT !.pc = "revoke"]
      BY <1>1, <1>3, <2>2, CallbackTyped DEF Busy
    <3>2. [proc[p] EXCEPT !.pc = "revoke"].pc = "revoke"
      BY <1>3 DEF Working
    <3> QED
      BY <1>1, <1>3, <2>2, <3>1, <3>2, CallbackContinues DEF Pending, Busy
  <2> QED
    BY <1>5, <2>1, <2>2
<1>7. event.item = item /\ event.key = <<"task", own>> /\ event.kind = "moved"
  BY DEF Event, TransitionKey
<1>8. own \in Item /\ SameState(own, item) /\ item \in Seen
  BY <1>3, <1>4, ShadowFields, ShadowState, SeenIs
<1> HIDE DEF own, event, item
<1>9. \/ UNCHANGED <<keys, replayed>>
      \/ keys' = keys \cup {<<"task", own>>} /\ replayed' = Reduce(replayed, event)
  BY <1>5, <1>7 DEF Store
<1>10. keys \subseteq keys' /\ KeysAreOfTasks'
  <2>1. \A k \in keys' : k \in keys \/ k[2] = own
    BY <1>9
  <2> QED
    BY <1>1, <1>8, <1>9, <2>1 DEF KeysAreOfTasks
<1>11. \A y \in Stored' : y \in Stored \/ (y = own /\ replayed' = Reduce(replayed, event))
  <2> TAKE y \in Stored'
  <2>1. PICK k \in keys' : k[1] = "task" /\ y = k[2]
    BY DEF Stored
  <2>2. CASE k \in keys
    BY <2>1, <2>2, StoredIs
  <2>3. CASE k \notin keys
    <3>1. k = <<"task", own>> /\ replayed' = Reduce(replayed, event)
      BY <1>9, <2>3
    <3> QED
      BY <2>1, <3>1
  <2> QED
    BY <2>2, <2>3
<1>12. \A y \in Stored' : /\ \E z \in Seen : SameState(y, z)
                          /\ y \in Stored \/ (y.status \in Terminal => Finished(y.id)')
  <2> TAKE y \in Stored'
  <2>1. CASE y \in Stored
    BY <1>1, <2>1, StatesTyped DEF SameState
  <2>2. CASE y = own /\ replayed' = Reduce(replayed, event)
    <3>1. y.status = event.item.status /\ y.id = event.item.id
      BY <1>7, <1>8, <2>2 DEF SameState
    <3>2. \A t : t = event.item.id /\ y.status \in Terminal => Finished(t)'
      BY <1>1, <1>4, <1>7, <2>2, <3>1, FinishedByEvent
    <3>3. y.status \in Terminal => Finished(y.id)'
      BY <3>1, <3>2
    <3> QED
      BY <1>8, <2>2, <3>3
  <2> QED
    BY <1>11, <2>1, <2>2
<1>13. \A t : Finished(t) => Finished(t)'
  BY <1>1, <1>4, <1>5, <1>7, FinishedStays
<1>14. ListFollows(p) /\ Distinct(live')
  BY <1>1, <1>2, <1>3, ListKeptFollows
<1> QED
  BY <1>2, <1>3, <1>6, <1>10, <1>12, <1>13, <1>14, EndingStep

\* Every step of an operation keeps the invariant, if no append that is stored
\* reports an error.
LEMMA EndingWork ==
  ASSUME "lost" \notin Faults, AttemptInv, FirstLife, NEW p \in Procs, Work(p)
  PROVE  FirstLife'
<1>1. TypeOK /\ Distinct(live) /\ KeysAreOfTasks
  BY DEF AttemptInv, FirstLife
<1>2. {"append", "apply", "publish", "snapshot", "emit", "revoke"} = Pcs
  BY DEF Pcs
<1>3. \A pc \in Pcs : At(p, pc) => Busy(p) /\ proc[p] \in Working /\ proc[p].pc = pc
  BY <1>1, AtStep DEF Busy, At
<1>4. Stop(p) => Continues(p) /\ ~Pending(p)'
  BY <1>1, StopContinues, StopTyped DEF Pending, Busy
<1>5. ASSUME NEW pc \in Pcs \ {"append", "apply"}, Busy(p), Goto(p, pc), UNCHANGED mu
      PROVE  Continues(p) /\ ~Pending(p)'
  <2>1. proc'[p].pc = pc
    <3>1. proc'[p] = [proc[p] EXCEPT !.pc = pc] /\ proc[p] \in Working
      BY <1>1, <1>5, GotoTyped, AtWorks DEF Busy
    <3> QED
      BY <3>1 DEF Working
  <2> QED
    BY <1>1, <1>5, <2>1, GotoContinues DEF Pending
<1>6. ASSUME Busy(p), Callback(p)
      PROVE  Continues(p) /\ ~Pending(p)'
  BY <1>2, <1>4, <1>5, <1>6 DEF Callback
<1>7. CASE AppendEvent(p)
  <2>1. PICK fate \in Fates :
           /\ Store(Event(proc[p].event, EventKey(p), proc[p].item), fate)
           /\ IF fate = "stored" THEN Goto(p, "apply") /\ UNCHANGED mu ELSE Stop(p)
    BY <1>7 DEF AppendEvent
  <2>2. At(p, "append") /\ Op(p) # "submit" /\ UNCHANGED <<live, next, admitted>>
    BY <1>7 DEF AppendEvent, boundVars
  <2>3. CASE fate = "stored"
    BY <2>1, <2>2, <2>3, EndingStored
  <2>4. CASE fate # "stored"
    <3>1. fate = "refused"
      BY <2>4, ProjectionAssumption DEF Fates
    <3>2. UNCHANGED <<keys, replayed>>
      BY <2>1, <3>1 DEF Store
    <3> QED
      BY <1>2, <1>3, <1>4, <2>1, <2>2, <2>4, <3>2, EndingKept
  <2> QED
    BY <2>3, <2>4
<1>8. CASE Apply(p)
  <2>1. Busy(p) /\ Continues(p) /\ ~Pending(p)'
    BY <1>2, <1>3, <1>4, <1>5, <1>8 DEF Apply
  <2>2. UNCHANGED <<next, admitted, keys, replayed>>
    BY <1>8 DEF Apply, storeVars, boundVars
  <2>3. KeysAreOfTasks' /\ Stored' = Stored /\ keys \subseteq keys'
    BY <1>1, <2>2 DEF KeysAreOfTasks, Stored
  <2>4. \A y \in Stored : y \in Seen /\ SameState(y, y)
    BY <1>1, StatesTyped DEF SameState
  <2>5. \A t : Finished(t) => Finished(t)'
    BY <2>2 DEF Finished
  <2> QED
    BY <1>8, <2>1, <2>2, <2>3, <2>4, <2>5, ApplyFollows, EndingStep
<1>9. CASE TakeSnapshot(p)
  <2>1. proc[p] \in Working /\ Busy(p) /\ proc[p].pc = "snapshot"
    BY <1>2, <1>3, <1>9 DEF TakeSnapshot
  <2>2. /\ proc' = [proc EXCEPT ![p] = [proc[p] EXCEPT !.snap = live, !.pc = "emit"]]
        /\ UNCHANGED <<live, next, mu, admitted, keys, replayed>>
    BY <1>9 DEF TakeSnapshot, storeVars, boundVars
  <2>3. /\ \A q \in Procs \ {p} : proc'[q] = proc[q]
        /\ proc'[p] = [proc[p] EXCEPT !.snap = live, !.pc = "emit"]
    BY <1>1, <2>2 DEF TypeOK
  <2>4. /\ proc'[p].op = proc[p].op /\ proc'[p].item = proc[p].item
        /\ proc'[p].pc = "emit" /\ proc'[p].snap = live /\ proc'[p].event = proc[p].event
    BY <2>1, <2>3 DEF Working
  <2>5. Continues(p) /\ ~Pending(p)'
    BY <2>1, <2>2, <2>3, <2>4 DEF Continues, Busy, Pending
  <2> QED
    BY <2>1, <2>2, <2>5, EndingKept
<1>10. CASE EmitMissing(p)
  BY <1>10, EndingEmitted
<1>11. CASE SaveSession(p)
  <2>1. Busy(p) /\ proc[p].pc = "emit" /\ UNCHANGED <<live, next, admitted, keys, replayed>>
    BY <1>2, <1>3, <1>11 DEF SaveSession, boundVars
  <2> QED
    BY <1>6, <1>11, <2>1, EndingKept DEF SaveSession
<1>12. CASE Revoke(p)
  <2>1. Busy(p) /\ proc[p].pc = "revoke" /\ UNCHANGED <<live, next, admitted, keys, replayed>>
    BY <1>2, <1>3, <1>12 DEF Revoke, storeVars, boundVars
  <2> QED
    BY <1>4, <1>12, <2>1, EndingKept DEF Revoke
<1>13. CASE LatchResult(p)
  <2>1. Busy(p) /\ proc[p].pc = "append" /\ UNCHANGED <<live, next, admitted, keys, replayed>>
    BY <1>2, <1>3, <1>13 DEF LatchResult, storeVars, boundVars
  <2>2. (Goto(p, "publish") /\ UNCHANGED mu) \/ Stop(p)
    BY <1>13 DEF LatchResult
  <2> QED
    BY <1>2, <1>4, <1>5, <2>1, <2>2, EndingKept
<1>14. CASE PublishResult(p)
  <2>1. Busy(p) /\ proc[p].pc = "publish" /\ UNCHANGED <<next, admitted, keys, replayed>>
    BY <1>2, <1>3, <1>14 DEF PublishResult, storeVars, boundVars
  <2>2. CASE Owns(p) /\ control[Target(p)].result /\ HasLease(p)
    <3> DEFINE t == Target(p)
               current == Get(live, t)
               new == [current EXCEPT !.result = proc[p].item.lease]
    <3>1. live' = Put(live, new) /\ Goto(p, "snapshot") /\ UNCHANGED mu
      BY <1>14, <2>2 DEF PublishResult
    <3>2. current \in Range(live) /\ current \in Item
      BY <1>1, <2>2, GetIsThere, RangeOfList DEF HasLease, TypeOK
    <3>3. proc[p].item.lease \in Lease
      <4>1. proc[p].item \in Item
        BY <1>2, <1>3, <1>14, WorkingFields DEF PublishResult
      <4> QED
        BY <4>1, ItemFields
    <3> HIDE DEF current
    <3>4. new \in Item /\ SameState(new, current)
      BY <3>2, <3>3 DEF Item, SameState
    <3> HIDE DEF new
    <3>5. /\ Distinct(live') /\ Ids(live') = Ids(live)
          /\ \A x \in Range(live') : x = new \/ x \in Range(live)
      BY <1>1, <3>1, <3>4, PutDistinct, PutInList DEF TypeOK
    <3>6. \A x : SameState(x, x) /\ ~Committed(p, x.id)
      BY <2>1 DEF SameState, Committed
    <3>7. ListFollows(p)
      BY <3>2, <3>4, <3>5, <3>6 DEF ListFollows
    <3>8. Continues(p) /\ ~Pending(p)'
      BY <1>2, <1>5, <2>1, <3>1
    <3>9. KeysAreOfTasks' /\ Stored' = Stored /\ keys \subseteq keys'
      BY <1>1, <2>1 DEF KeysAreOfTasks, Stored
    <3>10. \A y \in Stored : y \in Seen /\ SameState(y, y)
      BY <1>1, StatesTyped DEF SameState
    <3>11. \A x : Finished(x) => Finished(x)'
      BY <2>1 DEF Finished
    <3> QED
      BY <2>1, <3>5, <3>7, <3>8, <3>9, <3>10, <3>11, EndingStep
  <2>3. CASE ~(Owns(p) /\ control[Target(p)].result /\ HasLease(p))
    <3>1. Stop(p) /\ UNCHANGED live
      BY <1>14, <2>3 DEF PublishResult
    <3> QED
      BY <1>4, <2>1, <3>1, EndingKept
  <2> QED
    BY <2>2, <2>3
<1> QED
  BY <1>7, <1>8, <1>9, <1>10, <1>11, <1>12, <1>13, <1>14 DEF Work

\* An operation begins with what the list shows, or with a new id.
LEMMA EndingStart ==
  ASSUME AttemptInv, FirstLife, NEW p \in Procs,
         NEW pc \in {"append", "apply"}, NEW op, NEW item \in Item, NEW event,
         Start(p, pc, op, item, event), UNCHANGED <<live, keys, replayed, admitted>>,
         op \in Locked => /\ pc = "append" /\ ~Under("remove", item.id)
                          /\ \E x \in Range(live) : x.id = item.id /\ Projects(op, x, item),
         op = "remove" => pc = "append" /\ \A q \in Procs : Busy(q) => Target(q) # item.id,
         op = "lease" => pc # "append",
         \/ next' = next /\ op # "create"
         \/ /\ next' = next + 1 /\ op = "create" /\ item.id = next' /\ pc = "append"
            /\ item.status = "pending" /\ item.retries = 0,
         event = CASE op = "retry" -> "reset" [] op = "remove" -> "removed"
                   [] op = "resolve" -> "resolution" [] OTHER -> "moved"
  PROVE  FirstLife'
<1>1. /\ TypeOK /\ IdsAreFresh /\ Uniform(live) /\ Distinct(live) /\ KeysAreOfTasks
      /\ OperationsFit /\ NewIdsAreUnseen /\ SeenPrecedes /\ EndingsAreKept
      /\ EndingsAreStored /\ admitted
  BY DEF AttemptInv, FirstLife, ListsAreUniform
<1> DEFINE new == [pc |-> pc, op |-> op, item |-> item, event |-> event, snap |-> << >>]
<1>2. proc'[p] = new /\ (\A q \in Procs \ {p} : proc'[q] = proc[q]) /\ ~Busy(p)
  BY <1>1 DEF Start, TypeOK, Busy
<1>3. /\ proc'[p].pc = pc /\ Op(p)' = op /\ proc'[p].item = item /\ proc'[p].event = event
      /\ proc'[p].snap = << >> /\ Target(p)' = item.id
  BY <1>2 DEF Op, Target
<1>4. Busy(p)'
  BY <1>2 DEF Busy, Idle
<1> HIDE DEF new
<1>5. \A q \in Procs \ {p} : /\ proc'[q] = proc[q] /\ Busy(q)' = Busy(q) /\ Op(q)' = Op(q)
                             /\ Target(q)' = Target(q) /\ Pending(q)' = Pending(q)
                             /\ Creating(q)' = Creating(q)
  BY <1>2 DEF Busy, Op, Target, Pending, Creating
<1>6. \A t : /\ \A q \in Procs : Committed(q, t)' => Committed(q, t) /\ q # p
             /\ \A q \in Procs : Committed(q, t) => Committed(q, t)'
  <2>1. ASSUME NEW t, NEW q \in Procs
        PROVE  /\ Committed(q, t)' => Committed(q, t) /\ q # p
               /\ Committed(q, t) => Committed(q, t)'
    <3>1. CASE q = p
      BY <1>2, <1>3, <3>1 DEF Committed
    <3>2. CASE q # p
      BY <1>5, <3>2 DEF Committed
    <3> QED
      BY <3>1, <3>2
  <2> QED
    BY <2>1
<1>7. \A c \in Current' : c \in Current
  <2> TAKE c \in Current'
  <2>1. \/ c \in Range(live) /\ \A q \in Procs : ~Committed(q, c.id)'
        \/ \E q \in Procs : Committed(q, Target(q))' /\ c = proc'[q].item
    BY DEF Current
  <2>2. CASE c \in Range(live) /\ \A q \in Procs : ~Committed(q, c.id)'
    BY <1>6, <2>2, CurrentIs
  <2>3. ASSUME NEW q \in Procs, Committed(q, Target(q))', c = proc'[q].item
        PROVE  c \in Current
    <3>1. q # p
      BY <1>3, <2>3 DEF Committed
    <3> QED
      BY <1>5, <2>3, <3>1, CurrentIs DEF Committed
  <2> QED
    BY <2>1, <2>2, <2>3
<1>8. Stored' = Stored /\ \A y \in Seen' : y \in Seen
  <2>1. Stored' = Stored
    BY DEF Stored
  <2>2. ASSUME NEW q \in Procs, Busy(q)', NEW y \in Range(proc'[q].snap)
        PROVE  y \in Seen
    <3>1. q # p
      BY <1>3, <2>2 DEF Range
    <3> QED
      BY <1>5, <2>2, <3>1, SeenIs
  <2>3. \A y \in Seen' : y \in Stored' \/ y \in Range(live)
                         \/ \E q \in Procs : Busy(q)' /\ y \in Range(proc'[q].snap)
    BY DEF Seen
  <2> QED
    BY <2>1, <2>2, <2>3, SeenIs
<1>9. \A t : Removing(t) => Removing(t)'
  <2> TAKE t
  <2> SUFFICES ASSUME NEW q \in Procs, Busy(q), Op(q) = "remove", proc[q].pc = "apply",
                      Target(q) = t
               PROVE  Removing(t)'
    BY DEF Removing
  <2> QED
    BY <1>2, <1>5 DEF Removing
<1>10. KeysAreOfTasks' /\ Distinct(live') /\ admitted'
  BY <1>1 DEF KeysAreOfTasks
<1>11. SeenPrecedes'
  <2>1. ASSUME NEW y \in Seen', NEW c \in Current', y.id = c.id
        PROVE  Precedes(y, c)'
    <3>1. Precedes(y, c) /\ SameState(y, y) /\ SameState(c, c)
      BY <1>1, <1>7, <1>8, <2>1 DEF SeenPrecedes, SameState
    <3> QED
      BY <3>1, PrecedesStill
  <2> QED
    BY <2>1 DEF SeenPrecedes
<1>12. EndingsAreKept'
  <2>1. \A t : Finished(t) => Finished(t)'
    BY DEF Finished
  <2>2. ASSUME NEW y \in Stored', NEW c \in Current', y.id = c.id, y.retries = c.retries,
               y.status \in Terminal, ~Removing(c.id)'
        PROVE  Finished(c.id)'
    BY <1>1, <1>7, <1>8, <1>9, <2>1, <2>2 DEF EndingsAreKept
  <2> QED
    BY <2>2 DEF EndingsAreKept
<1>13. EndingsAreStored'
  BY <1>1, <1>7, <1>8 DEF EndingsAreStored
<1>14. NewIdsAreUnseen'
  <2>1. next \in Nat /\ next' \in Nat /\ next <= next'
    BY <1>1, Bounds DEF TypeOK
  <2>2. \A y \in Seen : y.id \in Nat /\ y.id <= next
    <3>1. \A y \in Seen : y.id \in Tasks
      BY <1>1, StatesTyped, ItemFields
    <3> QED
      BY <1>1, <3>1, Bounds DEF NewIdsAreUnseen, Tasks
  <2>3. \A y \in Seen' : y.id <= next'
    BY <1>8, <2>1, <2>2
  <2>4. ASSUME NEW q \in Procs, Creating(q)', NEW y \in Seen', y.id = Target(q)'
        PROVE  proc'[q].pc = "apply" /\ y.retries = 0 /\ y.status = "pending"
    <3>1. CASE q = p
      <4>1. op = "create"
        BY <1>3, <2>4, <3>1 DEF Creating
      <4>2. y.id = next + 1
        BY <1>3, <2>4, <3>1, <4>1
      <4> QED
        BY <1>8, <2>1, <2>2, <4>2
    <3>2. CASE q # p
      BY <1>1, <1>5, <1>8, <2>4, <3>2 DEF NewIdsAreUnseen
    <3> QED
      BY <3>1, <3>2
  <2> QED
    BY <2>3, <2>4 DEF NewIdsAreUnseen
<1>15. OperationsFit'
  <2>1. ASSUME NEW q \in Procs, Pending(q)', Op(q)' \in Locked
        PROVE  /\ Target(q)' \in Ids(live')
               /\ \A x \in Range(live') : x.id = Target(q)' =>
                      Projects(Op(q)', x, proc'[q].item)
    <3>1. CASE q = p
      <4>1. PICK x \in Range(live) : x.id = item.id /\ Projects(op, x, item)
        BY <1>3, <2>1, <3>1
      <4>2. \A z \in Range(live) : z.id = item.id => z = x
        BY <1>1, <4>1 DEF Uniform
      <4> QED
        BY <1>3, <3>1, <4>1, <4>2 DEF Ids
    <3>2. CASE q # p
      BY <1>1, <1>5, <2>1, <3>2 DEF OperationsFit
    <3> QED
      BY <3>1, <3>2
  <2>2. ASSUME NEW q \in Procs, NEW r \in Procs, Busy(q)', Op(q)' = "remove",
               Busy(r)', Op(r)' \in Locked
        PROVE  Target(q)' # Target(r)'
    <3>1. CASE q = p
      <4>1. r # p
        BY <1>3, <2>2, <3>1 DEF Locked
      <4> QED
        BY <1>3, <1>5, <2>2, <3>1, <4>1
    <3>2. CASE q # p /\ r = p
      BY <1>3, <1>5, <2>2, <3>2 DEF Under, Busy
    <3>3. CASE q # p /\ r # p
      BY <1>1, <1>5, <2>2, <3>3 DEF OperationsFit
    <3> QED
      BY <3>1, <3>2, <3>3
  <2>3. ASSUME NEW q \in Procs, Busy(q)'
        PROVE  /\ Op(q)' = "create" =>
                      proc'[q].item.status = "pending" /\ proc'[q].item.retries = 0
               /\ Op(q)' = "lease" => proc'[q].pc # "append"
               /\ proc'[q].event =
                      CASE Op(q)' = "retry" -> "reset" [] Op(q)' = "remove" -> "removed"
                        [] Op(q)' = "resolve" -> "resolution" [] OTHER -> "moved"
    <3>1. CASE q = p
      BY <1>3, <3>1
    <3>2. CASE q # p
      BY <1>1, <1>5, <2>3, <3>2 DEF OperationsFit
    <3> QED
      BY <3>1, <3>2
  <2> QED
    BY <2>1, <2>2, <2>3 DEF OperationsFit
<1> QED
  BY <1>10, <1>11, <1>12, <1>13, <1>14, <1>15 DEF FirstLife


\* What an operation projects fits the task it has found.
LEMMA ProjectedFits ==
  ASSUME NEW item \in Item, NEW op \in Locked, NEW status \in AllStatuses,
         Applies(op, item, status)
  PROVE  Projects(op, item, Projected(op, item, status))
<1> DEFINE new == Projected(op, item, status)
<1>1. CASE op = "move"
  <2>1. new.status = status /\ new.retries = item.retries
    BY <1>1 DEF Projected, Item
  <2> QED
    BY <1>1, <2>1 DEF Projects, Applies
<1>2. CASE op = "retry"
  <2>1. new.status = "pending" /\ new.retries = item.retries + 1
    BY <1>2 DEF Projected, Item
  <2> QED
    BY <1>2, <2>1 DEF Projects
<1>3. CASE op = "resume"
  <2>1. new.status = "pending" /\ new.retries = item.retries
    BY <1>3 DEF Projected, Item
  <2>2. item.status \notin Terminal
    BY <1>3 DEF Applies, Terminal
  <2> QED
    BY <1>3, <2>1, <2>2 DEF Projects
<1>4. CASE op = "gate"
  <2>1. new.status = "pending" /\ new.retries = item.retries
    BY <1>4 DEF Projected, Item
  <2> QED
    BY <1>4, <2>1 DEF Projects
<1> QED
  BY <1>1, <1>2, <1>3, <1>4 DEF Locked

\* Every beginning of an operation keeps the invariant.
LEMMA EndingBegin ==
  ASSUME AttemptInv, FirstLife, NEW p \in Procs, Begin(p)
  PROVE  FirstLife'
<1>1. TypeOK /\ TypeOK'
  BY TypeBegin DEF AttemptInv
<1>2. \A x \in Range(live) : x \in Item
  BY <1>1, RangeOfList DEF TypeOK
<1>3. CASE BeginTransition(p)
  <2>1. PICK op \in Locked, item \in Range(live), status \in Statuses :
           /\ Applies(op, item, status) /\ ~Under("remove", item.id)
           /\ Start(p, "append", op, Projected(op, item, status),
                    IF op = "retry" THEN "reset" ELSE "moved")
    BY <1>3 DEF BeginTransition
  <2> DEFINE new == Projected(op, item, status)
             event == IF op = "retry" THEN "reset" ELSE "moved"
  <2>2. status \in AllStatuses
    BY ProjectionAssumption
  <2>3. new \in Item /\ new.id = item.id
    BY <1>2, <2>1, ProjectedTyped, ProjectedFields
  <2>4. Projects(op, item, new)
    BY <1>2, <2>1, <2>2, ProjectedFits
  <2>5. UNCHANGED <<live, keys, replayed, admitted, next>>
    BY <1>3 DEF BeginTransition, storeVars, boundVars
  <2>6. Start(p, "append", op, new, event)
    BY <2>1
  <2>7. /\ op \notin {"remove", "lease", "create", "resolve"}
        /\ event = CASE op = "retry" -> "reset" [] op = "remove" -> "removed"
                     [] op = "resolve" -> "resolution" [] OTHER -> "moved"
    BY DEF Locked
  <2>8. ~Under("remove", new.id)
    BY <2>1, <2>3
  <2> HIDE DEF new, event
  <2> QED
    BY <2>3, <2>4, <2>5, <2>6, <2>7, <2>8, EndingStart
<1>4. CASE BeginCreation(p)
  <2> DEFINE new == NewItem(next', ops')
  <2>1. /\ Start(p, "append", "create", new, "moved") /\ next' = next + 1
        /\ UNCHANGED <<live, keys, replayed, admitted>>
    BY <1>4 DEF BeginCreation, storeVars, boundVars
  <2>2. next' \in Tasks /\ ops' \in 0 .. MaxOps
    <3>1. next' \in 1 .. MaxTasks
      BY <1>1, <1>4, Bounds DEF BeginCreation, TypeOK
    <3> QED
      BY <1>1, <3>1 DEF TypeOK, Tasks
  <2>3. new \in Item /\ new.id = next' /\ new.status = "pending" /\ new.retries = 0
    BY <2>2, NewItemTyped DEF NewItem
  <2> HIDE DEF new
  <2> QED
    BY <2>1, <2>3, EndingStart DEF Locked
<1>5. CASE BeginRemoval(p)
  <2>1. PICK item \in Range(live) :
           /\ \A op \in Operations : ~Under(op, item.id)
           /\ Start(p, "append", "remove", item, "removed")
    BY <1>5 DEF BeginRemoval
  <2>2. UNCHANGED <<live, keys, replayed, admitted, next>>
    BY <1>5 DEF BeginRemoval, storeVars, boundVars
  <2>3. \A q \in Procs : Busy(q) => Target(q) # item.id
    <3>1. \A q \in Procs : Busy(q) => Op(q) \in Operations
      BY <1>1, AtWorks, WorkingFields DEF Busy, Op
    <3> QED
      BY <2>1, <3>1 DEF Under, Busy
  <2> QED
    BY <1>2, <2>1, <2>2, <2>3, EndingStart DEF Locked
<1>6. CASE BeginResolution(p)
  <2> DEFINE new(x) == [x EXCEPT !.resolved = TRUE]
  <2>1. PICK item \in Range(live) : Start(p, "append", "resolve", new(item), "resolution")
    BY <1>6 DEF BeginResolution
  <2>2. UNCHANGED <<live, keys, replayed, admitted, next>>
    BY <1>6 DEF BeginResolution, storeVars, boundVars
  <2>3. new(item) \in Item
    BY <1>2 DEF Item
  <2> HIDE DEF new
  <2> QED
    BY <2>1, <2>2, <2>3, EndingStart DEF Locked
<1>7. CASE OpenLease(p)
  <2> DEFINE lease(x) == [dispatch |-> dispatches', attempt |-> x.retries + 1]
             new(x)   == [x EXCEPT !.lease = lease(x)]
  <2>1. PICK item \in Range(live) :
           /\ dispatches' = dispatches + 1 /\ dispatches < MaxDispatches
           /\ Start(p, "apply", "lease", new(item), "moved")
    BY <1>7 DEF OpenLease
  <2>2. lease(item) \in Lease
    <3>1. item.retries \in 0 .. MaxRetries /\ dispatches \in 0 .. MaxDispatches
      BY <1>1, <1>2, ItemFields DEF TypeOK
    <3>2. item.retries + 1 \in 0 .. MaxRetries + 1 /\ dispatches' \in 0 .. MaxDispatches
      BY <2>1, <3>1, Bounds
    <3> QED
      BY <3>2 DEF Lease
  <2> HIDE DEF lease
  <2>3. new(item) \in Item
    BY <1>2, <2>2 DEF Item
  <2>4. UNCHANGED <<live, keys, replayed, admitted, next>>
    BY <1>7 DEF OpenLease, storeVars
  <2> HIDE DEF new
  <2> QED
    BY <2>1, <2>3, <2>4, EndingStart DEF Locked
<1>8. CASE BeginSubmission(p)
  <2> DEFINE new(x) == [x EXCEPT !.lease = control[x.id].lease]
  <2>1. PICK item \in Range(live) : Start(p, "append", "submit", new(item), "moved")
    BY <1>8 DEF BeginSubmission
  <2>2. control[item.id].lease \in Lease
    BY <1>1, <1>2, ItemFields DEF TypeOK
  <2>3. new(item) \in Item
    BY <1>2, <2>2 DEF Item
  <2>4. UNCHANGED <<live, keys, replayed, admitted, next>>
    BY <1>8 DEF BeginSubmission, storeVars, boundVars
  <2> HIDE DEF new
  <2> QED
    BY <2>1, <2>3, <2>4, EndingStart DEF Locked
<1> QED
  BY <1>3, <1>4, <1>5, <1>6, <1>7, <1>8 DEF Begin

\* At the beginning every task is planned, and journaled.
LEMMA EndingInit == Init => EndingInv
<1> SUFFICES ASSUME Init PROVE FirstLife
  BY DEF EndingInv
<1>1. \A p \in Procs : ~Busy(p)
  BY DEF Init, Busy
<1>2. /\ admitted /\ live = [t \in 1 .. Planned |-> NewItem(t, 0)]
      /\ keys = {TransitionKey(item) : item \in Range(live)} /\ next = Planned
  BY DEF Init
<1>3. /\ Range(live) = {NewItem(t, 0) : t \in 1 .. Planned} /\ Range(live) \subseteq Item
      /\ \A x \in Range(live) : x.status = "pending" /\ x.retries = 0 /\ x.id <= next
  <2>1. \A t \in 1 .. Planned : NewItem(t, 0) \in Item
    BY NewItemTyped, Bounds DEF Tasks
  <2>2. \A t \in 1 .. Planned :
           NewItem(t, 0).status = "pending" /\ NewItem(t, 0).retries = 0 /\ NewItem(t, 0).id = t
    BY DEF NewItem
  <2>3. Range(live) = {NewItem(t, 0) : t \in 1 .. Planned}
    BY <1>2 DEF Range
  <2> QED
    BY <1>2, <2>1, <2>2, <2>3, Bounds
<1>4. \A x \in Range(live) : Shadow(x) = x
  <2>1. \A x \in Item : x.lease = NoLease => [x EXCEPT !.lease = NoLease] = x
    BY DEF Item
  <2>2. \A t : NewItem(t, 0).lease = NoLease
    BY DEF NewItem
  <2> QED
    BY <1>3, <2>1, <2>2 DEF Shadow
<1>5. Stored = Range(live) /\ Seen = Range(live) /\ Current = Range(live)
  <2>1. \A k \in keys : \E x \in Range(live) : k = <<"task", x>>
    BY <1>2, <1>4 DEF TransitionKey
  <2>2. \A x \in Range(live) : <<"task", x>> \in keys
    BY <1>2, <1>4 DEF TransitionKey
  <2>3. \A k \in keys : k[1] = "task" /\ k[2] \in Range(live)
    BY <2>1
  <2>4. \A x \in Range(live) : <<"task", x>>[1] = "task" /\ <<"task", x>>[2] = x
    OBVIOUS
  <2>5. Stored = Range(live)
    BY <2>2, <2>3, <2>4 DEF Stored
  <2> QED
    BY <1>1, <2>5 DEF Seen, Current, Committed
<1>6. KeysAreOfTasks
  BY <1>3, <1>5 DEF KeysAreOfTasks, Stored
<1>7. Distinct(live)
  <2>1. DOMAIN live = 1 .. Planned /\ \A t \in 1 .. Planned : live[t].id = t
    BY <1>2 DEF NewItem
  <2> QED
    BY <2>1 DEF Distinct
<1>8. OperationsFit /\ NewIdsAreUnseen
  BY <1>1, <1>3, <1>5 DEF OperationsFit, NewIdsAreUnseen, Pending, Creating
<1>9. \A x, y \in Range(live) : x.retries = y.retries /\ x.status \notin Terminal
  BY <1>3 DEF Terminal
<1>10. SeenPrecedes /\ EndingsAreKept /\ EndingsAreStored
  BY <1>5, <1>9 DEF SeenPrecedes, Precedes, EndingsAreKept, EndingsAreStored
<1> QED
  BY <1>2, <1>6, <1>7, <1>8, <1>10 DEF FirstLife

\* The invariant of the first lifetime of the process gives the property: an
\* ending the list shows is stored, nothing has reopened its copy, and an ending
\* the copy shows instead is of a state that precedes it.
LEMMA EndingInvReplays ==
  ASSUME AttemptInv, JournalInv, FirstLife
  PROVE  TerminalReplays
<1>1. /\ TypeOK /\ Uniform(replayed) /\ KeysAreOfTasks /\ SeenPrecedes /\ EndingsAreKept
      /\ EndingsAreStored
      /\ \A p \in Procs : Busy(p) /\ Op(p) = "submit" => proc[p].pc # "apply"
  BY DEF AttemptInv, FirstLife, ListsAreUniform, ProjectionsAreCurrent
<1> SUFFICES ASSUME NEW item \in Range(live), item.status \in Terminal, ~Between(item.id)
             PROVE  /\ item.id \in Ids(replayed)
                    /\ LET copy == Get(replayed, item.id) IN
                       \/ copy.status = item.status
                       \/ copy.status \in Terminal /\ EndedOtherwise(item, copy.status)
  BY DEF TerminalReplays
<1>2. item \in Item /\ item \in Current /\ ~Removing(item.id)
  <2>1. \A p \in Procs : ~Committed(p, item.id)
    BY DEF Committed, Between, At
  <2>2. ~Removing(item.id)
    BY DEF Removing, Between, At
  <2> QED
    BY <1>1, <2>1, <2>2, CurrentIs, RangeOfList DEF TypeOK
<1>3. PICK y \in Stored : SameState(y, item)
  BY <1>1, <1>2 DEF EndingsAreStored
<1>4. Finished(item.id)
  BY <1>1, <1>2, <1>3 DEF EndingsAreKept, SameState
<1> DEFINE copy == Get(replayed, item.id)
<1>5. /\ item.id \in Ids(replayed) /\ copy \in Range(replayed) /\ copy.id = item.id
      /\ copy.status \in Terminal
  <2>1. PICK x \in Range(replayed) : x.id = item.id /\ x.status \in Terminal
    BY <1>4 DEF Finished
  <2>2. item.id \in Ids(replayed)
    BY <2>1 DEF Ids
  <2>3. copy \in Range(replayed) /\ copy.id = item.id
    BY <2>2, GetIsThere
  <2> QED
    BY <1>1, <2>1, <2>2, <2>3 DEF Uniform
<1> HIDE DEF copy
<1>6. PICK k \in keys : k[1] = "task" /\ k[2].id = item.id /\ k[2].status = copy.status
  BY <1>5 DEF JournalInv, ReplayedIsJournaled, Ended
<1>7. Precedes(k[2], item)
  <2>1. k[2] \in Stored
    BY <1>6, StoredIs
  <2>2. k[2] \in Seen
    BY <1>1, <2>1, StatesTyped
  <2> QED
    BY <1>1, <1>2, <1>6, <2>2 DEF SeenPrecedes
<1>8. copy.status = item.status \/ EndedOtherwise(item, copy.status)
  <2>1. CASE k[2].retries < item.retries
    BY <1>6, <2>1 DEF EndedOtherwise
  <2>2. CASE Gated(item.id)
    BY <2>2 DEF Gated, EndedOtherwise
  <2>3. CASE copy.status = "protocol_incomplete"
    BY <1>6, <2>3 DEF EndedOtherwise
  <2>4. CASE copy.status = "error" /\ item.status = "blocked"
    <3>1. CanTransition("error", "blocked")
      BY DEF CanTransition
    <3> QED
      BY <1>6, <2>4, <3>1 DEF EndedOtherwise
  <2> QED
    BY <1>5, <1>6, <1>7, <2>1, <2>2, <2>3, <2>4 DEF Precedes, GoesOnTo
<1> QED
  BY <1>5, <1>8 DEF copy

\* What the list shows as finished replays as finished, until the process is
\* restarted: whatever delayed saves append of earlier states (reduceToTodoList),
\* with the same ending unless the journal has another that came before it.
THEOREM EndingsReplay ==
  ASSUME "lost" \notin Faults
  PROVE  Spec => [](restarts = 0 => TerminalReplays)
<1>1. AttemptInv /\ EndingInv /\ [Next]_vars => EndingInv'
  <2> SUFFICES ASSUME AttemptInv, EndingInv, [Next]_vars PROVE EndingInv'
    OBVIOUS
  <2>1. CASE UNCHANGED vars
    <3>1. Stored' = Stored /\ Seen' = Seen /\ Current' = Current
      BY <2>1 DEF vars, Stored, Seen, Current, Committed, Busy, Op, Target
    <3>2. \A y, c : Precedes(y, c)' <=> Precedes(y, c)
      BY <2>1 DEF vars, Precedes, Gated
    <3>3. \A t : (Finished(t)' <=> Finished(t)) /\ (Removing(t)' <=> Removing(t))
      BY <2>1 DEF vars, Finished, Removing, Busy, Op, Target
    <3>4. OperationsFit => OperationsFit'
      BY <2>1 DEF vars, OperationsFit, Pending, Busy, Op, Target
    <3>5. NewIdsAreUnseen => NewIdsAreUnseen'
      BY <2>1, <3>1 DEF vars, NewIdsAreUnseen, Creating, Pending, Busy, Op, Target
    <3>6. KeysAreOfTasks => KeysAreOfTasks'
      BY <2>1 DEF vars, KeysAreOfTasks
    <3>7. /\ SeenPrecedes => SeenPrecedes'
          /\ EndingsAreKept => EndingsAreKept'
          /\ EndingsAreStored => EndingsAreStored'
      BY <3>1, <3>2, <3>3 DEF SeenPrecedes, EndingsAreKept, EndingsAreStored
    <3> QED
      BY <2>1, <3>4, <3>5, <3>6, <3>7 DEF vars, EndingInv, FirstLife
  <2>2. ASSUME NEW p \in Procs, Begin(p) PROVE EndingInv'
    <3>1. restarts' = restarts
      BY <2>2 DEF Begin, BeginTransition, BeginCreation, BeginRemoval, BeginResolution,
                  OpenLease, BeginSubmission, boundVars
    <3> QED
      BY <2>2, <3>1, EndingBegin DEF EndingInv
  <2>3. ASSUME NEW p \in Procs, Work(p) PROVE EndingInv'
    <3>1. restarts' = restarts
      BY <2>3 DEF Work, AppendEvent, Apply, TakeSnapshot, EmitMissing, SaveSession, Revoke,
                  LatchResult, PublishResult, boundVars
    <3> QED
      BY <2>3, <3>1, EndingWork DEF EndingInv
  <2>4. CASE Restart
    <3>1. restarts' = restarts + 1 /\ restarts \in Nat
      BY <2>4 DEF Restart, AttemptInv, TypeOK
    <3> QED
      BY <3>1 DEF EndingInv
  <2> QED
    BY <2>1, <2>2, <2>3, <2>4 DEF Next
<1>2. AttemptInv /\ JournalInv /\ EndingInv => (restarts = 0 => TerminalReplays)
  BY EndingInvReplays DEF EndingInv
<1> QED
  BY EndingInit, <1>1, <1>2, AttemptAlways, JournalAlways, PTL DEF Spec
=============================================================================
