----------------------------- MODULE EventStore -----------------------------
(***************************************************************************)
(* The hash-chained event journal of a workspace: the events table of      *)
(* runtime.sqlite, and the EventStore handles through which processes      *)
(* append to it (internal/team/event_store*.go, internal/eventchain,       *)
(* internal/runtimestore).                                                 *)
(*                                                                         *)
(* A handle keeps the journal it last validated and serves reads from it.  *)
(* Every append runs under the handle's one-token semaphore and, for the   *)
(* database, inside one IMMEDIATE transaction, in which it first validates *)
(* what other writers have committed.  SQLite is the environment: a        *)
(* transaction is atomic, one writer holds a file at a time, and the end   *)
(* of a process rolls its open transaction back.  Each handle is in a      *)
(* process of its own; several callers may share a handle.                 *)
(***************************************************************************)
EXTENDS Integers, Sequences, FiniteSets

CONSTANTS
    Handles,        \* EventStore values, one in each process
    Callers,        \* goroutines that call them
    HandleOf,       \* HandleOf[c]: the handle c calls
    NoCaller,
    Keys,           \* idempotency identities, of a branch and a key
    Data,           \* what events say
    Requests,       \* the batches callers append: sequences of [key, data]
    NoKey,          \* the empty idempotency key
    Strict,         \* keys of decision events, replayed only with equal content
    MaxCalls,       \* bound on the appends requested
    MaxFiles,       \* bound on the database files the path comes to name
    MaxRewrites,    \* bound on the updates and deletes of stored events
    Faults          \* what the environment may do, a subset of AllFaults

AllFaults == {
    "cancel",       \* a caller's context ends while it waits
    "crash",        \* a process dies
    "write",        \* an insert, or an index beside it, fails
    "commit",       \* COMMIT returns an error, its effect unknown
    "rewrite",      \* a stored event is updated or deleted, which triggers count
    "bypass",       \* the last event is changed with the triggers bypassed
    "replace",      \* the path comes to name another file
    "openfail" }    \* runtimestore.Open fails while a handle reopens the path

ASSUME StoreAssumption ==
    /\ HandleOf \in [Callers -> Handles]
    /\ NoCaller \notin Callers
    /\ MaxCalls \in Nat /\ MaxFiles \in Nat \ {0} /\ MaxRewrites \in Nat
    /\ Faults \subseteq AllFaults

ASSUME RequestsAssumption ==
    /\ Requests \subseteq Seq([key : Keys, data : Data]) \ {<<>>}
    /\ NoKey \in Keys /\ Strict \subseteq Keys

Files   == 1..MaxFiles
NoFile  == 0
NoEvent == <<0, 0>>     \* the head of an empty journal
AnyHead == <<0, 1>>     \* an append that expects no particular head

VARIABLES
    path,           \* the file runtime.sqlite names
    events,         \* events[f]: the rows of file f by sequence number
    meta,           \* event_journal_meta.rewrites of each file
    writer,         \* the caller whose transaction holds the file's write lock
    closed,         \* EventStore.closed, also of a handle whose process died
    store,          \* the file EventStore.store has open
    stateValid,     \* EventStore.stateValid
    cachedEvents,   \* EventStore.cachedEvents, and all that is derived from it
    rewrites,       \* EventStore.rewrites
    mu,             \* the caller that holds EventStore.mu
    pc,             \* where each caller stands
    call,           \* what it asked for
    calls,          \* appends requested so far
    got,            \* the events the caller's last append returned
    acked,          \* history: ids of every event an append returned
    refused         \* history: appends that returned a definite error

files   == <<path, events, meta, writer>>
handle  == <<closed, store, stateValid, cachedEvents, rewrites>>
answers == <<got, acked, refused>>
vars    == <<files, handle, mu, pc, call, calls, answers>>

-----------------------------------------------------------------------------
(* The chain.  A row is good while its hash matches its content.           *)

Last(s) == s[Len(s)]

\* A variant that forgets the empty journal.
LastID(s) == IF s = <<>> THEN <<>> ELSE Last(s).id

\* lastEventID.
HeadID(s) == IF s = <<>> THEN NoEvent ELSE Last(s).id

\* loadEvents with eventchain.Verifier: the rows after position n follow each
\* other without a gap, link to the event head, and match their hashes.
Continues(rows, n, head) ==
    LET tail == {p \in DOMAIN rows : p > n} IN
    /\ tail = (n + 1)..(n + Cardinality(tail))
    /\ \A p \in tail :
        /\ rows[p].good
        /\ rows[p].prev = (IF p = n + 1 THEN head ELSE rows[p - 1].id)

Sound(rows) == Continues(rows, 0, NoEvent)

\* The rows of a sound journal, as a handle caches them.
Journal(rows) == [p \in 1..Cardinality(DOMAIN rows) |-> rows[p]]

\* prepareEvent over a batch: stamped, and chained onto the head.
Prepared(n, batch, head) ==
    [i \in 1..Len(batch) |->
        [id   |-> <<n, i>>,
         prev |-> IF i = 1 THEN head ELSE <<n, i - 1>>,
         key  |-> batch[i].key,
         data |-> batch[i].data,
         good |-> TRUE]]

\* insertEvent for each member, at the sequence numbers after the cache.
Inserted(rows, n, new) ==
    [p \in DOMAIN rows \cup (n + 1)..(n + Len(new)) |->
        IF p - n \in DOMAIN new THEN new[p - n] ELSE rows[p]]

\* A variant that trusts the counter alone.
RewrittenByCounter(h) == meta[store[h]] # rewrites[h]

\* A variant that looks at the head row alone.
RewrittenByHead(h) ==
    LET n == Len(cachedEvents[h]) IN
    n > 0 /\ ~(n \in DOMAIN events[store[h]] /\ events[store[h]][n] = cachedEvents[h][n])

\* prefixRewritten: the counter moved, or the validated head is not what is
\* stored.
PrefixRewritten(h) ==
    LET n == Len(cachedEvents[h]) IN
    \/ meta[store[h]] # rewrites[h]
    \/ n > 0 /\ ~(/\ n \in DOMAIN events[store[h]]
                  /\ events[store[h]][n] = cachedEvents[h][n])

-----------------------------------------------------------------------------
(* Idempotency: the cached event that already bears a requested key.       *)

Known(h, e) == e.key # NoKey /\ \E i \in DOMAIN cachedEvents[h] :
                                    cachedEvents[h][i].key = e.key
Durable(h, e) == cachedEvents[h][CHOOSE i \in DOMAIN cachedEvents[h] :
                                    cachedEvents[h][i].key = e.key]

\* prepareEventBatch: members of a larger batch need distinct keys.
WellKeyed(batch) ==
    Len(batch) > 1 => \A i, j \in DOMAIN batch :
        batch[i].key # NoKey /\ (i # j => batch[i].key # batch[j].key)

\* A variant that does not ask whether the known events are one batch.
ReplaysScattered(h, batch) ==
    \A i \in DOMAIN batch :
        /\ Known(h, batch[i])
        /\ batch[i].key \in Strict \/ Len(batch) > 1
               => Durable(h, batch[i]).data = batch[i].data

\* replayedEventBatch: every member is known, with the content asked for where
\* content counts, and the known events are one batch.
Replays(h, batch) ==
    /\ \A i \in DOMAIN batch :
        /\ Known(h, batch[i])
        /\ batch[i].key \in Strict \/ Len(batch) > 1
               => Durable(h, batch[i]).data = batch[i].data
    /\ \A i \in 2..Len(batch) :
        Durable(h, batch[i]).prev = Durable(h, batch[i - 1]).id

IsFresh(h, batch) == WellKeyed(batch) /\ \A i \in DOMAIN batch : ~Known(h, batch[i])

-----------------------------------------------------------------------------
Idle == [n |-> 0, batch |-> <<>>, head |-> AnyHead, seen |-> 0]

Init ==
    /\ path = 1
    /\ events = [f \in Files |-> <<>>]
    /\ meta = [f \in Files |-> 0]
    /\ writer = [f \in Files |-> NoCaller]
    /\ closed = [h \in Handles |-> FALSE]
    /\ store = [h \in Handles |-> 1]
    /\ stateValid = [h \in Handles |-> TRUE]
    /\ cachedEvents = [h \in Handles |-> <<>>]
    /\ rewrites = [h \in Handles |-> 0]
    /\ mu = [h \in Handles |-> NoCaller]
    /\ pc = [c \in Callers |-> "idle"]
    /\ call = [c \in Callers |-> Idle]
    /\ calls = 0
    /\ got = [c \in Callers |-> <<>>]
    /\ acked = {}
    /\ refused = {}

Goto(c, l) == pc' = [pc EXCEPT ![c] = l]

\* invalidateState: nothing derived from unvalidated rows remains.
Invalidate(h) ==
    /\ stateValid' = [stateValid EXCEPT ![h] = FALSE]
    /\ cachedEvents' = [cachedEvents EXCEPT ![h] = <<>>]

\* publishState, with the rewrite counter read before the rows.
Publish(h, rows, counter) ==
    /\ stateValid' = [stateValid EXCEPT ![h] = TRUE]
    /\ cachedEvents' = [cachedEvents EXCEPT ![h] = Journal(rows)]
    /\ rewrites' = [rewrites EXCEPT ![h] = counter]

Unlock(c) == writer' = [f \in Files |-> IF writer[f] = c THEN NoCaller ELSE writer[f]]

\* A variant without the release of the semaphore.
LeaveHolding(c) ==
    /\ Goto(c, "idle")
    /\ call' = [call EXCEPT ![c] = Idle]
    /\ Unlock(c)
    /\ UNCHANGED <<path, meta, mu, calls>>

\* The deferred rollback and release of a call that ends.
Leave(c) ==
    /\ Goto(c, "idle")
    /\ call' = [call EXCEPT ![c] = Idle]
    /\ mu' = [mu EXCEPT ![HandleOf[c]] = IF @ = c THEN NoCaller ELSE @]
    /\ Unlock(c)
    /\ UNCHANGED <<path, meta, calls>>

\* The call fails and has changed nothing.
Refuse(c) ==
    /\ Leave(c)
    /\ refused' = refused \cup {call[c].n}
    /\ UNCHANGED <<events, got, acked>>

\* The call returns result.
Answer(c, result) ==
    /\ Leave(c)
    /\ got' = [got EXCEPT ![c] = result]
    /\ acked' = acked \cup {result[i].id : i \in DOMAIN result}
    /\ UNCHANGED <<events, refused>>

-----------------------------------------------------------------------------
(* Calls.                                                                  *)

\* AppendPersisted and AppendPersistedContext; with a head, AppendPersistedAtHead
\* and AppendPersistedBatchAtHead by a caller that has just read the journal
\* (ReadEvents).
Request(c, batch, atHead) ==
    /\ pc[c] = "idle" /\ calls < MaxCalls
    /\ atHead => stateValid[HandleOf[c]] /\ mu[HandleOf[c]] = NoCaller
    /\ calls' = calls + 1
    /\ call' = [call EXCEPT ![c] =
           [n |-> calls + 1, batch |-> batch, seen |-> 0,
            head |-> IF atHead THEN HeadID(cachedEvents[HandleOf[c]]) ELSE AnyHead]]
    /\ got' = [got EXCEPT ![c] = <<>>]
    /\ Goto(c, "waiting")
    /\ UNCHANGED <<files, handle, mu, acked, refused>>

\* VerifyHashChain.
Verify(c) ==
    /\ pc[c] = "idle" /\ ~closed[HandleOf[c]] /\ mu[HandleOf[c]] = NoCaller
    /\ mu' = [mu EXCEPT ![HandleOf[c]] = c]
    /\ Goto(c, "recovering")
    /\ UNCHANGED <<files, handle, call, calls, answers>>

\* acquire.
Admit(c) ==
    LET h == HandleOf[c] IN
    /\ pc[c] = "waiting" /\ mu[h] = NoCaller
    /\ ~closed[h]
    /\ mu' = [mu EXCEPT ![h] = c]
    /\ Goto(c, IF stateValid[h] THEN "checking" ELSE "recovering")
    /\ UNCHANGED <<files, handle, call, calls, answers>>

AdmitClosed(c) ==
    /\ pc[c] = "waiting" /\ mu[HandleOf[c]] = NoCaller
    /\ closed[HandleOf[c]]
    /\ Refuse(c)
    /\ UNCHANGED handle

\* The context ends while the call waits for the semaphore or the connection.
GiveUp(c) ==
    /\ "cancel" \in Faults
    /\ pc[c] \in {"waiting", "beginning"}
    /\ Refuse(c)
    /\ UNCHANGED handle

-----------------------------------------------------------------------------
(* reload.                                                                 *)

\* reopenIfReplaced, and the counter is read before the rows.
ReadRewrites(c) ==
    LET h == HandleOf[c] IN
    /\ pc[c] = "recovering" /\ store[h] # NoFile
    /\ store' = [store EXCEPT ![h] = path]
    /\ call' = [call EXCEPT ![c].seen = meta[path]]
    /\ Goto(c, "loading")
    /\ UNCHANGED <<files, closed, stateValid, cachedEvents, rewrites, mu, calls, answers>>

\* The stale connection is closed first, so a failed open leaves none.
ReopenFails(c) ==
    LET h == HandleOf[c] IN
    /\ "openfail" \in Faults
    /\ pc[c] = "recovering" /\ store[h] \notin {NoFile, path}
    /\ store' = [store EXCEPT ![h] = NoFile]
    /\ Invalidate(h)
    /\ Refuse(c)
    /\ UNCHANGED <<closed, rewrites>>

\* EventStore.store is nil.
NoDatabase(c) ==
    /\ pc[c] = "recovering" /\ store[HandleOf[c]] = NoFile
    /\ Invalidate(HandleOf[c])
    /\ Refuse(c)
    /\ UNCHANGED <<closed, store, rewrites>>

\* loadFullState validates the whole journal; an append then goes on.
LoadRows(c) ==
    LET h == HandleOf[c] IN
    /\ pc[c] \in {"loading", "opening"}
    /\ Sound(events[store[h]])
    /\ Publish(h, events[store[h]], call[c].seen)
    /\ IF call[c].batch # <<>>
       THEN Goto(c, "checking") /\ UNCHANGED <<files, mu, call, calls, answers>>
       ELSE Leave(c) /\ UNCHANGED <<events, answers>>
    /\ UNCHANGED <<closed, store>>

\* A broken journal is refused; NewEventStore then returns no handle.
LoadFails(c) ==
    LET h == HandleOf[c] IN
    /\ pc[c] \in {"loading", "opening"}
    /\ ~Sound(events[store[h]])
    /\ Invalidate(h)
    /\ closed' = [closed EXCEPT ![h] = pc[c] = "opening"]
    /\ store' = [store EXCEPT ![h] = IF pc[c] = "opening" THEN NoFile ELSE @]
    /\ Refuse(c)
    /\ UNCHANGED rewrites

-----------------------------------------------------------------------------
(* appendPersistedEvents.                                                  *)

\* CheckCurrent: the path still names the file the handle has open.
CheckCurrent(c) ==
    /\ pc[c] = "checking" /\ store[HandleOf[c]] = path
    /\ Goto(c, "beginning")
    /\ UNCHANGED <<files, handle, mu, call, calls, answers>>

RefuseReplaced(c) ==
    /\ pc[c] = "checking" /\ store[HandleOf[c]] # path
    /\ Invalidate(HandleOf[c])
    /\ Refuse(c)
    /\ UNCHANGED <<closed, store, rewrites>>

\* A variant with a deferred transaction, which does not wait for other writers.
BeginDeferred(c) ==
    /\ pc[c] = "beginning"
    /\ Goto(c, "syncing")
    /\ UNCHANGED <<files, handle, mu, call, calls, answers>>

\* BEGIN IMMEDIATE waits for the write lock, up to the busy timeout.
Begin(c) ==
    LET f == store[HandleOf[c]] IN
    /\ pc[c] = "beginning" /\ writer[f] = NoCaller
    /\ writer' = [writer EXCEPT ![f] = c]
    /\ Goto(c, "syncing")
    /\ UNCHANGED <<path, events, meta, handle, mu, call, calls, answers>>

Busy(c) ==
    /\ pc[c] = "beginning" /\ writer[store[HandleOf[c]]] # NoCaller
    /\ Refuse(c)
    /\ UNCHANGED handle

\* A variant that appends from the head it remembers.
SyncSkipped(c) ==
    /\ pc[c] = "syncing" /\ ~PrefixRewritten(HandleOf[c])
    /\ Goto(c, "synced")
    /\ UNCHANGED <<files, handle, mu, call, calls, answers>>

\* syncCommittedEvents: what other writers committed is validated and merged.
SyncTail(c) ==
    LET h == HandleOf[c]
        n == Len(cachedEvents[h])
        rows == events[store[h]]
        tail == {p \in DOMAIN rows : p > n} IN
    /\ pc[c] = "syncing" /\ ~PrefixRewritten(h)
    /\ Continues(rows, n, HeadID(cachedEvents[h]))
    /\ cachedEvents' = [cachedEvents EXCEPT ![h] =
           [p \in 1..(n + Cardinality(tail)) |-> IF p > n THEN rows[p] ELSE @[p]]]
    /\ Goto(c, "synced")
    /\ UNCHANGED <<files, closed, store, stateValid, rewrites, mu, call, calls, answers>>

\* A rewrite of the validated prefix revalidates everything.
SyncAll(c) ==
    LET h == HandleOf[c] IN
    /\ pc[c] = "syncing" /\ PrefixRewritten(h)
    /\ Sound(events[store[h]])
    /\ Publish(h, events[store[h]], meta[store[h]])
    /\ Goto(c, "synced")
    /\ UNCHANGED <<files, closed, store, mu, call, calls, answers>>

\* failClosed on a journal that does not validate.
SyncFails(c) ==
    LET h == HandleOf[c] IN
    /\ pc[c] = "syncing"
    /\ ~(IF PrefixRewritten(h)
         THEN Sound(events[store[h]])
         ELSE Continues(events[store[h]], Len(cachedEvents[h]), HeadID(cachedEvents[h])))
    /\ Invalidate(h)
    /\ Refuse(c)
    /\ UNCHANGED <<closed, store, rewrites>>

\* A variant that does not look at the head.
AnyHeadAccepted(c) == call[c].head \in Nat \X Nat

AtExpectedHead(c) == call[c].head \in {AnyHead, HeadID(cachedEvents[HandleOf[c]])}

\* ErrEventHeadChanged.
HeadChanged(c) ==
    /\ pc[c] = "synced" /\ ~AtExpectedHead(c)
    /\ Refuse(c)
    /\ UNCHANGED handle

\* The request was recorded before: its durable events are the answer.
Replay(c) ==
    LET h == HandleOf[c] batch == call[c].batch IN
    /\ pc[c] = "synced" /\ AtExpectedHead(c)
    /\ Replays(h, batch)
    /\ Answer(c, [i \in 1..Len(batch) |-> Durable(h, batch[i])])
    /\ UNCHANGED handle

\* ErrEventBatchConflict and ErrDecisionIdempotencyConflict.
Conflict(c) ==
    LET h == HandleOf[c] IN
    /\ pc[c] = "synced" /\ AtExpectedHead(c)
    /\ ~Replays(h, call[c].batch) /\ ~IsFresh(h, call[c].batch)
    /\ Refuse(c)
    /\ UNCHANGED handle

\* A variant that does not ask whether the keys are known.
StagedUnchecked(c) == pc[c] = "synced" /\ AtExpectedHead(c)

\* The batch is staged: nothing earlier in the call stands in its way.
Staged(c) ==
    /\ pc[c] = "synced" /\ AtExpectedHead(c)
    /\ IsFresh(HandleOf[c], call[c].batch)

New(c) == Prepared(call[c].n, call[c].batch, HeadID(cachedEvents[HandleOf[c]]))

Write(c) ==
    LET f == store[HandleOf[c]] IN
    events' = [events EXCEPT ![f] = Inserted(@, Len(cachedEvents[HandleOf[c]]), New(c))]

Commit(c) ==
    /\ Staged(c)
    /\ Write(c)
    /\ Unlock(c)
    /\ Goto(c, "committed")
    /\ UNCHANGED <<path, meta, handle, mu, call, calls, answers>>

\* A variant without the rollback.
WriteFailsKeepsRows(c) ==
    /\ "write" \in Faults
    /\ Staged(c)
    /\ Write(c)
    /\ Leave(c)
    /\ Invalidate(HandleOf[c])
    /\ refused' = refused \cup {call[c].n}
    /\ UNCHANGED <<closed, store, rewrites, got, acked>>

\* An insert or persistRunReport fails: the transaction is rolled back.
WriteFails(c) ==
    /\ "write" \in Faults
    /\ Staged(c)
    /\ Invalidate(HandleOf[c])
    /\ Refuse(c)
    /\ UNCHANGED <<closed, store, rewrites>>

\* A variant that publishes the batch before it knows the outcome.
CommitFailsPublished(c) ==
    LET h == HandleOf[c] IN
    /\ "commit" \in Faults
    /\ Staged(c)
    /\ Write(c) \/ UNCHANGED events
    /\ Leave(c)
    /\ cachedEvents' = [cachedEvents EXCEPT ![h] = @ \o New(c)]
    /\ UNCHANGED <<closed, store, stateValid, rewrites, answers>>

\* Commit returns an error, with the rows written or not.
CommitFails(c) ==
    /\ "commit" \in Faults
    /\ Staged(c)
    /\ Write(c) \/ UNCHANGED events
    /\ Leave(c)
    /\ Invalidate(HandleOf[c])
    /\ UNCHANGED <<closed, store, rewrites, answers>>

\* The committed events join the handle's cache.
Finish(c) ==
    LET h == HandleOf[c] IN
    /\ pc[c] = "committed"
    /\ cachedEvents' = [cachedEvents EXCEPT ![h] = @ \o New(c)]
    /\ Answer(c, New(c))
    /\ UNCHANGED <<closed, store, stateValid, rewrites>>

-----------------------------------------------------------------------------
(* Handles and their processes.                                            *)

\* NewEventStore, in the process that comes after the one that ended.
Open(c) ==
    LET h == HandleOf[c] IN
    /\ closed[h] /\ mu[h] = NoCaller
    /\ \A d \in Callers : HandleOf[d] = h => pc[d] = "idle"
    /\ mu' = [mu EXCEPT ![h] = c]
    /\ closed' = [closed EXCEPT ![h] = FALSE]
    /\ store' = [store EXCEPT ![h] = path]
    /\ Invalidate(h)
    /\ call' = [call EXCEPT ![c].seen = meta[path]]
    /\ Goto(c, "opening")
    /\ UNCHANGED <<files, rewrites, calls, answers>>

\* Close: validated state stays readable.
Close(h) ==
    /\ mu[h] = NoCaller /\ ~closed[h]
    /\ closed' = [closed EXCEPT ![h] = TRUE]
    /\ store' = [store EXCEPT ![h] = NoFile]
    /\ UNCHANGED <<files, stateValid, cachedEvents, rewrites, mu, pc, call, calls, answers>>

\* The process of h dies; its transaction, if any, is rolled back.
Crash(h) ==
    LET died == {c \in Callers : HandleOf[c] = h} IN
    /\ "crash" \in Faults
    /\ ~closed[h]
    /\ closed' = [closed EXCEPT ![h] = TRUE]
    /\ store' = [store EXCEPT ![h] = NoFile]
    /\ Invalidate(h)
    /\ mu' = [mu EXCEPT ![h] = NoCaller]
    /\ writer' = [f \in Files |-> IF writer[f] \in died THEN NoCaller ELSE writer[f]]
    /\ pc' = [c \in Callers |-> IF c \in died THEN "idle" ELSE pc[c]]
    /\ call' = [c \in Callers |-> IF c \in died THEN Idle ELSE call[c]]
    /\ UNCHANGED <<path, events, meta, rewrites, calls, answers>>

-----------------------------------------------------------------------------
(* What happens to the file.                                               *)

\* The triggers count every update and delete of a stored event.
Rewrite ==
    /\ "rewrite" \in Faults
    /\ writer[path] = NoCaller /\ meta[path] < MaxRewrites
    /\ \E p \in DOMAIN events[path] :
        \/ events' = [events EXCEPT ![path][p].good = FALSE]
        \/ events' = [events EXCEPT ![path] =
                          [q \in DOMAIN @ \ {p} |-> @[q]]]
    /\ meta' = [meta EXCEPT ![path] = @ + 1]
    /\ UNCHANGED <<path, writer, handle, mu, pc, call, calls, answers>>

Bypass ==
    /\ "bypass" \in Faults
    /\ writer[path] = NoCaller
    /\ Sound(events[path]) /\ events[path] # <<>>
    /\ events' = [events EXCEPT ![path][Cardinality(DOMAIN events[path])].good = FALSE]
    /\ UNCHANGED <<path, meta, writer, handle, mu, pc, call, calls, answers>>

\* The path comes to name a new file, or a copy of the journal's beginning.
\* What only the file it no longer names holds is lost with it.
Replace ==
    /\ "replace" \in Faults
    /\ path < MaxFiles
    /\ path' = path + 1
    /\ \E n \in 0..Cardinality(DOMAIN events[path]) :
        LET kept == [p \in DOMAIN events[path] \cap 1..n |-> events[path][p]] IN
        /\ events' = [events EXCEPT ![path + 1] = kept]
        /\ acked' = acked \cap {kept[p].id : p \in DOMAIN kept}
    /\ meta' = [meta EXCEPT ![path + 1] = meta[path]]
    /\ UNCHANGED <<writer, handle, mu, pc, call, calls, got, refused>>

-----------------------------------------------------------------------------
Step(c) ==
    \/ Admit(c) \/ AdmitClosed(c)
    \/ ReadRewrites(c) \/ NoDatabase(c) \/ LoadRows(c) \/ LoadFails(c)
    \/ CheckCurrent(c) \/ RefuseReplaced(c) \/ Begin(c) \/ Busy(c)
    \/ SyncTail(c) \/ SyncAll(c) \/ SyncFails(c)
    \/ HeadChanged(c) \/ Replay(c) \/ Conflict(c) \/ Commit(c) \/ Finish(c)

Failure(c) == GiveUp(c) \/ ReopenFails(c) \/ WriteFails(c) \/ CommitFails(c)

Next ==
    \/ \E c \in Callers : \/ \E r \in Requests, atHead \in BOOLEAN : Request(c, r, atHead)
                          \/ Verify(c) \/ Open(c) \/ Step(c) \/ Failure(c)
    \/ \E h \in Handles : Close(h) \/ Crash(h)
    \/ Rewrite \/ Bypass \/ Replace

Spec == Init /\ [][Next]_vars

\* A goroutine that can go on does; waiters on the semaphore are served in
\* their order, so none is passed over forever.
FairSpec == Spec /\ \A c \in Callers : SF_vars(Step(c))

-----------------------------------------------------------------------------
(* Properties.                                                             *)

RowIds == Nat \X Nat
Rows   == [id : RowIds, prev : RowIds, key : Keys, data : Data, good : BOOLEAN]
Calls  == [n : 0..MaxCalls, batch : Requests \cup {<<>>}, head : RowIds, seen : Nat]
Labels == {"idle", "waiting", "recovering", "loading", "opening", "checking",
           "beginning", "syncing", "synced", "committed"}

\* A table is a function from finitely many sequence numbers to rows.
IsTable(rows) ==
    /\ rows = [p \in DOMAIN rows |-> rows[p]]
    /\ IsFiniteSet(DOMAIN rows) /\ DOMAIN rows \in SUBSET (Nat \ {0})
    /\ \A p \in DOMAIN rows : rows[p] \in Rows

FilesType ==
    /\ path \in Files
    /\ events = [f \in Files |-> events[f]]
    /\ \A f \in Files : IsTable(events[f])
    /\ meta \in [Files -> Nat]
    /\ writer \in [Files -> Callers \cup {NoCaller}]

HandlesType ==
    /\ closed \in [Handles -> BOOLEAN]
    /\ store \in [Handles -> Files \cup {NoFile}]
    /\ stateValid \in [Handles -> BOOLEAN]
    /\ cachedEvents \in [Handles -> Seq(Rows)]
    /\ rewrites \in [Handles -> Nat]
    /\ mu \in [Handles -> Callers \cup {NoCaller}]

CallersType ==
    /\ pc \in [Callers -> Labels]
    /\ call \in [Callers -> Calls]
    /\ calls \in 0..MaxCalls
    /\ got \in [Callers -> Seq(Rows)]
    /\ acked \subseteq RowIds
    /\ refused \subseteq 0..MaxCalls

\* The state has the shape the code's types give it.
TypeOK == FilesType /\ HandlesType /\ CallersType

StoredIds(f) == {events[f][p].id : p \in DOMAIN events[f]}

\* TestEventJournalKeepsOneEventPerIdempotencyIdentity, for every interleaving
\* of writers, retries after unknown commits, crashes and rewrites: no two
\* events of a journal bear one idempotency key.  The unique index is not
\* modelled; the appends alone must ensure it.
OneEventPerKey ==
    \A f \in Files : \A p, q \in DOMAIN events[f] :
        p # q /\ events[f][p].key # NoKey => events[f][p].key # events[f][q].key

\* "It never extends a damaged chain" (EventStore): events are added only to a
\* journal that is sound at that moment, and leave it sound.
ExtendsOnlySoundJournal ==
    [][\A f \in Files :
        path' = path /\ ~(DOMAIN events'[f] \subseteq DOMAIN events[f])
            => Sound(events[f]) /\ Sound(events'[f])]_vars

\* AppendPersistedAtHead: a conditional append lands directly after the head its
\* caller read, whatever others appended in between.
ConditionalAppendsFollowTheirHead ==
    [][\A c \in Callers, f \in Files : \A p \in DOMAIN events'[f] :
        path' = path /\ p \notin DOMAIN events[f]
            /\ events'[f][p].id = <<call[c].n, 1>> /\ call[c].head # AnyHead
            => /\ events'[f][p].prev = call[c].head
               /\ call[c].head \in StoredIds(f) \cup {NoEvent}]_vars

\* What ReadEvents lets the readers of an open handle see, whenever it gets the
\* semaphore, is the beginning of the journal the handle has open: never an
\* event that is not committed, nor events out of order.
ReadersSeeTheJournal ==
    \A h \in Handles : stateValid[h] /\ ~closed[h] /\ mu[h] = NoCaller =>
        \A i \in DOMAIN cachedEvents[h] :
            /\ i \in DOMAIN events[store[h]]
            /\ cachedEvents[h][i] = events[store[h]][i]

\* An event an append returned to its caller is in the journal of the path.
AcknowledgedIsDurable == acked \subseteq StoredIds(path)

\* An append that returns a definite error has stored nothing; only a failed
\* commit leaves the outcome open.
RefusedLeavesNothing ==
    \A f \in Files : \A e \in StoredIds(f) : e[1] \notin refused

\* An append answers with the whole batch it was asked for, as one unbroken
\* stretch of the chain, also when an earlier call recorded it.
AnswersAreWhole ==
    [][\A c \in Callers : got'[c] # got[c] /\ got'[c] # <<>> =>
        LET batch == call[c].batch IN
        /\ Len(got'[c]) = Len(batch)
        /\ \A i \in DOMAIN batch :
            /\ got'[c][i].key = batch[i].key
            /\ got'[c][i].data = batch[i].data
                 \/ (Len(batch) = 1 /\ batch[i].key \notin Strict)
            /\ i > 1 => got'[c][i].prev = got'[c][i - 1].id]_vars

\* A known key is answered only with events the journal still holds, also when
\* stored events were rewritten or deleted behind the handle's back.
ReplaysOnlyWhatIsStored ==
    [][\A c \in Callers : pc[c] = "synced" /\ got'[c] # got[c] =>
        \A i \in DOMAIN got'[c] : \E p \in DOMAIN events[store[HandleOf[c]]] :
            events[store[HandleOf[c]]][p] = got'[c][i]]_vars

\* Every call returns, however many wait for the semaphore and the write lock.
CallsReturn == \A c \in Callers : pc[c] # "idle" ~> pc[c] = "idle"

\* The store keeps the promise of EventLog while nobody but the store touches
\* the file.
Log == INSTANCE EventLog WITH log <- Journal(events[path]), acked <- acked
ImplementsLog == Log!Spec
=============================================================================
