------------------------ MODULE EventStoreRefinement ------------------------
(***************************************************************************)
(* What EventStore guarantees while nobody tampers with stored events: its *)
(* readers see the journal, and the journal is the log of EventLog.        *)
(***************************************************************************)
EXTENDS EventStoreSafety

\* Nobody updates or deletes stored events, with the triggers or behind them.
Untampered == Faults \cap {"rewrite", "bypass"} = {}

\* Nor does the path come to name another file.
Undisturbed == Faults \cap {"rewrite", "bypass", "replace"} = {}

-----------------------------------------------------------------------------
(* No counter moves and no row goes bad *)

CleanFiles == \A f \in Files : /\ meta[f] = 0
                               /\ \A p \in DOMAIN events[f] : events[f][p].good
CleanInv == /\ CleanFiles
            /\ \A h \in Handles : rewrites[h] = 0
            /\ \A c \in Callers : call[c].seen = 0

LEMMA CleanCommit ==
    ASSUME StoreInv, CleanInv, NEW c \in Callers, Commit(c) \/ CommitFails(c)
    PROVE  CleanFiles'
<1> DEFINE f == store[HandleOf[c]]
<1>1. /\ TypeOK /\ f \in Files /\ Cached(c) = events[f]
      /\ Chained(Cached(c) \o New(c))
      /\ Inserted(events[f], Len(Cached(c)), New(c)) = Cached(c) \o New(c)
  BY StagedFacts DEF Commit, CommitFails, Stored
<1>2. /\ events'[f] \in {events[f], Cached(c) \o New(c)}
      /\ \A g \in Files : g # f => events'[g] = events[g]
  <2>1. Write(c) => events' = [events EXCEPT ![f] = Cached(c) \o New(c)]
    BY <1>1 DEF Write, Cached
  <2>2. Write(c) \/ events' = events
    BY DEF Commit, CommitFails
  <2> QED
    BY <1>1, <2>1, <2>2 DEF TypeOK, FilesType
<1>3. meta' = meta
  BY DEF Commit, CommitFails, Leave
<1> HIDE DEF f
<1> QED
  BY <1>1, <1>2, <1>3 DEF CleanInv, CleanFiles, Chained

LEMMA CleanReplace ==
    ASSUME StoreInv, CleanInv, Replace
    PROVE  CleanFiles'
<1>1. TypeOK /\ path \in Files /\ path + 1 \in Files
  BY StoreAssumption DEF StoreInv, TypeInv, TypeOK, FilesType, Replace, Files
<1>2. PICK n \in 0..Cardinality(DOMAIN events[path]) :
        events' = [events EXCEPT ![path + 1] =
            [p \in DOMAIN events[path] \cap 1..n |-> events[path][p]]]
  BY DEF Replace
<1>3. meta' = [meta EXCEPT ![path + 1] = meta[path]]
  BY DEF Replace
<1> QED
  BY <1>1, <1>2, <1>3 DEF CleanInv, CleanFiles, TypeOK, FilesType

\* Counters are read from files.
LEMMA CleanCounters ==
    ASSUME StoreInv, CleanInv, NEW c \in Callers, Step(c) \/ Failure(c) \/ Verify(c) \/ Open(c)
    PROVE  /\ \A h \in Handles : rewrites'[h] = 0
           /\ \A d \in Callers : call'[d].seen = 0
<1>1. TypeOK /\ TypeInv /\ HandleOf[c] \in Handles /\ path \in Files
  BY HandleOfType DEF StoreInv, TypeInv, TypeOK, FilesType
<1>2. Idle.seen = 0
  BY DEF Idle
<1>3. Leave(c) => \A d \in Callers : call'[d].seen = 0
  BY <1>1, <1>2 DEF Leave, CleanInv, TypeOK, CallersType
<1>4. CASE ReadRewrites(c) \/ Open(c)
  <2>1. meta[path] = 0 /\ rewrites' = rewrites
    BY <1>1, <1>4 DEF ReadRewrites, Open, CleanInv, CleanFiles
  <2>2. call' = [call EXCEPT ![c].seen = meta[path]]
    BY <1>4 DEF ReadRewrites, Open
  <2> QED
    BY <1>1, <2>1, <2>2 DEF CleanInv, TypeOK, CallersType, Calls
<1>5. CASE LoadRows(c)
  <2>1. rewrites' = [rewrites EXCEPT ![HandleOf[c]] = call[c].seen]
    BY <1>5 DEF LoadRows, Publish
  <2>2. call' = call \/ Leave(c)
    BY <1>5 DEF LoadRows
  <2> QED
    BY <1>1, <1>3, <2>1, <2>2 DEF CleanInv, TypeOK, HandlesType
<1>6. CASE SyncAll(c)
  <2>1. store[HandleOf[c]] \in Files
    BY <1>1, <1>6 DEF SyncAll, TypeInv, Held, Writing
  <2>2. rewrites' = [rewrites EXCEPT ![HandleOf[c]] = meta[store[HandleOf[c]]]] /\ call' = call
    BY <1>6 DEF SyncAll, Publish
  <2> QED
    BY <1>1, <2>1, <2>2 DEF CleanInv, CleanFiles, TypeOK, HandlesType
<1>7. CASE \/ AdmitClosed(c) \/ NoDatabase(c) \/ LoadFails(c) \/ RefuseReplaced(c) \/ Busy(c)
           \/ SyncFails(c) \/ HeadChanged(c) \/ Replay(c) \/ Conflict(c) \/ Finish(c)
           \/ GiveUp(c) \/ ReopenFails(c) \/ WriteFails(c) \/ CommitFails(c)
  <2>1. Leave(c) /\ rewrites' = rewrites
    BY <1>7 DEF AdmitClosed, NoDatabase, LoadFails, RefuseReplaced, Busy, SyncFails, HeadChanged,
       Replay, Conflict, Finish, GiveUp, ReopenFails, WriteFails, CommitFails, Refuse, Answer, handle
  <2> QED
    BY <1>3, <2>1 DEF CleanInv
<1>8. CASE Verify(c) \/ Admit(c) \/ CheckCurrent(c) \/ Begin(c) \/ SyncTail(c) \/ Commit(c)
  <2>1. call' = call /\ rewrites' = rewrites
    BY <1>8 DEF Verify, Admit, CheckCurrent, Begin, SyncTail, Commit, handle
  <2> QED
    BY <2>1 DEF CleanInv
<1> QED
  BY <1>4, <1>5, <1>6, <1>7, <1>8 DEF Step, Failure

LEMMA NextClean ==
    ASSUME Untampered
    PROVE  StoreInv /\ CleanInv /\ [Next]_vars => CleanInv'
<1> SUFFICES ASSUME StoreInv, CleanInv, [Next]_vars PROVE CleanInv'
  OBVIOUS
<1>1. TypeOK
  BY DEF StoreInv, TypeInv
<1>2. UNCHANGED <<events, meta>> => CleanFiles'
  BY DEF CleanInv, CleanFiles
<1>3. ASSUME NEW c \in Callers, NEW r \in Requests, NEW atHead \in BOOLEAN,
             Request(c, r, atHead)
      PROVE  CleanInv'
  <2>1. /\ UNCHANGED <<events, meta, rewrites>>
        /\ \A d \in Callers : call'[d].seen = 0
    BY <1>1, <1>3 DEF Request, files, handle, CleanInv, TypeOK, CallersType
  <2> QED
    BY <1>2, <2>1 DEF CleanInv
<1>4. ASSUME NEW c \in Callers, Verify(c) \/ Open(c) \/ Step(c) \/ Failure(c) PROVE CleanInv'
  <2>1. CleanFiles'
    <3>1. CASE Commit(c) \/ CommitFails(c)
      BY <3>1, CleanCommit
    <3>2. CASE ~(Commit(c) \/ CommitFails(c))
      <4>1. UNCHANGED <<events, meta>>
        BY <1>4, <3>2
           DEF Verify, Open, Step, Failure, Admit, AdmitClosed, ReadRewrites,
               NoDatabase, LoadRows, LoadFails, CheckCurrent, RefuseReplaced, Begin, Busy, SyncTail,
               SyncAll, SyncFails, HeadChanged, Replay, Conflict, Finish, GiveUp, ReopenFails,
               WriteFails, Refuse, Answer, Leave, files
      <4> QED
        BY <1>2, <4>1
    <3> QED
      BY <3>1, <3>2
  <2> QED
    BY <1>4, <2>1, CleanCounters DEF CleanInv
<1>5. ASSUME NEW h \in Handles, Close(h) \/ Crash(h) PROVE CleanInv'
  <2>1. UNCHANGED <<events, meta, rewrites>> /\ \A d \in Callers : call'[d] \in {call[d], Idle}
    BY <1>1, <1>5 DEF Close, Crash, files, TypeOK, CallersType
  <2> QED
    BY <1>2, <2>1 DEF CleanInv, Idle
<1>6. CASE Rewrite \/ Bypass
  BY <1>6 DEF Untampered, Rewrite, Bypass
<1>7. CASE Replace
  BY <1>7, CleanReplace DEF Replace, handle, CleanInv
<1>8. CASE UNCHANGED vars
  BY <1>2, <1>8 DEF vars, files, handle, CleanInv
<1> QED
  BY <1>3, <1>4, <1>5, <1>6, <1>7, <1>8 DEF Next

LEMMA CleanInvariant == ASSUME Untampered PROVE Spec => [](StoreInv /\ NumbersInv /\ CleanInv)
<1>1. Init => CleanInv
  BY DEF Init, CleanInv, CleanFiles, Idle
<1> QED
  BY <1>1, NextClean, NumbersInvariant, PTL DEF Spec

\* Without tampering a cache that follows its file is its beginning.
LEMMA CleanFollows ==
    ASSUME CleanInv, NEW f \in Files, NEW s, Follows(events[f], s)
    PROVE  \A i \in DOMAIN s : i \in DOMAIN events[f] /\ events[f][i] = s[i]
BY DEF CleanInv, CleanFiles, Follows

\* Whoever reads a handle whose semaphore is free sees committed events of the
\* file the handle has open, from the first on and in their order, whatever
\* other processes append, crash or replace.
THEOREM ReadersAreTruthful == ASSUME Untampered PROVE Spec => []ReadersSeeTheJournal
<1>1. StoreInv /\ CleanInv => ReadersSeeTheJournal
  <2> SUFFICES ASSUME StoreInv, CleanInv, NEW h \in Handles,
                      stateValid[h], ~closed[h], mu[h] = NoCaller
               PROVE  \A i \in DOMAIN cachedEvents[h] :
                          /\ i \in DOMAIN events[store[h]]
                          /\ cachedEvents[h][i] = events[store[h]][i]
    BY DEF ReadersSeeTheJournal
  <2>1. store[h] \in Files /\ \A c \in Callers : HandleOf[c] = h => pc[c] # "loading"
    BY StoreAssumption DEF StoreInv, TypeInv, Held
  <2>2. rewrites[h] = meta[store[h]]
    BY <2>1 DEF CleanInv, CleanFiles
  <2>3. Follows(events[store[h]], cachedEvents[h])
    BY <2>1, <2>2 DEF StoreInv, CacheOf
  <2> QED
    BY <2>1, <2>3, CleanFollows
<1> QED
  BY <1>1, CleanInvariant, PTL

-----------------------------------------------------------------------------
(* One file that only appends change *)

\* The journal of the path is a chain that holds every acknowledged event.
LogInv == /\ path = 1
          /\ events[1] \in Seq(Rows) /\ Chained(events[1])
          /\ acked \subseteq StoredIds(1)

LogStoreInv == StoreInv /\ NumbersInv /\ CleanInv /\ LogInv

LEMMA OneFile ==
    ASSUME LogStoreInv, NEW h \in Handles, store[h] \in Files
    PROVE  store[h] = 1
BY DEF LogStoreInv, LogInv, StoreInv, OpenedInOrder, Files

\* A step leaves the journal as it is, or a commit adds a batch to it.
LEMMA LogSteps ==
    ASSUME Undisturbed, LogStoreInv, [Next]_vars
    PROVE  /\ path' = 1
           /\ \/ events'[1] = events[1]
              \/ \E c \in Callers : /\ Staged(c) /\ events[1] = Cached(c) /\ acked' = acked
                                    /\ events'[1] = Cached(c) \o New(c)
<1>1. TypeOK /\ StoreInv /\ path = 1 /\ 1 \in Files
  BY StoreAssumption DEF LogStoreInv, LogInv, StoreInv, TypeInv, Files
<1>2. ~Rewrite /\ ~Bypass /\ ~Replace
  BY DEF Undisturbed, Rewrite, Bypass, Replace
<1>3. path' = path
  <2>1. ASSUME NEW c \in Callers, Verify(c) \/ Open(c) \/ Step(c) \/ Failure(c) PROVE path' = path
    <3>1. CASE \/ AdmitClosed(c) \/ NoDatabase(c) \/ LoadFails(c) \/ RefuseReplaced(c) \/ Busy(c)
               \/ SyncFails(c) \/ HeadChanged(c) \/ Replay(c) \/ Conflict(c) \/ Finish(c)
               \/ GiveUp(c) \/ ReopenFails(c) \/ WriteFails(c) \/ CommitFails(c)
      <4>1. Leave(c)
        BY <3>1 DEF AdmitClosed, NoDatabase, LoadFails, RefuseReplaced, Busy, SyncFails,
           HeadChanged, Replay, Conflict, Finish, GiveUp, ReopenFails, WriteFails, CommitFails,
           Refuse, Answer
      <4> QED
        BY <4>1 DEF Leave
    <3>2. CASE \/ Verify(c) \/ Admit(c) \/ CheckCurrent(c) \/ Begin(c) \/ SyncTail(c)
               \/ SyncAll(c) \/ Commit(c) \/ ReadRewrites(c) \/ LoadRows(c) \/ Open(c)
      BY <3>2 DEF Verify, Admit, CheckCurrent, Begin, SyncTail, SyncAll, Commit, ReadRewrites,
         LoadRows, Open, Leave, files
    <3> QED
      BY <2>1, <3>1, <3>2 DEF Step, Failure
  <2>2. ASSUME NEW c \in Callers, NEW r \in Requests, NEW atHead \in BOOLEAN,
               Request(c, r, atHead)
        PROVE  path' = path
    BY <2>2 DEF Request, files
  <2>3. ASSUME NEW h \in Handles, Close(h) \/ Crash(h) PROVE path' = path
    BY <2>3 DEF Close, Crash, files
  <2> QED
    BY <1>2, <2>1, <2>2, <2>3 DEF Next, vars, files
<1>4. ASSUME NEW c \in Callers, Commit(c) \/ CommitFails(c)
      PROVE  \/ events'[1] = events[1]
             \/ \E d \in Callers : /\ Staged(d) /\ events[1] = Cached(d) /\ acked' = acked
                                   /\ events'[1] = Cached(d) \o New(d)
  <2>1. Staged(c) /\ acked' = acked
    BY <1>4 DEF Commit, CommitFails, answers
  <2>2. /\ store[HandleOf[c]] \in Files /\ HandleOf[c] \in Handles /\ Cached(c) = Stored(c)
        /\ Inserted(Stored(c), Len(Cached(c)), New(c)) = Cached(c) \o New(c)
    BY <1>1, <2>1, StagedFacts
  <2>3. store[HandleOf[c]] = 1 /\ Stored(c) = events[1]
    BY <2>2, OneFile DEF Stored
  <2>4. Write(c) => events'[1] = Cached(c) \o New(c)
    BY <1>1, <2>2, <2>3 DEF Write, Cached, TypeOK, FilesType
  <2>5. Write(c) \/ events' = events
    BY <1>4 DEF Commit, CommitFails
  <2> QED
    BY <2>1, <2>2, <2>3, <2>4, <2>5
<1>5. ASSUME \A c \in Callers : ~Commit(c) /\ ~CommitFails(c)
      PROVE  events' = events
  BY <1>2, <1>5
     DEF Next, vars, files, Request, Verify, Open, Step, Failure, Admit, AdmitClosed, ReadRewrites,
         NoDatabase, LoadRows, LoadFails, CheckCurrent, RefuseReplaced, Begin, Busy, SyncTail,
         SyncAll, SyncFails, HeadChanged, Replay, Conflict, Finish, GiveUp, ReopenFails,
         WriteFails, Refuse, Answer, Close, Crash
<1> QED
  BY <1>1, <1>3, <1>4, <1>5

\* What a call returns is in the journal when it returns.
LEMMA AcknowledgedSteps ==
    ASSUME Undisturbed, LogStoreInv, [Next]_vars
    PROVE  acked \subseteq acked' /\ acked' \subseteq acked \cup StoredIds(1)
<1>1. TypeOK /\ TypeInv /\ StoreInv
  BY DEF LogStoreInv, StoreInv, TypeInv
<1>2. ASSUME NEW c \in Callers, Replay(c) \/ Finish(c)
      PROVE  acked \subseteq acked' /\ acked' \subseteq acked \cup StoredIds(1)
  <2>1. /\ HandleOf[c] \in Handles /\ store[HandleOf[c]] \in Files
        /\ stateValid[HandleOf[c]] /\ ~closed[HandleOf[c]]
    BY <1>1, <1>2, HandleOfType DEF TypeInv, Held, Writing, Replay, Finish
  <2>2. Stored(c) = events[1]
    BY <2>1, OneFile DEF Stored
  <2>3. CASE Replay(c)
    <3> DEFINE batch == call[c].batch
               result == [i \in 1..Len(batch) |-> Durable(HandleOf[c], batch[i])]
    <3>1. Cached(c) = events[1]
      BY <1>1, <2>2, <2>3 DEF StoreInv, CallOf, SyncedOf, Replay
    <3>2. \A i \in DOMAIN batch : \E k \in DOMAIN Cached(c) :
              Durable(HandleOf[c], batch[i]) = Cached(c)[k]
      BY <1>1, <2>3, DurableFacts
    <3>3. batch \in Seq([key : Keys, data : Data])
      BY <1>1, <2>3, DurableFacts
    <3>4. \A i \in DOMAIN result : result[i].id \in StoredIds(1)
      BY <3>1, <3>2, <3>3 DEF StoredIds
    <3>5. acked' = acked \cup {result[i].id : i \in DOMAIN result}
      BY <2>3 DEF Replay, Answer
    <3> QED
      BY <3>4, <3>5
  <2>4. CASE Finish(c)
    <3>1. rewrites[HandleOf[c]] = meta[store[HandleOf[c]]]
      BY <2>1 DEF LogStoreInv, CleanInv, CleanFiles
    <3>2. Follows(events[1], Cached(c) \o New(c))
      BY <1>1, <2>2, <2>4, <3>1 DEF StoreInv, CallOf, CommittedOf, Finish
    <3>3. 1 \in Files
      BY <2>1, OneFile
    <3>4. \A i \in DOMAIN (Cached(c) \o New(c)) :
              i \in DOMAIN events[1] /\ events[1][i] = (Cached(c) \o New(c))[i]
      BY <3>2, <3>3, CleanFollows DEF LogStoreInv
    <3>5. Cached(c) \in Seq(Rows) /\ New(c) \in Seq(Rows)
      BY <1>1, <2>1, NewType DEF Cached, TypeOK, HandlesType
    <3>6. \A i \in DOMAIN New(c) : New(c)[i].id \in StoredIds(1)
      <4> SUFFICES ASSUME NEW i \in DOMAIN New(c) PROVE New(c)[i].id \in StoredIds(1)
        OBVIOUS
      <4>1. /\ Len(Cached(c)) + i \in DOMAIN (Cached(c) \o New(c))
            /\ (Cached(c) \o New(c))[Len(Cached(c)) + i] = New(c)[i]
        BY <3>5
      <4> QED
        BY <3>4, <4>1 DEF StoredIds
    <3>7. acked' = acked \cup {New(c)[i].id : i \in DOMAIN New(c)}
      BY <2>4 DEF Finish, Answer
    <3> QED
      BY <3>6, <3>7
  <2> QED
    BY <1>2, <2>3, <2>4
<1>3. ASSUME \A c \in Callers : ~Replay(c) /\ ~Finish(c)
      PROVE  acked' = acked
  <2>1. ~Replace
    BY DEF Undisturbed, Replace
  <2> QED
    BY <1>3, <2>1
       DEF Next, vars, answers, Request, Verify, Open, Step, Failure, Admit, AdmitClosed,
           ReadRewrites, NoDatabase, LoadRows, LoadFails, CheckCurrent, RefuseReplaced, Begin, Busy,
           SyncTail, SyncAll, SyncFails, HeadChanged, Conflict, GiveUp, ReopenFails,
           WriteFails, Refuse, Commit, CommitFails, Close, Crash, Rewrite, Bypass
<1> QED
  BY <1>2, <1>3

LEMMA NextLog ==
    ASSUME Undisturbed
    PROVE  LogStoreInv /\ [Next]_vars => LogStoreInv'
<1> SUFFICES ASSUME LogStoreInv, [Next]_vars PROVE LogStoreInv'
  OBVIOUS
<1>1. StoreInv' /\ NumbersInv' /\ CleanInv'
  <2>1. Untampered
    BY DEF Undisturbed, Untampered
  <2> QED
    BY <2>1, NextStoreInv, NextNumbers, NextClean DEF LogStoreInv
<1>2. acked' \subseteq StoredIds(1)
  BY AcknowledgedSteps DEF LogStoreInv, LogInv
<1>3. CASE events'[1] = events[1]
  <2>1. StoredIds(1)' = StoredIds(1)
    BY <1>3 DEF StoredIds
  <2>2. events[1] \in Seq(Rows) /\ Chained(events[1])
    BY DEF LogStoreInv, LogInv
  <2>3. LogInv'
    BY <1>2, <1>3, <2>1, <2>2, LogSteps DEF LogInv
  <2> QED
    BY <1>1, <2>3 DEF LogStoreInv
<1>4. CASE \E c \in Callers : /\ Staged(c) /\ events[1] = Cached(c) /\ acked' = acked
                              /\ events'[1] = Cached(c) \o New(c)
  <2>1. PICK c \in Callers : /\ Staged(c) /\ events[1] = Cached(c) /\ acked' = acked
                             /\ events'[1] = Cached(c) \o New(c)
    BY <1>4
  <2>2. /\ Cached(c) \in Seq(Rows) /\ New(c) \in Seq(Rows) /\ Chained(Cached(c) \o New(c))
    BY <2>1, StagedFacts DEF LogStoreInv
  <2>3. events'[1] \in Seq(Rows) /\ Chained(events'[1])
    BY <2>1, <2>2
  <2>4. StoredIds(1) \subseteq StoredIds(1)'
    <3>1. \A p \in DOMAIN events[1] : p \in DOMAIN events'[1] /\ events'[1][p] = events[1][p]
      BY <2>1, <2>2
    <3> QED
      BY <3>1 DEF StoredIds
  <2>5. path' = 1
    BY LogSteps
  <2>6. LogInv'
    BY <1>2, <2>3, <2>4, <2>5 DEF LogInv
  <2> QED
    BY <1>1, <2>6 DEF LogStoreInv
<1> QED
  BY <1>3, <1>4, LogSteps

LEMMA InitLog == Init => LogStoreInv
<1> SUFFICES ASSUME Init PROVE LogStoreInv
  OBVIOUS
<1>1. StoreInv /\ 1 \in Files
  BY InitStoreInv, StoreAssumption DEF Files
<1>2. NumbersInv
  <2>1. \A n : ~HasStored(n)
    BY DEF Init, HasStored
  <2> QED
    BY <2>1 DEF Init, NumbersInv, NumberOf, Idle, Writing
<1>3. CleanInv
  BY DEF Init, CleanInv, CleanFiles, Idle
<1>4. LogInv
  BY <1>1 DEF Init, LogInv, Chained, StoredIds
<1> QED
  BY <1>1, <1>2, <1>3, <1>4 DEF LogStoreInv

\* An event an append has returned stays in the journal: through crashes, failed
\* commits and the appends of others.
THEOREM AcknowledgedStays == ASSUME Undisturbed PROVE Spec => []AcknowledgedIsDurable
<1>1. LogStoreInv => AcknowledgedIsDurable
  BY DEF LogStoreInv, LogInv, AcknowledgedIsDurable
<1>2. LogStoreInv /\ [Next]_vars => LogStoreInv'
  BY NextLog
<1> QED
  BY <1>1, <1>2, InitLog, PTL DEF Spec

-----------------------------------------------------------------------------
(* Refinement *)

LEMMA JournalOfSeq == ASSUME NEW s \in Seq(Rows) PROVE Journal(s) = s
<1>1. Len(s) \in Nat /\ DOMAIN s = 1..Len(s) /\ s = [p \in 1..Len(s) |-> s[p]]
  OBVIOUS
<1>2. Cardinality(1..Len(s)) = Len(s)
  BY <1>1, FS_Interval
<1> QED
  BY <1>1, <1>2 DEF Journal

LEMMA LogOfStore ==
    ASSUME LogStoreInv
    PROVE  Journal(events[path]) = events[1] /\ Log!Ids(events[1]) = StoredIds(1)
<1>1. events[1] \in Seq(Rows) /\ path = 1
  BY DEF LogStoreInv, LogInv
<1>2. DOMAIN events[1] = 1..Len(events[1])
  BY <1>1
<1> QED
  BY <1>1, <1>2, JournalOfSeq DEF Log!Ids, StoredIds

\* Each step of the store extends the log by one batch, acknowledges what the log
\* holds, or leaves it alone.
THEOREM StoreImplementsLog == ASSUME Undisturbed PROVE Spec => ImplementsLog
<1>1. Init => Log!Init
  <2> SUFFICES ASSUME Init PROVE Log!Init
    OBVIOUS
  <2>1. Journal(events[path]) = events[1]
    BY InitLog, LogOfStore
  <2>2. events[1] = <<>> /\ acked = {}
    BY StoreAssumption DEF Init, Files
  <2> QED
    BY <2>1, <2>2 DEF Log!Init
<1>2. LogStoreInv /\ [Next]_vars => LogStoreInv'
  BY NextLog
<1>3. LogStoreInv /\ [Next]_vars => [Log!Next]_<<Journal(events[path]), acked>>
  <2> SUFFICES ASSUME LogStoreInv, [Next]_vars PROVE Log!Next
    OBVIOUS
  <2>1. LogStoreInv'
    BY <1>2
  <2>2. Journal(events[path]) = events[1] /\ Journal(events[path])' = events'[1]
    <3>1. events'[1] \in Seq(Rows) /\ path' = 1
      BY <2>1 DEF LogStoreInv, LogInv
    <3>2. Journal(events'[1]) = events'[1]
      BY <3>1, JournalOfSeq
    <3>3. Journal(events[path])' = Journal(events'[1])
      BY <3>1 DEF Journal
    <3> QED
      BY <3>2, <3>3, LogOfStore
  <2>3. CASE events'[1] = events[1]
    <3>1. acked \subseteq acked' /\ acked' \subseteq Log!Ids(events[1])
      BY AcknowledgedSteps, LogOfStore DEF LogStoreInv, LogInv
    <3> QED
      BY <2>2, <2>3, <3>1 DEF Log!Next, Log!Acknowledge
  <2>4. CASE \E c \in Callers : /\ Staged(c) /\ events[1] = Cached(c) /\ acked' = acked
                                /\ events'[1] = Cached(c) \o New(c)
    <3>1. PICK c \in Callers : /\ Staged(c) /\ events[1] = Cached(c) /\ acked' = acked
                               /\ events'[1] = Cached(c) \o New(c)
      BY <2>4
    <3>2. /\ TypeOK /\ Cached(c) \in Seq(Rows) /\ New(c) \in Seq(Rows) /\ pc[c] = "synced"
      BY <3>1, StagedFacts DEF LogStoreInv
    <3>3. Len(New(c)) # 0
      <4>1. call[c].batch # <<>> /\ call[c].batch \in Seq([key : Keys, data : Data])
        BY <3>2, CallType DEF LogStoreInv, NumbersInv, NumberOf, Writing
      <4>2. Len(call[c].batch) # 0
        BY <4>1
      <4> QED
        BY <3>2, <4>2, NewType
    <3>4. /\ Len(events'[1]) > Len(events[1])
          /\ \A i \in 1..Len(events[1]) : events'[1][i] = events[1][i]
      BY <3>1, <3>2, <3>3
    <3>5. Log!KeyOccursOnce(events'[1])
      <4>1. UniqueKeys(events'[1])
        BY <2>1, StoreAssumption
           DEF LogStoreInv, StoreInv, OneEventPerKey, UniqueKeys, Files
      <4>2. DOMAIN events'[1] = 1..Len(events'[1])
        BY <3>1, <3>2
      <4> QED
        BY <4>1, <4>2 DEF UniqueKeys, Log!KeyOccursOnce
    <3> QED
      BY <2>2, <3>1, <3>4, <3>5 DEF Log!Next, Log!Extend
  <2> QED
    BY <2>3, <2>4, LogSteps
<1> QED
  BY <1>1, <1>2, <1>3, InitLog, PTL DEF Spec, ImplementsLog, Log!Spec
=============================================================================
