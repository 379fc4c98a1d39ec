-------------------------- MODULE EventStoreProofs --------------------------
(***************************************************************************)
(* Theorems about EventStore for every set of handles, callers, requests   *)
(* and faults.                                                             *)
(***************************************************************************)
EXTENDS EventStore, FiniteSetTheorems, SequenceTheorems, TLAPS

-----------------------------------------------------------------------------
(* Tables and journals *)

\* A row has a sequence number; the head of a cache is a row id.
LEMMA HeadType == ASSUME NEW s \in Seq(Rows) PROVE HeadID(s) \in RowIds
<1>1. CASE s = <<>>
  BY <1>1 DEF HeadID, NoEvent, RowIds
<1>2. CASE s # <<>>
  <2>1. Len(s) \in 1..Len(s) /\ s[Len(s)] \in Rows
    BY <1>2
  <2>2. s[Len(s)].id \in RowIds
    BY <2>1 DEF Rows
  <2> QED
    BY <1>2, <2>2 DEF HeadID, Last
<1> QED
  BY <1>1, <1>2

\* A sound journal has no gap.
LEMMA SoundDomain ==
    ASSUME NEW rows, IsTable(rows), Sound(rows)
    PROVE  /\ Cardinality(DOMAIN rows) \in Nat
           /\ DOMAIN rows = 1..Cardinality(DOMAIN rows)
<1>1. {p \in DOMAIN rows : p > 0} = DOMAIN rows
  BY DEF IsTable
<1>2. {p \in DOMAIN rows : p > 0} = (0 + 1)..(0 + Cardinality({p \in DOMAIN rows : p > 0}))
  BY DEF Sound, Continues
<1>3. Cardinality(DOMAIN rows) \in Nat
  BY FS_CardinalityType DEF IsTable
<1>4. DOMAIN rows = (0 + 1)..(0 + Cardinality(DOMAIN rows))
  BY <1>1, <1>2, Zenon
<1> QED
  BY <1>3, <1>4

\* What a handle caches of a sound journal is the journal itself.
LEMMA JournalType ==
    ASSUME NEW rows, IsTable(rows), Sound(rows)
    PROVE  Journal(rows) = rows /\ rows \in Seq(Rows)
<1>1. Journal(rows) = rows
  BY SoundDomain DEF Journal, IsTable
<1>2. rows \in [1..Cardinality(DOMAIN rows) -> Rows]
  BY SoundDomain DEF IsTable
<1> QED
  BY <1>1, <1>2, SoundDomain

\* The tail of a table that goes on from position n.
LEMMA TailDomain ==
    ASSUME NEW rows, IsTable(rows), NEW n \in Nat, NEW head, Continues(rows, n, head),
           NEW tail, tail = {p \in DOMAIN rows : p > n}
    PROVE  Cardinality(tail) \in Nat /\ tail = (n + 1)..(n + Cardinality(tail))
<1>1. IsFiniteSet(tail)
  BY FS_Subset DEF IsTable
<1> QED
  BY <1>1, FS_CardinalityType DEF Continues

LEMMA PreparedType ==
    ASSUME NEW n \in Nat, NEW batch \in Seq([key : Keys, data : Data]), NEW head \in RowIds
    PROVE  Prepared(n, batch, head) \in Seq(Rows) /\ Len(Prepared(n, batch, head)) = Len(batch)
<1>1. \A i \in 1..Len(batch) :
        [id   |-> <<n, i>>,
         prev |-> IF i = 1 THEN head ELSE <<n, i - 1>>,
         key  |-> batch[i].key, data |-> batch[i].data, good |-> TRUE] \in Rows
  <2> SUFFICES ASSUME NEW i \in 1..Len(batch)
               PROVE  [id   |-> <<n, i>>,
                       prev |-> IF i = 1 THEN head ELSE <<n, i - 1>>,
                       key  |-> batch[i].key, data |-> batch[i].data,
                       good |-> TRUE] \in Rows
    OBVIOUS
  <2>1. batch[i].key \in Keys /\ batch[i].data \in Data
    <3>1. batch[i] \in [key : Keys, data : Data]
      BY ElementOfSeq
    <3> QED
      BY <3>1
  <2>2. <<n, i>> \in RowIds /\ (i # 1 => <<n, i - 1>> \in RowIds)
    BY DEF RowIds
  <2> QED
    BY <2>1, <2>2 DEF Rows
<1>2. Prepared(n, batch, head) \in [1..Len(batch) -> Rows]
  BY <1>1 DEF Prepared
<1> QED
  BY <1>2

LEMMA InsertedType ==
    ASSUME NEW rows, IsTable(rows), NEW n \in Nat, NEW new \in Seq(Rows)
    PROVE  IsTable(Inserted(rows, n, new))
<1> DEFINE t == Inserted(rows, n, new)
<1>1. DOMAIN t = DOMAIN rows \cup (n + 1)..(n + Len(new))
  BY DEF Inserted
<1>2. IsFiniteSet(DOMAIN t)
  <2>1. Len(new) \in Nat
    OBVIOUS
  <2>2. IsFiniteSet((n + 1)..(n + Len(new)))
    BY <2>1, FS_Interval
  <2>3. IsFiniteSet(DOMAIN rows \cup (n + 1)..(n + Len(new)))
    BY <2>2, FS_Union DEF IsTable
  <2> QED
    BY <1>1, <2>3
<1>3. \A p \in DOMAIN t : t[p] \in Rows
  BY <1>1 DEF Inserted, IsTable
<1>4. t = [p \in DOMAIN t |-> t[p]]
  BY <1>1 DEF Inserted
<1>5. DOMAIN t \in SUBSET (Nat \ {0})
  BY <1>1 DEF IsTable
<1> QED
  BY <1>2, <1>3, <1>4, <1>5 DEF IsTable

-----------------------------------------------------------------------------
(* Who holds what *)

Writing == {"checking", "beginning", "syncing", "synced", "committed"}

\* A call past acquire holds the semaphore of an open handle; one that reads or
\* writes rows has a file open, and one that writes has validated state.
Held ==
    /\ \A h \in Handles : stateValid[h] /\ ~closed[h] => store[h] \in Files
    /\ \A c \in Callers :
        /\ pc[c] \notin {"idle", "waiting"} =>
               mu[HandleOf[c]] = c /\ ~closed[HandleOf[c]]
        /\ pc[c] \in {"loading", "opening"} \cup Writing => store[HandleOf[c]] \in Files
        /\ pc[c] \in Writing => stateValid[HandleOf[c]]

TypeInv == TypeOK /\ Held

LEMMA HandleOfType == \A c \in Callers : HandleOf[c] \in Handles
BY StoreAssumption

LEMMA CallType ==
    ASSUME TypeOK, NEW c \in Callers
    PROVE  /\ call[c].n \in 0..MaxCalls
           /\ call[c].batch \in Seq([key : Keys, data : Data])
           /\ call[c].batch # <<>> => call[c].batch \in Requests
           /\ call[c].head \in RowIds /\ call[c].seen \in Nat
<1>1. call[c] \in Calls
  BY DEF TypeOK, CallersType
<1>2. <<>> \in Seq([key : Keys, data : Data])
  OBVIOUS
<1> QED
  BY <1>1, <1>2, RequestsAssumption DEF Calls

LEMMA NewType ==
    ASSUME TypeOK, NEW c \in Callers
    PROVE  New(c) \in Seq(Rows) /\ Len(New(c)) = Len(call[c].batch)
<1>1. HeadID(cachedEvents[HandleOf[c]]) \in RowIds
  BY HeadType, HandleOfType DEF TypeOK, HandlesType
<1>2. call[c].n \in 0..MaxCalls /\ MaxCalls \in Nat
  BY CallType, StoreAssumption
<1>3. call[c].n \in Nat
  BY <1>2
<1>4. call[c].batch \in Seq([key : Keys, data : Data])
  BY CallType
<1> QED
  BY <1>1, <1>3, <1>4, PreparedType DEF New

LEMMA IdleType == Idle \in Calls
<1>1. AnyHead \in RowIds
  BY DEF AnyHead, RowIds
<1>2. 0 \in 0..MaxCalls
  BY StoreAssumption
<1> QED
  BY <1>1, <1>2 DEF Idle, Calls

LEMMA InitTypeInv == Init => TypeInv
<1> SUFFICES ASSUME Init PROVE TypeInv
  OBVIOUS
<1>1. 1 \in Files /\ 0 \in 0..MaxCalls
  BY StoreAssumption DEF Files
<1>2. IsTable(<<>>)
  <2>1. DOMAIN <<>> = {} /\ IsFiniteSet({})
    BY FS_EmptySet
  <2> QED
    BY <2>1 DEF IsTable
<1>3. FilesType
  BY <1>1, <1>2 DEF Init, FilesType
<1>4. HandlesType
  BY <1>1 DEF Init, HandlesType
<1>5. CallersType
  BY <1>1, IdleType DEF Init, CallersType, Labels
<1>6. Held
  BY <1>1, HandleOfType DEF Init, Held, Writing
<1> QED
  BY <1>3, <1>4, <1>5, <1>6 DEF TypeInv, TypeOK

\* What Leave does to the callers and the semaphores.
LEMMA LeaveHeld ==
    ASSUME TypeOK, Held, NEW c \in Callers, Leave(c),
           stateValid' \in [Handles -> BOOLEAN], closed' \in [Handles -> BOOLEAN],
           store' \in [Handles -> Files \cup {NoFile}],
           \A h \in Handles : h # HandleOf[c] =>
               stateValid'[h] = stateValid[h] /\ closed'[h] = closed[h] /\ store'[h] = store[h],
           pc[c] \in {"idle", "waiting"} =>
               stateValid' = stateValid /\ closed' = closed /\ store' = store,
           stateValid'[HandleOf[c]] /\ ~closed'[HandleOf[c]] => store'[HandleOf[c]] \in Files
    PROVE  Held'
<1> USE DEF Leave, Goto, Held, TypeOK, HandlesType, CallersType
<1>1. ASSUME NEW h \in Handles, stateValid'[h], ~closed'[h] PROVE store'[h] \in Files
  BY <1>1
<1>2. ASSUME NEW d \in Callers
      PROVE  /\ pc'[d] \notin {"idle", "waiting"} =>
                    mu'[HandleOf[d]] = d /\ ~closed'[HandleOf[d]]
             /\ pc'[d] \in {"loading", "opening"} \cup Writing => store'[HandleOf[d]] \in Files
             /\ pc'[d] \in Writing => stateValid'[HandleOf[d]]
  <2>1. CASE d = c
    BY <2>1 DEF Writing
  <2>2. CASE d # c /\ pc[d] \in {"idle", "waiting"}
    BY <2>2 DEF Writing
  <2>3. CASE d # c /\ pc[d] \notin {"idle", "waiting"}
    <3>1. mu[HandleOf[d]] = d /\ pc'[d] = pc[d] /\ HandleOf[d] \in Handles
      BY <2>3, HandleOfType
    <3>2. mu'[HandleOf[d]] = d
      BY <2>3, <3>1
    <3>3. HandleOf[d] # HandleOf[c] \/ pc[c] \in {"idle", "waiting"}
      BY <2>3, <3>1
    <3>4. /\ stateValid'[HandleOf[d]] = stateValid[HandleOf[d]]
          /\ closed'[HandleOf[d]] = closed[HandleOf[d]]
          /\ store'[HandleOf[d]] = store[HandleOf[d]]
      BY <3>1, <3>3
    <3>5. ~closed[HandleOf[d]]
      BY <2>3
    <3>6. pc[d] \in {"loading", "opening"} \cup Writing => store[HandleOf[d]] \in Files
      OBVIOUS
    <3>7. pc[d] \in Writing => stateValid[HandleOf[d]]
      OBVIOUS
    <3> QED
      BY <3>1, <3>2, <3>4, <3>5, <3>6, <3>7
  <2> QED
    BY <2>1, <2>2, <2>3
<1> QED
  BY <1>1, <1>2

-----------------------------------------------------------------------------
(* Type correctness *)

LEMMA LeaveType ==
    ASSUME TypeOK, NEW c \in Callers, Leave(c)
    PROVE  /\ path' \in Files /\ meta' \in [Files -> Nat]
           /\ writer' \in [Files -> Callers \cup {NoCaller}]
           /\ mu' \in [Handles -> Callers \cup {NoCaller}]
           /\ pc' \in [Callers -> Labels] /\ call' \in [Callers -> Calls]
           /\ calls' \in 0..MaxCalls
BY IdleType DEF TypeOK, FilesType, HandlesType, CallersType, Leave, Goto, Unlock, Labels

LEMMA RefuseType ==
    ASSUME TypeOK, NEW c \in Callers, Refuse(c)
    PROVE  /\ FilesType' /\ CallersType'
           /\ mu' \in [Handles -> Callers \cup {NoCaller}]
<1>1. Leave(c) /\ UNCHANGED <<events, got, acked>> /\ refused' = refused \cup {call[c].n}
  BY DEF Refuse
<1>2. call[c].n \in 0..MaxCalls
  BY CallType
<1>3. FilesType'
  BY <1>1, LeaveType DEF TypeOK, FilesType
<1>4. CallersType'
  BY <1>1, <1>2, LeaveType DEF TypeOK, CallersType
<1> QED
  BY <1>1, <1>3, <1>4, LeaveType

LEMMA AnswerType ==
    ASSUME TypeOK, NEW c \in Callers, NEW result \in Seq(Rows), Answer(c, result),
           events' = events
    PROVE  /\ FilesType' /\ CallersType'
           /\ mu' \in [Handles -> Callers \cup {NoCaller}]
<1>1. Leave(c)
  BY DEF Answer
<1>2. FilesType'
  BY <1>1, LeaveType DEF TypeOK, FilesType
<1>3. got' \in [Callers -> Seq(Rows)]
  BY DEF Answer, TypeOK, CallersType
<1>4. acked' \subseteq RowIds
  <2>1. \A i \in DOMAIN result : result[i] \in Rows
    BY ElementOfSeq
  <2>2. \A i \in DOMAIN result : result[i].id \in RowIds
    BY <2>1 DEF Rows
  <2> QED
    BY <2>2 DEF Answer, TypeOK, CallersType
<1>5. CallersType'
  BY <1>1, <1>3, <1>4, LeaveType DEF Answer, TypeOK, CallersType
<1> QED
  BY <1>1, <1>2, <1>5, LeaveType

LEMMA InvalidateType ==
    ASSUME TypeOK, NEW h \in Handles, Invalidate(h)
    PROVE  /\ stateValid' \in [Handles -> BOOLEAN] /\ ~stateValid'[h]
           /\ cachedEvents' \in [Handles -> Seq(Rows)]
<1>1. <<>> \in Seq(Rows)
  OBVIOUS
<1> QED
  BY <1>1 DEF Invalidate, TypeOK, HandlesType

LEMMA PublishType ==
    ASSUME TypeOK, NEW h \in Handles, NEW rows, IsTable(rows), Sound(rows),
           NEW counter \in Nat, Publish(h, rows, counter)
    PROVE  /\ stateValid' \in [Handles -> BOOLEAN] /\ stateValid'[h]
           /\ cachedEvents' \in [Handles -> Seq(Rows)]
           /\ rewrites' \in [Handles -> Nat]
<1>1. Journal(rows) \in Seq(Rows)
  BY JournalType
<1> QED
  BY <1>1 DEF Publish, TypeOK, HandlesType

\* A call that fails on invalidated or untouched state leaves every table typed.
LEMMA RefusedInvalid ==
    ASSUME TypeInv, NEW c \in Callers, Refuse(c), pc[c] \notin {"idle", "waiting"},
           Invalidate(HandleOf[c]), UNCHANGED rewrites,
           closed' \in [Handles -> BOOLEAN], store' \in [Handles -> Files \cup {NoFile}],
           \A h \in Handles : h # HandleOf[c] => closed'[h] = closed[h] /\ store'[h] = store[h]
    PROVE  TypeInv'
<1>1. TypeOK /\ Held /\ HandleOf[c] \in Handles /\ Leave(c)
  BY HandleOfType DEF TypeInv, Refuse
<1>2. TypeOK'
  BY <1>1, RefuseType, InvalidateType DEF TypeOK, HandlesType
<1>3. \A h \in Handles : h # HandleOf[c] => stateValid'[h] = stateValid[h]
  BY <1>1 DEF Invalidate, TypeOK, HandlesType
<1>4. stateValid' \in [Handles -> BOOLEAN] /\ ~stateValid'[HandleOf[c]]
  BY <1>1, InvalidateType
<1>5. Held'
  BY <1>1, <1>3, <1>4, LeaveHeld
<1> QED
  BY <1>2, <1>5 DEF TypeInv

LEMMA RefusedUntouched ==
    ASSUME TypeInv, NEW c \in Callers, Refuse(c), UNCHANGED handle
    PROVE  TypeInv'
<1>1. TypeOK /\ Held /\ HandleOf[c] \in Handles /\ Leave(c)
  BY HandleOfType DEF TypeInv, Refuse
<1>2. TypeOK'
  BY <1>1, RefuseType DEF TypeOK, HandlesType, handle
<1>3. Held'
  BY <1>1, LeaveHeld DEF handle, TypeOK, HandlesType, Held
<1> QED
  BY <1>2, <1>3 DEF TypeInv

\* A call that goes on, with the handle's tables typed and its file open.
LEMMA GoesOn ==
    ASSUME TypeInv, NEW c \in Callers, NEW l \in Labels, Goto(c, l), UNCHANGED <<mu, closed>>,
           pc[c] \notin {"idle", "waiting"}, l # "idle", l # "waiting",
           stateValid' \in [Handles -> BOOLEAN], store' \in [Handles -> Files \cup {NoFile}],
           \A h \in Handles : h # HandleOf[c] =>
               stateValid'[h] = stateValid[h] /\ store'[h] = store[h],
           store'[HandleOf[c]] \in Files,
           l \in Writing => stateValid'[HandleOf[c]]
    PROVE  Held' /\ pc' \in [Callers -> Labels]
<1> USE DEF TypeInv, Goto, Held, TypeOK, HandlesType, CallersType
<1>1. \A d \in Callers : d # c /\ pc[d] \notin {"idle", "waiting"} => HandleOf[d] # HandleOf[c]
  OBVIOUS
<1>2. ASSUME NEW d \in Callers
      PROVE  /\ pc'[d] \notin {"idle", "waiting"} =>
                    mu'[HandleOf[d]] = d /\ ~closed'[HandleOf[d]]
             /\ pc'[d] \in {"loading", "opening"} \cup Writing => store'[HandleOf[d]] \in Files
             /\ pc'[d] \in Writing => stateValid'[HandleOf[d]]
  <2>1. CASE d = c
    BY <2>1
  <2>2. CASE d # c /\ pc[d] \in {"idle", "waiting"}
    BY <2>2 DEF Writing
  <2>3. CASE d # c /\ pc[d] \notin {"idle", "waiting"}
    <3>1. pc'[d] = pc[d] /\ HandleOf[d] # HandleOf[c] /\ HandleOf[d] \in Handles
      BY <1>1, <2>3, HandleOfType
    <3>2. stateValid'[HandleOf[d]] = stateValid[HandleOf[d]]
          /\ store'[HandleOf[d]] = store[HandleOf[d]]
      BY <3>1
    <3> QED
      BY <2>3, <3>1, <3>2
  <2> QED
    BY <2>1, <2>2, <2>3
<1>3. ASSUME NEW h \in Handles, stateValid'[h], ~closed'[h] PROVE store'[h] \in Files
  BY <1>3
<1>4. pc' \in [Callers -> Labels]
  OBVIOUS
<1> QED
  BY <1>2, <1>3, <1>4

LEMMA RequestTypes ==
    ASSUME TypeInv, NEW c \in Callers, NEW r \in Requests, NEW atHead \in BOOLEAN,
           Request(c, r, atHead)
    PROVE  TypeInv'
<1> USE DEF TypeInv
<1>1. HandleOf[c] \in Handles
  BY HandleOfType
<1>2. HeadID(cachedEvents[HandleOf[c]]) \in RowIds /\ AnyHead \in RowIds
  BY <1>1, HeadType DEF TypeOK, HandlesType, AnyHead, RowIds
<1>3. calls \in 0..MaxCalls /\ calls < MaxCalls /\ MaxCalls \in Nat
  BY StoreAssumption DEF Request, TypeOK, CallersType
<1>4. calls + 1 \in 0..MaxCalls
  BY <1>3
<1>5. [n |-> calls + 1, batch |-> r, seen |-> 0,
       head |-> IF atHead THEN HeadID(cachedEvents[HandleOf[c]]) ELSE AnyHead] \in Calls
  BY <1>2, <1>4 DEF Calls
<1>6. call' \in [Callers -> Calls]
  BY <1>5 DEF Request, TypeOK, CallersType
<1>7. <<>> \in Seq(Rows)
  OBVIOUS
<1>8. CallersType'
  BY <1>4, <1>6, <1>7 DEF Request, Goto, TypeOK, CallersType, Labels
<1>9. FilesType' /\ HandlesType'
  BY DEF Request, TypeOK, FilesType, HandlesType, files, handle
<1>10. Held'
  BY DEF Request, Goto, Held, Writing, handle, TypeOK, CallersType
<1> QED
  BY <1>8, <1>9, <1>10 DEF TypeOK

LEMMA AcquireTypes ==
    ASSUME TypeInv, NEW c \in Callers, Verify(c) \/ Admit(c)
    PROVE  TypeInv'
<1> USE DEF TypeInv
<1>1. HandleOf[c] \in Handles
  BY HandleOfType
<1>2. PICK l \in {"checking", "recovering"} :
        /\ Goto(c, l) /\ mu' = [mu EXCEPT ![HandleOf[c]] = c]
        /\ mu[HandleOf[c]] = NoCaller /\ ~closed[HandleOf[c]]
        /\ l = "checking" => stateValid[HandleOf[c]]
        /\ UNCHANGED <<files, handle, call, calls, answers>>
  BY Zenon DEF Verify, Admit
<1>3. FilesType'
  BY <1>2 DEF TypeOK, FilesType, files
<1>4. HandlesType'
  BY <1>1, <1>2 DEF TypeOK, HandlesType, handle
<1>5. CallersType'
  BY <1>2 DEF Goto, TypeOK, CallersType, Labels, answers
<1>6. \A d \in Callers : pc[d] \notin {"idle", "waiting"} => HandleOf[d] # HandleOf[c]
  BY <1>1, <1>2, StoreAssumption DEF Held
<1>7. Held'
  <2>1. UNCHANGED <<closed, store, stateValid>>
    BY <1>2 DEF handle
  <2>2. ASSUME NEW d \in Callers
        PROVE  /\ pc'[d] \notin {"idle", "waiting"} =>
                      mu'[HandleOf[d]] = d /\ ~closed'[HandleOf[d]]
               /\ pc'[d] \in {"loading", "opening"} \cup Writing => store'[HandleOf[d]] \in Files
               /\ pc'[d] \in Writing => stateValid'[HandleOf[d]]
    <3>1. CASE d = c
      <4>1. pc'[d] = l /\ mu'[HandleOf[d]] = d
        BY <3>1, <1>1, <1>2 DEF Goto, TypeOK, CallersType, HandlesType
      <4> QED
        BY <3>1, <4>1, <1>1, <1>2, <2>1 DEF Held, Writing
    <3>2. CASE d # c
      <4>1. pc'[d] = pc[d]
        BY <3>2, <1>2 DEF Goto, TypeOK, CallersType
      <4>2. pc[d] \notin {"idle", "waiting"} => mu'[HandleOf[d]] = mu[HandleOf[d]]
        BY <1>1, <1>2, <1>6, HandleOfType DEF TypeOK, HandlesType
      <4> QED
        BY <4>1, <4>2, <2>1 DEF Held, Writing
    <3> QED
      BY <3>1, <3>2
  <2> QED
    BY <2>1, <2>2 DEF Held
<1> QED
  BY <1>3, <1>4, <1>5, <1>7 DEF TypeOK

\* The calls that return an error on a handle they leave as it is.
LEMMA UntouchedTypes ==
    ASSUME TypeInv, NEW c \in Callers,
           AdmitClosed(c) \/ GiveUp(c) \/ Busy(c) \/ HeadChanged(c) \/ Conflict(c)
    PROVE  TypeInv'
BY RefusedUntouched DEF AdmitClosed, GiveUp, Busy, HeadChanged, Conflict

\* The calls that return an error and invalidate the handle's state.
LEMMA InvalidTypes ==
    ASSUME TypeInv, NEW c \in Callers,
           \/ ReopenFails(c) \/ NoDatabase(c) \/ LoadFails(c)
           \/ RefuseReplaced(c) \/ SyncFails(c) \/ WriteFails(c)
    PROVE  TypeInv'
<1>1. TypeOK /\ HandleOf[c] \in Handles
  BY HandleOfType DEF TypeInv
<1>2. /\ Refuse(c) /\ Invalidate(HandleOf[c]) /\ UNCHANGED rewrites
      /\ pc[c] \notin {"idle", "waiting"}
  BY DEF ReopenFails, NoDatabase, LoadFails, RefuseReplaced, SyncFails, WriteFails, Staged
<1>3. /\ closed' \in [Handles -> BOOLEAN] /\ store' \in [Handles -> Files \cup {NoFile}]
      /\ \A h \in Handles : h # HandleOf[c] => closed'[h] = closed[h] /\ store'[h] = store[h]
  <2>1. CASE ReopenFails(c)
    BY <2>1, <1>1 DEF ReopenFails, TypeOK, HandlesType
  <2>2. CASE LoadFails(c)
    BY <2>2, <1>1 DEF LoadFails, TypeOK, HandlesType
  <2>3. CASE NoDatabase(c) \/ RefuseReplaced(c) \/ SyncFails(c) \/ WriteFails(c)
    BY <2>3, <1>1 DEF NoDatabase, RefuseReplaced, SyncFails, WriteFails, TypeOK, HandlesType
  <2> QED
    BY <2>1, <2>2, <2>3
<1> QED
  BY <1>2, <1>3, RefusedInvalid

LEMMA ReloadTypes ==
    ASSUME TypeInv, NEW c \in Callers, ReadRewrites(c)
    PROVE  TypeInv'
<1>1. TypeOK /\ HandleOf[c] \in Handles
  BY HandleOfType DEF TypeInv
<1>2. path \in Files /\ meta[path] \in Nat /\ call[c] \in Calls
  BY <1>1 DEF TypeOK, FilesType, CallersType
<1>3. [call[c] EXCEPT !.seen = meta[path]] \in Calls
  BY <1>2 DEF Calls
<1>4. Held' /\ pc' \in [Callers -> Labels]
  BY <1>1, <1>2, GoesOn DEF ReadRewrites, Labels, Writing, TypeOK, HandlesType
<1>5. FilesType'
  BY <1>1 DEF ReadRewrites, TypeOK, FilesType, files
<1>6. HandlesType'
  BY <1>1, <1>2 DEF ReadRewrites, TypeOK, HandlesType
<1>7. CallersType'
  BY <1>1, <1>3, <1>4 DEF ReadRewrites, TypeOK, CallersType, answers
<1> QED
  BY <1>4, <1>5, <1>6, <1>7 DEF TypeInv, TypeOK

LEMMA LoadTypes ==
    ASSUME TypeInv, NEW c \in Callers, LoadRows(c)
    PROVE  TypeInv'
<1> DEFINE h == HandleOf[c]
<1>1. TypeOK /\ h \in Handles /\ store[h] \in Files /\ ~closed[h]
  BY HandleOfType DEF TypeInv, Held, LoadRows
<1>2. IsTable(events[store[h]]) /\ call[c].seen \in Nat
  BY <1>1, CallType DEF TypeOK, FilesType
<1>3. /\ stateValid' \in [Handles -> BOOLEAN] /\ stateValid'[h]
      /\ cachedEvents' \in [Handles -> Seq(Rows)] /\ rewrites' \in [Handles -> Nat]
  BY <1>1, <1>2, PublishType DEF LoadRows
<1>4. \A g \in Handles : g # h => stateValid'[g] = stateValid[g]
  BY <1>1 DEF LoadRows, Publish, TypeOK, HandlesType
<1>5. CASE call[c].batch # <<>>
  <2>1. Goto(c, "checking") /\ UNCHANGED <<files, mu, call, calls, answers, closed, store>>
    BY <1>5 DEF LoadRows
  <2>2. Held' /\ pc' \in [Callers -> Labels]
    BY <1>1, <1>3, <1>4, <2>1, GoesOn DEF LoadRows, Labels, TypeOK, HandlesType
  <2>3. FilesType' /\ HandlesType' /\ CallersType'
    BY <1>1, <1>3, <2>1, <2>2
       DEF TypeOK, FilesType, HandlesType, CallersType, files, answers
  <2> QED
    BY <2>2, <2>3 DEF TypeInv, TypeOK
<1>6. CASE call[c].batch = <<>>
  <2>1. Leave(c) /\ UNCHANGED <<events, answers, closed, store>>
    BY <1>6 DEF LoadRows
  <2>2. FilesType' /\ HandlesType' /\ CallersType'
    BY <1>1, <1>3, <2>1, LeaveType
       DEF TypeOK, FilesType, HandlesType, CallersType, answers
  <2>3. Held'
    BY <1>1, <1>3, <1>4, <2>1, LeaveHeld DEF TypeInv, TypeOK, HandlesType, LoadRows
  <2> QED
    BY <2>2, <2>3 DEF TypeInv, TypeOK
<1> QED
  BY <1>5, <1>6

LEMMA TransactionTypes ==
    ASSUME TypeInv, NEW c \in Callers, CheckCurrent(c) \/ Begin(c)
    PROVE  TypeInv'
<1>1. TypeOK /\ HandleOf[c] \in Handles
  BY HandleOfType DEF TypeInv
<1>2. store[HandleOf[c]] \in Files /\ stateValid[HandleOf[c]]
  BY DEF TypeInv, Held, Writing, CheckCurrent, Begin
<1>3. /\ Goto(c, "beginning") \/ Goto(c, "syncing")
      /\ pc[c] \notin {"idle", "waiting"}
      /\ UNCHANGED <<mu, closed, store, stateValid, cachedEvents, rewrites, call, calls, answers>>
  BY DEF CheckCurrent, Begin, handle
<1>4. Held' /\ pc' \in [Callers -> Labels]
  BY <1>1, <1>2, <1>3, GoesOn DEF Labels, TypeOK, HandlesType
<1>5. FilesType'
  BY <1>1, <1>2 DEF CheckCurrent, Begin, TypeOK, FilesType, files
<1>6. HandlesType' /\ CallersType'
  BY <1>1, <1>3, <1>4 DEF TypeOK, HandlesType, CallersType, answers
<1> QED
  BY <1>4, <1>5, <1>6 DEF TypeInv, TypeOK

LEMMA TableIsSeq == ASSUME NEW S, NEW m \in Nat, NEW f \in [1..m -> S] PROVE f \in Seq(S)
OBVIOUS

\* The cache after the committed tail is merged.
Merged(rows, cached) ==
    [p \in 1..(Len(cached) + Cardinality({q \in DOMAIN rows : q > Len(cached)})) |->
        IF p > Len(cached) THEN rows[p] ELSE cached[p]]

LEMMA MergedType ==
    ASSUME NEW rows, IsTable(rows), NEW cached \in Seq(Rows),
           Continues(rows, Len(cached), HeadID(cached))
    PROVE  Merged(rows, cached) \in Seq(Rows)
<1> DEFINE tail == {q \in DOMAIN rows : q > Len(cached)}
<1>1. Len(cached) \in Nat
  OBVIOUS
<1>2. Cardinality(tail) \in Nat /\ tail = (Len(cached) + 1)..(Len(cached) + Cardinality(tail))
  BY <1>1, TailDomain
<1>3. Merged(rows, cached) \in [1..(Len(cached) + Cardinality(tail)) -> Rows]
  <2> SUFFICES ASSUME NEW p \in 1..(Len(cached) + Cardinality(tail))
               PROVE  (IF p > Len(cached) THEN rows[p] ELSE cached[p]) \in Rows
    BY DEF Merged
  <2>1. CASE p > Len(cached)
    <3>1. p \in tail
      BY <1>1, <1>2, <2>1
    <3>2. p \in DOMAIN rows
      BY <3>1
    <3> QED
      BY <2>1, <3>2 DEF IsTable
  <2>2. CASE ~(p > Len(cached))
    BY <1>1, <1>2, <2>2, ElementOfSeq
  <2> QED
    BY <2>1, <2>2
<1>4. Len(cached) + Cardinality(tail) \in Nat
  BY <1>1, <1>2
<1> HIDE DEF tail
<1> QED
  BY <1>3, <1>4, TableIsSeq

LEMMA SyncTypes ==
    ASSUME TypeInv, NEW c \in Callers, SyncTail(c) \/ SyncAll(c)
    PROVE  TypeInv'
<1> DEFINE h == HandleOf[c]
<1>1. TypeOK /\ h \in Handles /\ store[h] \in Files /\ stateValid[h]
  BY HandleOfType DEF TypeInv, Held, Writing, SyncTail, SyncAll
<1>2. IsTable(events[store[h]]) /\ meta[store[h]] \in Nat /\ cachedEvents[h] \in Seq(Rows)
  BY <1>1 DEF TypeOK, FilesType, HandlesType
<1>3. /\ stateValid' \in [Handles -> BOOLEAN] /\ stateValid'[h]
      /\ cachedEvents' \in [Handles -> Seq(Rows)] /\ rewrites' \in [Handles -> Nat]
      /\ \A g \in Handles : g # h => stateValid'[g] = stateValid[g]
  <2>1. CASE SyncTail(c)
    <3>1. cachedEvents' = [cachedEvents EXCEPT ![h] = Merged(events[store[h]], @)]
      BY <2>1, <1>1 DEF SyncTail, Merged, TypeOK, HandlesType
    <3>2. Merged(events[store[h]], cachedEvents[h]) \in Seq(Rows)
      BY <2>1, <1>2, MergedType DEF SyncTail
    <3> QED
      BY <3>1, <3>2, <2>1, <1>1 DEF SyncTail, TypeOK, HandlesType
  <2>2. CASE SyncAll(c)
    <3>1. Sound(events[store[h]]) /\ Publish(h, events[store[h]], meta[store[h]])
      BY <2>2 DEF SyncAll
    <3> QED
      BY <1>1, <1>2, <3>1, PublishType DEF Publish, TypeOK, HandlesType
  <2> QED
    BY <2>1, <2>2
<1>4. Goto(c, "synced") /\ UNCHANGED <<files, closed, store, mu, call, calls, answers>>
  BY DEF SyncTail, SyncAll
<1>5. Held' /\ pc' \in [Callers -> Labels]
  BY <1>1, <1>3, <1>4, GoesOn DEF SyncTail, SyncAll, Labels, TypeOK, HandlesType
<1>6. FilesType' /\ HandlesType' /\ CallersType'
  BY <1>1, <1>3, <1>4, <1>5 DEF TypeOK, FilesType, HandlesType, CallersType, files, answers
<1> QED
  BY <1>5, <1>6 DEF TypeInv, TypeOK

LEMMA ReplayTypes ==
    ASSUME TypeInv, NEW c \in Callers, Replay(c)
    PROVE  TypeInv'
<1> DEFINE h == HandleOf[c]
           batch == call[c].batch
           result == [i \in 1..Len(batch) |-> Durable(h, batch[i])]
<1>1. TypeOK /\ Held /\ h \in Handles /\ batch \in Seq([key : Keys, data : Data])
  BY HandleOfType, CallType DEF TypeInv
<1>2. cachedEvents[h] \in Seq(Rows) /\ Len(batch) \in Nat
  BY <1>1 DEF TypeOK, HandlesType
<1>3. \A i \in 1..Len(batch) : Durable(h, batch[i]) \in Rows
  <2> SUFFICES ASSUME NEW i \in 1..Len(batch) PROVE Durable(h, batch[i]) \in Rows
    OBVIOUS
  <2>1. Known(h, batch[i])
    BY <1>1 DEF Replay, Replays
  <2> DEFINE k == CHOOSE j \in DOMAIN cachedEvents[h] :
                      cachedEvents[h][j].key = batch[i].key
  <2>2. k \in DOMAIN cachedEvents[h]
    BY <2>1 DEF Known
  <2>3. Durable(h, batch[i]) = cachedEvents[h][k]
    BY DEF Durable
  <2> HIDE DEF k
  <2> QED
    BY <1>2, <2>2, <2>3, ElementOfSeq
<1>4. result \in Seq(Rows)
  BY <1>2, <1>3
<1>5. Answer(c, result) /\ UNCHANGED handle /\ events' = events /\ Leave(c)
  BY DEF Replay, Answer
<1>6. FilesType' /\ CallersType' /\ mu' \in [Handles -> Callers \cup {NoCaller}]
  BY <1>1, <1>4, <1>5, AnswerType
<1>7. HandlesType'
  BY <1>1, <1>5, <1>6 DEF TypeOK, HandlesType, handle
<1>8. Held'
  BY <1>1, <1>5, LeaveHeld DEF handle, TypeOK, HandlesType, Held
<1> QED
  BY <1>6, <1>7, <1>8 DEF TypeInv, TypeOK

LEMMA WriteType ==
    ASSUME TypeInv, NEW c \in Callers, Write(c), store[HandleOf[c]] \in Files
    PROVE  events' = [f \in Files |-> events'[f]] /\ \A f \in Files : IsTable(events'[f])
<1> DEFINE h == HandleOf[c]
<1>1. TypeOK /\ h \in Handles /\ cachedEvents[h] \in Seq(Rows)
  BY HandleOfType DEF TypeInv, TypeOK, HandlesType
<1>2. New(c) \in Seq(Rows) /\ Len(cachedEvents[h]) \in Nat
  BY <1>1, NewType
<1>3. IsTable(Inserted(events[store[h]], Len(cachedEvents[h]), New(c)))
  BY <1>1, <1>2, InsertedType DEF TypeOK, FilesType
<1> QED
  BY <1>1, <1>3 DEF Write, TypeOK, FilesType

LEMMA CommitTypes ==
    ASSUME TypeInv, NEW c \in Callers, Commit(c) \/ CommitFails(c)
    PROVE  TypeInv'
<1> DEFINE h == HandleOf[c]
<1>1. TypeOK /\ Held /\ h \in Handles /\ store[h] \in Files /\ stateValid[h]
  BY HandleOfType DEF TypeInv, Held, Writing, Commit, CommitFails, Staged
<1>2. events' = [f \in Files |-> events'[f]] /\ \A f \in Files : IsTable(events'[f])
  BY <1>1, WriteType DEF Commit, CommitFails, TypeOK, FilesType
<1>3. CASE Commit(c)
  <2>1. /\ Goto(c, "committed") /\ UNCHANGED <<path, meta, handle, mu, call, calls, answers>>
        /\ pc[c] \notin {"idle", "waiting"} /\ Unlock(c)
    BY <1>3 DEF Commit, Staged
  <2>2. Held' /\ pc' \in [Callers -> Labels]
    BY <1>1, <2>1, GoesOn DEF handle, Labels, TypeOK, HandlesType
  <2>3. FilesType'
    BY <1>1, <1>2, <2>1 DEF Unlock, TypeOK, FilesType
  <2>4. HandlesType' /\ CallersType'
    BY <1>1, <2>1, <2>2 DEF TypeOK, HandlesType, CallersType, handle, answers
  <2> QED
    BY <2>2, <2>3, <2>4 DEF TypeInv, TypeOK
<1>4. CASE CommitFails(c)
  <2>1. Leave(c) /\ Invalidate(h) /\ UNCHANGED <<closed, store, rewrites, answers>>
        /\ pc[c] \notin {"idle", "waiting"}
    BY <1>4 DEF CommitFails, Staged
  <2>2. /\ stateValid' \in [Handles -> BOOLEAN] /\ ~stateValid'[h]
        /\ cachedEvents' \in [Handles -> Seq(Rows)]
        /\ \A g \in Handles : g # h => stateValid'[g] = stateValid[g]
    BY <1>1, <2>1, InvalidateType DEF Invalidate, TypeOK, HandlesType
  <2>3. FilesType' /\ HandlesType' /\ CallersType'
    BY <1>1, <1>2, <2>1, <2>2, LeaveType DEF TypeOK, FilesType, HandlesType, CallersType, answers
  <2>4. Held'
    BY <1>1, <2>1, <2>2, LeaveHeld DEF TypeOK, HandlesType
  <2> QED
    BY <2>3, <2>4 DEF TypeInv, TypeOK
<1> QED
  BY <1>3, <1>4

LEMMA FinishTypes ==
    ASSUME TypeInv, NEW c \in Callers, Finish(c)
    PROVE  TypeInv'
<1> DEFINE h == HandleOf[c]
<1>1. TypeOK /\ Held /\ h \in Handles
  BY HandleOfType DEF TypeInv
<1>2. New(c) \in Seq(Rows) /\ cachedEvents[h] \in Seq(Rows)
  BY <1>1, NewType DEF TypeOK, HandlesType
<1>3. cachedEvents[h] \o New(c) \in Seq(Rows)
  BY <1>2
<1>4. /\ Answer(c, New(c)) /\ Leave(c) /\ events' = events
      /\ UNCHANGED <<closed, store, stateValid, rewrites>>
      /\ cachedEvents' = [cachedEvents EXCEPT ![h] = @ \o New(c)]
  BY DEF Finish, Answer
<1>5. FilesType' /\ CallersType' /\ mu' \in [Handles -> Callers \cup {NoCaller}]
  BY <1>1, <1>2, <1>4, AnswerType
<1>6. HandlesType'
  BY <1>1, <1>3, <1>4, <1>5 DEF TypeOK, HandlesType
<1>7. Held'
  BY <1>1, <1>4, LeaveHeld DEF TypeOK, HandlesType, Held
<1> QED
  BY <1>5, <1>6, <1>7 DEF TypeInv, TypeOK

LEMMA OpenTypes ==
    ASSUME TypeInv, NEW c \in Callers, Open(c)
    PROVE  TypeInv'
<1> DEFINE h == HandleOf[c]
<1>1. TypeOK /\ Held /\ h \in Handles
  BY HandleOfType DEF TypeInv
<1>2. path \in Files /\ meta[path] \in Nat /\ call[c] \in Calls
  BY <1>1 DEF TypeOK, FilesType, CallersType
<1>3. [call[c] EXCEPT !.seen = meta[path]] \in Calls
  BY <1>2 DEF Calls
<1>4. /\ stateValid' \in [Handles -> BOOLEAN] /\ ~stateValid'[h]
      /\ cachedEvents' \in [Handles -> Seq(Rows)]
      /\ \A g \in Handles : g # h => stateValid'[g] = stateValid[g]
  BY <1>1, InvalidateType DEF Open, Invalidate, TypeOK, HandlesType
<1>5. FilesType'
  BY <1>1 DEF Open, TypeOK, FilesType, files
<1>6. HandlesType'
  BY <1>1, <1>2, <1>4 DEF Open, TypeOK, HandlesType
<1>7. CallersType'
  BY <1>1, <1>3 DEF Open, Goto, TypeOK, CallersType, Labels, answers
<1>8. Held'
  <2>1. ASSUME NEW g \in Handles, stateValid'[g], ~closed'[g] PROVE store'[g] \in Files
    BY <2>1, <1>1, <1>4 DEF Open, Held, TypeOK, HandlesType
  <2>2. ASSUME NEW d \in Callers
        PROVE  /\ pc'[d] \notin {"idle", "waiting"} =>
                      mu'[HandleOf[d]] = d /\ ~closed'[HandleOf[d]]
               /\ pc'[d] \in {"loading", "opening"} \cup Writing => store'[HandleOf[d]] \in Files
               /\ pc'[d] \in Writing => stateValid'[HandleOf[d]]
    <3>1. CASE d = c
      BY <3>1, <1>1, <1>2 DEF Open, Goto, Writing, TypeOK, HandlesType, CallersType
    <3>2. CASE d # c /\ HandleOf[d] = h
      <4>1. pc'[d] = "idle"
        BY <3>2 DEF Open, Goto, TypeOK, CallersType
      <4> QED
        BY <4>1 DEF Writing
    <3>3. CASE HandleOf[d] # h
      <4>1. d # c /\ HandleOf[d] \in Handles
        BY <3>3, HandleOfType
      <4>2. /\ pc'[d] = pc[d] /\ mu'[HandleOf[d]] = mu[HandleOf[d]]
            /\ closed'[HandleOf[d]] = closed[HandleOf[d]]
            /\ store'[HandleOf[d]] = store[HandleOf[d]]
            /\ stateValid'[HandleOf[d]] = stateValid[HandleOf[d]]
        BY <4>1, <3>3, <1>1, <1>4 DEF Open, Goto, TypeOK, HandlesType, CallersType
      <4> QED
        BY <4>2, <1>1 DEF Held
    <3> QED
      BY <3>1, <3>2, <3>3
  <2> QED
    BY <2>1, <2>2 DEF Held
<1> QED
  BY <1>5, <1>6, <1>7, <1>8 DEF TypeInv, TypeOK

\* Nobody who is past acquire calls a handle that ends.
LEMMA EndHeld ==
    ASSUME TypeInv, NEW h \in Handles, Close(h) \/ Crash(h)
    PROVE  Held'
<1>1. TypeOK /\ Held
  BY DEF TypeInv
<1>2. /\ closed' = [closed EXCEPT ![h] = TRUE] /\ store' = [store EXCEPT ![h] = NoFile]
      /\ \A g \in Handles : g # h => stateValid'[g] = stateValid[g] /\ mu'[g] = mu[g]
  BY <1>1 DEF Close, Crash, Invalidate, TypeOK, HandlesType
<1>3. ASSUME NEW g \in Handles, stateValid'[g], ~closed'[g] PROVE store'[g] \in Files
  BY <1>1, <1>2, <1>3 DEF Held, TypeOK, HandlesType
<1>4. ASSUME NEW d \in Callers
      PROVE  /\ pc'[d] \notin {"idle", "waiting"} =>
                    mu'[HandleOf[d]] = d /\ ~closed'[HandleOf[d]]
             /\ pc'[d] \in {"loading", "opening"} \cup Writing => store'[HandleOf[d]] \in Files
             /\ pc'[d] \in Writing => stateValid'[HandleOf[d]]
  <2>1. CASE HandleOf[d] = h
    <3>1. pc'[d] \in {"idle", "waiting"}
      <4>1. CASE Close(h)
        BY <2>1, <4>1, <1>1, StoreAssumption DEF Close, Held
      <4>2. CASE Crash(h)
        BY <2>1, <4>2 DEF Crash
      <4> QED
        BY <4>1, <4>2
    <3> QED
      BY <3>1 DEF Writing
  <2>2. CASE HandleOf[d] # h
    <3>1. HandleOf[d] \in Handles /\ pc'[d] = pc[d]
      BY <2>2, HandleOfType DEF Close, Crash
    <3>2. /\ closed'[HandleOf[d]] = closed[HandleOf[d]] /\ store'[HandleOf[d]] = store[HandleOf[d]]
          /\ stateValid'[HandleOf[d]] = stateValid[HandleOf[d]] /\ mu'[HandleOf[d]] = mu[HandleOf[d]]
      BY <2>2, <3>1, <1>1, <1>2 DEF TypeOK, HandlesType
    <3> QED
      BY <3>1, <3>2, <1>1 DEF Held
  <2> QED
    BY <2>1, <2>2
<1> QED
  BY <1>3, <1>4 DEF Held

LEMMA EndTypes ==
    ASSUME TypeInv, NEW h \in Handles, Close(h) \/ Crash(h)
    PROVE  TypeInv'
<1>1. TypeOK
  BY DEF TypeInv
<1>2. FilesType'
  BY <1>1 DEF Close, Crash, TypeOK, FilesType, files
<1>3. HandlesType'
  <2>1. CASE Close(h)
    BY <1>1, <2>1 DEF Close, TypeOK, HandlesType
  <2>2. CASE Crash(h)
    <3>1. stateValid' \in [Handles -> BOOLEAN] /\ cachedEvents' \in [Handles -> Seq(Rows)]
      BY <1>1, <2>2, InvalidateType DEF Crash
    <3> QED
      BY <1>1, <2>2, <3>1 DEF Crash, TypeOK, HandlesType
  <2> QED
    BY <2>1, <2>2
<1>4. CallersType'
  BY <1>1, IdleType DEF Close, Crash, TypeOK, CallersType, answers, Labels
<1> QED
  BY <1>2, <1>3, <1>4, EndHeld DEF TypeInv, TypeOK

\* What happens to a file leaves every table a table.
LEMMA FileTypes ==
    ASSUME TypeInv, Rewrite \/ Bypass \/ Replace
    PROVE  TypeInv'
<1>1. TypeOK /\ Held /\ path \in Files /\ IsTable(events[path]) /\ meta[path] \in Nat
  BY DEF TypeInv, TypeOK, FilesType
<1>2. UNCHANGED <<handle, mu, pc, call, calls, got, refused>>
  BY DEF Rewrite, Bypass, Replace, answers
<1>3. Held' /\ HandlesType'
  BY <1>1, <1>2 DEF Held, TypeOK, HandlesType, handle
<1>4. acked' \subseteq RowIds
  BY <1>1 DEF Rewrite, Bypass, Replace, answers, TypeOK, CallersType
<1>5. CallersType'
  BY <1>1, <1>2, <1>4 DEF TypeOK, CallersType
<1>6. \A p \in DOMAIN events[path] : IsTable([events[path] EXCEPT ![p].good = FALSE])
  <2> SUFFICES ASSUME NEW p \in DOMAIN events[path]
               PROVE  IsTable([events[path] EXCEPT ![p].good = FALSE])
    OBVIOUS
  <2>1. [events[path][p] EXCEPT !.good = FALSE] \in Rows
    <3>1. events[path][p] \in Rows
      BY <1>1 DEF IsTable
    <3> QED
      BY <3>1 DEF Rows
  <2> QED
    BY <1>1, <2>1 DEF IsTable
<1>7. CASE Rewrite
  <2>1. PICK p \in DOMAIN events[path] :
          \/ events' = [events EXCEPT ![path][p].good = FALSE]
          \/ events' = [events EXCEPT ![path] = [q \in DOMAIN @ \ {p} |-> @[q]]]
    BY <1>7 DEF Rewrite
  <2>2. IsTable([q \in DOMAIN events[path] \ {p} |-> events[path][q]])
    BY <1>1, FS_Subset DEF IsTable
  <2>3. events' = [f \in Files |-> events'[f]] /\ \A f \in Files : IsTable(events'[f])
    BY <1>1, <1>6, <2>1, <2>2 DEF TypeOK, FilesType
  <2>4. FilesType'
    BY <1>1, <1>7, <2>3 DEF Rewrite, TypeOK, FilesType
  <2> QED
    BY <1>3, <1>5, <2>4 DEF TypeInv, TypeOK
<1>8. CASE Bypass
  <2>1. Cardinality(DOMAIN events[path]) \in DOMAIN events[path]
    <3>1. /\ Cardinality(DOMAIN events[path]) \in Nat
          /\ DOMAIN events[path] = 1..Cardinality(DOMAIN events[path])
      BY <1>1, <1>8, SoundDomain DEF Bypass
    <3>2. Cardinality(DOMAIN events[path]) # 0
      <4> SUFFICES ASSUME Cardinality(DOMAIN events[path]) = 0 PROVE FALSE
        OBVIOUS
      <4>1. DOMAIN events[path] = {}
        BY <3>1
      <4>2. events[path] = [p \in {} |-> events[path][p]]
        BY <4>1, <1>1 DEF IsTable
      <4>3. events[path] = <<>>
        BY <4>2
      <4> QED
        BY <4>3, <1>8 DEF Bypass
    <3> QED
      BY <3>1, <3>2
  <2>2. IsTable([events[path] EXCEPT ![Cardinality(DOMAIN events[path])].good = FALSE])
    BY <1>6, <2>1
  <2>3. events' = [f \in Files |-> events'[f]] /\ \A f \in Files : IsTable(events'[f])
    BY <1>1, <1>8, <2>2 DEF Bypass, TypeOK, FilesType
  <2>4. FilesType'
    BY <1>1, <1>8, <2>3 DEF Bypass, TypeOK, FilesType
  <2> QED
    BY <1>3, <1>5, <2>4 DEF TypeInv, TypeOK
<1>9. CASE Replace
  <2>1. PICK n \in 0..Cardinality(DOMAIN events[path]) :
          events' = [events EXCEPT ![path + 1] =
              [p \in DOMAIN events[path] \cap 1..n |-> events[path][p]]]
    BY <1>9 DEF Replace
  <2>2. IsTable([p \in DOMAIN events[path] \cap 1..n |-> events[path][p]])
    BY <1>1, FS_Subset DEF IsTable
  <2>3. events' = [f \in Files |-> events'[f]] /\ \A f \in Files : IsTable(events'[f])
    BY <1>1, <2>1, <2>2 DEF TypeOK, FilesType
  <2>4. path + 1 \in Files
    BY <1>1, <1>9, StoreAssumption DEF Replace, Files
  <2>5. FilesType'
    BY <1>1, <1>9, <2>3, <2>4 DEF Replace, TypeOK, FilesType
  <2> QED
    BY <1>3, <1>5, <2>5 DEF TypeInv, TypeOK
<1> QED
  BY <1>7, <1>8, <1>9

LEMMA NextTypeInv == TypeInv /\ [Next]_vars => TypeInv'
<1> SUFFICES ASSUME TypeInv, [Next]_vars PROVE TypeInv'
  OBVIOUS
<1>1. ASSUME NEW c \in Callers, NEW r \in Requests, NEW atHead \in BOOLEAN,
             Request(c, r, atHead)
      PROVE  TypeInv'
  BY <1>1, RequestTypes
<1>2. ASSUME NEW c \in Callers, Verify(c) \/ Open(c) PROVE TypeInv'
  BY <1>2, AcquireTypes, OpenTypes
<1>3. ASSUME NEW c \in Callers, Step(c) \/ Failure(c) PROVE TypeInv'
  BY <1>3, AcquireTypes, UntouchedTypes, InvalidTypes, ReloadTypes, LoadTypes,
     TransactionTypes, SyncTypes, ReplayTypes, CommitTypes, FinishTypes
     DEF Step, Failure
<1>4. ASSUME NEW h \in Handles, Close(h) \/ Crash(h) PROVE TypeInv'
  BY <1>4, EndTypes
<1>5. CASE Rewrite \/ Bypass \/ Replace
  BY <1>5, FileTypes
<1>6. CASE UNCHANGED vars
  BY <1>6 DEF vars, files, handle, answers, TypeInv, TypeOK, FilesType, HandlesType,
     CallersType, Held, IsTable
<1> QED
  BY <1>1, <1>2, <1>3, <1>4, <1>5, <1>6 DEF Next

\* The state has the shape the code's types give it, whatever fails: every
\* stored and cached journal is made of events, every lock is free or held by a
\* caller, every handle has one of the files open or none.
THEOREM StoreTypeCorrect == Spec => []TypeOK
<1>1. Spec => []TypeInv
  BY InitTypeInv, NextTypeInv, PTL DEF Spec
<1>2. TypeInv => TypeOK
  BY DEF TypeInv
<1> QED
  BY <1>1, <1>2, PTL
=============================================================================
