-------------------------- MODULE EventStoreSafety --------------------------
(***************************************************************************)
(* What EventStore guarantees whatever the environment does: the inductive *)
(* invariant that ties a handle's cached journal to the stored one, and    *)
(* the theorems that follow from it.                                       *)
(***************************************************************************)
EXTENDS EventStoreProofs

-----------------------------------------------------------------------------
(* The invariant *)

Stored(c) == events[store[HandleOf[c]]]
Cached(c) == cachedEvents[HandleOf[c]]

\* A sequence of rows that are linked and match their hashes.
Chained(s) == \A i \in DOMAIN s :
    s[i].good /\ s[i].prev = (IF i = 1 THEN NoEvent ELSE s[i - 1].id)

\* The rows begin with s, but for a last row whose hash does not match it.
Follows(rows, s) == \A i \in DOMAIN s :
    /\ i \in DOMAIN rows
    /\ rows[i] = s[i] \/ (~rows[i].good /\ \A p \in DOMAIN rows : p <= i)

UniqueKeys(rows) == \A p, q \in DOMAIN rows :
    p # q /\ rows[p].key # NoKey => rows[p].key # rows[q].key

\* No handle has a file open that the path did not come to name.
OpenedInOrder == \A h \in Handles : store[h] <= path

\* A transaction that reads or writes holds the write lock of its file.
LockOf(c) == pc[c] \in {"syncing", "synced"} => writer[store[HandleOf[c]]] = c

\* The journal a handle validated is a chain; the stored rows follow it for as
\* long as the rewrite counter has not moved.
CacheOf(h) ==
    /\ stateValid[h] /\ ~closed[h]
    /\ \A c \in Callers : HandleOf[c] = h => pc[c] # "loading"
    => /\ Chained(cachedEvents[h])
       /\ rewrites[h] <= meta[store[h]]
       /\ rewrites[h] = meta[store[h]] => Follows(events[store[h]], cachedEvents[h])

LoadingOf(c) ==
    pc[c] \in {"loading", "opening"} => call[c].seen <= meta[store[HandleOf[c]]]

\* What a transaction has validated is all there is in its file.
SyncedOf(c) == pc[c] = "synced" => Cached(c) = Stored(c)

\* What a call has committed is what it is about to publish.
CommittedOf(c) == pc[c] = "committed" =>
    /\ Chained(Cached(c) \o New(c))
    /\ rewrites[HandleOf[c]] = meta[store[HandleOf[c]]] => Follows(Stored(c), Cached(c) \o New(c))

CallOf(c) == LockOf(c) /\ LoadingOf(c) /\ SyncedOf(c) /\ CommittedOf(c)

StoreInv ==
    /\ TypeInv /\ OpenedInOrder /\ OneEventPerKey
    /\ \A h \in Handles : CacheOf(h)
    /\ \A c \in Callers : CallOf(c)

-----------------------------------------------------------------------------
(* Chains *)

LEMMA SoundChained ==
    ASSUME NEW rows, IsTable(rows), Sound(rows)
    PROVE  Chained(rows)
<1>1. {p \in DOMAIN rows : p > 0} = DOMAIN rows
  BY DEF IsTable
<1> QED
  BY <1>1 DEF Sound, Continues, Chained

LEMMA ChainedSound ==
    ASSUME NEW s \in Seq(Rows), Chained(s)
    PROVE  Sound(s)
<1>1. DOMAIN s = 1..Len(s) /\ Len(s) \in Nat
  OBVIOUS
<1>2. {p \in DOMAIN s : p > 0} = 1..Len(s)
  BY <1>1
<1>3. Cardinality(1..Len(s)) = Len(s)
  BY <1>1, FS_Interval
<1>4. (0 + 1)..(0 + Len(s)) = 1..Len(s)
  BY <1>1
<1>5. \A p \in 1..Len(s) : s[p].good /\ s[p].prev = (IF p = 0 + 1 THEN NoEvent ELSE s[p - 1].id)
  BY <1>1 DEF Chained
<1>6. \A tail : tail = 1..Len(s) => tail = (0 + 1)..(0 + Cardinality(tail))
  BY <1>3, <1>4, Zenon
<1> QED
  BY <1>2, <1>5, <1>6 DEF Sound, Continues

LEMMA AppendedRows ==
    ASSUME NEW s \in Seq(Rows), NEW new \in Seq(Rows)
    PROVE  Inserted(s, Len(s), new) = s \o new
<1>1. /\ DOMAIN s = 1..Len(s) /\ Len(s) \in Nat /\ DOMAIN new = 1..Len(new) /\ Len(new) \in Nat
      /\ DOMAIN (s \o new) = 1..(Len(s) + Len(new))
  OBVIOUS
<1>2. DOMAIN s \cup (Len(s) + 1)..(Len(s) + Len(new)) = 1..(Len(s) + Len(new))
  BY <1>1
<1>3. \A p \in 1..(Len(s) + Len(new)) :
        (s \o new)[p] = IF p - Len(s) \in DOMAIN new THEN new[p - Len(s)] ELSE s[p]
  BY <1>1
<1>4. s \o new = [p \in 1..(Len(s) + Len(new)) |-> (s \o new)[p]]
  <2>1. s \o new \in Seq(Rows) /\ Len(s \o new) = Len(s) + Len(new)
    BY ConcatProperties
  <2> QED
    BY <2>1, LenProperties
<1> QED
  BY <1>2, <1>3, <1>4 DEF Inserted

\* The batch a call prepares is chained onto the head it saw.
LEMMA NewChained ==
    ASSUME NEW s \in Seq(Rows), NEW n \in Nat, NEW batch \in Seq([key : Keys, data : Data]),
           Chained(s)
    PROVE  Chained(s \o Prepared(n, batch, HeadID(s)))
<1> DEFINE new == Prepared(n, batch, HeadID(s))
<1>1. /\ DOMAIN s = 1..Len(s) /\ Len(s) \in Nat /\ Len(batch) \in Nat
  OBVIOUS
<1>2. /\ new \in Seq(Rows) /\ Len(new) = Len(batch)
  BY HeadType, PreparedType
<1>3. \A i \in 1..Len(batch) : /\ new[i].good /\ new[i].id = <<n, i>>
                               /\ new[i].prev = IF i = 1 THEN HeadID(s) ELSE <<n, i - 1>>
  BY DEF Prepared
<1>4. Len(s) # 0 => HeadID(s) = s[Len(s)].id
  BY DEF HeadID, Last
<1>5. Len(s) = 0 => HeadID(s) = NoEvent
  BY DEF HeadID
<1> HIDE DEF new
<1> SUFFICES ASSUME NEW i \in DOMAIN (s \o new)
             PROVE  /\ (s \o new)[i].good
                    /\ (s \o new)[i].prev = IF i = 1 THEN NoEvent ELSE (s \o new)[i - 1].id
  BY DEF Chained, new
<1>6. i \in 1..(Len(s) + Len(new))
  BY <1>1, <1>2
<1>7. CASE i <= Len(s)
  <2>1. i \in DOMAIN s /\ (s \o new)[i] = s[i] /\ (i # 1 => (s \o new)[i - 1] = s[i - 1])
    BY <1>1, <1>2, <1>6, <1>7
  <2> QED
    BY <2>1 DEF Chained
<1>8. CASE i = Len(s) + 1
  <2>1. (s \o new)[i] = new[1] /\ 1 \in 1..Len(batch)
        /\ (Len(s) # 0 => (s \o new)[i - 1] = s[Len(s)])
    BY <1>1, <1>2, <1>6, <1>8
  <2>2. (s \o new)[i].good /\ (s \o new)[i].prev = HeadID(s)
    BY <2>1, <1>3
  <2>3. CASE Len(s) = 0
    BY <2>2, <2>3, <1>5, <1>8
  <2>4. CASE Len(s) # 0
    <3>1. i # 1 /\ (s \o new)[i - 1] = s[Len(s)]
      BY <2>1, <2>4, <1>1, <1>8
    <3> QED
      BY <2>2, <2>4, <3>1, <1>4
  <2> QED
    BY <2>3, <2>4
<1>9. CASE i > Len(s) + 1
  <2>1. (s \o new)[i] = new[i - Len(s)] /\ (s \o new)[i - 1] = new[i - Len(s) - 1]
        /\ i - Len(s) \in 1..Len(batch) /\ i - Len(s) - 1 \in 1..Len(batch)
        /\ i - Len(s) # 1 /\ i # 1
    BY <1>1, <1>2, <1>6, <1>9
  <2> DEFINE j == i - Len(s)
  <2>2. new[j].good /\ new[j].prev = <<n, j - 1>> /\ new[j - 1].id = <<n, j - 1>>
    BY <2>1, <1>3
  <2> QED
    BY <2>1, <2>2
<1> QED
  BY <1>1, <1>6, <1>7, <1>8, <1>9

\* Rows appended to a chain do not disturb what follows it.
LEMMA FollowsAppend ==
    ASSUME NEW s \in Seq(Rows), NEW new \in Seq(Rows), NEW t, Chained(s), Follows(s, t)
    PROVE  Follows(s \o new, t)
<1> SUFFICES ASSUME NEW i \in DOMAIN t
             PROVE  i \in DOMAIN (s \o new) /\ (s \o new)[i] = t[i]
  BY DEF Follows
<1>1. i \in DOMAIN s /\ s[i] = t[i]
  BY DEF Follows, Chained
<1> QED
  BY <1>1

\* What a transaction merges is the file, if nothing before the tail was rewritten.
LEMMA MergedAll ==
    ASSUME NEW rows, IsTable(rows), NEW s \in Seq(Rows), Chained(s), Follows(rows, s),
           s # <<>> => rows[Len(s)] = s[Len(s)],
           Continues(rows, Len(s), HeadID(s))
    PROVE  Merged(rows, s) = rows /\ Chained(rows)
<1> DEFINE tail == {q \in DOMAIN rows : q > Len(s)}
           m == Len(s) + Cardinality(tail)
<1>1. DOMAIN s = 1..Len(s) /\ Len(s) \in Nat /\ (s # <<>> => Len(s) \in DOMAIN s)
  OBVIOUS
<1>2. Cardinality(tail) \in Nat /\ tail = (Len(s) + 1)..m
  BY <1>1, TailDomain
<1>3. \A i \in 1..Len(s) : i \in DOMAIN rows /\ rows[i] = s[i]
  <2> SUFFICES ASSUME NEW i \in 1..Len(s) PROVE i \in DOMAIN rows /\ rows[i] = s[i]
    OBVIOUS
  <2>1. i \in DOMAIN rows /\ Len(s) \in DOMAIN rows /\ rows[Len(s)] = s[Len(s)]
    BY <1>1 DEF Follows
  <2>2. rows[i] = s[i] \/ Len(s) <= i
    BY <2>1, <1>1 DEF Follows
  <2> QED
    BY <1>1, <2>1, <2>2
<1>4. DOMAIN rows = 1..m
  <2>1. \A p \in DOMAIN rows : p \in Nat \ {0}
    BY DEF IsTable
  <2>2. \A p \in DOMAIN rows : p \in 1..m
    <3> SUFFICES ASSUME NEW p \in DOMAIN rows PROVE p \in 1..m
      OBVIOUS
    <3>1. CASE p > Len(s)
      <4>1. p \in tail
        BY <3>1
      <4> QED
        BY <4>1, <1>1, <1>2
    <3>2. CASE ~(p > Len(s))
      BY <3>2, <2>1, <1>1, <1>2
    <3> QED
      BY <3>1, <3>2
  <2>3. \A p \in 1..m : p \in DOMAIN rows
    <3> SUFFICES ASSUME NEW p \in 1..m PROVE p \in DOMAIN rows
      OBVIOUS
    <3>1. CASE p > Len(s)
      <4>1. p \in tail
        BY <3>1, <1>1, <1>2
      <4> QED
        BY <4>1
    <3>2. CASE ~(p > Len(s))
      BY <3>2, <1>1, <1>2, <1>3
    <3> QED
      BY <3>1, <3>2
  <2> QED
    BY <2>2, <2>3
<1>5. rows = [p \in 1..m |-> rows[p]]
  BY <1>4 DEF IsTable
<1>6. Merged(rows, s) = rows
  <2>1. \A p \in 1..m : rows[p] = IF p > Len(s) THEN rows[p] ELSE s[p]
    BY <1>1, <1>2, <1>3
  <2>2. Merged(rows, s) = [p \in 1..m |-> IF p > Len(s) THEN rows[p] ELSE s[p]]
    BY DEF Merged
  <2> HIDE DEF m
  <2> QED
    BY <1>5, <2>1, <2>2
<1>7. Chained(rows)
  <2> SUFFICES ASSUME NEW p \in 1..m
               PROVE  rows[p].good /\ rows[p].prev = (IF p = 1 THEN NoEvent ELSE rows[p - 1].id)
    BY <1>4 DEF Chained
  <2>1. CASE p <= Len(s)
    <3>1. rows[p] = s[p] /\ (p # 1 => rows[p - 1] = s[p - 1]) /\ p \in DOMAIN s
      BY <1>1, <1>3, <2>1
    <3> QED
      BY <3>1 DEF Chained
  <2>2. CASE p > Len(s)
    <3>1. p \in tail
      BY <1>1, <1>2, <2>2
    <3>2. /\ rows[p].good
          /\ rows[p].prev = (IF p = Len(s) + 1 THEN HeadID(s) ELSE rows[p - 1].id)
      BY <3>1 DEF Continues
    <3>3. s # <<>> => HeadID(s) = rows[Len(s)].id
      BY DEF HeadID, Last
    <3>4. s = <<>> => HeadID(s) = NoEvent /\ Len(s) = 0
      BY DEF HeadID
    <3>5. s # <<>> => Len(s) # 0
      OBVIOUS
    <3>6. p = Len(s) + 1 => p - 1 = Len(s)
      BY <1>1
    <3>7. CASE p # Len(s) + 1
      BY <1>1, <2>2, <3>2, <3>7
    <3>8. CASE p = Len(s) + 1 /\ s = <<>>
      BY <3>2, <3>4, <3>8
    <3>9. CASE p = Len(s) + 1 /\ s # <<>>
      <4>1. rows[p].good /\ rows[p].prev = rows[Len(s)].id
        BY <3>2, <3>3, <3>9
      <4>2. p - 1 = Len(s) /\ p # 1
        BY <1>1, <3>5, <3>9
      <4> QED
        BY <4>1, <4>2
    <3> QED
      BY <3>7, <3>8, <3>9
  <2> QED
    BY <1>1, <1>2, <2>1, <2>2
<1> QED
  BY <1>6, <1>7

-----------------------------------------------------------------------------
(* Steps that leave the files alone *)

\* What a call does to itself and to the handle it holds disturbs nobody else.
LEMMA LocalStep ==
    ASSUME StoreInv, TypeInv', NEW c \in Callers,
           UNCHANGED <<path, events, meta>>,
           \A d \in Callers : d # c => pc'[d] = pc[d] /\ call'[d] = call[d],
           \A f \in Files, d \in Callers : d # c /\ writer[f] = d => writer'[f] = d,
           \A h \in Handles : h # HandleOf[c] =>
               /\ closed'[h] = closed[h] /\ store'[h] = store[h]
               /\ stateValid'[h] = stateValid[h]
               /\ cachedEvents'[h] = cachedEvents[h] /\ rewrites'[h] = rewrites[h],
           \/ UNCHANGED handle
           \/ \A d \in Callers : d # c /\ HandleOf[d] = HandleOf[c] => pc[d] \in {"idle", "waiting"},
           store'[HandleOf[c]] <= path,
           CacheOf(HandleOf[c])', CallOf(c)'
    PROVE  StoreInv'
<1>1. TypeOK /\ Held /\ HandleOf[c] \in Handles
  BY HandleOfType DEF StoreInv, TypeInv
<1>2. OpenedInOrder'
  <2> SUFFICES ASSUME NEW h \in Handles PROVE store'[h] <= path'
    BY DEF OpenedInOrder
  <2>1. CASE h = HandleOf[c]
    BY <2>1
  <2>2. CASE h # HandleOf[c]
    BY <2>2 DEF StoreInv, OpenedInOrder
  <2> QED
    BY <2>1, <2>2
<1>3. OneEventPerKey'
  BY DEF StoreInv, OneEventPerKey
<1>4. ASSUME NEW h \in Handles PROVE CacheOf(h)'
  <2>1. CASE h = HandleOf[c]
    BY <2>1
  <2>2. CASE h # HandleOf[c]
    <3>1. \A d \in Callers : HandleOf[d] = h => pc'[d] = pc[d]
      BY <2>2
    <3>2. CacheOf(h)
      BY DEF StoreInv
    <3> QED
      BY <2>2, <3>1, <3>2 DEF CacheOf
  <2> QED
    BY <2>1, <2>2
<1>5. ASSUME NEW d \in Callers, d # c PROVE CallOf(d)'
  <2>1. CallOf(d) /\ HandleOf[d] \in Handles /\ pc'[d] = pc[d] /\ call'[d] = call[d]
    BY <1>5, HandleOfType DEF StoreInv
  <2>2. CASE pc[d] \in {"idle", "waiting"}
    BY <2>1, <2>2 DEF CallOf, LockOf, LoadingOf, SyncedOf, CommittedOf
  <2>3. CASE pc[d] \notin {"idle", "waiting"}
    <3>1. /\ store'[HandleOf[d]] = store[HandleOf[d]]
          /\ cachedEvents'[HandleOf[d]] = cachedEvents[HandleOf[d]]
          /\ rewrites'[HandleOf[d]] = rewrites[HandleOf[d]]
      BY <1>5, <2>1, <2>3 DEF handle
    <3>2. New(d)' = New(d) /\ Cached(d)' = Cached(d) /\ Stored(d)' = Stored(d)
      BY <2>1, <3>1 DEF New, Prepared, HeadID, Cached, Stored
    <3>3. pc[d] \in {"syncing", "synced"} => store[HandleOf[d]] \in Files
      BY <1>1 DEF Held, Writing
    <3>4. LockOf(d)'
      BY <1>5, <2>1, <3>1, <3>3 DEF CallOf, LockOf
    <3>5. LoadingOf(d)' /\ SyncedOf(d)' /\ CommittedOf(d)'
      BY <2>1, <3>1, <3>2 DEF CallOf, LoadingOf, SyncedOf, CommittedOf
    <3> QED
      BY <3>4, <3>5 DEF CallOf
  <2> QED
    BY <2>2, <2>3
<1> QED
  BY <1>2, <1>3, <1>4, <1>5 DEF StoreInv

\* A caller that holds the semaphore of its handle is the only one past acquire.
LEMMA Alone ==
    ASSUME TypeInv, NEW c \in Callers, pc[c] \notin {"idle", "waiting"}
    PROVE  \A d \in Callers : d # c /\ HandleOf[d] = HandleOf[c] => pc[d] \in {"idle", "waiting"}
BY DEF TypeInv, Held

\* What Leave does to the write locks.
LEMMA OthersLocked ==
    ASSUME TypeInv, NEW c \in Callers, Unlock(c)
    PROVE  \A f \in Files, d \in Callers : d # c /\ writer[f] = d => writer'[f] = d
BY DEF Unlock

\* A call that ends is in none of the phases the invariant speaks of.
LEMMA EndedCall ==
    ASSUME NEW c \in Callers, pc'[c] \in {"idle", "waiting", "recovering", "checking", "beginning"}
    PROVE  CallOf(c)'
BY DEF CallOf, LockOf, LoadingOf, SyncedOf, CommittedOf

\* The steps that touch neither a handle nor a file.
LEMMA QuietStep ==
    ASSUME StoreInv, TypeInv', NEW c \in Callers,
           UNCHANGED <<path, events, meta, handle>>,
           \A d \in Callers : d # c => pc'[d] = pc[d] /\ call'[d] = call[d],
           \A f \in Files, d \in Callers : d # c /\ writer[f] = d => writer'[f] = d,
           pc[c] \notin {"loading"}, CallOf(c)'
    PROVE  StoreInv'
<1>1. HandleOf[c] \in Handles
  BY HandleOfType
<1>2. CacheOf(HandleOf[c])'
  <2>1. CacheOf(HandleOf[c])
    BY <1>1 DEF StoreInv
  <2>2. (\A d \in Callers : HandleOf[d] = HandleOf[c] => pc'[d] # "loading")
           => (\A d \in Callers : HandleOf[d] = HandleOf[c] => pc[d] # "loading")
    OBVIOUS
  <2> QED
    BY <2>1, <2>2 DEF CacheOf, handle
<1>3. store'[HandleOf[c]] <= path
  BY <1>1 DEF StoreInv, OpenedInOrder, handle
<1> QED
  BY <1>2, <1>3, LocalStep DEF handle

LEMMA QuietActions ==
    ASSUME StoreInv, TypeInv', NEW c \in Callers,
           \/ \E r \in Requests, atHead \in BOOLEAN : Request(c, r, atHead)
           \/ Verify(c) \/ Admit(c) \/ AdmitClosed(c) \/ GiveUp(c)
           \/ CheckCurrent(c) \/ Begin(c) \/ Busy(c)
           \/ HeadChanged(c) \/ Replay(c) \/ Conflict(c)
    PROVE  StoreInv'
<1> USE DEF Goto
<1>1. TypeInv /\ TypeOK /\ HandleOf[c] \in Handles
  BY HandleOfType DEF StoreInv, TypeInv
<1>2. CASE \/ \E r \in Requests, atHead \in BOOLEAN : Request(c, r, atHead)
           \/ Verify(c) \/ Admit(c) \/ CheckCurrent(c)
  <2>1. UNCHANGED <<path, events, meta, writer, handle>>
    BY <1>2 DEF Request, Verify, Admit, CheckCurrent, files
  <2>2. pc[c] # "loading" /\ pc'[c] \in {"waiting", "recovering", "checking", "beginning"}
    BY <1>1, <1>2 DEF Request, Verify, Admit, CheckCurrent, TypeOK, CallersType
  <2>3. \A d \in Callers : d # c => pc'[d] = pc[d] /\ call'[d] = call[d]
    BY <1>1, <1>2 DEF Request, Verify, Admit, CheckCurrent, TypeOK, CallersType
  <2> QED
    BY <2>1, <2>2, <2>3, QuietStep, EndedCall
<1>3. CASE Begin(c)
  <2>1. /\ pc'[c] = "syncing" /\ pc[c] = "beginning" /\ store[HandleOf[c]] \in Files
        /\ writer[store[HandleOf[c]]] = NoCaller
    BY <1>1, <1>3 DEF Begin, TypeInv, Held, Writing, TypeOK, CallersType
  <2>2. UNCHANGED <<path, events, meta, handle>> /\ store' = store
    BY <1>3 DEF Begin, handle
  <2>3. writer' = [writer EXCEPT ![store[HandleOf[c]]] = c]
    BY <1>3 DEF Begin
  <2>4. \A d \in Callers : d # c => pc'[d] = pc[d] /\ call'[d] = call[d]
    BY <1>1, <1>3 DEF Begin, TypeOK, CallersType
  <2>5. \A f \in Files, d \in Callers : d # c /\ writer[f] = d => writer'[f] = d
    BY <1>1, <2>1, <2>3, StoreAssumption DEF TypeOK, FilesType
  <2>6. CallOf(c)'
    BY <1>1, <2>1, <2>2, <2>3
       DEF CallOf, LockOf, LoadingOf, SyncedOf, CommittedOf, TypeOK, FilesType
  <2> QED
    BY <2>1, <2>2, <2>4, <2>5, <2>6, QuietStep
<1>4. CASE AdmitClosed(c) \/ GiveUp(c) \/ Busy(c) \/ HeadChanged(c) \/ Replay(c) \/ Conflict(c)
  <2>1. Leave(c) /\ Unlock(c) /\ UNCHANGED <<path, events, meta, handle>> /\ pc[c] # "loading"
    BY <1>4 DEF AdmitClosed, GiveUp, Busy, HeadChanged, Replay, Conflict, Refuse, Answer, Leave
  <2>2. /\ pc'[c] = "idle"
        /\ \A d \in Callers : d # c => pc'[d] = pc[d] /\ call'[d] = call[d]
    BY <1>1, <2>1 DEF Leave, TypeOK, CallersType
  <2> QED
    BY <1>1, <2>1, <2>2, OthersLocked, EndedCall, QuietStep
<1> QED
  BY <1>2, <1>3, <1>4

\* The calls that fail and invalidate the handle's state, and the open of a handle.
LEMMA InvalidActions ==
    ASSUME StoreInv, TypeInv', NEW c \in Callers,
           \/ ReopenFails(c) \/ NoDatabase(c) \/ LoadFails(c)
           \/ RefuseReplaced(c) \/ SyncFails(c) \/ WriteFails(c)
    PROVE  StoreInv'
<1>1. TypeInv /\ TypeOK /\ HandleOf[c] \in Handles /\ OpenedInOrder
  BY HandleOfType DEF StoreInv, TypeInv
<1>2. /\ Leave(c) /\ Unlock(c) /\ Invalidate(HandleOf[c])
      /\ UNCHANGED <<path, events, meta, rewrites>> /\ pc[c] \notin {"idle", "waiting"}
  BY DEF ReopenFails, NoDatabase, LoadFails, RefuseReplaced, SyncFails, WriteFails, Staged,
         Refuse, Leave
<1>3. /\ pc'[c] = "idle"
      /\ \A d \in Callers : d # c => pc'[d] = pc[d] /\ call'[d] = call[d]
  BY <1>1, <1>2 DEF Leave, Goto, TypeOK, CallersType
<1>4. /\ ~stateValid'[HandleOf[c]]
      /\ \A h \in Handles : h # HandleOf[c] =>
             stateValid'[h] = stateValid[h] /\ cachedEvents'[h] = cachedEvents[h]
  BY <1>1, <1>2 DEF Invalidate, TypeOK, HandlesType
<1>5. /\ store'[HandleOf[c]] \in {store[HandleOf[c]], NoFile}
      /\ \A h \in Handles : h # HandleOf[c] => closed'[h] = closed[h] /\ store'[h] = store[h]
  <2>1. CASE ReopenFails(c) \/ LoadFails(c)
    BY <2>1, <1>1 DEF ReopenFails, LoadFails, TypeOK, HandlesType
  <2>2. CASE NoDatabase(c) \/ RefuseReplaced(c) \/ SyncFails(c) \/ WriteFails(c)
    BY <2>2 DEF NoDatabase, RefuseReplaced, SyncFails, WriteFails
  <2> QED
    BY <2>1, <2>2
<1>6. store'[HandleOf[c]] <= path
  BY <1>1, <1>5 DEF OpenedInOrder, NoFile, TypeOK, FilesType, Files
<1>7. CacheOf(HandleOf[c])'
  BY <1>4 DEF CacheOf
<1> QED
  BY <1>1, <1>2, <1>3, <1>4, <1>5, <1>6, <1>7, Alone, OthersLocked, EndedCall, LocalStep

LEMMA ReadRewritesAction ==
    ASSUME StoreInv, TypeInv', NEW c \in Callers, ReadRewrites(c) \/ Open(c)
    PROVE  StoreInv'
<1>1. TypeInv /\ TypeOK /\ HandleOf[c] \in Handles /\ path \in Files /\ meta[path] \in Nat
  BY HandleOfType DEF StoreInv, TypeInv, TypeOK, FilesType
<1>2. UNCHANGED <<path, events, meta, writer>> /\ pc'[c] \in {"loading", "opening"}
  BY <1>1 DEF ReadRewrites, Open, Goto, files, TypeOK, CallersType
<1>3. \A d \in Callers : d # c => pc'[d] = pc[d] /\ call'[d] = call[d]
  BY <1>1 DEF ReadRewrites, Open, Goto, TypeOK, CallersType
<1>4. store'[HandleOf[c]] = path /\ call'[c].seen = meta[path]
  BY <1>1 DEF ReadRewrites, Open, TypeOK, HandlesType, CallersType, Calls
<1>5. \A h \in Handles : h # HandleOf[c] =>
          /\ closed'[h] = closed[h] /\ store'[h] = store[h]
          /\ stateValid'[h] = stateValid[h]
          /\ cachedEvents'[h] = cachedEvents[h] /\ rewrites'[h] = rewrites[h]
  BY <1>1 DEF ReadRewrites, Open, Invalidate, TypeOK, HandlesType
<1>6. \A d \in Callers : d # c /\ HandleOf[d] = HandleOf[c] => pc[d] \in {"idle", "waiting"}
  BY <1>1, Alone DEF ReadRewrites, Open
<1>7. CacheOf(HandleOf[c])'
  <2>1. CASE ReadRewrites(c)
    <3>1. pc'[c] = "loading"
      BY <1>1, <2>1 DEF ReadRewrites, Goto, TypeOK, CallersType
    <3> QED
      BY <3>1 DEF CacheOf
  <2>2. CASE Open(c)
    <3>1. ~stateValid'[HandleOf[c]]
      BY <1>1, <2>2 DEF Open, Invalidate, TypeOK, HandlesType
    <3> QED
      BY <3>1 DEF CacheOf
  <2> QED
    BY <2>1, <2>2
<1>8. CallOf(c)'
  BY <1>1, <1>2, <1>4 DEF CallOf, LockOf, LoadingOf, SyncedOf, CommittedOf
<1> QED
  BY <1>1, <1>2, <1>3, <1>4, <1>5, <1>6, <1>7, <1>8, LocalStep DEF Files

LEMMA FollowsItself == ASSUME NEW rows PROVE Follows(rows, rows)
BY DEF Follows

LEMMA LoadRowsAction ==
    ASSUME StoreInv, TypeInv', NEW c \in Callers, LoadRows(c)
    PROVE  StoreInv'
<1> DEFINE h == HandleOf[c]
           rows == events[store[h]]
<1>1. TypeInv /\ TypeOK /\ h \in Handles /\ store[h] \in Files
  BY HandleOfType DEF StoreInv, TypeInv, Held, LoadRows
<1>2. IsTable(rows) /\ Sound(rows)
  BY <1>1 DEF LoadRows, TypeOK, FilesType
<1>3. Journal(rows) = rows /\ Chained(rows)
  BY <1>2, JournalType, SoundChained
<1>4. /\ stateValid' = [stateValid EXCEPT ![h] = TRUE]
      /\ cachedEvents' = [cachedEvents EXCEPT ![h] = rows]
      /\ rewrites' = [rewrites EXCEPT ![h] = call[c].seen]
      /\ UNCHANGED <<path, events, meta, closed, store>>
  BY <1>3 DEF LoadRows, Publish, Leave, files
<1>5. /\ pc'[c] \in {"checking", "idle"} /\ pc[c] \notin {"idle", "waiting"}
      /\ \A d \in Callers : d # c => pc'[d] = pc[d] /\ call'[d] = call[d]
  BY <1>1 DEF LoadRows, Leave, Goto, TypeOK, CallersType
<1>6. \A f \in Files, d \in Callers : d # c /\ writer[f] = d => writer'[f] = d
  BY <1>1, OthersLocked DEF LoadRows, Leave, files
<1>7. call[c].seen <= meta[store[h]]
  BY DEF StoreInv, CallOf, LoadingOf, LoadRows
<1>8. CacheOf(h)'
  <2>1. /\ cachedEvents'[h] = rows /\ rewrites'[h] = call[c].seen
        /\ store'[h] = store[h] /\ meta' = meta /\ events'[store'[h]] = rows
    BY <1>1, <1>4 DEF TypeOK, HandlesType
  <2> QED
    BY <1>3, <1>7, <2>1, FollowsItself DEF CacheOf
<1>9. /\ store'[h] <= path
      /\ \A g \in Handles : g # h =>
             /\ closed'[g] = closed[g] /\ store'[g] = store[g] /\ stateValid'[g] = stateValid[g]
             /\ cachedEvents'[g] = cachedEvents[g] /\ rewrites'[g] = rewrites[g]
  BY <1>1, <1>4 DEF StoreInv, OpenedInOrder, TypeOK, HandlesType
<1> HIDE DEF h, rows
<1> QED
  BY <1>1, <1>4, <1>5, <1>6, <1>8, <1>9, Alone, EndedCall, LocalStep DEF h

LEMMA SyncAction ==
    ASSUME StoreInv, TypeInv', NEW c \in Callers, SyncTail(c) \/ SyncAll(c)
    PROVE  StoreInv'
<1> DEFINE h == HandleOf[c]
           rows == events[store[h]]
<1>1. TypeInv /\ TypeOK /\ h \in Handles /\ store[h] \in Files /\ stateValid[h] /\ ~closed[h]
  BY HandleOfType DEF StoreInv, TypeInv, Held, Writing, SyncTail, SyncAll
<1>2. /\ IsTable(rows) /\ cachedEvents[h] \in Seq(Rows)
      /\ meta[store[h]] \in Nat /\ rewrites[h] \in Nat
  BY <1>1 DEF TypeOK, FilesType, HandlesType
<1>3. /\ UNCHANGED <<path, events, meta, writer, closed, store>> /\ pc'[c] = "synced"
      /\ pc[c] = "syncing"
      /\ \A d \in Callers : d # c => pc'[d] = pc[d] /\ call'[d] = call[d]
  BY <1>1 DEF SyncTail, SyncAll, Goto, files, TypeOK, CallersType
<1>4. Chained(rows) /\ cachedEvents'[h] = rows /\ rewrites'[h] = meta[store[h]]
  <2>1. CASE SyncTail(c)
    <3>1. CacheOf(h)
      BY <1>1 DEF StoreInv
    <3>2. \A d \in Callers : HandleOf[d] = h => pc[d] # "loading"
      BY <1>1, <1>3, Alone
    <3>3. /\ rewrites[h] = meta[store[h]]
          /\ cachedEvents[h] # <<>> =>
                rows[Len(cachedEvents[h])] = cachedEvents[h][Len(cachedEvents[h])]
      BY <1>2, <2>1 DEF SyncTail, PrefixRewritten
    <3>4. Chained(cachedEvents[h]) /\ Follows(rows, cachedEvents[h])
      BY <1>1, <3>1, <3>2, <3>3 DEF CacheOf
    <3>5. Continues(rows, Len(cachedEvents[h]), HeadID(cachedEvents[h]))
      BY <2>1 DEF SyncTail
    <3>6. Merged(rows, cachedEvents[h]) = rows /\ Chained(rows)
      BY <1>2, <3>3, <3>4, <3>5, MergedAll
    <3>7. cachedEvents'[h] = Merged(rows, cachedEvents[h]) /\ rewrites' = rewrites
      BY <1>1, <2>1 DEF SyncTail, Merged, TypeOK, HandlesType
    <3> QED
      BY <3>3, <3>6, <3>7
  <2>2. CASE SyncAll(c)
    <3>1. Journal(rows) = rows /\ Chained(rows)
      BY <1>2, <2>2, JournalType, SoundChained DEF SyncAll
    <3> QED
      BY <1>1, <2>2, <3>1 DEF SyncAll, Publish, TypeOK, HandlesType
  <2> QED
    BY <2>1, <2>2
<1>5. \A g \in Handles : g # h =>
          /\ closed'[g] = closed[g] /\ store'[g] = store[g] /\ stateValid'[g] = stateValid[g]
          /\ cachedEvents'[g] = cachedEvents[g] /\ rewrites'[g] = rewrites[g]
  BY <1>1 DEF SyncTail, SyncAll, Publish, TypeOK, HandlesType
<1>6. CacheOf(h)'
  BY <1>2, <1>3, <1>4, FollowsItself DEF CacheOf
<1>7. CallOf(c)'
  <2>1. writer[store[h]] = c
    BY <1>3 DEF StoreInv, CallOf, LockOf
  <2>2. Cached(c)' = Stored(c)'
    BY <1>3, <1>4 DEF Cached, Stored
  <2> QED
    BY <1>3, <2>1, <2>2 DEF CallOf, LockOf, LoadingOf, SyncedOf, CommittedOf
<1>8. store'[h] <= path
  BY <1>1, <1>3 DEF StoreInv, OpenedInOrder
<1> HIDE DEF h, rows
<1> QED
  BY <1>1, <1>3, <1>5, <1>6, <1>7, <1>8, Alone, LocalStep DEF h

LEMMA FinishAction ==
    ASSUME StoreInv, TypeInv', NEW c \in Callers, Finish(c)
    PROVE  StoreInv'
<1> DEFINE h == HandleOf[c]
<1>1. TypeInv /\ TypeOK /\ h \in Handles /\ stateValid[h] /\ ~closed[h]
  BY HandleOfType DEF StoreInv, TypeInv, Held, Writing, Finish
<1>2. /\ Leave(c) /\ Unlock(c) /\ UNCHANGED <<path, events, meta, closed, store, stateValid, rewrites>>
      /\ cachedEvents' = [cachedEvents EXCEPT ![h] = @ \o New(c)]
      /\ pc[c] = "committed"
  BY DEF Finish, Answer, Leave
<1>3. /\ pc'[c] = "idle"
      /\ \A d \in Callers : d # c => pc'[d] = pc[d] /\ call'[d] = call[d]
  BY <1>1, <1>2 DEF Leave, Goto, TypeOK, CallersType
<1>4. /\ cachedEvents'[h] = Cached(c) \o New(c)
      /\ \A g \in Handles : g # h => cachedEvents'[g] = cachedEvents[g]
  BY <1>1, <1>2 DEF Cached, TypeOK, HandlesType
<1>5. CacheOf(h)'
  <2>1. \A d \in Callers : HandleOf[d] = h => pc[d] # "loading"
    BY <1>1, <1>2, Alone
  <2>2. rewrites[h] <= meta[store[h]]
    BY <1>1, <2>1 DEF StoreInv, CacheOf
  <2>3. CommittedOf(c)
    BY DEF StoreInv, CallOf
  <2>4. Stored(c) = events'[store'[h]]
    BY <1>2 DEF Stored
  <2> QED
    BY <1>2, <1>4, <2>2, <2>3, <2>4 DEF CacheOf, CommittedOf
<1>6. store'[h] <= path
  BY <1>1, <1>2 DEF StoreInv, OpenedInOrder
<1> HIDE DEF h
<1> QED
  BY <1>1, <1>2, <1>3, <1>4, <1>5, <1>6, Alone, OthersLocked, EndedCall, LocalStep DEF h

LEMMA EndActions ==
    ASSUME StoreInv, TypeInv', NEW h \in Handles, Close(h) \/ Crash(h)
    PROVE  StoreInv'
<1>1. TypeInv /\ TypeOK /\ path \in Files
  BY DEF StoreInv, TypeInv, TypeOK, FilesType
<1>2. /\ UNCHANGED <<path, events, meta, rewrites>>
      /\ closed'[h] /\ store'[h] = NoFile
      /\ \A g \in Handles : g # h =>
             /\ closed'[g] = closed[g] /\ store'[g] = store[g] /\ stateValid'[g] = stateValid[g]
             /\ cachedEvents'[g] = cachedEvents[g]
  BY <1>1 DEF Close, Crash, Invalidate, files, TypeOK, HandlesType
<1>3. OpenedInOrder'
  BY <1>1, <1>2 DEF StoreInv, OpenedInOrder, NoFile, Files
<1>4. OneEventPerKey'
  BY <1>2 DEF StoreInv, OneEventPerKey
<1>5. \A d \in Callers : HandleOf[d] = h => pc'[d] \in {"idle", "waiting"}
  <2>1. CASE Close(h)
    BY <2>1, <1>1, StoreAssumption DEF Close, TypeInv, Held
  <2>2. CASE Crash(h)
    BY <2>2 DEF Crash
  <2> QED
    BY <2>1, <2>2
<1>6. \A d \in Callers : HandleOf[d] # h =>
          /\ pc'[d] = pc[d] /\ call'[d] = call[d]
          /\ \A f \in Files : writer[f] = d => writer'[f] = d
  BY <1>1 DEF Close, Crash, files, TypeOK, FilesType
<1>7. ASSUME NEW g \in Handles PROVE CacheOf(g)'
  <2>1. CASE g = h
    BY <2>1, <1>2 DEF CacheOf
  <2>2. CASE g # h
    <3>1. CacheOf(g)
      BY DEF StoreInv
    <3>2. \A d \in Callers : HandleOf[d] = g => pc'[d] = pc[d]
      BY <2>2, <1>6
    <3> QED
      BY <2>2, <3>1, <3>2, <1>2 DEF CacheOf
  <2> QED
    BY <2>1, <2>2
<1>8. ASSUME NEW d \in Callers PROVE CallOf(d)'
  <2>1. CASE HandleOf[d] = h
    BY <2>1, <1>5, EndedCall
  <2>2. CASE HandleOf[d] # h
    <3>1. CallOf(d) /\ HandleOf[d] \in Handles
      BY HandleOfType DEF StoreInv
    <3>2. New(d)' = New(d) /\ Cached(d)' = Cached(d) /\ Stored(d)' = Stored(d)
      <4>1. /\ cachedEvents'[HandleOf[d]] = cachedEvents[HandleOf[d]] /\ events' = events
            /\ store'[HandleOf[d]] = store[HandleOf[d]] /\ call'[d] = call[d]
        BY <2>2, <3>1, <1>2, <1>6
      <4> QED
        BY <4>1 DEF New, Prepared, HeadID, Cached, Stored
    <3>3. pc[d] \in {"syncing", "synced"} => store[HandleOf[d]] \in Files
      BY <1>1 DEF TypeInv, Held, Writing
    <3>4. /\ store'[HandleOf[d]] = store[HandleOf[d]] /\ pc'[d] = pc[d] /\ call'[d] = call[d]
          /\ rewrites' = rewrites /\ meta' = meta
      BY <2>2, <3>1, <1>2, <1>6
    <3>5. LockOf(d)'
      BY <2>2, <3>1, <3>3, <3>4, <1>6 DEF CallOf, LockOf
    <3>6. LoadingOf(d)' /\ SyncedOf(d)' /\ CommittedOf(d)'
      BY <3>1, <3>2, <3>4 DEF CallOf, LoadingOf, SyncedOf, CommittedOf
    <3> QED
      BY <3>5, <3>6 DEF CallOf
  <2> QED
    BY <2>1, <2>2
<1> QED
  BY <1>3, <1>4, <1>7, <1>8 DEF StoreInv

-----------------------------------------------------------------------------
(* Steps that change a file *)

\* What a caller that validated its file in full knows when it commits.
LEMMA StagedFacts ==
    ASSUME StoreInv, NEW c \in Callers, Staged(c)
    PROVE  /\ TypeOK /\ HandleOf[c] \in Handles /\ store[HandleOf[c]] \in Files
           /\ pc[c] = "synced" /\ writer[store[HandleOf[c]]] = c
           /\ Cached(c) = Stored(c) /\ Cached(c) \in Seq(Rows) /\ New(c) \in Seq(Rows)
           /\ Chained(Cached(c)) /\ Chained(Cached(c) \o New(c))
           /\ Inserted(Stored(c), Len(Cached(c)), New(c)) = Cached(c) \o New(c)
<1>1. TypeInv /\ TypeOK /\ HandleOf[c] \in Handles /\ pc[c] = "synced"
  BY HandleOfType DEF StoreInv, TypeInv, Staged
<1>2. store[HandleOf[c]] \in Files /\ stateValid[HandleOf[c]] /\ ~closed[HandleOf[c]]
  BY <1>1 DEF TypeInv, Held, Writing
<1>3. writer[store[HandleOf[c]]] = c /\ Cached(c) = Stored(c)
  BY <1>1 DEF StoreInv, CallOf, LockOf, SyncedOf
<1>4. Cached(c) \in Seq(Rows) /\ New(c) \in Seq(Rows)
  BY <1>1, NewType DEF Cached, TypeOK, HandlesType
<1>5. \A d \in Callers : HandleOf[d] = HandleOf[c] => pc[d] # "loading"
  BY <1>1, Alone
<1>6. Chained(Cached(c))
  BY <1>1, <1>2, <1>5 DEF StoreInv, CacheOf, Cached
<1>7. Chained(Cached(c) \o New(c))
  <2>1. call[c].n \in 0..MaxCalls /\ call[c].batch \in Seq([key : Keys, data : Data])
    BY <1>1, CallType
  <2>2. call[c].n \in Nat
    BY <2>1, StoreAssumption
  <2> QED
    BY <1>4, <1>6, <2>1, <2>2, NewChained DEF New, Cached
<1>8. Inserted(Stored(c), Len(Cached(c)), New(c)) = Cached(c) \o New(c)
  BY <1>3, <1>4, AppendedRows
<1> QED
  BY <1>1, <1>2, <1>3, <1>4, <1>6, <1>7, <1>8

\* A batch of new keys, distinct among themselves, leaves every key with one event.
LEMMA FreshKeys ==
    ASSUME TypeOK, NEW c \in Callers, HandleOf[c] \in Handles,
           Cached(c) \in Seq(Rows), New(c) \in Seq(Rows),
           IsFresh(HandleOf[c], call[c].batch), UniqueKeys(Cached(c))
    PROVE  UniqueKeys(Cached(c) \o New(c))
<1> DEFINE s == Cached(c)
           new == New(c)
           batch == call[c].batch
<1>1. batch \in Seq([key : Keys, data : Data]) /\ Len(new) = Len(batch)
  BY CallType, NewType
<1>2. \A i \in 1..Len(new) : i \in DOMAIN batch /\ new[i].key = batch[i].key
  BY <1>1 DEF New, Prepared
<1>3. /\ s \in Seq(Rows) /\ new \in Seq(Rows)
      /\ DOMAIN s = 1..Len(s) /\ Len(s) \in Nat /\ Len(new) \in Nat
  OBVIOUS
<1>4. \A i \in 1..Len(new), p \in 1..Len(s) : new[i].key # NoKey => s[p].key # new[i].key
  <2> SUFFICES ASSUME NEW i \in 1..Len(new), NEW p \in 1..Len(s), new[i].key # NoKey
               PROVE  s[p].key # new[i].key
    OBVIOUS
  <2>1. ~Known(HandleOf[c], batch[i]) /\ batch[i].key # NoKey /\ new[i].key = batch[i].key
    BY <1>2 DEF IsFresh
  <2> QED
    BY <1>3, <2>1 DEF Known, Cached
<1>5. \A i, j \in 1..Len(new) : i # j => new[i].key # new[j].key
  <2> SUFFICES ASSUME NEW i \in 1..Len(new), NEW j \in 1..Len(new), i # j
               PROVE  new[i].key # new[j].key
    OBVIOUS
  <2>1. Len(batch) > 1
    BY <1>1, <1>3
  <2> QED
    BY <1>2, <2>1 DEF IsFresh, WellKeyed
<1> HIDE DEF s, new, batch
<1> SUFFICES ASSUME NEW p \in 1..(Len(s) + Len(new)), NEW q \in 1..(Len(s) + Len(new)),
                    p # q, (s \o new)[p].key # NoKey
             PROVE  (s \o new)[p].key # (s \o new)[q].key
  BY <1>3 DEF UniqueKeys, s, new
<1>6. CASE p <= Len(s) /\ q <= Len(s)
  <2>1. (s \o new)[p] = s[p] /\ (s \o new)[q] = s[q] /\ p \in DOMAIN s /\ q \in DOMAIN s
    BY <1>3, <1>6
  <2> QED
    BY <2>1 DEF UniqueKeys, s
<1>7. CASE p <= Len(s) /\ q > Len(s)
  <2>1. (s \o new)[p] = s[p] /\ (s \o new)[q] = new[q - Len(s)]
        /\ p \in 1..Len(s) /\ q - Len(s) \in 1..Len(new)
    BY <1>3, <1>7
  <2> QED
    BY <2>1, <1>4
<1>8. CASE p > Len(s) /\ q <= Len(s)
  <2>1. (s \o new)[q] = s[q] /\ (s \o new)[p] = new[p - Len(s)]
        /\ q \in 1..Len(s) /\ p - Len(s) \in 1..Len(new)
    BY <1>3, <1>8
  <2> QED
    BY <2>1, <1>4
<1>9. CASE p > Len(s) /\ q > Len(s)
  <2>1. (s \o new)[q] = new[q - Len(s)] /\ (s \o new)[p] = new[p - Len(s)]
        /\ q - Len(s) \in 1..Len(new) /\ p - Len(s) \in 1..Len(new)
        /\ p - Len(s) # q - Len(s)
    BY <1>3, <1>9
  <2> QED
    BY <2>1, <1>5
<1> QED
  BY <1>3, <1>6, <1>7, <1>8, <1>9

\* The invariant speaks of keys file by file.
LEMMA KeysOfFiles == OneEventPerKey <=> \A f \in Files : UniqueKeys(events[f])
BY DEF OneEventPerKey, UniqueKeys

\* A commit adds to the one file nobody else has validated beyond.
LEMMA CommitActions ==
    ASSUME StoreInv, TypeInv', NEW c \in Callers, Commit(c) \/ CommitFails(c)
    PROVE  StoreInv'
<1> DEFINE h == HandleOf[c]
           f == store[h]
           s == Cached(c)
           new == New(c)
<1>1. Staged(c) /\ Unlock(c) /\ UNCHANGED <<path, meta, closed, store, rewrites>>
  BY DEF Commit, CommitFails, Leave, handle
<1>2. /\ TypeOK /\ h \in Handles /\ f \in Files /\ pc[c] = "synced" /\ writer[f] = c
      /\ s = events[f] /\ s \in Seq(Rows) /\ new \in Seq(Rows)
      /\ Chained(s) /\ Chained(s \o new)
      /\ Inserted(events[f], Len(s), new) = s \o new
  BY <1>1, StagedFacts DEF Stored
<1>3. /\ events'[f] \in {s, s \o new}
      /\ \A g \in Files : g # f => events'[g] = events[g]
      /\ Commit(c) => events'[f] = s \o new
  <2>1. Write(c) => events' = [events EXCEPT ![f] = s \o new]
    BY <1>2 DEF Write, Cached
  <2>2. Write(c) \/ events' = events
    BY DEF Commit, CommitFails
  <2>3. Commit(c) => Write(c)
    BY DEF Commit
  <2> QED
    BY <1>2, <2>1, <2>2, <2>3 DEF TypeOK, FilesType
<1>4. \A t : Follows(events[f], t) => Follows(events'[f], t)
  BY <1>2, <1>3, FollowsAppend
<1>5. /\ \A d \in Callers : d # c => pc'[d] = pc[d] /\ call'[d] = call[d]
      /\ \A d \in Callers : d # c /\ HandleOf[d] = h => pc[d] \in {"idle", "waiting"}
      /\ \A d \in Callers, g \in Files : d # c /\ writer[g] = d => writer'[g] = d
  <2>1. TypeInv
    BY DEF StoreInv
  <2>2. \A d \in Callers : d # c => pc'[d] = pc[d] /\ call'[d] = call[d]
    BY <1>2 DEF Commit, CommitFails, Leave, Goto, TypeOK, CallersType
  <2>3. \A d \in Callers : d # c /\ HandleOf[d] = h => pc[d] \in {"idle", "waiting"}
    BY <1>2, <2>1, Alone
  <2>4. \A g \in Files, d \in Callers : d # c /\ writer[g] = d => writer'[g] = d
    BY <1>1, <2>1, OthersLocked
  <2> QED
    BY <2>2, <2>3, <2>4
<1>6. /\ stateValid'[h] => cachedEvents'[h] = cachedEvents[h] /\ stateValid[h]
      /\ \A g \in Handles : g # h =>
             stateValid'[g] = stateValid[g] /\ cachedEvents'[g] = cachedEvents[g]
  BY <1>2 DEF Commit, CommitFails, Invalidate, handle, TypeOK, HandlesType
<1>7. OpenedInOrder'
  BY <1>1 DEF StoreInv, OpenedInOrder
<1>8. OneEventPerKey'
  <2>1. \A g \in Files : UniqueKeys(events[g])
    BY KeysOfFiles DEF StoreInv
  <2>2. UniqueKeys(s) /\ UniqueKeys(s \o new)
    BY <1>1, <1>2, <2>1, FreshKeys DEF Staged
  <2>3. \A g \in Files : UniqueKeys(events'[g])
    BY <1>3, <2>1, <2>2
  <2> QED
    BY <2>3 DEF OneEventPerKey, UniqueKeys
<1>9. ASSUME NEW g \in Handles PROVE CacheOf(g)'
  <2>1. SUFFICES ASSUME stateValid'[g], ~closed'[g],
                        \A d \in Callers : HandleOf[d] = g => pc'[d] # "loading"
                 PROVE  /\ Chained(cachedEvents'[g])
                        /\ rewrites'[g] <= meta'[store'[g]]
                        /\ rewrites'[g] = meta'[store'[g]]
                               => Follows(events'[store'[g]], cachedEvents'[g])
    BY DEF CacheOf
  <2>2. cachedEvents'[g] = cachedEvents[g] /\ stateValid[g] /\ ~closed[g] /\ store[g] \in Files
    <3>1. cachedEvents'[g] = cachedEvents[g] /\ stateValid[g] /\ ~closed[g]
      BY <1>1, <1>6, <2>1
    <3> QED
      BY <3>1 DEF StoreInv, TypeInv, Held
  <2>3. \A d \in Callers : HandleOf[d] = g => pc[d] # "loading"
    BY <1>2, <1>5, <2>1
  <2>4. /\ Chained(cachedEvents[g]) /\ rewrites[g] <= meta[store[g]]
        /\ rewrites[g] = meta[store[g]] => Follows(events[store[g]], cachedEvents[g])
    BY <2>2, <2>3 DEF StoreInv, CacheOf
  <2>5. Follows(events[store[g]], cachedEvents[g]) => Follows(events'[store[g]], cachedEvents[g])
    BY <1>3, <1>4, <2>2
  <2> QED
    BY <1>1, <2>2, <2>4, <2>5
<1>10. ASSUME NEW d \in Callers, d # c PROVE CallOf(d)'
  <2>1. CallOf(d) /\ HandleOf[d] \in Handles /\ pc'[d] = pc[d] /\ call'[d] = call[d]
    BY <1>5, <1>10, HandleOfType DEF StoreInv
  <2>2. CASE pc[d] \in {"idle", "waiting"}
    BY <2>1, <2>2, EndedCall
  <2>3. CASE pc[d] \notin {"idle", "waiting"}
    <3>1. HandleOf[d] # h /\ Cached(d)' = Cached(d) /\ New(d)' = New(d)
      BY <1>5, <1>6, <1>10, <2>1, <2>3 DEF Cached, New, Prepared, HeadID
    <3>2. pc[d] \in {"syncing", "synced", "committed"} => store[HandleOf[d]] \in Files
      BY DEF StoreInv, TypeInv, Held, Writing
    <3>3. LockOf(d)' /\ LoadingOf(d)'
      BY <1>1, <1>5, <1>10, <2>1, <3>2 DEF CallOf, LockOf, LoadingOf
    <3>4. SyncedOf(d)'
      <4>1. pc[d] = "synced" => Stored(d)' = Stored(d)
        BY <1>1, <1>2, <1>3, <1>10, <2>1, <3>2 DEF CallOf, LockOf, Stored
      <4> QED
        BY <2>1, <3>1, <4>1 DEF CallOf, SyncedOf
    <3>5. CommittedOf(d)'
      <4>1. pc[d] = "committed" => \A t : Follows(Stored(d), t) => Follows(Stored(d)', t)
        BY <1>1, <1>3, <1>4, <3>2 DEF Stored
      <4> QED
        BY <1>1, <2>1, <3>1, <4>1 DEF CallOf, CommittedOf
    <3> QED
      BY <3>3, <3>4, <3>5 DEF CallOf
  <2> QED
    BY <2>2, <2>3
<1>11. CallOf(c)'
  <2>1. CASE CommitFails(c)
    <3>1. pc'[c] = "idle"
      BY <1>2, <2>1 DEF CommitFails, Leave, Goto, TypeOK, CallersType
    <3> QED
      BY <3>1, EndedCall
  <2>2. CASE Commit(c)
    <3>1. pc'[c] = "committed" /\ call' = call /\ cachedEvents' = cachedEvents
      BY <1>2, <2>2 DEF Commit, Goto, handle, TypeOK, CallersType
    <3>2. Cached(c)' = s /\ New(c)' = new /\ Stored(c)' = s \o new
      BY <1>1, <1>3, <2>2, <3>1 DEF Cached, New, Prepared, HeadID, Stored
    <3>3. CommittedOf(c)'
      BY <1>2, <3>2, FollowsItself DEF CommittedOf
    <3> QED
      BY <3>1, <3>3 DEF CallOf, LockOf, LoadingOf, SyncedOf
  <2> QED
    BY <2>1, <2>2
<1> QED
  BY <1>7, <1>8, <1>9, <1>10, <1>11 DEF StoreInv

\* A transaction is never in a file whose write lock is free.
LEMMA UnlockedFile ==
    ASSUME StoreInv, NEW f \in Files, writer[f] = NoCaller, NEW c \in Callers,
           pc[c] \in {"syncing", "synced"}
    PROVE  store[HandleOf[c]] # f
BY StoreAssumption DEF StoreInv, CallOf, LockOf

\* A call that has committed still has a cache its file may follow.
LEMMA CommittedCache ==
    ASSUME StoreInv, NEW c \in Callers, pc[c] = "committed"
    PROVE  /\ store[HandleOf[c]] \in Files
           /\ rewrites[HandleOf[c]] <= meta[store[HandleOf[c]]]
<1>1. TypeInv /\ HandleOf[c] \in Handles
  BY HandleOfType DEF StoreInv
<1>2. store[HandleOf[c]] \in Files /\ stateValid[HandleOf[c]] /\ ~closed[HandleOf[c]]
  BY <1>1 DEF TypeInv, Held, Writing
<1>3. \A d \in Callers : HandleOf[d] = HandleOf[c] => pc[d] # "loading"
  BY <1>1, Alone
<1> QED
  BY <1>1, <1>2, <1>3 DEF StoreInv, CacheOf

\* What the environment does to files, as the calls and handles see it: every
\* file a handle has open keeps its rows, or its counter moves, or its last row
\* goes bad; a transaction's file is left alone.
LEMMA FileStep ==
    ASSUME StoreInv, TypeInv', UNCHANGED <<writer, handle, pc, call>>,
           path <= path',
           \A f \in Files : f <= path => meta[f] <= meta'[f],
           \A f \in Files : f <= path /\ meta'[f] = meta[f] =>
               \A t : Follows(events[f], t) => Follows(events'[f], t),
           \A f \in Files : f <= path /\ writer[f] # NoCaller => events'[f] = events[f],
           \A f \in Files : UniqueKeys(events'[f])
    PROVE  StoreInv'
<1>1. TypeInv /\ TypeOK /\ path' \in Files /\ path \in Files
  BY DEF StoreInv, TypeInv, TypeOK, FilesType
<1>2. \A h \in Handles : store[h] <= path /\ (store[h] \in Files \/ store[h] = NoFile)
  BY <1>1 DEF StoreInv, OpenedInOrder, TypeOK, HandlesType
<1>3. OpenedInOrder'
  <2> SUFFICES ASSUME NEW h \in Handles PROVE store[h] <= path'
    BY DEF OpenedInOrder, handle
  <2> QED
    BY <1>1, <1>2 DEF Files, NoFile
<1>4. OneEventPerKey'
  BY DEF OneEventPerKey, UniqueKeys
<1>5. /\ meta \in [Files -> Nat] /\ meta' \in [Files -> Nat] /\ rewrites \in [Handles -> Nat]
      /\ \A c \in Callers : call[c].seen \in Nat
  BY <1>1, CallType DEF TypeInv, TypeOK, FilesType, HandlesType
<1>6. ASSUME NEW h \in Handles PROVE CacheOf(h)'
  <2> SUFFICES ASSUME stateValid[h], ~closed[h],
                      \A c \in Callers : HandleOf[c] = h => pc[c] # "loading"
               PROVE  /\ Chained(cachedEvents[h]) /\ rewrites[h] <= meta'[store[h]]
                      /\ rewrites[h] = meta'[store[h]] => Follows(events'[store[h]], cachedEvents[h])
    BY DEF CacheOf, handle
  <2>1. /\ Chained(cachedEvents[h]) /\ rewrites[h] <= meta[store[h]]
        /\ rewrites[h] = meta[store[h]] => Follows(events[store[h]], cachedEvents[h])
    BY DEF StoreInv, CacheOf
  <2>2. store[h] \in Files /\ store[h] <= path
    BY <1>1, <1>2 DEF TypeInv, Held
  <2>3. meta[store[h]] \in Nat /\ meta'[store[h]] \in Nat /\ rewrites[h] \in Nat
        /\ meta[store[h]] <= meta'[store[h]]
    BY <1>5, <2>2
  <2>4. rewrites[h] <= meta'[store[h]]
        /\ (rewrites[h] = meta'[store[h]]
              => meta'[store[h]] = meta[store[h]] /\ rewrites[h] = meta[store[h]])
    BY <2>1, <2>3
  <2> QED
    BY <2>1, <2>2, <2>4
<1>7. ASSUME NEW c \in Callers PROVE CallOf(c)'
  <2>1. CallOf(c) /\ HandleOf[c] \in Handles
    BY HandleOfType DEF StoreInv
  <2>2. Cached(c)' = Cached(c) /\ New(c)' = New(c)
    <3>1. cachedEvents' = cachedEvents /\ call' = call
      BY DEF handle
    <3> QED
      BY <3>1 DEF Cached, New, Prepared, HeadID
  <2>3. store' = store /\ rewrites' = rewrites /\ pc' = pc /\ call' = call /\ writer' = writer
    BY DEF handle
  <2>4. pc[c] \in {"loading", "opening"} \cup Writing =>
            store[HandleOf[c]] \in Files /\ store[HandleOf[c]] <= path
    BY <1>1, <1>2, <2>1 DEF TypeInv, Held
  <2>5. LockOf(c)'
    BY <2>1, <2>3 DEF CallOf, LockOf
  <2>6. LoadingOf(c)'
    <3> SUFFICES ASSUME pc[c] \in {"loading", "opening"}
                 PROVE  call[c].seen <= meta'[store[HandleOf[c]]]
      BY <2>3 DEF LoadingOf
    <3> DEFINE f == store[HandleOf[c]]
    <3>1. f \in Files /\ call[c].seen <= meta[f] /\ meta[f] <= meta'[f]
      BY <2>1, <2>4 DEF CallOf, LoadingOf
    <3>2. call[c].seen \in Nat /\ meta[f] \in Nat /\ meta'[f] \in Nat
      BY <1>5, <3>1
    <3> QED
      BY <3>1, <3>2
  <2>7. SyncedOf(c)'
    <3> SUFFICES ASSUME pc[c] = "synced" PROVE Cached(c) = Stored(c)'
      BY <2>2, <2>3 DEF SyncedOf
    <3>1. /\ store[HandleOf[c]] \in Files /\ store[HandleOf[c]] <= path
          /\ writer[store[HandleOf[c]]] = c
      BY <2>1, <2>4 DEF CallOf, LockOf, Writing
    <3>2. Stored(c)' = Stored(c)
      BY <2>3, <3>1, StoreAssumption DEF Stored
    <3> QED
      BY <2>1, <3>2 DEF CallOf, SyncedOf
  <2>8. CommittedOf(c)'
    <3> DEFINE f == store[HandleOf[c]]
    <3> SUFFICES ASSUME pc[c] = "committed"
                 PROVE  /\ Chained(Cached(c) \o New(c))
                        /\ rewrites[HandleOf[c]] = meta'[f] => Follows(events'[f], Cached(c) \o New(c))
      BY <2>2, <2>3 DEF CommittedOf, Stored
    <3>1. /\ f \in Files /\ f <= path /\ rewrites[HandleOf[c]] <= meta[f] /\ meta[f] <= meta'[f]
      BY <2>4, CommittedCache DEF Writing
    <3>2. rewrites[HandleOf[c]] \in Nat /\ meta[f] \in Nat /\ meta'[f] \in Nat
      BY <1>5, <2>1, <3>1
    <3>3. rewrites[HandleOf[c]] = meta'[f] => meta'[f] = meta[f] /\ rewrites[HandleOf[c]] = meta[f]
      BY <3>1, <3>2
    <3> QED
      BY <2>1, <3>1, <3>3 DEF CallOf, CommittedOf, Stored
  <2> QED
    BY <2>5, <2>6, <2>7, <2>8 DEF CallOf
<1> QED
  BY <1>3, <1>4, <1>6, <1>7 DEF StoreInv

LEMMA RewriteAction ==
    ASSUME StoreInv, TypeInv', Rewrite
    PROVE  StoreInv'
<1>1. TypeOK /\ path \in Files /\ IsTable(events[path]) /\ meta[path] \in Nat
  BY DEF StoreInv, TypeInv, TypeOK, FilesType
<1>2. /\ UNCHANGED <<path, writer, handle, pc, call>> /\ writer[path] = NoCaller
      /\ meta' = [meta EXCEPT ![path] = @ + 1]
  BY DEF Rewrite
<1>3. PICK p \in DOMAIN events[path] :
        \/ events' = [events EXCEPT ![path][p].good = FALSE]
        \/ events' = [events EXCEPT ![path] = [q \in DOMAIN @ \ {p} |-> @[q]]]
  BY DEF Rewrite
<1>4. \A f \in Files : f # path => events'[f] = events[f]
  BY <1>1, <1>3 DEF TypeOK, FilesType
<1>5. /\ meta'[path] = meta[path] + 1
      /\ \A f \in Files : f # path => meta'[f] = meta[f] /\ meta[f] \in Nat
  BY <1>1, <1>2 DEF TypeOK, FilesType
<1>6. /\ DOMAIN events'[path] \subseteq DOMAIN events[path]
      /\ \A q \in DOMAIN events'[path] : events'[path][q].key = events[path][q].key
  <2>1. CASE events' = [events EXCEPT ![path] = [q \in DOMAIN @ \ {p} |-> @[q]]]
    <3>1. events'[path] = [q \in DOMAIN events[path] \ {p} |-> events[path][q]]
      BY <1>1, <2>1 DEF TypeOK, FilesType
    <3> QED
      BY <3>1
  <2>2. CASE events' = [events EXCEPT ![path][p].good = FALSE]
    <3>1. /\ events'[path] = [events[path] EXCEPT ![p] = [@ EXCEPT !.good = FALSE]]
          /\ events[path][p] \in Rows
      BY <1>1, <2>2 DEF TypeOK, FilesType, IsTable
    <3>2. [events[path][p] EXCEPT !.good = FALSE].key = events[path][p].key
      BY <3>1 DEF Rows
    <3> QED
      BY <1>1, <3>1, <3>2 DEF IsTable
  <2> QED
    BY <1>3, <2>1, <2>2
<1>7. \A f \in Files : UniqueKeys(events'[f])
  <2>1. \A f \in Files : UniqueKeys(events[f])
    BY KeysOfFiles DEF StoreInv
  <2>2. UniqueKeys(events'[path])
    BY <1>1, <1>6, <2>1 DEF UniqueKeys
  <2> QED
    BY <1>4, <2>1, <2>2
<1>8. \A f \in Files : meta[f] <= meta'[f] /\ (meta'[f] = meta[f] => f # path)
  BY <1>1, <1>5
<1>9. path <= path'
  BY <1>1, <1>2 DEF Files
<1> QED
  BY <1>2, <1>4, <1>7, <1>8, <1>9, FileStep

LEMMA BypassAction ==
    ASSUME StoreInv, TypeInv', Bypass
    PROVE  StoreInv'
<1> DEFINE rows == events[path]
           n == Cardinality(DOMAIN rows)
<1>1. TypeOK /\ path \in Files /\ IsTable(rows) /\ meta \in [Files -> Nat]
  BY DEF StoreInv, TypeInv, TypeOK, FilesType
<1>2. UNCHANGED <<path, meta, writer, handle, pc, call>> /\ writer[path] = NoCaller /\ Sound(rows)
  BY DEF Bypass
<1>3. events' = [events EXCEPT ![path] = [@ EXCEPT ![n].good = FALSE]]
  BY <1>1 DEF Bypass, TypeOK, FilesType
<1>4. /\ events'[path] = [rows EXCEPT ![n].good = FALSE]
      /\ \A f \in Files : f # path => events'[f] = events[f]
  BY <1>1, <1>3 DEF TypeOK, FilesType
<1>5. Chained(rows) /\ n \in Nat /\ DOMAIN rows = 1..n
  BY <1>1, <1>2, SoundChained, SoundDomain
<1>6. /\ DOMAIN events'[path] = DOMAIN rows
      /\ \A q \in DOMAIN rows : /\ events'[path][q].key = rows[q].key
                                /\ q # n => events'[path][q] = rows[q]
                                /\ q = n => ~events'[path][q].good
  <2>1. \A q \in DOMAIN rows : rows[q] \in Rows
    BY <1>1 DEF IsTable
  <2>2. \A row \in Rows : [row EXCEPT !.good = FALSE].key = row.key
                          /\ [row EXCEPT !.good = FALSE].good = FALSE
    BY DEF Rows
  <2>3. events'[path] = [rows EXCEPT ![n] = [rows[n] EXCEPT !.good = FALSE]]
    BY <1>4
  <2> HIDE DEF rows, n
  <2> QED
    BY <2>1, <2>2, <2>3
<1>7. \A f \in Files : UniqueKeys(events'[f])
  <2>1. \A f \in Files : UniqueKeys(events[f])
    BY KeysOfFiles DEF StoreInv
  <2>2. UniqueKeys(events'[path])
    BY <1>1, <1>6, <2>1 DEF UniqueKeys
  <2> QED
    BY <1>4, <2>1, <2>2
<1>8. \A t : Follows(rows, t) => Follows(events'[path], t)
  <2> SUFFICES ASSUME NEW t, Follows(rows, t), NEW i \in DOMAIN t
               PROVE  /\ i \in DOMAIN events'[path]
                      /\ events'[path][i] = t[i]
                         \/ (~events'[path][i].good /\ \A p \in DOMAIN events'[path] : p <= i)
    BY DEF Follows
  <2>1. i \in DOMAIN rows /\ rows[i] = t[i]
    BY <1>5 DEF Follows, Chained
  <2>2. i = n => \A p \in DOMAIN events'[path] : p <= i
    BY <1>5, <1>6
  <2> HIDE DEF rows, n
  <2> QED
    BY <1>6, <2>1, <2>2
<1>9. path <= path' /\ \A f \in Files : meta[f] <= meta'[f]
  BY <1>1, <1>2 DEF Files
<1> HIDE DEF rows, n
<1> QED
  BY <1>2, <1>4, <1>7, <1>8, <1>9, FileStep DEF rows

LEMMA ReplaceAction ==
    ASSUME StoreInv, TypeInv', Replace
    PROVE  StoreInv'
<1>1. TypeOK /\ path \in Files /\ meta \in [Files -> Nat] /\ path + 1 \in Files
  BY StoreAssumption DEF StoreInv, TypeInv, TypeOK, FilesType, Replace, Files
<1>2. /\ UNCHANGED <<writer, handle, pc, call>> /\ path' = path + 1
      /\ meta' = [meta EXCEPT ![path + 1] = meta[path]]
  BY DEF Replace
<1>3. PICK n \in 0..Cardinality(DOMAIN events[path]) :
        events' = [events EXCEPT ![path + 1] =
            [p \in DOMAIN events[path] \cap 1..n |-> events[path][p]]]
  BY DEF Replace
<1>4. \A f \in Files : f <= path => f # path + 1
  BY <1>1 DEF Files
<1>5. /\ \A f \in Files : f # path + 1 => events'[f] = events[f] /\ meta'[f] = meta[f]
      /\ events'[path + 1] = [p \in DOMAIN events[path] \cap 1..n |-> events[path][p]]
  BY <1>1, <1>2, <1>3 DEF TypeOK, FilesType
<1>6. \A f \in Files : UniqueKeys(events'[f])
  <2>1. \A f \in Files : UniqueKeys(events[f])
    BY KeysOfFiles DEF StoreInv
  <2>2. UniqueKeys(events'[path + 1])
    BY <1>1, <1>5, <2>1 DEF UniqueKeys
  <2> QED
    BY <1>5, <2>1, <2>2
<1>7. path <= path' /\ \A f \in Files : f <= path => meta[f] <= meta'[f]
  BY <1>1, <1>2, <1>4, <1>5 DEF Files
<1> QED
  BY <1>2, <1>4, <1>5, <1>6, <1>7, FileStep

-----------------------------------------------------------------------------
(* The invariant is inductive *)

LEMMA InitStoreInv == Init => StoreInv
<1> SUFFICES ASSUME Init PROVE StoreInv
  OBVIOUS
<1>1. TypeInv
  BY InitTypeInv
<1>2. 1 \in Files
  BY StoreAssumption DEF Files
<1>3. OpenedInOrder
  BY DEF Init, OpenedInOrder
<1>4. OneEventPerKey
  BY DEF Init, OneEventPerKey
<1>5. \A h \in Handles : CacheOf(h)
  BY <1>2 DEF Init, CacheOf, Chained, Follows
<1>6. \A c \in Callers : CallOf(c)
  BY DEF Init, CallOf, LockOf, LoadingOf, SyncedOf, CommittedOf
<1> QED
  BY <1>1, <1>3, <1>4, <1>5, <1>6 DEF StoreInv

LEMMA NextStoreInv == StoreInv /\ [Next]_vars => StoreInv'
<1> SUFFICES ASSUME StoreInv, [Next]_vars PROVE StoreInv'
  OBVIOUS
<1>0. TypeInv'
  BY NextTypeInv DEF StoreInv
<1>1. ASSUME NEW c \in Callers, NEW r \in Requests, NEW atHead \in BOOLEAN,
             Request(c, r, atHead)
      PROVE  StoreInv'
  BY <1>0, <1>1, QuietActions
<1>2. ASSUME NEW c \in Callers, Verify(c) \/ Open(c) PROVE StoreInv'
  BY <1>0, <1>2, QuietActions, ReadRewritesAction
<1>3. ASSUME NEW c \in Callers, Step(c) \/ Failure(c) PROVE StoreInv'
  BY <1>0, <1>3, QuietActions, InvalidActions, ReadRewritesAction, LoadRowsAction,
     SyncAction, CommitActions, FinishAction
     DEF Step, Failure
<1>4. ASSUME NEW h \in Handles, Close(h) \/ Crash(h) PROVE StoreInv'
  BY <1>0, <1>4, EndActions
<1>5. CASE Rewrite \/ Bypass \/ Replace
  BY <1>0, <1>5, RewriteAction, BypassAction, ReplaceAction
<1>6. CASE UNCHANGED vars
  <2>1. UNCHANGED <<writer, handle, pc, call, path, meta, events>>
    BY <1>6 DEF vars, files
  <2>2. \A f \in Files : UniqueKeys(events[f]) /\ meta[f] <= meta[f]
    BY KeysOfFiles DEF StoreInv, TypeInv, TypeOK, FilesType
  <2>3. path <= path
    BY DEF StoreInv, TypeInv, TypeOK, FilesType, Files
  <2> QED
    BY <1>0, <2>1, <2>2, <2>3, FileStep
<1> QED
  BY <1>1, <1>2, <1>3, <1>4, <1>5, <1>6 DEF Next

LEMMA StoreInvariant == Spec => []StoreInv
BY InitStoreInv, NextStoreInv, PTL DEF Spec

-----------------------------------------------------------------------------
(* What follows from it *)

\* No two events of a journal bear one idempotency key, whatever writers,
\* retries after unknown commits, crashes, rewrites and replaced files do; the
\* appends ensure it without the unique index of the table.
THEOREM EveryKeyHasOneEvent == Spec => []OneEventPerKey
<1>1. StoreInv => OneEventPerKey
  BY DEF StoreInv
<1> QED
  BY <1>1, StoreInvariant, PTL

\* The steps that add a row to a file while the path names the same file.
LEMMA OnlyCommitsExtend ==
    ASSUME StoreInv, [Next]_vars, path' = path, NEW f \in Files,
           ~(DOMAIN events'[f] \subseteq DOMAIN events[f])
    PROVE  \E c \in Callers : /\ Staged(c) /\ f = store[HandleOf[c]]
                              /\ events[f] = Cached(c) /\ events'[f] = Cached(c) \o New(c)
<1>1. TypeOK /\ path \in Files /\ IsTable(events[path])
  BY DEF StoreInv, TypeInv, TypeOK, FilesType
<1>2. events' # events
  OBVIOUS
<1>3. ~Replace
  BY <1>1 DEF Replace, Files
<1>4. ~Rewrite
  <2> SUFFICES ASSUME Rewrite PROVE FALSE
    OBVIOUS
  <2>1. PICK p \in DOMAIN events[path] :
          \/ events' = [events EXCEPT ![path][p].good = FALSE]
          \/ events' = [events EXCEPT ![path] = [q \in DOMAIN @ \ {p} |-> @[q]]]
    BY DEF Rewrite
  <2>2. DOMAIN events'[f] \subseteq DOMAIN events[f]
    BY <1>1, <2>1 DEF TypeOK, FilesType
  <2> QED
    BY <2>2
<1>5. ~Bypass
  <2> SUFFICES ASSUME Bypass PROVE FALSE
    OBVIOUS
  <2>1. DOMAIN events'[f] = DOMAIN events[f]
    BY <1>1 DEF Bypass, TypeOK, FilesType
  <2> QED
    BY <2>1
<1>6. \A h \in Handles : ~Close(h) /\ ~Crash(h)
  BY <1>2 DEF Close, Crash, files
<1>7. PICK c \in Callers : Commit(c) \/ CommitFails(c)
  BY <1>2, <1>3, <1>4, <1>5, <1>6
     DEF Next, vars, files, Request, Verify, Open, Step, Failure, Admit, AdmitClosed, ReadRewrites,
         NoDatabase, LoadRows, LoadFails, CheckCurrent, RefuseReplaced, Begin, Busy, SyncTail,
         SyncAll, SyncFails, HeadChanged, Replay, Conflict, Finish, GiveUp, ReopenFails,
         WriteFails, Refuse, Answer
<1>8. Staged(c) /\ Write(c)
  BY <1>2, <1>7 DEF Commit, CommitFails
<1>9. f = store[HandleOf[c]]
  BY <1>8 DEF Write, TypeOK, FilesType
<1>10. events[f] = Cached(c) /\ events'[f] = Cached(c) \o New(c)
  BY <1>8, <1>9, <1>1, StagedFacts DEF Write, Stored, Cached, TypeOK, FilesType
<1> QED
  BY <1>8, <1>9, <1>10

\* An append never extends a damaged chain, whatever was rewritten, deleted or
\* changed behind the triggers' back: what it adds to is sound, and stays so.
THEOREM DamagedChainsAreNotExtended == Spec => ExtendsOnlySoundJournal
<1>1. ASSUME StoreInv, [Next]_vars
      PROVE  \A f \in Files :
                 path' = path /\ ~(DOMAIN events'[f] \subseteq DOMAIN events[f])
                     => Sound(events[f]) /\ Sound(events'[f])
  <2> SUFFICES ASSUME NEW f \in Files, path' = path,
                      ~(DOMAIN events'[f] \subseteq DOMAIN events[f])
               PROVE  Sound(events[f]) /\ Sound(events'[f])
    OBVIOUS
  <2>1. PICK c \in Callers : /\ Staged(c) /\ f = store[HandleOf[c]]
                             /\ events[f] = Cached(c) /\ events'[f] = Cached(c) \o New(c)
    BY <1>1, OnlyCommitsExtend
  <2>2. /\ Cached(c) \in Seq(Rows) /\ New(c) \in Seq(Rows)
        /\ Chained(Cached(c)) /\ Chained(Cached(c) \o New(c))
    BY <1>1, <2>1, StagedFacts
  <2>3. Cached(c) \o New(c) \in Seq(Rows)
    BY <2>2
  <2> QED
    BY <2>1, <2>2, <2>3, ChainedSound
<1> QED
  BY <1>1, StoreInvariant, PTL DEF Spec, ExtendsOnlySoundJournal

\* Only these steps give a caller another answer.
LEMMA AnswerSteps ==
    ASSUME StoreInv, [Next]_vars, NEW c \in Callers, got'[c] # got[c], got'[c] # <<>>
    PROVE  \/ Replay(c) /\ pc[c] = "synced"
           \/ Finish(c) /\ pc[c] = "committed" /\ got'[c] = New(c)
<1>1. got \in [Callers -> Seq(Rows)] /\ got' # got
  BY DEF StoreInv, TypeInv, TypeOK, CallersType
<1>2. \A d \in Callers : Replay(d) \/ Finish(d) => d = c
  BY <1>1 DEF Replay, Finish, Answer
<1>3. \A d \in Callers, r \in Requests, atHead \in BOOLEAN : ~Request(d, r, atHead)
  BY <1>1 DEF Request
<1>4. \A h \in Handles : ~Close(h) /\ ~Crash(h)
  BY <1>1 DEF Close, Crash, answers
<1>5. ~Rewrite /\ ~Bypass /\ ~Replace
  BY <1>1 DEF Rewrite, Bypass, Replace, answers
<1>6. \E d \in Callers : Replay(d) \/ Finish(d)
  BY <1>1, <1>3, <1>4, <1>5
     DEF Next, vars, answers, Verify, Open, Step, Failure, Admit, AdmitClosed, ReadRewrites,
         NoDatabase, LoadRows, LoadFails, CheckCurrent, RefuseReplaced, Begin, Busy, SyncTail,
         SyncAll, SyncFails, HeadChanged, Conflict, Commit, GiveUp, ReopenFails,
         WriteFails, CommitFails, Refuse
<1>7. Finish(c) => got'[c] = New(c)
  BY <1>1 DEF Finish, Answer
<1> QED
  BY <1>2, <1>6, <1>7 DEF Replay, Finish

\* The event a replay answers with for one member of the batch.
LEMMA DurableFacts ==
    ASSUME StoreInv, NEW c \in Callers, Replay(c)
    PROVE  LET batch == call[c].batch IN
           /\ got'[c] = [i \in 1..Len(batch) |-> Durable(HandleOf[c], batch[i])]
           /\ batch \in Seq([key : Keys, data : Data])
           /\ \A i \in DOMAIN batch :
                /\ Durable(HandleOf[c], batch[i]).key = batch[i].key
                /\ \E k \in DOMAIN Cached(c) : Durable(HandleOf[c], batch[i]) = Cached(c)[k]
<1> DEFINE batch == call[c].batch
<1>1. TypeOK
  BY DEF StoreInv, TypeInv
<1>2. batch \in Seq([key : Keys, data : Data])
  BY <1>1, CallType
<1>3. got'[c] = [i \in 1..Len(batch) |-> Durable(HandleOf[c], batch[i])]
  BY <1>1 DEF Replay, Answer, TypeOK, CallersType
<1>4. ASSUME NEW i \in DOMAIN batch
      PROVE  /\ Durable(HandleOf[c], batch[i]).key = batch[i].key
             /\ \E k \in DOMAIN Cached(c) : Durable(HandleOf[c], batch[i]) = Cached(c)[k]
  <2> DEFINE k == CHOOSE j \in DOMAIN Cached(c) : Cached(c)[j].key = batch[i].key
  <2>1. \E j \in DOMAIN Cached(c) : Cached(c)[j].key = batch[i].key
    BY DEF Replay, Replays, Known, Cached
  <2>2. k \in DOMAIN Cached(c) /\ Cached(c)[k].key = batch[i].key
    BY <2>1
  <2>3. Durable(HandleOf[c], batch[i]) = Cached(c)[k]
    BY DEF Durable, Cached
  <2> HIDE DEF k
  <2> QED
    BY <2>2, <2>3
<1> QED
  BY <1>2, <1>3, <1>4

\* A known key is answered with events the journal still holds, whatever was
\* rewritten or deleted since the handle last looked.
THEOREM ReplaysAreStored == Spec => ReplaysOnlyWhatIsStored
<1>1. ASSUME StoreInv, [Next]_vars
      PROVE  \A c \in Callers : pc[c] = "synced" /\ got'[c] # got[c] =>
                 \A i \in DOMAIN got'[c] : \E p \in DOMAIN events[store[HandleOf[c]]] :
                     events[store[HandleOf[c]]][p] = got'[c][i]
  <2> SUFFICES ASSUME NEW c \in Callers, pc[c] = "synced", got'[c] # got[c],
                      NEW i \in DOMAIN got'[c]
               PROVE  \E p \in DOMAIN events[store[HandleOf[c]]] :
                          events[store[HandleOf[c]]][p] = got'[c][i]
    OBVIOUS
  <2>1. Replay(c)
    <3>1. got'[c] # <<>>
      OBVIOUS
    <3> QED
      BY <1>1, <3>1, AnswerSteps
  <2>2. Cached(c) = Stored(c)
    BY <1>1 DEF StoreInv, CallOf, SyncedOf
  <2> DEFINE batch == call[c].batch
  <2>3. /\ got'[c] = [j \in 1..Len(batch) |-> Durable(HandleOf[c], batch[j])]
        /\ batch \in Seq([key : Keys, data : Data])
        /\ \A j \in DOMAIN batch :
              \E k \in DOMAIN Cached(c) : Durable(HandleOf[c], batch[j]) = Cached(c)[k]
    BY <1>1, <2>1, DurableFacts
  <2>4. i \in DOMAIN batch /\ got'[c][i] = Durable(HandleOf[c], batch[i])
    <3>1. DOMAIN batch = 1..Len(batch)
      BY <2>3
    <3>2. DOMAIN got'[c] = 1..Len(batch)
      BY <2>3
    <3> QED
      BY <2>3, <3>1, <3>2
  <2> QED
    BY <2>2, <2>3, <2>4 DEF Stored
<1> QED
  BY <1>1, StoreInvariant, PTL DEF Spec, ReplaysOnlyWhatIsStored

\* An append answers with the whole batch it was asked for as one stretch of
\* the chain, whether it stored the batch or an earlier call did.
THEOREM AnswersAreWholeBatches == Spec => AnswersAreWhole
<1>1. ASSUME StoreInv, [Next]_vars, NEW c \in Callers, got'[c] # got[c], got'[c] # <<>>
      PROVE  LET batch == call[c].batch IN
             /\ Len(got'[c]) = Len(batch)
             /\ \A i \in DOMAIN batch :
                 /\ got'[c][i].key = batch[i].key
                 /\ got'[c][i].data = batch[i].data
                      \/ (Len(batch) = 1 /\ batch[i].key \notin Strict)
                 /\ i > 1 => got'[c][i].prev = got'[c][i - 1].id
  <2> DEFINE batch == call[c].batch
  <2>1. TypeOK /\ batch \in Seq([key : Keys, data : Data]) /\ Len(batch) \in Nat
        /\ DOMAIN batch = 1..Len(batch)
    <3>1. TypeOK
      BY <1>1 DEF StoreInv, TypeInv
    <3>2. batch \in Seq([key : Keys, data : Data])
      BY <3>1, CallType
    <3> QED
      BY <3>1, <3>2
  <2>2. CASE Replay(c)
    <3> DEFINE result == [i \in 1..Len(batch) |-> Durable(HandleOf[c], batch[i])]
    <3>1. got'[c] = result
      BY <1>1, <2>2, DurableFacts
    <3>2. Len(result) = Len(batch)
      BY <2>1
    <3>3. \A i \in DOMAIN batch : Durable(HandleOf[c], batch[i]).key = batch[i].key
      BY <1>1, <2>2, DurableFacts
    <3>4. /\ \A i \in DOMAIN batch : batch[i].key \in Strict \/ Len(batch) > 1
                 => Durable(HandleOf[c], batch[i]).data = batch[i].data
          /\ \A i \in 2..Len(batch) : Durable(HandleOf[c], batch[i]).prev
                                        = Durable(HandleOf[c], batch[i - 1]).id
      BY <2>2 DEF Replay, Replays
    <3>5. ASSUME NEW i \in DOMAIN batch
          PROVE  /\ result[i].key = batch[i].key
                 /\ result[i].data = batch[i].data \/ (Len(batch) = 1 /\ batch[i].key \notin Strict)
                 /\ i > 1 => result[i].prev = result[i - 1].id
      <4>1. result[i] = Durable(HandleOf[c], batch[i])
        BY <2>1
      <4>2. Len(batch) > 1 \/ Len(batch) = 1
        <5>1. i \in 1..Len(batch) /\ Len(batch) \in Nat
          BY <2>1
        <5> HIDE DEF batch
        <5> QED
          BY <5>1
      <4>3. i > 1 => i \in 2..Len(batch) /\ result[i - 1] = Durable(HandleOf[c], batch[i - 1])
        BY <2>1
      <4> QED
        BY <3>3, <3>4, <4>1, <4>2, <4>3
    <3> QED
      BY <3>1, <3>2, <3>5
  <2>3. CASE Finish(c)
    <3>1. got'[c] = New(c) /\ Len(New(c)) = Len(batch)
      BY <1>1, <2>1, <2>3, AnswerSteps, NewType DEF Replay, Finish
    <3>2. \A i \in 1..Len(batch) :
            /\ New(c)[i].key = batch[i].key /\ New(c)[i].data = batch[i].data
            /\ New(c)[i].id = <<call[c].n, i>>
            /\ i # 1 => New(c)[i].prev = <<call[c].n, i - 1>>
      BY DEF New, Prepared
    <3>3. \A i \in 1..Len(batch) : i > 1 => New(c)[i].prev = New(c)[i - 1].id
      <4> SUFFICES ASSUME NEW i \in 1..Len(batch), i > 1
                   PROVE  New(c)[i].prev = New(c)[i - 1].id
        OBVIOUS
      <4>1. i - 1 \in 1..Len(batch) /\ i # 1
        BY <2>1
      <4> QED
        BY <3>2, <4>1
    <3> QED
      BY <2>1, <3>1, <3>2, <3>3
  <2> QED
    BY <1>1, <2>2, <2>3, AnswerSteps
<1>2. StoreInv /\ [Next]_vars => [\A c \in Callers : got'[c] # got[c] /\ got'[c] # <<>> =>
        LET batch == call[c].batch IN
        /\ Len(got'[c]) = Len(batch)
        /\ \A i \in DOMAIN batch :
            /\ got'[c][i].key = batch[i].key
            /\ got'[c][i].data = batch[i].data
                 \/ (Len(batch) = 1 /\ batch[i].key \notin Strict)
            /\ i > 1 => got'[c][i].prev = got'[c][i - 1].id]_vars
  BY <1>1
<1> QED
  BY <1>2, StoreInvariant, PTL DEF Spec, AnswersAreWhole

-----------------------------------------------------------------------------
(* Which call stored which event *)

HasStored(n) == \E f \in Files : \E p \in DOMAIN events[f] : events[f][p].id[1] = n

\* Only a call that committed, or whose commit failed, has stored anything; a
\* call keeps its number until it ends, and no two calls have the same.
NumberOf(c) ==
    /\ call[c].n <= calls
    /\ call[c].n = 0 <=> call[c].batch = <<>>
    /\ pc[c] = "idle" => call[c].n = 0
    /\ pc[c] \in {"waiting"} \cup Writing => call[c].n # 0
    /\ call[c].n # 0 =>
           /\ call[c].n \notin refused
           /\ HasStored(call[c].n) => pc[c] = "committed"
           /\ \A d \in Callers : d # c => call[d].n # call[c].n

NumbersInv ==
    /\ refused \subseteq 0..calls
    /\ \A n \in Nat : HasStored(n) => n \in 1..calls /\ n \notin refused
    /\ \A c \in Callers : NumberOf(c)

LEMMA SameEventsSameNumbers == events' = events => \A n : HasStored(n)' <=> HasStored(n)
BY DEF HasStored

\* A call that goes on keeps its number, and one that ends gives it up.
LEMMA NumbersStep ==
    ASSUME NumbersInv, TypeOK, NEW c \in Callers, calls' = calls,
           \A d \in Callers : d # c => call'[d] = call[d] /\ pc'[d] = pc[d],
           \/ call'[c] = Idle /\ pc'[c] = "idle"
           \/ /\ call'[c].n = call[c].n /\ call'[c].batch = call[c].batch
              /\ pc'[c] = "idle" => call[c].n = 0
              /\ pc'[c] \in {"waiting"} \cup Writing => call[c].n # 0
              /\ pc[c] = "committed" => pc'[c] = "committed",
           \/ refused' = refused
           \/ pc[c] # "committed" /\ call'[c] = Idle /\ refused' = refused \cup {call[c].n},
           \A n \in Nat : HasStored(n)' =>
               \/ HasStored(n)
               \/ /\ n = call[c].n /\ n # 0 /\ refused' = refused
                  /\ pc'[c] = "committed" \/ call'[c] = Idle
    PROVE  NumbersInv'
<1>1. calls \in Nat /\ call[c].n \in Nat /\ \A d \in Callers : call[d].n \in Nat
  BY CallType, StoreAssumption DEF TypeOK, CallersType
<1>2. Idle.n = 0 /\ Idle.batch = <<>>
  BY DEF Idle
<1>3. NumberOf(c)
  BY DEF NumbersInv
<1>4. \A d \in Callers : call'[d].n \in {call[d].n, 0}
  BY <1>2
<1>5. refused' \subseteq 0..calls'
  <2>1. call[c].n \in 0..calls
    BY <1>1, <1>3 DEF NumberOf
  <2> QED
    BY <2>1 DEF NumbersInv
<1>6. ASSUME NEW n \in Nat, HasStored(n)' PROVE n \in 1..calls' /\ n \notin refused'
  <2>1. CASE HasStored(n)
    <3>1. n \in 1..calls /\ n \notin refused
      BY <2>1 DEF NumbersInv
    <3>2. pc[c] # "committed" => n # call[c].n
      BY <1>1, <1>3, <2>1, <3>1 DEF NumberOf
    <3> QED
      BY <3>1, <3>2
  <2>2. CASE ~HasStored(n)
    <3>1. n = call[c].n /\ n # 0 /\ refused' = refused
      BY <1>6, <2>2
    <3> QED
      BY <1>1, <1>3, <3>1 DEF NumberOf
  <2> QED
    BY <2>1, <2>2
<1>7. ASSUME NEW d \in Callers, d # c PROVE NumberOf(d)'
  <2>1. NumberOf(d) /\ call'[d] = call[d] /\ pc'[d] = pc[d] /\ d # c
    BY <1>7 DEF NumbersInv
  <2>2. ASSUME call[d].n # 0
        PROVE  /\ call[d].n \notin refused'
               /\ HasStored(call[d].n)' => pc[d] = "committed"
               /\ \A e \in Callers : e # d => call'[e].n # call[d].n
    <3>1. call[d].n # call[c].n
      BY <2>1, <2>2 DEF NumberOf
    <3>2. call[d].n \notin refused'
      BY <2>1, <2>2, <3>1 DEF NumberOf
    <3>3. HasStored(call[d].n)' => pc[d] = "committed"
      BY <1>1, <2>1, <2>2, <3>1 DEF NumberOf
    <3>4. \A e \in Callers : e # d => call'[e].n # call[d].n
      BY <1>4, <2>1, <2>2 DEF NumberOf
    <3> QED
      BY <3>2, <3>3, <3>4
  <2> QED
    BY <2>1, <2>2 DEF NumberOf
<1>8. NumberOf(c)'
  <2>1. CASE call'[c] = Idle /\ pc'[c] = "idle"
    BY <1>1, <1>2, <2>1 DEF NumberOf, Writing
  <2>2. CASE ~(call'[c] = Idle /\ pc'[c] = "idle")
    <3>1. /\ call'[c].n = call[c].n /\ call'[c].batch = call[c].batch
          /\ pc'[c] = "idle" => call[c].n = 0
          /\ pc'[c] \in {"waiting"} \cup Writing => call[c].n # 0
          /\ pc[c] = "committed" => pc'[c] = "committed"
      BY <2>2
    <3>2. ASSUME call[c].n # 0
          PROVE  /\ call[c].n \notin refused'
                 /\ HasStored(call[c].n)' => pc'[c] = "committed"
                 /\ \A d \in Callers : d # c => call'[d].n # call[c].n
      <4>1. call'[c] # Idle
        BY <1>2, <3>1, <3>2
      <4> QED
        BY <1>1, <1>3, <3>1, <3>2, <4>1 DEF NumberOf
    <3> QED
      BY <1>3, <3>1, <3>2 DEF NumberOf
  <2> QED
    BY <2>1, <2>2
<1> QED
  BY <1>5, <1>6, <1>7, <1>8 DEF NumbersInv

LEMMA EndedNumbers ==
    ASSUME StoreInv, NumbersInv, NEW c \in Callers, Leave(c), events' = events,
           refused' = refused \/ (pc[c] # "committed" /\ refused' = refused \cup {call[c].n})
    PROVE  NumbersInv'
<1>1. TypeOK
  BY DEF StoreInv, TypeInv
<1>2. /\ calls' = calls /\ call'[c] = Idle /\ pc'[c] = "idle"
      /\ \A d \in Callers : d # c => call'[d] = call[d] /\ pc'[d] = pc[d]
  BY <1>1 DEF Leave, Goto, TypeOK, CallersType
<1> QED
  BY <1>1, <1>2, NumbersStep, SameEventsSameNumbers

LEMMA MovedNumbers ==
    ASSUME StoreInv, NumbersInv, NEW c \in Callers, NEW l \in Labels, Goto(c, l),
           UNCHANGED <<events, calls, refused>>,
           \A d \in Callers : d # c => call'[d] = call[d],
           call'[c].n = call[c].n, call'[c].batch = call[c].batch,
           l # "idle", pc[c] # "committed",
           l \in {"waiting"} \cup Writing => call[c].n # 0
    PROVE  NumbersInv'
<1>1. TypeOK
  BY DEF StoreInv, TypeInv
<1>2. pc'[c] = l /\ \A d \in Callers : d # c => pc'[d] = pc[d]
  BY <1>1 DEF Goto, TypeOK, CallersType
<1> QED
  BY <1>1, <1>2, NumbersStep, SameEventsSameNumbers

LEMMA RequestNumbers ==
    ASSUME StoreInv, NumbersInv, NEW c \in Callers, NEW r \in Requests, NEW atHead \in BOOLEAN,
           Request(c, r, atHead)
    PROVE  NumbersInv'
<1>1. TypeOK
  BY DEF StoreInv, TypeInv
<1>2. /\ calls \in Nat /\ calls' = calls + 1 /\ \A d \in Callers : call[d].n \in Nat
      /\ events' = events /\ refused' = refused
  BY <1>1, CallType, StoreAssumption DEF Request, files, TypeOK, CallersType
<1>3. /\ call'[c].n = calls + 1 /\ call'[c].batch = r /\ pc'[c] = "waiting"
      /\ \A d \in Callers : d # c => call'[d] = call[d] /\ pc'[d] = pc[d]
  BY <1>1 DEF Request, Goto, TypeOK, CallersType
<1>4. r # <<>>
  BY RequestsAssumption
<1>5. \A n \in Nat : HasStored(n)' => HasStored(n)
  BY <1>2, SameEventsSameNumbers
<1>6. refused' \subseteq 0..calls' /\ calls + 1 \notin refused /\ ~HasStored(calls + 1)
  BY <1>2 DEF NumbersInv
<1>7. \A n \in Nat : HasStored(n)' => n \in 1..calls' /\ n \notin refused'
  BY <1>2, <1>5 DEF NumbersInv
<1>8. ASSUME NEW d \in Callers, d # c PROVE NumberOf(d)'
  <2>1. NumberOf(d) /\ call[d].n # calls + 1 /\ call[d].n <= calls + 1
    BY <1>2 DEF NumbersInv, NumberOf
  <2> QED
    BY <1>2, <1>3, <1>5, <1>8, <2>1 DEF NumberOf
<1>9. NumberOf(c)'
  <2>1. \A d \in Callers : d # c => call'[d].n # calls + 1
    BY <1>2, <1>3 DEF NumbersInv, NumberOf
  <2>2. \A n \in Nat : n = calls + 1 => ~HasStored(n)'
    BY <1>5, <1>6
  <2>3. ~HasStored(call[c].n)'
    BY <1>2, <1>3, <2>2
  <2> QED
    BY <1>2, <1>3, <1>4, <1>6, <2>1, <2>3 DEF NumberOf
<1> QED
  BY <1>6, <1>7, <1>8, <1>9 DEF NumbersInv

LEMMA CommitNumbers ==
    ASSUME StoreInv, NumbersInv, NEW c \in Callers, Commit(c) \/ CommitFails(c)
    PROVE  NumbersInv'
<1> DEFINE h == HandleOf[c]
           f == store[h]
           s == Cached(c)
           new == New(c)
<1>1. Staged(c) /\ calls' = calls /\ refused' = refused
  BY DEF Commit, CommitFails, Leave, answers
<1>2. /\ TypeOK /\ h \in Handles /\ f \in Files /\ pc[c] = "synced"
      /\ s = events[f] /\ s \in Seq(Rows) /\ new \in Seq(Rows)
      /\ Inserted(events[f], Len(s), new) = s \o new
  BY <1>1, StagedFacts DEF Stored
<1>3. /\ call[c].n \in Nat /\ Len(new) \in Nat /\ Len(s) \in Nat
      /\ \A i \in 1..Len(new) : new[i].id[1] = call[c].n
  <2>1. call[c].n \in 0..MaxCalls /\ MaxCalls \in Nat
    BY <1>2, CallType, StoreAssumption
  <2>2. Len(new) = Len(call[c].batch)
    BY <1>2, NewType
  <2>3. \A i \in 1..Len(call[c].batch) : new[i].id = <<call[c].n, i>>
    BY DEF New, Prepared
  <2> HIDE DEF s, new
  <2> QED
    BY <1>2, <2>1, <2>2, <2>3
<1>4. /\ events'[f] \in {s, s \o new}
      /\ \A g \in Files : g # f => events'[g] = events[g]
  <2>1. Write(c) => events' = [events EXCEPT ![f] = s \o new]
    BY <1>2 DEF Write, Cached
  <2>2. Write(c) \/ events' = events
    BY DEF Commit, CommitFails
  <2> QED
    BY <1>2, <2>1, <2>2 DEF TypeOK, FilesType
<1>5. call[c].n # 0
  BY <1>2 DEF NumbersInv, NumberOf, Writing
<1>6. \A n \in Nat : HasStored(n)' => HasStored(n) \/ n = call[c].n
  <2> SUFFICES ASSUME NEW g \in Files, NEW p \in DOMAIN events'[g],
                      events'[g][p].id[1] # call[c].n
               PROVE  HasStored(events'[g][p].id[1])
    BY DEF HasStored
  <2>1. p \in DOMAIN events[g] /\ events'[g][p] = events[g][p]
    <3>1. CASE g = f /\ events'[f] = s \o new
      <4>1. p \in 1..(Len(s) + Len(new))
        <5>1. DOMAIN (s \o new) = 1..(Len(s) + Len(new))
          BY <1>2
        <5>2. p \in DOMAIN (s \o new)
          BY <3>1
        <5> QED
          BY <5>1, <5>2
      <4>2. p > Len(s) => (s \o new)[p] = new[p - Len(s)] /\ p - Len(s) \in 1..Len(new)
        BY <1>2, <1>3, <4>1
      <4>3. ~(p > Len(s))
        <5>1. \A i \in 1..Len(new) : new[i].id[1] = call[c].n
          BY <1>3
        <5>2. (s \o new)[p].id[1] # call[c].n
          BY <3>1
        <5> HIDE DEF s, new, f
        <5> QED
          BY <4>2, <5>1, <5>2
      <4>4. p \in DOMAIN s /\ (s \o new)[p] = s[p]
        BY <1>2, <1>3, <4>1, <4>3
      <4> QED
        BY <1>2, <3>1, <4>4
    <3>2. CASE g # f \/ events'[f] = s
      BY <1>2, <1>4, <3>2
    <3> QED
      BY <1>4, <3>1, <3>2
  <2> QED
    BY <2>1 DEF HasStored
<1>7. \A d \in Callers : d # c => call'[d] = call[d] /\ pc'[d] = pc[d]
  BY <1>2 DEF Commit, CommitFails, Leave, Goto, TypeOK, CallersType
<1>8. CASE CommitFails(c)
  <2>1. call'[c] = Idle /\ pc'[c] = "idle"
    BY <1>2, <1>8 DEF CommitFails, Leave, Goto, TypeOK, CallersType
  <2> QED
    BY <1>1, <1>2, <1>5, <1>6, <1>7, <2>1, NumbersStep
<1>9. CASE Commit(c)
  <2>1. call' = call /\ pc'[c] = "committed"
    BY <1>2, <1>9 DEF Commit, Goto, TypeOK, CallersType
  <2> QED
    BY <1>1, <1>2, <1>5, <1>6, <1>7, <2>1, NumbersStep
<1> QED
  BY <1>8, <1>9

\* The end of a process gives up the numbers of its calls.
LEMMA EndNumbers ==
    ASSUME StoreInv, NumbersInv, NEW h \in Handles, Close(h) \/ Crash(h)
    PROVE  NumbersInv'
<1>1. TypeOK
  BY DEF StoreInv, TypeInv
<1>2. /\ calls' = calls /\ refused' = refused /\ events' = events
      /\ \A d \in Callers : \/ call'[d] = call[d] /\ pc'[d] = pc[d]
                            \/ call'[d] = Idle /\ pc'[d] = "idle"
  BY <1>1 DEF Close, Crash, files, answers, TypeOK, CallersType
<1>3. calls \in Nat /\ Idle.n = 0 /\ Idle.batch = <<>>
  BY <1>1, StoreAssumption DEF Idle, TypeOK, CallersType
<1>4. \A n : HasStored(n)' <=> HasStored(n)
  BY <1>2, SameEventsSameNumbers
<1>5. ASSUME NEW d \in Callers PROVE NumberOf(d)'
  <2>1. NumberOf(d)
    BY DEF NumbersInv
  <2>2. CASE call'[d] = Idle /\ pc'[d] = "idle"
    BY <1>2, <1>3, <2>2 DEF NumberOf, Writing
  <2>3. CASE call'[d] = call[d] /\ pc'[d] = pc[d]
    <3>1. call[d].n # 0 => \A e \in Callers : e # d => call'[e].n # call[d].n
      BY <1>2, <1>3, <2>1 DEF NumberOf
    <3> QED
      BY <1>2, <1>4, <2>1, <2>3, <3>1 DEF NumberOf
  <2> QED
    BY <1>2, <2>2, <2>3
<1> QED
  BY <1>2, <1>4, <1>5 DEF NumbersInv

\* Nothing that happens to a file stores an event of another call.
LEMMA FileNumbers ==
    ASSUME StoreInv, NumbersInv, UNCHANGED <<calls, call, pc, refused>>,
           \A n \in Nat : HasStored(n)' => HasStored(n)
    PROVE  NumbersInv'
<1>1. \A d \in Callers : call[d].n \in Nat
  <2>1. TypeOK
    BY DEF StoreInv, TypeInv
  <2>2. \A d \in Callers : call[d].n \in 0..MaxCalls
    BY <2>1, CallType
  <2> QED
    BY <2>2, StoreAssumption
<1>2. \A d \in Callers : NumberOf(d)'
  BY <1>1 DEF NumbersInv, NumberOf
<1> QED
  BY <1>2 DEF NumbersInv

LEMMA FileActionNumbers ==
    ASSUME StoreInv, NumbersInv, Rewrite \/ Bypass \/ Replace
    PROVE  NumbersInv'
<1>1. TypeOK /\ path \in Files /\ IsTable(events[path])
  BY DEF StoreInv, TypeInv, TypeOK, FilesType
<1>2. UNCHANGED <<calls, call, pc, refused>>
  BY DEF Rewrite, Bypass, Replace, answers
<1>3. SUFFICES \A f \in Files : \A p \in DOMAIN events'[f] :
                   \E g \in Files : p \in DOMAIN events[g] /\ events'[f][p].id = events[g][p].id
  <2>1. \A n \in Nat : HasStored(n)' => HasStored(n)
    BY <1>3 DEF HasStored
  <2> QED
    BY <1>2, <2>1, FileNumbers
<1>4. \A q \in DOMAIN events[path] : \A f \in Files :
          events' = [events EXCEPT ![path][q].good = FALSE] =>
              /\ DOMAIN events'[f] = DOMAIN events[f]
              /\ \A p \in DOMAIN events[f] : events'[f][p].id = events[f][p].id
  <2> SUFFICES ASSUME NEW q \in DOMAIN events[path], NEW f \in Files,
                      events' = [events EXCEPT ![path][q].good = FALSE]
               PROVE  /\ DOMAIN events'[f] = DOMAIN events[f]
                      /\ \A p \in DOMAIN events[f] : events'[f][p].id = events[f][p].id
    OBVIOUS
  <2>1. events[path][q] \in Rows
    BY <1>1 DEF IsTable
  <2>2. [events[path][q] EXCEPT !.good = FALSE].id = events[path][q].id
    BY <2>1 DEF Rows
  <2>3. events'[path] = [events[path] EXCEPT ![q] = [events[path][q] EXCEPT !.good = FALSE]]
    BY <1>1 DEF TypeOK, FilesType
  <2>4. f # path => events'[f] = events[f]
    BY <1>1 DEF TypeOK, FilesType
  <2> QED
    BY <1>1, <2>2, <2>3, <2>4 DEF IsTable
<1>5. CASE Rewrite
  <2>1. PICK q \in DOMAIN events[path] :
          \/ events' = [events EXCEPT ![path][q].good = FALSE]
          \/ events' = [events EXCEPT ![path] = [r \in DOMAIN @ \ {q} |-> @[r]]]
    BY <1>5 DEF Rewrite
  <2>2. CASE events' = [events EXCEPT ![path][q].good = FALSE]
    BY <1>4, <2>2
  <2>3. CASE events' = [events EXCEPT ![path] = [r \in DOMAIN @ \ {q} |-> @[r]]]
    BY <1>1, <2>3 DEF TypeOK, FilesType
  <2> QED
    BY <2>1, <2>2, <2>3
<1>6. CASE Bypass
  <2> DEFINE n == Cardinality(DOMAIN events[path])
  <2>1. events' = [events EXCEPT ![path][n].good = FALSE]
    BY <1>6 DEF Bypass
  <2>2. n \in DOMAIN events[path]
    <3>1. n \in Nat /\ DOMAIN events[path] = 1..n
      BY <1>1, <1>6, SoundDomain DEF Bypass
    <3>2. n # 0
      <4> SUFFICES ASSUME n = 0 PROVE FALSE
        OBVIOUS
      <4>1. DOMAIN events[path] = {}
        BY <3>1
      <4>2. events[path] = [p \in {} |-> events[path][p]]
        BY <4>1, <1>1 DEF IsTable
      <4>3. events[path] = <<>>
        BY <4>2
      <4> QED
        BY <4>3, <1>6 DEF Bypass
    <3> HIDE DEF n
    <3> QED
      BY <3>1, <3>2
  <2> HIDE DEF n
  <2> QED
    BY <1>4, <2>1, <2>2
<1>7. CASE Replace
  <2>1. PICK n \in 0..Cardinality(DOMAIN events[path]) :
          events' = [events EXCEPT ![path + 1] =
              [p \in DOMAIN events[path] \cap 1..n |-> events[path][p]]]
    BY <1>7 DEF Replace
  <2> QED
    BY <1>1, <2>1 DEF TypeOK, FilesType
<1> QED
  BY <1>5, <1>6, <1>7

LEMMA NextNumbers == StoreInv /\ NumbersInv /\ [Next]_vars => NumbersInv'
<1> SUFFICES ASSUME StoreInv, NumbersInv, [Next]_vars PROVE NumbersInv'
  OBVIOUS
<1>0. TypeOK /\ TypeInv /\ \A d \in Callers : NumberOf(d) /\ call[d] \in Calls
  BY DEF StoreInv, TypeInv, NumbersInv, TypeOK, CallersType
<1>1. ASSUME NEW c \in Callers, NEW r \in Requests, NEW atHead \in BOOLEAN,
             Request(c, r, atHead)
      PROVE  NumbersInv'
  BY <1>1, RequestNumbers
<1>2. ASSUME NEW c \in Callers,
             \/ AdmitClosed(c) \/ GiveUp(c) \/ Busy(c) \/ HeadChanged(c) \/ Conflict(c)
             \/ ReopenFails(c) \/ NoDatabase(c) \/ LoadFails(c)
             \/ RefuseReplaced(c) \/ SyncFails(c) \/ WriteFails(c)
      PROVE  NumbersInv'
  <2>1. Refuse(c) /\ pc[c] # "committed"
    BY <1>2 DEF AdmitClosed, GiveUp, Busy, HeadChanged, Conflict, ReopenFails, NoDatabase,
       LoadFails, RefuseReplaced, SyncFails, WriteFails, Staged
  <2> QED
    BY <2>1, EndedNumbers DEF Refuse
<1>3. ASSUME NEW c \in Callers, Replay(c) \/ Finish(c) PROVE NumbersInv'
  BY <1>3, EndedNumbers DEF Replay, Finish, Answer
<1>4. ASSUME NEW c \in Callers, LoadRows(c) PROVE NumbersInv'
  <2>1. CASE call[c].batch = <<>>
    BY <1>4, <2>1, EndedNumbers DEF LoadRows, answers
  <2>2. CASE call[c].batch # <<>>
    <3>1. call[c].n # 0
      BY <1>0, <2>2 DEF NumberOf
    <3> QED
      BY <1>4, <2>2, <3>1, MovedNumbers DEF LoadRows, files, answers, Labels
  <2> QED
    BY <2>1, <2>2
<1>5. ASSUME NEW c \in Callers, Verify(c) \/ Admit(c) PROVE NumbersInv'
  <2>1. PICK l \in {"checking", "recovering"} :
          /\ Goto(c, l) /\ UNCHANGED <<events, calls, refused, call>> /\ pc[c] # "committed"
          /\ l = "checking" => pc[c] = "waiting"
    BY <1>5, Zenon DEF Verify, Admit, files, answers
  <2>2. l \in {"waiting"} \cup Writing => call[c].n # 0
    BY <1>0, <2>1 DEF NumberOf, Writing
  <2> QED
    BY <2>1, <2>2, MovedNumbers DEF Labels
<1>6. ASSUME NEW c \in Callers, ReadRewrites(c) \/ Open(c) PROVE NumbersInv'
  <2>1. /\ Goto(c, "loading") \/ Goto(c, "opening")
        /\ UNCHANGED <<events, calls, refused>>
        /\ pc[c] # "committed"
    BY <1>6 DEF ReadRewrites, Open, files, answers
  <2>2. /\ \A d \in Callers : d # c => call'[d] = call[d]
        /\ call'[c].n = call[c].n /\ call'[c].batch = call[c].batch
    BY <1>0, <1>6 DEF ReadRewrites, Open, TypeOK, CallersType, Calls
  <2> QED
    BY <2>1, <2>2, MovedNumbers DEF Labels, Writing
<1>7. ASSUME NEW c \in Callers, CheckCurrent(c) \/ Begin(c) \/ SyncTail(c) \/ SyncAll(c)
      PROVE  NumbersInv'
  <2>1. PICK l \in {"beginning", "syncing", "synced"} :
          Goto(c, l) /\ UNCHANGED <<events, calls, refused, call>>
    BY <1>7, Zenon DEF CheckCurrent, Begin, SyncTail, SyncAll, files, answers
  <2>2. call[c].n # 0 /\ pc[c] # "committed"
    BY <1>0, <1>7 DEF CheckCurrent, Begin, SyncTail, SyncAll, NumberOf, Writing
  <2> QED
    BY <2>1, <2>2, MovedNumbers DEF Labels
<1>8. ASSUME NEW c \in Callers, Commit(c) \/ CommitFails(c) PROVE NumbersInv'
  BY <1>8, CommitNumbers
<1>9. ASSUME NEW h \in Handles, Close(h) \/ Crash(h) PROVE NumbersInv'
  BY <1>9, EndNumbers
<1>10. CASE Rewrite \/ Bypass \/ Replace
  BY <1>10, FileActionNumbers
<1>11. CASE UNCHANGED vars
  <2>1. UNCHANGED <<calls, call, pc, refused, events>>
    BY <1>11 DEF vars, files, answers
  <2> QED
    BY <2>1, FileNumbers, SameEventsSameNumbers
<1> QED
  BY <1>1, <1>2, <1>3, <1>4, <1>5, <1>6, <1>7, <1>8, <1>9, <1>10, <1>11
     DEF Next, Step, Failure

LEMMA NumbersInvariant == Spec => [](StoreInv /\ NumbersInv)
<1>1. Init => StoreInv /\ NumbersInv
  <2> SUFFICES ASSUME Init PROVE NumbersInv
    BY InitStoreInv
  <2>1. \A n : ~HasStored(n)
    BY DEF Init, HasStored
  <2> QED
    BY <2>1 DEF Init, NumbersInv, NumberOf, Idle, Writing
<1> QED
  BY <1>1, NextStoreInv, NextNumbers, PTL DEF Spec

\* A definite error means that nothing of the batch is stored: what a refused
\* call asked for is in no file, now or later.
THEOREM RefusalsLeaveNothing == Spec => []RefusedLeavesNothing
<1>1. StoreInv /\ NumbersInv => RefusedLeavesNothing
  <2> SUFFICES ASSUME StoreInv, NumbersInv, NEW f \in Files, NEW p \in DOMAIN events[f]
               PROVE  events[f][p].id[1] \notin refused
    BY DEF RefusedLeavesNothing, StoredIds
  <2>1. events[f][p].id \in Nat \X Nat
    BY DEF StoreInv, TypeInv, TypeOK, FilesType, IsTable, Rows, RowIds
  <2>2. events[f][p].id[1] \in Nat /\ HasStored(events[f][p].id[1])
    BY <2>1 DEF HasStored
  <2> QED
    BY <2>2 DEF NumbersInv
<1> QED
  BY <1>1, NumbersInvariant, PTL

\* A conditional append lands right after the head its caller had read, though
\* others may have appended between the read and the append.
THEOREM ConditionalAppendsLand == Spec => ConditionalAppendsFollowTheirHead
<1>1. ASSUME StoreInv, NumbersInv, [Next]_vars, NEW c \in Callers, NEW f \in Files,
             NEW p \in DOMAIN events'[f], path' = path, p \notin DOMAIN events[f],
             events'[f][p].id = <<call[c].n, 1>>, call[c].head # AnyHead
      PROVE  /\ events'[f][p].prev = call[c].head
             /\ call[c].head \in StoredIds(f) \cup {NoEvent}
  <2>1. PICK d \in Callers : /\ Staged(d) /\ f = store[HandleOf[d]]
                             /\ events[f] = Cached(d) /\ events'[f] = Cached(d) \o New(d)
    BY <1>1, OnlyCommitsExtend
  <2>2. /\ TypeOK /\ Cached(d) \in Seq(Rows) /\ New(d) \in Seq(Rows) /\ pc[d] = "synced"
    BY <1>1, <2>1, StagedFacts
  <2>3. /\ Len(New(d)) = Len(call[d].batch)
        /\ \A i \in 1..Len(call[d].batch) :
              /\ New(d)[i].id = <<call[d].n, i>>
              /\ i = 1 => New(d)[i].prev = HeadID(Cached(d))
    BY <2>2, NewType DEF New, Prepared, Cached
  <2>4. /\ p - Len(Cached(d)) \in 1..Len(New(d))
        /\ events'[f][p] = New(d)[p - Len(Cached(d))]
    <3>1. p \in 1..(Len(Cached(d)) + Len(New(d))) /\ ~(p \in 1..Len(Cached(d)))
      BY <1>1, <2>1, <2>2
    <3> QED
      BY <2>1, <2>2, <3>1
  <2>5. <<call[d].n, p - Len(Cached(d))>> = <<call[c].n, 1>>
    BY <1>1, <2>3, <2>4
  <2>6. call[d].n # 0 /\ call[d].n = call[c].n /\ p - Len(Cached(d)) = 1
    BY <1>1, <2>2, <2>5 DEF NumbersInv, NumberOf, Writing
  <2>7. d = c
    BY <1>1, <2>6 DEF NumbersInv, NumberOf
  <2>8. HeadID(Cached(c)) = call[c].head
    BY <1>1, <2>1, <2>7 DEF Staged, AtExpectedHead, Cached
  <2>9. events'[f][p].prev = call[c].head
    BY <2>3, <2>4, <2>6, <2>7, <2>8
  <2>10. HeadID(events[f]) \in StoredIds(f) \cup {NoEvent}
    <3>1. CASE events[f] = <<>>
      BY <3>1 DEF HeadID
    <3>2. CASE events[f] # <<>>
      <4>1. Len(Cached(d)) \in DOMAIN Cached(d)
        BY <2>1, <2>2, <3>2
      <4> QED
        BY <2>1, <3>2, <4>1 DEF HeadID, Last, StoredIds
    <3> QED
      BY <3>1, <3>2
  <2> QED
    BY <2>1, <2>7, <2>8, <2>9, <2>10
<1>2. StoreInv /\ NumbersInv /\ [Next]_vars => [
        \A c \in Callers, f \in Files : \A p \in DOMAIN events'[f] :
            path' = path /\ p \notin DOMAIN events[f]
                /\ events'[f][p].id = <<call[c].n, 1>> /\ call[c].head # AnyHead
                => /\ events'[f][p].prev = call[c].head
                   /\ call[c].head \in StoredIds(f) \cup {NoEvent}]_vars
  BY <1>1
<1> QED
  BY <1>2, NumbersInvariant, PTL DEF Spec, ConditionalAppendsFollowTheirHead
=============================================================================
