------------------------- MODULE ProviderQuotaProofs -------------------------
(***************************************************************************)
(* What the cooldown of an account guarantees for any callers, any number  *)
(* of slots and any failures.                                              *)
(*                                                                         *)
(* The gate is the argument: only who holds it saves a deadline, so the    *)
(* account a holder found sound stays sound while it holds, a rejection at *)
(* work is not overtaken, and no two callers probe.                        *)
(***************************************************************************)
EXTENDS ProviderQuota, FiniteSetTheorems, TLAPS

\* A probe is on its way to its request or waits for the answer.
ProbeStands == \A c \in Callers : probe[c] => at[c] \in {"ready", "sending", "finish"}

\* A condemned account is not in anybody's hands.
HeldIsSound == gate # Nobody => ~integrity

Senders == {c \in Callers : at[c] = "sending"}

SlotsCounted == slots = Cardinality(Senders)

QuotaInv ==
    /\ TypeOK
    /\ GateIsHeld /\ ProbeStands /\ HeldIsSound
    /\ ClearedStaysClear
    /\ CooldownIsJournaled
    /\ SlotsCounted

-----------------------------------------------------------------------------
\* No slot is taken or returned while the senders stay the same.
LEMMA SlotsKept ==
    ASSUME SlotsCounted, slots' = slots, \A c \in Callers : at'[c] = "sending" <=> at[c] = "sending"
    PROVE  SlotsCounted'
  <1>1. Senders' = Senders
    BY DEF Senders
  <1> QED BY <1>1 DEF SlotsCounted

LEMMA SendersFinite == IsFiniteSet(Senders) /\ IsFiniteSet(Senders')
  BY QuotaAssumption, FS_Subset DEF Senders

\* What a save does, whoever makes it.
LEMMA SaveKeeps ==
    ASSUME TypeOK, CooldownIsJournaled, NEW c \in Callers, NEW deadline \in {"none", "future"},
           NEW fate \in Fates(c), Save(c, deadline, fate), cancelled' = cancelled
    PROVE  /\ until' \in Deadlines /\ saved' \in Deadlines /\ integrity' \in BOOLEAN
           /\ overtaken' \in [Callers -> BOOLEAN]
           /\ CooldownIsJournaled'
           /\ fate = "stored" => until' = deadline /\ saved' = deadline /\ integrity' = integrity
  <1>1. fate \in {"stored", "refused", "lost"}
    BY QuotaAssumption DEF Fates
  <1>2. /\ until' \in Deadlines /\ saved' \in Deadlines /\ integrity' \in BOOLEAN
        /\ fate = "stored" => until' = deadline /\ saved' = deadline /\ integrity' = integrity
    BY <1>1 DEF Save, TypeOK, Deadlines
  <1>3. overtaken' \in [Callers -> BOOLEAN]
    <2>1. \A d \in Callers : Overtake(d) \in BOOLEAN
      BY DEF Overtake, TypeOK
    <2> QED BY <2>1 DEF Save, TypeOK
  <1>4. CooldownIsJournaled'
    BY <1>1 DEF Save, CooldownIsJournaled
  <1> QED BY <1>2, <1>3, <1>4

-----------------------------------------------------------------------------
(* Steps that take no slot and save nothing                                *)

LEMMA RequestHolds ==
    ASSUME QuotaInv, NEW c \in Callers, Request(c)
    PROVE  QuotaInv'
  <1> USE QuotaAssumption DEF Request, Goto, Drop
  <1>1. TypeOK /\ GateIsHeld /\ ProbeStands /\ HeldIsSound /\ CooldownIsJournaled
        /\ SlotsCounted /\ ClearedStaysClear
    BY DEF QuotaInv
  <1>2. TypeOK'
    BY <1>1 DEF TypeOK, Stations
  <1>3. \A d \in Callers : d # c => at'[d] = at[d]
    BY <1>1 DEF TypeOK
  <1>4. GateIsHeld'
    BY <1>1, <1>3 DEF TypeOK, GateIsHeld, ProbeStands
  <1>5. ProbeStands' /\ HeldIsSound'
    BY <1>1, <1>3 DEF TypeOK, GateIsHeld, ProbeStands, HeldIsSound
  <1>6. ClearedStaysClear' /\ CooldownIsJournaled'
    BY <1>1, <1>3 DEF TypeOK, ClearedStaysClear, CooldownIsJournaled
  <1>7. SlotsCounted'
    <2>1. at'[c] # "sending" /\ at[c] # "sending"
      BY <1>1 DEF TypeOK
    <2> QED BY <1>1, <1>3, <2>1, SlotsKept
  <1> QED BY <1>2, <1>4, <1>5, <1>6, <1>7 DEF QuotaInv

LEMMA GiveUpHolds ==
    ASSUME QuotaInv, NEW c \in Callers, GiveUp(c)
    PROVE  QuotaInv'
  <1> USE QuotaAssumption DEF GiveUp, Goto, Drop
  <1>1. TypeOK /\ GateIsHeld /\ ProbeStands /\ HeldIsSound /\ CooldownIsJournaled
        /\ SlotsCounted /\ ClearedStaysClear
    BY DEF QuotaInv
  <1>2. TypeOK'
    BY <1>1 DEF TypeOK, Stations
  <1>3. \A d \in Callers : d # c => at'[d] = at[d]
    BY <1>1 DEF TypeOK
  <1>4. GateIsHeld'
    BY <1>1, <1>3 DEF TypeOK, GateIsHeld, ProbeStands
  <1>5. ProbeStands' /\ HeldIsSound'
    BY <1>1, <1>3 DEF TypeOK, GateIsHeld, ProbeStands, HeldIsSound
  <1>6. ClearedStaysClear' /\ CooldownIsJournaled'
    BY <1>1, <1>3 DEF TypeOK, ClearedStaysClear, CooldownIsJournaled
  <1>7. SlotsCounted'
    <2>1. at'[c] # "sending" /\ at[c] # "sending"
      BY <1>1 DEF TypeOK
    <2> QED BY <1>1, <1>3, <2>1, SlotsKept
  <1> QED BY <1>2, <1>4, <1>5, <1>6, <1>7 DEF QuotaInv

LEMMA EnterHolds ==
    ASSUME QuotaInv, NEW c \in Callers, Enter(c)
    PROVE  QuotaInv'
  <1> USE QuotaAssumption DEF Enter, Goto, Drop
  <1>1. TypeOK /\ GateIsHeld /\ ProbeStands /\ HeldIsSound /\ CooldownIsJournaled
        /\ SlotsCounted /\ ClearedStaysClear
    BY DEF QuotaInv
  <1>2. TypeOK'
    BY <1>1 DEF TypeOK, Stations
  <1>3. \A d \in Callers : d # c => at'[d] = at[d]
    BY <1>1 DEF TypeOK
  <1>4. GateIsHeld'
    BY <1>1, <1>3 DEF TypeOK, GateIsHeld, ProbeStands
  <1>5. ProbeStands' /\ HeldIsSound'
    BY <1>1, <1>3 DEF TypeOK, GateIsHeld, ProbeStands, HeldIsSound
  <1>6. ClearedStaysClear' /\ CooldownIsJournaled'
    BY <1>1, <1>3 DEF TypeOK, ClearedStaysClear, CooldownIsJournaled
  <1>7. SlotsCounted'
    <2>1. at'[c] # "sending" /\ at[c] # "sending"
      BY <1>1 DEF TypeOK
    <2> QED BY <1>1, <1>3, <2>1, SlotsKept
  <1> QED BY <1>2, <1>4, <1>5, <1>6, <1>7 DEF QuotaInv

LEMMA PausedHolds ==
    ASSUME QuotaInv, NEW c \in Callers, Paused(c)
    PROVE  QuotaInv'
  <1> USE QuotaAssumption DEF Paused, Goto, Drop
  <1>1. TypeOK /\ GateIsHeld /\ ProbeStands /\ HeldIsSound /\ CooldownIsJournaled
        /\ SlotsCounted /\ ClearedStaysClear
    BY DEF QuotaInv
  <1>2. TypeOK'
    BY <1>1 DEF TypeOK, Stations
  <1>3. \A d \in Callers : d # c => at'[d] = at[d]
    BY <1>1 DEF TypeOK
  <1>4. GateIsHeld'
    BY <1>1, <1>3 DEF TypeOK, GateIsHeld, ProbeStands
  <1>5. ProbeStands' /\ HeldIsSound'
    BY <1>1, <1>3 DEF TypeOK, GateIsHeld, ProbeStands, HeldIsSound
  <1>6. ClearedStaysClear' /\ CooldownIsJournaled'
    BY <1>1, <1>3 DEF TypeOK, ClearedStaysClear, CooldownIsJournaled
  <1>7. SlotsCounted'
    <2>1. at'[c] # "sending" /\ at[c] # "sending"
      BY <1>1 DEF TypeOK
    <2> QED BY <1>1, <1>3, <2>1, SlotsKept
  <1> QED BY <1>2, <1>4, <1>5, <1>6, <1>7 DEF QuotaInv

LEMMA QueryCancelledHolds ==
    ASSUME QuotaInv, NEW c \in Callers, QueryCancelled(c)
    PROVE  QuotaInv'
  <1> USE QuotaAssumption DEF QueryCancelled, Goto, Drop
  <1>1. TypeOK /\ GateIsHeld /\ ProbeStands /\ HeldIsSound /\ CooldownIsJournaled
        /\ SlotsCounted /\ ClearedStaysClear
    BY DEF QuotaInv
  <1>2. TypeOK'
    BY <1>1 DEF TypeOK, Stations
  <1>3. \A d \in Callers : d # c => at'[d] = at[d]
    BY <1>1 DEF TypeOK
  <1>4. GateIsHeld'
    BY <1>1, <1>3 DEF TypeOK, GateIsHeld, ProbeStands
  <1>5. ProbeStands' /\ HeldIsSound'
    BY <1>1, <1>3 DEF TypeOK, GateIsHeld, ProbeStands, HeldIsSound
  <1>6. ClearedStaysClear' /\ CooldownIsJournaled'
    BY <1>1, <1>3 DEF TypeOK, ClearedStaysClear, CooldownIsJournaled
  <1>7. SlotsCounted'
    <2>1. at'[c] # "sending" /\ at[c] # "sending"
      BY <1>1 DEF TypeOK
    <2> QED BY <1>1, <1>3, <2>1, SlotsKept
  <1> QED BY <1>2, <1>4, <1>5, <1>6, <1>7 DEF QuotaInv

LEMMA RejectedHolds ==
    ASSUME QuotaInv, NEW c \in Callers, Rejected(c)
    PROVE  QuotaInv'
  <1> USE QuotaAssumption DEF Rejected, Goto, Drop
  <1>1. TypeOK /\ GateIsHeld /\ ProbeStands /\ HeldIsSound /\ CooldownIsJournaled
        /\ SlotsCounted /\ ClearedStaysClear
    BY DEF QuotaInv
  <1>2. TypeOK'
    BY <1>1 DEF TypeOK, Stations
  <1>3. \A d \in Callers : d # c => at'[d] = at[d]
    BY <1>1 DEF TypeOK
  <1>4. GateIsHeld'
    BY <1>1, <1>3 DEF TypeOK, GateIsHeld, ProbeStands
  <1>5. ProbeStands' /\ HeldIsSound'
    BY <1>1, <1>3 DEF TypeOK, GateIsHeld, ProbeStands, HeldIsSound
  <1>6. ClearedStaysClear' /\ CooldownIsJournaled'
    BY <1>1, <1>3 DEF TypeOK, ClearedStaysClear, CooldownIsJournaled
  <1>7. SlotsCounted'
    <2>1. at'[c] # "sending" /\ at[c] # "sending"
      BY <1>1 DEF TypeOK
    <2> QED BY <1>1, <1>3, <2>1, SlotsKept
  <1> QED BY <1>2, <1>4, <1>5, <1>6, <1>7 DEF QuotaInv

-----------------------------------------------------------------------------
(* Steps that save                                                         *)

\* Only the holder of the gate is at work on a rejection.
LEMMA NobodyElseSchedules ==
    ASSUME GateIsHeld, NEW c \in Callers, gate = c
    PROVE  \A d \in Callers : d # c => at[d] \notin {"paused", "query", "schedule"} /\ ~probe[d]
  BY DEF GateIsHeld

LEMMA QueriedHolds ==
    ASSUME QuotaInv, NEW c \in Callers, NEW balance \in Balances, Queried(c, balance)
    PROVE  QuotaInv'
  <1>1. TypeOK /\ GateIsHeld /\ ProbeStands /\ HeldIsSound /\ CooldownIsJournaled
        /\ SlotsCounted /\ ClearedStaysClear
    BY DEF QuotaInv
  <1> DEFINE deadline == IF balance = "available" THEN "none" ELSE "future"
  <1>2. PICK fate \in Fates(c) :
           /\ Save(c, deadline, fate)
           /\ IF fate # "stored" THEN Goto(c, "idle") /\ Drop /\ UNCHANGED probe
              ELSE /\ UNCHANGED gate
                   /\ Goto(c, IF balance = "unknown" THEN "ready" ELSE "paused")
                   /\ probe' = [probe EXCEPT ![c] = (balance = "unknown")]
    BY DEF Queried
  <1>3. /\ at[c] = "query" /\ loaded' = loaded /\ slots' = slots /\ outcome' = outcome
        /\ cancelled' = cancelled /\ gate = c /\ ~probe[c]
    BY <1>1 DEF Queried, GateIsHeld, ProbeStands
  <1>4. /\ until' \in Deadlines /\ saved' \in Deadlines /\ integrity' \in BOOLEAN
        /\ overtaken' \in [Callers -> BOOLEAN]
        /\ CooldownIsJournaled'
        /\ fate = "stored" => until' = deadline /\ saved' = deadline /\ integrity' = integrity
    BY <1>1, <1>2, <1>3, SaveKeeps
  <1>5. /\ \A d \in Callers : d # c => at'[d] = at[d] /\ probe'[d] = probe[d]
        /\ \/ fate # "stored" /\ at'[c] = "idle" /\ gate' = Nobody /\ ~probe'[c]
           \/ /\ fate = "stored" /\ gate' = gate
              /\ \/ at'[c] = "ready" /\ probe'[c]
                 \/ at'[c] = "paused" /\ ~probe'[c]
    BY <1>1, <1>2, <1>3 DEF TypeOK, Goto, Drop
  <1>6. TypeOK'
    BY <1>1, <1>2, <1>3, <1>4, QuotaAssumption DEF TypeOK, Goto, Drop, Stations
  <1>7. GateIsHeld' /\ ProbeStands' /\ HeldIsSound'
    <2>1. GateIsHeld'
      BY <1>1, <1>3, <1>5, QuotaAssumption DEF GateIsHeld
    <2>2. ProbeStands' /\ HeldIsSound'
      BY <1>1, <1>3, <1>4, <1>5, QuotaAssumption DEF ProbeStands, HeldIsSound
    <2> QED BY <2>1, <2>2
  <1>8. ClearedStaysClear'
    BY <1>1, <1>3, <1>5, NobodyElseSchedules DEF ClearedStaysClear
  <1>9. SlotsCounted'
    BY <1>1, <1>3, <1>5, SlotsKept
  <1> QED BY <1>4, <1>6, <1>7, <1>8, <1>9 DEF QuotaInv

LEMMA FinishHolds ==
    ASSUME QuotaInv, NEW c \in Callers, Finish(c)
    PROVE  QuotaInv'
  <1>1. TypeOK /\ GateIsHeld /\ ProbeStands /\ HeldIsSound /\ CooldownIsJournaled
        /\ SlotsCounted /\ ClearedStaysClear
    BY DEF QuotaInv
  <1>2. /\ at[c] = "finish" /\ loaded' = loaded /\ slots' = slots /\ cancelled' = cancelled
        /\ probe' = [probe EXCEPT ![c] = FALSE] /\ outcome' = [outcome EXCEPT ![c] = "none"]
        /\ gate' = IF probe[c] THEN Nobody ELSE gate
        /\ at'[c] \in {"idle", "rejected"}
        /\ \A d \in Callers : d # c => at'[d] = at[d]
    BY <1>1 DEF Finish, Goto, Drop, AfterAnswer, TypeOK
  <1>3. probe[c] <=> gate = c
    BY <1>1, <1>2 DEF GateIsHeld
  <1>4. /\ until' \in Deadlines /\ saved' \in Deadlines /\ integrity' \in BOOLEAN
        /\ overtaken' \in [Callers -> BOOLEAN]
        /\ CooldownIsJournaled'
        /\ \/ probe[c]
           \/ integrity' = integrity /\ overtaken' = overtaken
    <2>1. CASE probe[c] /\ outcome[c] = "accepted"
      <3>1. PICK fate \in Fates(c) : Save(c, "none", fate)
        BY <2>1 DEF Finish
      <3> QED BY <1>1, <1>2, <2>1, <3>1, SaveKeeps
    <2>2. CASE ~(probe[c] /\ outcome[c] = "accepted")
      BY <1>1, <1>2, <2>2 DEF Finish, TypeOK, CooldownIsJournaled
    <2> QED BY <2>1, <2>2
  <1>5. TypeOK'
    <2>1. at' \in [Callers -> Stations]
      <3>1. Goto(c, "idle") \/ Goto(c, AfterAnswer(c))
        BY DEF Finish
      <3>2. AfterAnswer(c) \in Stations
        BY DEF AfterAnswer, Stations
      <3> QED BY <1>1, <3>1, <3>2 DEF TypeOK, Goto, Stations
    <2>2. gate' \in Callers \cup {Nobody} /\ probe' \in [Callers -> BOOLEAN]
          /\ outcome' \in [Callers -> Outcomes]
      BY <1>1, <1>2 DEF TypeOK, Outcomes
    <2> QED BY <1>1, <1>2, <1>4, <2>1, <2>2 DEF TypeOK
  <1>6. GateIsHeld'
    BY <1>1, <1>2, <1>3, QuotaAssumption DEF GateIsHeld, TypeOK
  <1>7. ProbeStands' /\ HeldIsSound'
    BY <1>1, <1>2, <1>4, QuotaAssumption DEF ProbeStands, HeldIsSound, TypeOK
  <1>8. ClearedStaysClear'
    BY <1>1, <1>2, <1>3, <1>4, NobodyElseSchedules DEF ClearedStaysClear
  <1>9. SlotsCounted'
    BY <1>1, <1>2, SlotsKept
  <1> QED BY <1>4, <1>5, <1>6, <1>7, <1>8, <1>9 DEF QuotaInv

LEMMA ScheduleHolds ==
    ASSUME QuotaInv, NEW c \in Callers, Schedule(c)
    PROVE  QuotaInv'
  <1>1. TypeOK /\ GateIsHeld /\ ProbeStands /\ HeldIsSound /\ CooldownIsJournaled
        /\ SlotsCounted /\ ClearedStaysClear
    BY DEF QuotaInv
  <1>2. /\ at[c] = "schedule" /\ loaded' = loaded /\ slots' = slots /\ cancelled' = cancelled
        /\ probe' = probe /\ outcome' = outcome /\ gate' = Nobody
        /\ at' = [at EXCEPT ![c] = "idle"]
    BY DEF Schedule, Goto, Drop
  <1>3. gate = c /\ ~probe[c]
    BY <1>1, <1>2 DEF GateIsHeld, ProbeStands
  <1>4. /\ until' \in Deadlines /\ saved' \in Deadlines /\ integrity' \in BOOLEAN
        /\ overtaken' \in [Callers -> BOOLEAN]
        /\ CooldownIsJournaled'
    <2>1. CASE UNCHANGED <<integrity, until, saved, overtaken>>
      BY <1>1, <1>2, <2>1 DEF TypeOK, CooldownIsJournaled
    <2>2. CASE \E fate \in Fates(c) : Save(c, "future", fate)
      <3>1. PICK fate \in Fates(c) : Save(c, "future", fate)
        BY <2>2
      <3> QED BY <1>1, <1>2, <3>1, SaveKeeps
    <2> QED BY <2>1, <2>2 DEF Schedule
  <1>5. TypeOK'
    BY <1>1, <1>2, <1>4 DEF TypeOK, Stations
  <1>6. GateIsHeld'
    BY <1>1, <1>2, <1>3, NobodyElseSchedules, QuotaAssumption DEF GateIsHeld, TypeOK
  <1>7. ProbeStands' /\ HeldIsSound'
    BY <1>1, <1>2 DEF ProbeStands, HeldIsSound, TypeOK
  <1>8. ClearedStaysClear'
    BY <1>1, <1>2, <1>3, NobodyElseSchedules DEF ClearedStaysClear, TypeOK
  <1>9. SlotsCounted'
    <2>1. \A d \in Callers : at'[d] = "sending" <=> at[d] = "sending"
      BY <1>1, <1>2 DEF TypeOK
    <2> QED BY <1>1, <1>2, <2>1, SlotsKept
  <1> QED BY <1>4, <1>5, <1>6, <1>7, <1>8, <1>9 DEF QuotaInv

-----------------------------------------------------------------------------
(* Slots                                                                   *)

LEMMA TakeSlotHolds ==
    ASSUME QuotaInv, NEW c \in Callers, TakeSlot(c)
    PROVE  QuotaInv'
  <1>1. TypeOK /\ GateIsHeld /\ ProbeStands /\ HeldIsSound /\ CooldownIsJournaled
        /\ SlotsCounted /\ ClearedStaysClear
    BY DEF QuotaInv
  <1>2. /\ at[c] = "ready" /\ UNCHANGED <<gate, loaded, integrity, until, saved, probe, cancelled>>
        /\ \A d \in Callers : d # c => at'[d] = at[d] /\ overtaken'[d] = overtaken[d]
        /\ \/ slots < MaxConcurrent /\ slots' = slots + 1 /\ at'[c] = "sending"
           \/ slots' = slots /\ at'[c] = "finish"
    BY <1>1 DEF TakeSlot, Goto, TypeOK
  <1>3. TypeOK'
    <2>1. slots' \in 0..MaxConcurrent
      BY <1>1, <1>2, QuotaAssumption DEF TypeOK
    <2>2. at' \in [Callers -> Stations] /\ outcome' \in [Callers -> Outcomes]
      BY <1>1 DEF TakeSlot, Goto, TypeOK, Stations, Outcomes
    <2>3. overtaken' \in [Callers -> BOOLEAN]
      BY <1>1 DEF TakeSlot, TypeOK
    <2> QED BY <1>1, <1>2, <2>1, <2>2, <2>3 DEF TypeOK
  <1>4. GateIsHeld'
    BY <1>1, <1>2 DEF GateIsHeld, TypeOK
  <1>5. ProbeStands' /\ HeldIsSound' /\ ClearedStaysClear' /\ CooldownIsJournaled'
    BY <1>1, <1>2 DEF ProbeStands, HeldIsSound, ClearedStaysClear, CooldownIsJournaled
  <1>6. SlotsCounted'
    <2>1. CASE slots' = slots + 1 /\ at'[c] = "sending"
      <3>1. c \notin Senders /\ Senders' = Senders \cup {c}
        BY <1>2, <2>1 DEF Senders
      <3>2. Cardinality(Senders') = Cardinality(Senders) + 1
        BY <3>1, SendersFinite, FS_AddElement
      <3> QED BY <1>1, <2>1, <3>2 DEF SlotsCounted
    <2>2. CASE slots' = slots /\ at'[c] = "finish"
      BY <1>1, <1>2, <2>2, SlotsKept
    <2> QED BY <1>2, <2>1, <2>2
  <1> QED BY <1>3, <1>4, <1>5, <1>6 DEF QuotaInv

LEMMA RespondHolds ==
    ASSUME QuotaInv, NEW c \in Callers, Respond(c)
    PROVE  QuotaInv'
  <1>1. TypeOK /\ GateIsHeld /\ ProbeStands /\ HeldIsSound /\ CooldownIsJournaled
        /\ SlotsCounted /\ ClearedStaysClear
    BY DEF QuotaInv
  <1>2. /\ at[c] = "sending" /\ at'[c] = "finish" /\ slots' = slots - 1
        /\ UNCHANGED <<gate, loaded, integrity, until, saved, probe, overtaken, cancelled>>
        /\ \A d \in Callers : d # c => at'[d] = at[d]
    BY <1>1 DEF Respond, Goto, TypeOK
  <1>3. /\ Cardinality(Senders') = Cardinality(Senders) - 1
        /\ Cardinality(Senders') \in Nat
    <2>1. c \in Senders /\ Senders' = Senders \ {c}
      BY <1>2 DEF Senders
    <2> QED BY <2>1, SendersFinite, FS_RemoveElement, FS_CardinalityType
  <1>4. SlotsCounted' /\ slots' \in 0..MaxConcurrent
    BY <1>1, <1>2, <1>3, QuotaAssumption DEF SlotsCounted, TypeOK
  <1>5. TypeOK'
    BY <1>1, <1>4 DEF Respond, Goto, TypeOK, Stations, Outcomes
  <1>6. GateIsHeld'
    BY <1>1, <1>2 DEF GateIsHeld, TypeOK
  <1>7. ProbeStands' /\ HeldIsSound' /\ ClearedStaysClear' /\ CooldownIsJournaled'
    BY <1>1, <1>2 DEF ProbeStands, HeldIsSound, ClearedStaysClear, CooldownIsJournaled
  <1> QED BY <1>4, <1>5, <1>6, <1>7 DEF QuotaInv

-----------------------------------------------------------------------------
(* Time, cancellation, restart                                             *)

LEMMA CancelHolds ==
    ASSUME QuotaInv, NEW c \in Callers, Cancel(c)
    PROVE  QuotaInv'
  <1>1. TypeOK' /\ CooldownIsJournaled'
    BY DEF QuotaInv, Cancel, TypeOK, CooldownIsJournaled
  <1>2. GateIsHeld' /\ ProbeStands' /\ HeldIsSound' /\ ClearedStaysClear'
    BY DEF QuotaInv, Cancel, GateIsHeld, ProbeStands, HeldIsSound, ClearedStaysClear
  <1>3. SlotsCounted'
    BY DEF QuotaInv, Cancel, SlotsCounted, Senders
  <1> QED BY <1>1, <1>2, <1>3 DEF QuotaInv

LEMMA TickHolds ==
    ASSUME QuotaInv, Tick
    PROVE  QuotaInv'
  <1>1. TypeOK' /\ CooldownIsJournaled'
    BY DEF QuotaInv, Tick, Elapse, TypeOK, Deadlines, CooldownIsJournaled
  <1>2. GateIsHeld' /\ ProbeStands' /\ HeldIsSound' /\ ClearedStaysClear'
    BY DEF QuotaInv, Tick, GateIsHeld, ProbeStands, HeldIsSound, ClearedStaysClear
  <1>3. SlotsCounted'
    BY DEF QuotaInv, Tick, SlotsCounted, Senders
  <1> QED BY <1>1, <1>2, <1>3 DEF QuotaInv

LEMMA NoSenders ==
    ASSUME \A c \in Callers : at[c] # "sending", slots = 0
    PROVE  SlotsCounted
  <1>1. Senders = {}
    BY DEF Senders
  <1> QED BY <1>1, FS_EmptySet DEF SlotsCounted

LEMMA RestartHolds ==
    ASSUME QuotaInv, Restart
    PROVE  QuotaInv'
  <1>1. TypeOK'
    <2>1. slots' \in 0..MaxConcurrent
      BY QuotaAssumption DEF Restart
    <2> QED BY <2>1 DEF QuotaInv, Restart, TypeOK, Deadlines, Stations, Outcomes
  <1>2. GateIsHeld' /\ ProbeStands' /\ HeldIsSound' /\ ClearedStaysClear'
    BY QuotaAssumption DEF Restart, GateIsHeld, ProbeStands, HeldIsSound, ClearedStaysClear
  <1>3. SlotsCounted'
    <2>1. Senders' = {} /\ slots' = 0
      BY DEF Restart, Senders
    <2> QED BY <2>1, FS_EmptySet DEF SlotsCounted
  <1>4. CooldownIsJournaled'
    BY DEF Restart, CooldownIsJournaled
  <1> QED BY <1>1, <1>2, <1>3, <1>4 DEF QuotaInv

LEMMA QuotaInitHolds == Init => QuotaInv
  <1> SUFFICES ASSUME Init PROVE QuotaInv
    OBVIOUS
  <1>1. TypeOK
    <2>1. slots \in 0..MaxConcurrent
      BY QuotaAssumption DEF Init
    <2> QED BY <2>1 DEF Init, TypeOK, Deadlines, Stations, Outcomes
  <1>2. GateIsHeld /\ ProbeStands /\ HeldIsSound /\ ClearedStaysClear
    BY QuotaAssumption DEF Init, GateIsHeld, ProbeStands, HeldIsSound, ClearedStaysClear
  <1>3. SlotsCounted
    BY NoSenders DEF Init
  <1>4. CooldownIsJournaled
    BY DEF Init, CooldownIsJournaled
  <1> QED BY <1>1, <1>2, <1>3, <1>4 DEF QuotaInv

LEMMA QuotaStutterHolds ==
    ASSUME QuotaInv, UNCHANGED vars
    PROVE  QuotaInv'
  <1>1. TypeOK' /\ CooldownIsJournaled'
    BY DEF QuotaInv, vars, TypeOK, CooldownIsJournaled
  <1>2. GateIsHeld' /\ ProbeStands' /\ HeldIsSound' /\ ClearedStaysClear'
    BY DEF QuotaInv, vars, GateIsHeld, ProbeStands, HeldIsSound, ClearedStaysClear
  <1>3. SlotsCounted'
    BY DEF QuotaInv, vars, SlotsCounted, Senders
  <1> QED BY <1>1, <1>2, <1>3 DEF QuotaInv

LEMMA QuotaStepHolds == QuotaInv /\ [Next]_vars => QuotaInv'
  BY RequestHolds, GiveUpHolds, EnterHolds, PausedHolds, QueriedHolds, QueryCancelledHolds,
     TakeSlotHolds, RespondHolds, FinishHolds, RejectedHolds, ScheduleHolds, CancelHolds,
     TickHolds, RestartHolds, QuotaStutterHolds DEF Next

LEMMA QuotaInvariant == Spec => []QuotaInv
  BY QuotaInitHolds, QuotaStepHolds, PTL DEF Spec

-----------------------------------------------------------------------------
(* Results                                                                 *)

\* The state of the account has the shape the code's types give it, and the
\* provider never has more requests on their way than slots.
THEOREM QuotaIsTyped == Spec => []TypeOK
  <1>1. QuotaInv => TypeOK
    BY DEF QuotaInv
  <1> QED BY <1>1, QuotaInvariant, PTL

\* The gate is always with the one caller that works on the account, and no
\* path through Wait, finish and Rejected leaves it taken (account.gate).
THEOREM GateAlwaysHeld == Spec => []GateIsHeld
  <1>1. QuotaInv => GateIsHeld
    BY DEF QuotaInv
  <1> QED BY <1>1, QuotaInvariant, PTL

\* A rejection that waited for the gate while the cooldown was cleared does
\* not bring it back (Engine.Rejected).
THEOREM RejectionsDoNotReturn == Spec => []ClearedStaysClear
  <1>1. QuotaInv => ClearedStaysClear
    BY DEF QuotaInv
  <1> QED BY <1>1, QuotaInvariant, PTL

\* A cooldown that callers wait for is in the journal, as long as no save was
\* cut off by its caller's cancellation (account.save).
THEOREM CooldownSurvives == Spec => []CooldownIsJournaled
  <1>1. QuotaInv => CooldownIsJournaled
    BY DEF QuotaInv
  <1> QED BY <1>1, QuotaInvariant, PTL

\* Only a probe with the gate in its hand leaves Wait while the account cools
\* down, and nobody does while another caller probes (Engine.Wait).
THEOREM OnlyTheProbeGetsThrough == Spec => PausedWhileCooling
  <1> DEFINE Through ==
        \A c \in Callers : at[c] # "ready" /\ at'[c] = "ready" =>
            /\ ~integrity'
            /\ \/ probe'[c] /\ gate' = c /\ until' = "future" /\ saved' = "future"
               \/ ~probe'[c] /\ until' = "none" /\ \A d \in Callers : ~probe'[d]
  <1>1. QuotaInv /\ [Next]_vars => [Through]_vars
    <2> SUFFICES ASSUME QuotaInv, Next, NEW c \in Callers, at[c] # "ready", at'[c] = "ready"
                 PROVE  /\ ~integrity'
                        /\ \/ probe'[c] /\ gate' = c /\ until' = "future" /\ saved' = "future"
                           \/ ~probe'[c] /\ until' = "none" /\ \A d \in Callers : ~probe'[d]
      OBVIOUS
    <2>1. TypeOK /\ GateIsHeld /\ ProbeStands /\ HeldIsSound /\ CooldownIsJournaled
      BY DEF QuotaInv
    <2>2. Paused(c) \/ \E balance \in Balances : Queried(c, balance)
      BY <2>1 DEF Next, TypeOK, Goto, Request, GiveUp, Enter, Paused, Queried, QueryCancelled,
                  TakeSlot, Respond, Finish, AfterAnswer, Rejected, Schedule, Cancel, Tick,
                  Restart
    <2>3. CASE Paused(c)
      <3>1. /\ at[c] = "paused" /\ until' = "none" /\ integrity' = integrity /\ probe' = probe
        BY <2>1, <2>3 DEF Paused, Goto, TypeOK
      <3>2. gate = c
        BY <2>1, <3>1 DEF GateIsHeld
      <3> QED BY <2>1, <3>1, <3>2, NobodyElseSchedules, QuotaAssumption
              DEF HeldIsSound, ProbeStands
    <2>4. ASSUME NEW balance \in Balances, Queried(c, balance)
          PROVE  ~integrity' /\ probe'[c] /\ gate' = c /\ until' = "future" /\ saved' = "future"
      <3>1. at[c] = "query" /\ cancelled' = cancelled
        BY <2>4 DEF Queried
      <3>2. gate = c /\ ~integrity
        BY <2>1, <3>1, QuotaAssumption DEF GateIsHeld, HeldIsSound
      <3>3. PICK fate \in Fates(c) :
               /\ Save(c, IF balance = "available" THEN "none" ELSE "future", fate)
               /\ IF fate # "stored" THEN Goto(c, "idle") /\ Drop /\ UNCHANGED probe
                  ELSE /\ UNCHANGED gate
                       /\ Goto(c, IF balance = "unknown" THEN "ready" ELSE "paused")
                       /\ probe' = [probe EXCEPT ![c] = (balance = "unknown")]
        BY <2>4 DEF Queried
      <3>4. fate = "stored" /\ balance = "unknown"
        BY <2>1, <3>3 DEF Goto, TypeOK
      <3> QED BY <2>1, <3>2, <3>3, <3>4 DEF Save, TypeOK
    <2> QED BY <2>2, <2>3, <2>4
  <1>2. Spec => [][Through]_vars
    BY <1>1, QuotaInvariant, PTL DEF Spec
  <1> QED BY <1>2 DEF PausedWhileCooling

=============================================================================
