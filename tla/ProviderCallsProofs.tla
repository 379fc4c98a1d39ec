------------------------ MODULE ProviderCallsProofs ------------------------
(***************************************************************************)
(* What the provider boundary guarantees for any calls and any number of   *)
(* slots.                                                                  *)
(*                                                                         *)
(* Every step of the boundary is a step of the ledger or leaves it alone,  *)
(* so the ledger's invariant carries over.  The rest relates the two       *)
(* finalizers of a stream: the sync.Once is entered only by a call that is *)
(* still out, and a call that has returned has either never entered it or  *)
(* left it settled.                                                        *)
(***************************************************************************)
EXTENDS ProviderCalls, CostLedgerProofs, FiniteSetTheorems

Out == {"transport", "streaming", "finalize"}

\* Where a call stands says how far the ledger, the sync.Once and the
\* AfterFunc have come with it.
CallStage(c) ==
    /\ call[c] \in {"idle", "profile"} => stage[c] = "new"
    /\ call[c] = "reserve" => stage[c] \in {"new", "refused", "open"} \cup Reserving
    /\ call[c] \in {"idle", "profile", "reserve"} => once[c] = "free" /\ hook[c] = "none"
    /\ call[c] \in {"transport", "streaming"} => once[c] # "consumer"
    /\ call[c] \in Out =>
           IF once[c] \in {"free", "consumer", "hook"} THEN stage[c] = "open"
           ELSE stage[c] \in {"settled", "unsettled"}
    /\ call[c] = "done" =>
           /\ stage[c] \in {"new", "refused", "gone", "settled", "unsettled"}
           /\ once[c] \in {"free", "done"}
           /\ once[c] = "free" => hook[c] \in {"none", "stopped"}
    /\ hook[c] = "armed" => call[c] \in {"transport", "streaming"}
    /\ hook[c] # "none" => c \in Streams
    /\ call[c] \in {"reserve"} \cup Out /\ stage[c] # "new" => runOf[c] = run

CallStages == \A c \in Calls : CallStage(c)

CallTypes ==
    /\ call \in [Calls -> CallStates]
    /\ cancelled \in [Calls -> BOOLEAN]
    /\ seen \in [Calls -> Amounts] /\ early \in [Calls -> Amounts]
    /\ hook \in [Calls -> HookStates]
    /\ once \in [Calls -> OnceStates]

Holders == {c \in Calls : HoldsSlot(c)}

SlotsCounted == slots \in 0..MaxConcurrent /\ slots = Cardinality(Holders)

CallInv == LedgerInv /\ CallTypes /\ CallStages /\ SlotsCounted

-----------------------------------------------------------------------------
(* Slots                                                                   *)

LEMMA HoldersFinite == IsFiniteSet(Holders) /\ IsFiniteSet(Holders')
  BY CallsAssumption, FS_Subset DEF Holders

LEMMA SlotsKept ==
    ASSUME SlotsCounted, slots' = slots, Holders' = Holders
    PROVE  SlotsCounted'
  BY DEF SlotsCounted

LEMMA SlotTaken ==
    ASSUME SlotsCounted, NEW c \in Calls, c \notin Holders, Holders' = Holders \cup {c},
           slots < MaxConcurrent, slots' = slots + 1
    PROVE  SlotsCounted'
  <1>1. Cardinality(Holders') = Cardinality(Holders) + 1
    BY HoldersFinite, FS_AddElement
  <1> QED BY <1>1, CallsAssumption DEF SlotsCounted

LEMMA SlotReturned ==
    ASSUME SlotsCounted, NEW c \in Calls, c \in Holders, Holders' = Holders \ {c},
           slots' = slots - 1
    PROVE  SlotsCounted'
  <1>1. Cardinality(Holders') = Cardinality(Holders) - 1
    BY HoldersFinite, FS_RemoveElement
  <1>2. Cardinality(Holders') \in Nat
    BY HoldersFinite, FS_CardinalityType
  <1> QED BY <1>1, <1>2, CallsAssumption DEF SlotsCounted

\* Who holds a slot follows from what has become of one call.
LEMMA HoldersFrame ==
    ASSUME NEW c \in Calls, \A d \in Calls : d # c => (HoldsSlot(d)' <=> HoldsSlot(d))
    PROVE  /\ (HoldsSlot(c)' <=> HoldsSlot(c)) => Holders' = Holders
           /\ HoldsSlot(c)' /\ ~HoldsSlot(c) => c \notin Holders /\ Holders' = Holders \cup {c}
           /\ ~HoldsSlot(c)' /\ HoldsSlot(c) => c \in Holders /\ Holders' = Holders \ {c}
  BY DEF Holders

\* One call returns its slot, if it had one.
LEMMA SlotGone ==
    ASSUME SlotsCounted, NEW c \in Calls, HoldsSlot(c) <=> c \in Slotted, ~HoldsSlot(c)',
           \A d \in Calls : d # c => (HoldsSlot(d)' <=> HoldsSlot(d)),
           slots' = slots - IF c \in Slotted THEN 1 ELSE 0
    PROVE  SlotsCounted'
  <1>1. CASE c \in Slotted
    <2>1. c \in Holders /\ Holders' = Holders \ {c}
      BY <1>1, HoldersFrame
    <2>2. slots' = slots - 1
      BY <1>1
    <2> QED BY <2>1, <2>2, SlotReturned
  <1>2. CASE c \notin Slotted
    <2>1. Holders' = Holders
      BY <1>2, HoldersFrame
    <2>2. slots' = slots
      BY <1>2, CallsAssumption DEF SlotsCounted
    <2> QED BY <2>1, <2>2, SlotsKept
  <1> QED BY <1>1, <1>2

LEMMA CallInitHolds == Init => CallInv
  <1> SUFFICES ASSUME Init PROVE CallInv
    OBVIOUS
  <1>1. LedgerInv
    BY InitHolds DEF Init
  <1>2. CallTypes
    BY DEF Init, CallTypes, CallStates, Amounts, HookStates, OnceStates
  <1>3. CallStages
    BY DEF Init, LedgerInit, CallStages, CallStage, Out
  <1>4. SlotsCounted
    <2>1. Holders = {}
      BY DEF Init, Holders, HoldsSlot
    <2> QED BY <2>1, FS_EmptySet, CallsAssumption DEF Init, SlotsCounted
  <1> QED BY <1>1, <1>2, <1>3, <1>4 DEF CallInv

-----------------------------------------------------------------------------
(* Admission                                                               *)

\* A step that leaves the ledger alone keeps its invariant.
LEMMA LedgerAlone ==
    ASSUME CallInv, UNCHANGED ledgerVars
    PROVE  LedgerInv'
  BY StutterHolds DEF CallInv

LEMMA AcquireHolds ==
    ASSUME CallInv, NEW c \in Calls, AcquireProviderInvocation(c)
    PROVE  CallInv'
  <1> USE DEF AcquireProviderInvocation
  <1>1. /\ call[c] = "idle" /\ UNCHANGED <<ledgerVars, cancelled, seen, early, hook, once>>
        /\ call' = [call EXCEPT ![c] = IF c \in Slotted THEN "profile" ELSE "reserve"]
        /\ \/ c \in Slotted /\ slots < MaxConcurrent /\ slots' = slots + 1
           \/ c \notin Slotted /\ slots' = slots
    BY DEF Goto
  <1>2. CallTypes /\ CallStages /\ SlotsCounted
    BY DEF CallInv
  <1>3. \A d \in Calls : d # c => call'[d] = call[d]
    BY <1>1, <1>2 DEF CallTypes
  <1>4. call'[c] = IF c \in Slotted THEN "profile" ELSE "reserve"
    BY <1>1, <1>2 DEF CallTypes
  <1>5. CallTypes'
    BY <1>1, <1>2 DEF CallTypes, CallStates
  <1>6. CallStages'
    BY <1>1, <1>2, <1>3, <1>4 DEF CallStages, CallStage, Out, ledgerVars
  <1>7. SlotsCounted'
    <2>1. \A d \in Calls : d # c => (HoldsSlot(d)' <=> HoldsSlot(d))
      BY <1>1, <1>3 DEF HoldsSlot, Slotted
    <2>2. ~HoldsSlot(c) /\ (HoldsSlot(c)' <=> c \in Slotted)
      BY <1>1, <1>2, <1>4 DEF HoldsSlot, Slotted, CallStages, CallStage
    <2> QED BY <1>1, <1>2, <2>1, <2>2, HoldersFrame, SlotTaken, SlotsKept
  <1> QED BY <1>1, <1>5, <1>6, <1>7, LedgerAlone DEF CallInv

LEMMA AbandonHolds ==
    ASSUME CallInv, NEW c \in Calls, AbandonQueue(c)
    PROVE  CallInv'
  <1> USE DEF AbandonQueue
  <1>1. CallTypes /\ CallStages /\ SlotsCounted /\ CallStage(c)
    BY DEF CallInv, CallStages
  <1>2. /\ call[c] = "idle" /\ call'[c] = "done" /\ hook' = hook /\ once' = once
        /\ UNCHANGED ledgerVars /\ slots' = slots
    BY <1>1 DEF Goto, Release, StopHook, CallTypes
  <1>3. \A d \in Calls : d # c =>
           call'[d] = call[d] /\ hook'[d] = hook[d] /\ once'[d] = once[d]
    BY <1>1 DEF Goto, Release, StopHook, CallTypes
  <1>4. CallTypes'
    BY <1>1 DEF CallTypes, CallStates, Goto, StopHook
  <1>5. CallStages'
    BY <1>1, <1>2, <1>3 DEF CallStages, CallStage, Out, ledgerVars
  <1>6. SlotsCounted'
    <2>1. \A d \in Calls : HoldsSlot(d)' <=> HoldsSlot(d)
      BY <1>1, <1>2, <1>3 DEF HoldsSlot, Slotted, CallStage, Out
    <2>2. Holders' = Holders
      BY <2>1 DEF Holders
    <2> QED BY <1>1, <1>2, <2>2, SlotsKept
  <1> QED BY <1>4, <1>5, <1>6, LedgerAlone DEF CallInv

LEMMA RefusedHolds ==
    ASSUME CallInv, NEW c \in Calls, AdmissionRefused(c)
    PROVE  CallInv'
  <1> USE DEF AdmissionRefused
  <1>1. CallTypes /\ CallStages /\ SlotsCounted /\ CallStage(c)
    BY DEF CallInv, CallStages
  <1>2. /\ call[c] = "reserve" /\ stage[c] = "refused" /\ call'[c] = "done"
        /\ hook' = hook /\ once' = once /\ UNCHANGED ledgerVars
        /\ slots' = slots - IF c \in Slotted THEN 1 ELSE 0
    BY <1>1 DEF Goto, Release, StopHook, CallTypes
  <1>3. \A d \in Calls : d # c =>
           call'[d] = call[d] /\ hook'[d] = hook[d] /\ once'[d] = once[d]
    BY <1>1 DEF Goto, Release, StopHook, CallTypes
  <1>4. CallTypes'
    BY <1>1 DEF CallTypes, CallStates, Goto, StopHook
  <1>5. CallStages'
    BY <1>1, <1>2, <1>3 DEF CallStages, CallStage, Out, ledgerVars
  <1>6. SlotsCounted'
    <2>1. \A d \in Calls : d # c => (HoldsSlot(d)' <=> HoldsSlot(d))
      BY <1>3 DEF HoldsSlot, Slotted
    <2>2. (HoldsSlot(c) <=> c \in Slotted) /\ ~HoldsSlot(c)'
      BY <1>1, <1>2 DEF HoldsSlot, Slotted, CallStage, Out
    <2> QED BY <1>1, <1>2, <2>1, <2>2, SlotGone
  <1> QED BY <1>4, <1>5, <1>6, LedgerAlone DEF CallInv

LEMMA SendHolds ==
    ASSUME CallInv, NEW c \in Calls, Send(c)
    PROVE  CallInv'
  <1> USE DEF Send
  <1>1. CallTypes /\ CallStages /\ SlotsCounted /\ CallStage(c)
    BY DEF CallInv, CallStages
  <1>2. /\ call[c] = "reserve" /\ stage[c] = "open" /\ call'[c] = "transport"
        /\ hook'[c] = (IF c \in Streams THEN "armed" ELSE hook[c]) /\ once' = once
        /\ UNCHANGED ledgerVars /\ slots' = slots
    BY <1>1 DEF Goto, Release, StopHook, CallTypes
  <1>3. \A d \in Calls : d # c =>
           call'[d] = call[d] /\ hook'[d] = hook[d] /\ once'[d] = once[d]
    BY <1>1 DEF Goto, Release, StopHook, CallTypes
  <1>4. CallTypes'
    BY <1>1 DEF CallTypes, CallStates, HookStates, Goto, StopHook
  <1>5. CallStages'
    BY <1>1, <1>2, <1>3 DEF CallStages, CallStage, Out, ledgerVars
  <1>6. SlotsCounted'
    <2>1. \A d \in Calls : HoldsSlot(d)' <=> HoldsSlot(d)
      BY <1>1, <1>2, <1>3 DEF HoldsSlot, Slotted, CallStage, Out
    <2>2. Holders' = Holders
      BY <2>1 DEF Holders
    <2> QED BY <1>1, <1>2, <2>2, SlotsKept
  <1> QED BY <1>4, <1>5, <1>6, LedgerAlone DEF CallInv

-----------------------------------------------------------------------------
(* Transport                                                               *)

LEMMA RespondHolds ==
    ASSUME CallInv, NEW c \in Calls, Respond(c)
    PROVE  CallInv'
  <1> USE DEF Respond
  <1>1. CallTypes /\ CallStages /\ SlotsCounted /\ CallStage(c)
    BY DEF CallInv, CallStages
  <1>2. /\ call[c] = "transport" /\ c \notin Streams /\ call'[c] = "finalize"
        /\ hook' = hook /\ once' = once /\ UNCHANGED ledgerVars /\ slots' = slots
    BY <1>1 DEF Goto, Release, StopHook, CallTypes
  <1>3. \A d \in Calls : d # c =>
           call'[d] = call[d] /\ hook'[d] = hook[d] /\ once'[d] = once[d]
    BY <1>1 DEF Goto, Release, StopHook, CallTypes
  <1>4. CallTypes'
    BY <1>1 DEF CallTypes, CallStates, Goto, StopHook
  <1>5. CallStages'
    BY <1>1, <1>2, <1>3 DEF CallStages, CallStage, Out, ledgerVars
  <1>6. SlotsCounted'
    <2>1. \A d \in Calls : HoldsSlot(d)' <=> HoldsSlot(d)
      BY <1>1, <1>2, <1>3 DEF HoldsSlot, Slotted, CallStage, Out
    <2>2. Holders' = Holders
      BY <2>1 DEF Holders
    <2> QED BY <1>1, <1>2, <2>2, SlotsKept
  <1> QED BY <1>4, <1>5, <1>6, LedgerAlone DEF CallInv

LEMMA OpenStreamHolds ==
    ASSUME CallInv, NEW c \in Calls, OpenStream(c)
    PROVE  CallInv'
  <1> USE DEF OpenStream
  <1>1. CallTypes /\ CallStages /\ SlotsCounted /\ CallStage(c)
    BY DEF CallInv, CallStages
  <1>2. /\ call[c] = "transport"
        /\ \/ call'[c] = "streaming" /\ hook'[c] = hook[c]
           \/ call'[c] = "finalize" /\ hook'[c] = IF hook[c] = "armed" THEN "stopped" ELSE hook[c]
        /\ once' = once /\ UNCHANGED ledgerVars /\ slots' = slots
    BY <1>1 DEF Goto, Release, StopHook, CallTypes
  <1>3. \A d \in Calls : d # c =>
           call'[d] = call[d] /\ hook'[d] = hook[d] /\ once'[d] = once[d]
    BY <1>1 DEF Goto, Release, StopHook, CallTypes
  <1>4. CallTypes'
    BY <1>1 DEF CallTypes, CallStates, HookStates, Goto, StopHook
  <1>5. CallStages'
    BY <1>1, <1>2, <1>3 DEF CallStages, CallStage, Out, ledgerVars
  <1>6. SlotsCounted'
    <2>1. \A d \in Calls : HoldsSlot(d)' <=> HoldsSlot(d)
      BY <1>1, <1>2, <1>3 DEF HoldsSlot, Slotted, CallStage, Out
    <2>2. Holders' = Holders
      BY <2>1 DEF Holders
    <2> QED BY <1>1, <1>2, <2>2, SlotsKept
  <1> QED BY <1>4, <1>5, <1>6, LedgerAlone DEF CallInv

LEMMA ObserveHolds ==
    ASSUME CallInv, NEW c \in Calls, ObserveUsage(c)
    PROVE  CallInv'
  <1> USE DEF ObserveUsage
  <1>1. CallTypes /\ CallStages /\ SlotsCounted /\ CallStage(c)
    BY DEF CallInv, CallStages
  <1>2. /\ call[c] = "streaming" /\ call' = call
        /\ hook' = hook /\ once' = once /\ UNCHANGED ledgerVars /\ slots' = slots
    BY <1>1 DEF Goto, Release, StopHook, CallTypes
  <1>3. \A d \in Calls : d # c =>
           call'[d] = call[d] /\ hook'[d] = hook[d] /\ once'[d] = once[d]
    BY <1>1 DEF Goto, Release, StopHook, CallTypes
  <1>4. CallTypes'
    BY <1>1 DEF CallTypes, Amounts, Goto, StopHook
  <1>5. CallStages'
    BY <1>1, <1>2, <1>3 DEF CallStages, CallStage, Out, ledgerVars
  <1>6. SlotsCounted'
    <2>1. \A d \in Calls : HoldsSlot(d)' <=> HoldsSlot(d)
      BY <1>1, <1>2, <1>3 DEF HoldsSlot, Slotted, CallStage, Out
    <2>2. Holders' = Holders
      BY <2>1 DEF Holders
    <2> QED BY <1>1, <1>2, <2>2, SlotsKept
  <1> QED BY <1>4, <1>5, <1>6, LedgerAlone DEF CallInv

LEMMA EndStreamHolds ==
    ASSUME CallInv, NEW c \in Calls, EndStream(c)
    PROVE  CallInv'
  <1> USE DEF EndStream
  <1>1. CallTypes /\ CallStages /\ SlotsCounted /\ CallStage(c)
    BY DEF CallInv, CallStages
  <1>2. /\ call[c] = "streaming" /\ call'[c] = "finalize"
        /\ hook'[c] = IF hook[c] = "armed" THEN "stopped" ELSE hook[c]
        /\ once' = once /\ UNCHANGED ledgerVars /\ slots' = slots
    BY <1>1 DEF Goto, Release, StopHook, CallTypes
  <1>3. \A d \in Calls : d # c =>
           call'[d] = call[d] /\ hook'[d] = hook[d] /\ once'[d] = once[d]
    BY <1>1 DEF Goto, Release, StopHook, CallTypes
  <1>4. CallTypes'
    BY <1>1 DEF CallTypes, CallStates, HookStates, Goto, StopHook
  <1>5. CallStages'
    BY <1>1, <1>2, <1>3 DEF CallStages, CallStage, Out, ledgerVars
  <1>6. SlotsCounted'
    <2>1. \A d \in Calls : HoldsSlot(d)' <=> HoldsSlot(d)
      BY <1>1, <1>2, <1>3 DEF HoldsSlot, Slotted, CallStage, Out
    <2>2. Holders' = Holders
      BY <2>1 DEF Holders
    <2> QED BY <1>1, <1>2, <2>2, SlotsKept
  <1> QED BY <1>4, <1>5, <1>6, LedgerAlone DEF CallInv

LEMMA CancelHolds ==
    ASSUME CallInv, NEW c \in Calls, Cancel(c)
    PROVE  CallInv'
  <1> USE DEF Cancel
  <1>1. CallTypes /\ CallStages /\ SlotsCounted /\ CallStage(c)
    BY DEF CallInv, CallStages
  <1>2. /\ call' = call /\ hook' = hook /\ once' = once
        /\ UNCHANGED ledgerVars /\ slots' = slots
    BY <1>1 DEF Goto, Release, StopHook, CallTypes
  <1>3. \A d \in Calls : d # c =>
           call'[d] = call[d] /\ hook'[d] = hook[d] /\ once'[d] = once[d]
    BY <1>1 DEF Goto, Release, StopHook, CallTypes
  <1>4. CallTypes'
    BY <1>1 DEF CallTypes, CallStates, Goto, StopHook
  <1>5. CallStages'
    BY <1>1, <1>2, <1>3 DEF CallStages, CallStage, Out, ledgerVars
  <1>6. SlotsCounted'
    <2>1. \A d \in Calls : HoldsSlot(d)' <=> HoldsSlot(d)
      BY <1>1, <1>2, <1>3 DEF HoldsSlot, Slotted, CallStage, Out
    <2>2. Holders' = Holders
      BY <2>1 DEF Holders
    <2> QED BY <1>1, <1>2, <2>2, SlotsKept
  <1> QED BY <1>4, <1>5, <1>6, LedgerAlone DEF CallInv

-----------------------------------------------------------------------------
(* Finalization                                                            *)

LEMMA HookFiresHolds ==
    ASSUME CallInv, NEW c \in Calls, HookFires(c)
    PROVE  CallInv'
  <1> USE DEF HookFires
  <1>1. CallTypes /\ CallStages /\ SlotsCounted /\ CallStage(c)
    BY DEF CallInv, CallStages
  <1>2. /\ hook[c] = "armed" /\ hook'[c] = "running" /\ call' = call /\ once' = once
        /\ UNCHANGED ledgerVars /\ slots' = slots
    BY <1>1 DEF Goto, Release, StopHook, CallTypes
  <1>3. \A d \in Calls : d # c =>
           call'[d] = call[d] /\ hook'[d] = hook[d] /\ once'[d] = once[d]
    BY <1>1 DEF Goto, Release, StopHook, CallTypes
  <1>4. CallTypes'
    BY <1>1 DEF CallTypes, HookStates, Goto, StopHook
  <1>5. CallStages'
    BY <1>1, <1>2, <1>3 DEF CallStages, CallStage, Out, ledgerVars
  <1>6. SlotsCounted'
    <2>1. \A d \in Calls : HoldsSlot(d)' <=> HoldsSlot(d)
      BY <1>1, <1>2, <1>3 DEF HoldsSlot, Slotted, CallStage, Out
    <2>2. Holders' = Holders
      BY <2>1 DEF Holders
    <2> QED BY <1>1, <1>2, <2>2, SlotsKept
  <1> QED BY <1>4, <1>5, <1>6, LedgerAlone DEF CallInv

LEMMA ConsumerHolds ==
    ASSUME CallInv, NEW c \in Calls, ConsumerFinalizes(c)
    PROVE  CallInv'
  <1> USE DEF ConsumerFinalizes
  <1>1. CallTypes /\ CallStages /\ SlotsCounted /\ CallStage(c)
    BY DEF CallInv, CallStages
  <1>2. /\ call[c] = "finalize" /\ once[c] = "free" /\ once'[c] = "consumer"
        /\ call' = call /\ hook' = hook /\ UNCHANGED ledgerVars /\ slots' = slots
    BY <1>1 DEF Goto, Release, StopHook, CallTypes
  <1>3. \A d \in Calls : d # c =>
           call'[d] = call[d] /\ hook'[d] = hook[d] /\ once'[d] = once[d]
    BY <1>1 DEF Goto, Release, StopHook, CallTypes
  <1>4. CallTypes'
    BY <1>1 DEF CallTypes, OnceStates, Goto, StopHook
  <1>5. CallStages'
    BY <1>1, <1>2, <1>3 DEF CallStages, CallStage, Out, ledgerVars
  <1>6. SlotsCounted'
    <2>1. \A d \in Calls : HoldsSlot(d)' <=> HoldsSlot(d)
      BY <1>1, <1>2, <1>3 DEF HoldsSlot, Slotted, CallStage, Out
    <2>2. Holders' = Holders
      BY <2>1 DEF Holders
    <2> QED BY <1>1, <1>2, <2>2, SlotsKept
  <1> QED BY <1>4, <1>5, <1>6, LedgerAlone DEF CallInv

LEMMA HookFinalizesHolds ==
    ASSUME CallInv, NEW c \in Calls, HookFinalizes(c)
    PROVE  CallInv'
  <1> USE DEF HookFinalizes
  <1>1. CallTypes /\ CallStages /\ SlotsCounted /\ CallStage(c)
    BY DEF CallInv, CallStages
  <1>2. /\ hook[c] = "running" /\ once[c] = "free" /\ once'[c] = "hook"
        /\ call' = call /\ hook' = hook /\ UNCHANGED ledgerVars /\ slots' = slots
    BY <1>1 DEF Goto, Release, StopHook, CallTypes
  <1>3. \A d \in Calls : d # c =>
           call'[d] = call[d] /\ hook'[d] = hook[d] /\ once'[d] = once[d]
    BY <1>1 DEF Goto, Release, StopHook, CallTypes
  <1>4. CallTypes'
    BY <1>1 DEF CallTypes, OnceStates, Goto, StopHook
  <1>5. CallStages'
    BY <1>1, <1>2, <1>3 DEF CallStages, CallStage, Out, ledgerVars
  <1>6. SlotsCounted'
    <2>1. \A d \in Calls : HoldsSlot(d)' <=> HoldsSlot(d)
      BY <1>1, <1>2, <1>3 DEF HoldsSlot, Slotted, CallStage, Out
    <2>2. Holders' = Holders
      BY <2>1 DEF Holders
    <2> QED BY <1>1, <1>2, <2>2, SlotsKept
  <1> QED BY <1>4, <1>5, <1>6, LedgerAlone DEF CallInv

LEMMA ReleaseHolds ==
    ASSUME CallInv, NEW c \in Calls, ReleaseSlot(c)
    PROVE  CallInv'
  <1> USE DEF ReleaseSlot
  <1>1. CallTypes /\ CallStages /\ SlotsCounted /\ CallStage(c)
    BY DEF CallInv, CallStages
  <1>2. /\ once[c] = "settled" /\ once'[c] = "done" /\ call' = call /\ hook' = hook /\ UNCHANGED ledgerVars
        /\ slots' = slots - IF c \in Slotted THEN 1 ELSE 0
        /\ call[c] \in Out
    BY <1>1 DEF Goto, Release, StopHook, CallTypes, CallStage, Out, CallStates
  <1>3. \A d \in Calls : d # c =>
           call'[d] = call[d] /\ hook'[d] = hook[d] /\ once'[d] = once[d]
    BY <1>1 DEF Goto, Release, StopHook, CallTypes
  <1>4. CallTypes'
    BY <1>1 DEF CallTypes, OnceStates, Goto, StopHook
  <1>5. CallStages'
    BY <1>1, <1>2, <1>3 DEF CallStages, CallStage, Out, ledgerVars
  <1>6. SlotsCounted'
    <2>1. \A d \in Calls : d # c => (HoldsSlot(d)' <=> HoldsSlot(d))
      BY <1>3 DEF HoldsSlot, Slotted
    <2>2. (HoldsSlot(c) <=> c \in Slotted) /\ ~HoldsSlot(c)'
      BY <1>1, <1>2 DEF HoldsSlot, Slotted, CallStage, Out
    <2> QED BY <1>1, <1>2, <2>1, <2>2, SlotGone
  <1> QED BY <1>4, <1>5, <1>6, LedgerAlone DEF CallInv

LEMMA ReturnHolds ==
    ASSUME CallInv, NEW c \in Calls, Return(c)
    PROVE  CallInv'
  <1> USE DEF Return
  <1>1. CallTypes /\ CallStages /\ SlotsCounted /\ CallStage(c)
    BY DEF CallInv, CallStages
  <1>2. /\ call[c] = "finalize" /\ once[c] = "done" /\ call'[c] = "done"
        /\ hook' = hook /\ once' = once /\ UNCHANGED ledgerVars /\ slots' = slots
    BY <1>1 DEF Goto, Release, StopHook, CallTypes
  <1>3. \A d \in Calls : d # c =>
           call'[d] = call[d] /\ hook'[d] = hook[d] /\ once'[d] = once[d]
    BY <1>1 DEF Goto, Release, StopHook, CallTypes
  <1>4. CallTypes'
    BY <1>1 DEF CallTypes, CallStates, Goto, StopHook
  <1>5. CallStages'
    BY <1>1, <1>2, <1>3 DEF CallStages, CallStage, Out, ledgerVars
  <1>6. SlotsCounted'
    <2>1. \A d \in Calls : HoldsSlot(d)' <=> HoldsSlot(d)
      BY <1>1, <1>2, <1>3 DEF HoldsSlot, Slotted, CallStage, Out
    <2>2. Holders' = Holders
      BY <2>1 DEF Holders
    <2> QED BY <1>1, <1>2, <2>2, SlotsKept
  <1> QED BY <1>4, <1>5, <1>6, LedgerAlone DEF CallInv

LEMMA HookReturnsHolds ==
    ASSUME CallInv, NEW c \in Calls, HookReturns(c)
    PROVE  CallInv'
  <1> USE DEF HookReturns
  <1>1. CallTypes /\ CallStages /\ SlotsCounted /\ CallStage(c)
    BY DEF CallInv, CallStages
  <1>2. /\ hook[c] = "running" /\ once[c] = "done" /\ hook'[c] = "stopped"
        /\ call' = call /\ once' = once /\ UNCHANGED ledgerVars /\ slots' = slots
    BY <1>1 DEF Goto, Release, StopHook, CallTypes
  <1>3. \A d \in Calls : d # c =>
           call'[d] = call[d] /\ hook'[d] = hook[d] /\ once'[d] = once[d]
    BY <1>1 DEF Goto, Release, StopHook, CallTypes
  <1>4. CallTypes'
    BY <1>1 DEF CallTypes, HookStates, Goto, StopHook
  <1>5. CallStages'
    BY <1>1, <1>2, <1>3 DEF CallStages, CallStage, Out, ledgerVars
  <1>6. SlotsCounted'
    <2>1. \A d \in Calls : HoldsSlot(d)' <=> HoldsSlot(d)
      BY <1>1, <1>2, <1>3 DEF HoldsSlot, Slotted, CallStage, Out
    <2>2. Holders' = Holders
      BY <2>1 DEF Holders
    <2> QED BY <1>1, <1>2, <2>2, SlotsKept
  <1> QED BY <1>4, <1>5, <1>6, LedgerAlone DEF CallInv

-----------------------------------------------------------------------------
(* Steps that go with the ledger                                           *)

LEMMA CommitProfileHolds ==
    ASSUME CallInv, NEW c \in Calls, CommitProfile(c)
    PROVE  CallInv'
  <1> USE DEF CommitProfile
  <1>1. CallTypes /\ CallStages /\ SlotsCounted /\ CallStage(c)
    BY DEF CallInv, CallStages
  <1>2. /\ call[c] = "profile" /\ hook' = hook /\ once' = once /\ UNCHANGED ledgerVars
        /\ \/ call'[c] = "reserve" /\ slots' = slots
           \/ call'[c] = "done" /\ slots' = slots - IF c \in Slotted THEN 1 ELSE 0
    BY <1>1 DEF Goto, Release, CallTypes
  <1>3. \A d \in Calls : d # c =>
           call'[d] = call[d] /\ hook'[d] = hook[d] /\ once'[d] = once[d]
    BY <1>1 DEF Goto, CallTypes
  <1>4. CallTypes'
    BY <1>1 DEF CallTypes, CallStates, Goto
  <1>5. CallStages'
    BY <1>1, <1>2, <1>3 DEF CallStages, CallStage, Out, ledgerVars
  <1>6. SlotsCounted'
    <2>1. \A d \in Calls : d # c => (HoldsSlot(d)' <=> HoldsSlot(d))
      BY <1>3 DEF HoldsSlot, Slotted
    <2>2. HoldsSlot(c) <=> c \in Slotted
      BY <1>1, <1>2 DEF HoldsSlot, Slotted, CallStage
    <2>3. CASE call'[c] = "reserve" /\ slots' = slots
      <3>1. HoldsSlot(c)' <=> HoldsSlot(c)
        BY <1>1, <1>2, <2>3 DEF HoldsSlot, Slotted, CallStage
      <3> QED BY <1>1, <2>1, <2>3, <3>1, HoldersFrame, SlotsKept
    <2>4. CASE call'[c] = "done" /\ slots' = slots - IF c \in Slotted THEN 1 ELSE 0
      <3>1. ~HoldsSlot(c)'
        BY <2>4 DEF HoldsSlot
      <3> QED BY <1>1, <2>1, <2>2, <2>4, <3>1, SlotGone
    <2> QED BY <1>2, <2>3, <2>4
  <1> QED BY <1>4, <1>5, <1>6, LedgerAlone DEF CallInv

\* What a step of Reserve does to the stage of its call.
LEMMA ReserveStage ==
    ASSUME LedgerInv, NEW c \in Calls, BeginReserve(c) \/ ReserveStep(c)
    PROVE  /\ \A d \in Calls : d # c => stage'[d] = stage[d] /\ runOf'[d] = runOf[d]
           /\ stage'[c] \in {"refused", "open"} \cup Reserving
           /\ runOf'[c] = run /\ run' = run
  <1>1. stage \in [Calls -> Stages] /\ runOf \in [Calls -> Runs \cup {NoRun}]
    BY DEF LedgerInv, LedgerTypeOK
  <1>2. CASE BeginReserve(c)
    BY <1>1, <1>2 DEF BeginReserve, Reserving
  <1>3. CASE ReserveStep(c)
    <2>1. StepInside(c)
      BY <1>3, EnsurePriceInside, DecideInside, DenyInside, WarnInside, BookInside
         DEF ReserveStep
    <2>2. PICK s \in {"decide", "deny", "warn", "book", "refused", "open"} : StepTo(c, s)
      BY <2>1 DEF StepInside
    <2>3. runOf[c] = run
      BY <2>2, OneInside DEF StepTo
    <2> QED BY <1>1, <2>2, <2>3 DEF StepTo, Reserving
  <1> QED BY <1>2, <1>3

LEMMA ReserveHolds ==
    ASSUME CallInv, NEW c \in Calls, ReserveCost(c)
    PROVE  CallInv'
  <1>1. CallTypes /\ CallStages /\ SlotsCounted /\ CallStage(c) /\ LedgerInv
    BY DEF CallInv, CallStages
  <1>2. /\ call[c] = "reserve" /\ (BeginReserve(c) \/ ReserveStep(c))
        /\ slots' = slots /\ call' = call /\ hook' = hook /\ once' = once
        /\ cancelled' = cancelled /\ seen' = seen /\ early' = early
    BY DEF ReserveCost, callVars
  <1>3. LedgerInv'
    BY <1>1, <1>2, LedgerStepHolds DEF LedgerNext
  <1>4. /\ \A d \in Calls : d # c => stage'[d] = stage[d] /\ runOf'[d] = runOf[d]
        /\ stage'[c] \in {"refused", "open"} \cup Reserving
        /\ runOf'[c] = run /\ run' = run
    BY <1>1, <1>2, ReserveStage
  <1>5. CallTypes'
    BY <1>1, <1>2 DEF CallTypes
  <1>6. CallStages'
    <2> SUFFICES ASSUME NEW d \in Calls PROVE CallStage(d)'
      BY DEF CallStages
    <2>1. CASE d = c
      BY <1>1, <1>2, <1>4, <2>1 DEF CallStage, Out
    <2>2. CASE d # c
      BY <1>1, <1>2, <1>4, <2>2 DEF CallStages, CallStage, Out
    <2> QED BY <2>1, <2>2
  <1>7. SlotsCounted'
    <2>1. Holders' = Holders
      BY <1>2 DEF Holders, HoldsSlot, Slotted
    <2> QED BY <1>1, <1>2, <2>1, SlotsKept
  <1> QED BY <1>3, <1>5, <1>6, <1>7 DEF CallInv

LEMMA SettleCostHolds ==
    ASSUME CallInv, NEW c \in Calls, SettleCost(c)
    PROVE  CallInv'
  <1>1. CallTypes /\ CallStages /\ SlotsCounted /\ CallStage(c) /\ LedgerInv
    BY DEF CallInv, CallStages
  <1>2. PICK u \in Usages \cup {NoMicros} : Settle(c, u)
    BY <1>1 DEF SettleCost, CallTypes, Amounts
  <1>3. /\ once[c] \in {"consumer", "hook"} /\ once'[c] = "settled"
        /\ \A d \in Calls : d # c => once'[d] = once[d]
        /\ slots' = slots /\ call' = call /\ hook' = hook
        /\ cancelled' = cancelled /\ seen' = seen /\ early' = early
    BY <1>1 DEF SettleCost, CallTypes
  <1>4. LedgerInv'
    BY <1>1, <1>2, SettleHolds
  <1>5. /\ \A d \in Calls : d # c => stage'[d] = stage[d]
        /\ stage'[c] \in {"settled", "unsettled"} /\ stage[c] = "open"
        /\ runOf' = runOf /\ run' = run
    BY <1>1, <1>2 DEF Settle, LedgerInv, LedgerTypeOK
  <1>6. call[c] \in Out
    BY <1>1, <1>3 DEF CallStage, CallTypes, CallStates, Out
  <1>7. CallTypes'
    BY <1>1, <1>3 DEF CallTypes, OnceStates, SettleCost
  <1>8. CallStages'
    <2> SUFFICES ASSUME NEW d \in Calls PROVE CallStage(d)'
      BY DEF CallStages
    <2>1. CASE d = c
      BY <1>1, <1>3, <1>5, <1>6, <2>1 DEF CallStage, Out
    <2>2. CASE d # c
      BY <1>1, <1>3, <1>5, <2>2 DEF CallStages, CallStage, Out
    <2> QED BY <2>1, <2>2
  <1>9. SlotsCounted'
    <2>1. \A d \in Calls : HoldsSlot(d)' <=> HoldsSlot(d)
      BY <1>3 DEF HoldsSlot, Slotted
    <2>2. Holders' = Holders
      BY <2>1 DEF Holders
    <2> QED BY <1>1, <1>3, <2>2, SlotsKept
  <1> QED BY <1>4, <1>7, <1>8, <1>9 DEF CallInv

-----------------------------------------------------------------------------
(* Runs                                                                    *)

LEMMA StartNextRunHolds ==
    ASSUME CallInv, StartNextRun
    PROVE  CallInv'
  <1>1. CallTypes /\ CallStages /\ SlotsCounted /\ LedgerInv
    BY DEF CallInv
  <1>2. /\ \A c \in Calls : call[c] \in {"idle", "done"}
        /\ NextRun /\ stage' = stage /\ UNCHANGED callVars
    BY DEF StartNextRun, NextRun
  <1>3. LedgerInv'
    BY <1>1, <1>2, NextRunHolds
  <1>4. CallTypes'
    BY <1>1, <1>2 DEF CallTypes, callVars
  <1>5. CallStages'
    BY <1>1, <1>2 DEF CallStages, CallStage, Out, callVars
  <1>6. SlotsCounted'
    <2>1. slots' = slots /\ Holders' = Holders
      BY <1>2 DEF Holders, HoldsSlot, callVars
    <2> QED BY <1>1, <2>1, SlotsKept
  <1> QED BY <1>3, <1>4, <1>5, <1>6 DEF CallInv

LEMMA ProcessCrashHolds ==
    ASSUME CallInv, Crash
    PROVE  CallInv'
  <1>1. CallTypes /\ CallStages /\ LedgerInv
    BY DEF CallInv
  <1>2. LedgerInv'
    BY <1>1, CrashHolds DEF Crash
  <1>3. \A c \in Calls :
           /\ call'[c] = IF call[c] = "idle" THEN "idle" ELSE "done"
           /\ hook'[c] = IF hook[c] = "none" THEN "none" ELSE "stopped"
           /\ once'[c] = IF once[c] = "free" THEN "free" ELSE "done"
           /\ stage'[c] = IF InFlight(c) THEN "gone" ELSE stage[c]
    BY DEF Crash, CrashLedger
  <1>4. CallTypes'
    BY <1>1 DEF Crash, CallTypes, CallStates, HookStates, OnceStates
  <1>5. CallStages'
    <2> SUFFICES ASSUME NEW c \in Calls PROVE CallStage(c)'
      BY DEF CallStages
    <2>1. CallStage(c) /\ stage[c] \in Stages /\ call[c] \in CallStates /\ once[c] \in OnceStates
          /\ hook[c] \in HookStates
      BY <1>1 DEF CallStages, CallTypes, LedgerInv, LedgerTypeOK
    <2>2. CASE call[c] = "idle"
      BY <1>3, <2>1, <2>2 DEF CallStage, Out, InFlight, Reserving
    <2>3. CASE call[c] # "idle"
      BY <1>3, <2>1, <2>3 DEF CallStage, Out, InFlight, Reserving, Stages, Admitted,
         OnceStates, HookStates
    <2> QED BY <2>2, <2>3
  <1>6. SlotsCounted'
    <2>1. Holders' = {}
      BY <1>3 DEF Holders, HoldsSlot
    <2>2. slots' = 0
      BY DEF Crash
    <2> QED BY <2>1, <2>2, FS_EmptySet, CallsAssumption DEF SlotsCounted
  <1> QED BY <1>2, <1>4, <1>5, <1>6 DEF CallInv

LEMMA CallStutterHolds ==
    ASSUME CallInv, UNCHANGED vars
    PROVE  CallInv'
  <1>1. LedgerInv'
    BY LedgerAlone DEF vars
  <1>2. CallTypes' /\ CallStages' /\ SlotsCounted'
    BY DEF CallInv, CallTypes, CallStages, CallStage, SlotsCounted, Holders, HoldsSlot,
           vars, callVars, ledgerVars
  <1> QED BY <1>1, <1>2 DEF CallInv

LEMMA CallStepHolds == CallInv /\ [Next]_vars => CallInv'
  <1> SUFFICES ASSUME CallInv, [Next]_vars PROVE CallInv'
    OBVIOUS
  <1>1. ASSUME NEW c \in Calls, AcquireProviderInvocation(c) \/ Cancel(c) PROVE CallInv'
    BY <1>1, AcquireHolds, CancelHolds
  <1>2. ASSUME NEW c \in Calls, Transport(c) PROVE CallInv'
    BY <1>2, RespondHolds, OpenStreamHolds, ObserveHolds, EndStreamHolds DEF Transport
  <1>3. ASSUME NEW c \in Calls, Runtime(c) PROVE CallInv'
    BY <1>3, AbandonHolds, CommitProfileHolds, ReserveHolds, RefusedHolds, SendHolds,
       HookFiresHolds, ConsumerHolds, HookFinalizesHolds, SettleCostHolds, ReleaseHolds,
       ReturnHolds, HookReturnsHolds DEF Runtime
  <1> QED BY <1>1, <1>2, <1>3, StartNextRunHolds, ProcessCrashHolds, CallStutterHolds DEF Next

LEMMA CallInvariant == Spec => []CallInv
  BY CallInitHolds, CallStepHolds, PTL DEF Spec

-----------------------------------------------------------------------------
(* Results                                                                 *)

\* The state of the boundary has the shape the code's types give it.
THEOREM CallsAreTyped == Spec => []TypeOK
  <1>1. CallInv => TypeOK
    BY DEF CallInv, CallTypes, LedgerInv, SlotsCounted, TypeOK
  <1> QED BY <1>1, CallInvariant, PTL

\* Every slot of a provider is held by one call and returned once, whichever
\* finalizer runs (acquireProviderInvocation, the finalize of admittedStream).
THEOREM SlotsAreConserved == Spec => []SlotsConserved
  <1>1. CallInv => SlotsConserved
    BY DEF CallInv, SlotsCounted, SlotsConserved, Holders
  <1> QED BY <1>1, CallInvariant, PTL

\* The budget counts every call whose transport may be spending (Reserve
\* before the wrapped model is called).
THEOREM TransportCharged == Spec => []TransportIsCharged
  <1>1. CallInv => TransportIsCharged
    <2> SUFFICES ASSUME CallInv, NEW c \in Calls, call[c] \in {"transport", "streaming"}
                 PROVE  /\ c \in projection.reserved /\ runOf[c] = run
                        /\ once[c] = "free" => projection.final[c] = Unsettled
      BY DEF TransportIsCharged
    <2>1. LedgerInv /\ CallStage(c) /\ once[c] \in OnceStates
      BY DEF CallInv, CallStages, CallTypes
    <2>2. stage[c] \in Admitted /\ runOf[c] = run
          /\ (once[c] = "free" => stage[c] = "open")
      BY <2>1 DEF CallStage, Out, OnceStates, Admitted
    <2>3. c \in projection.reserved
      BY <2>1, <2>2 DEF LedgerInv, AdmittedIsBooked, ProjectionIsCurrent, Admitted
    <2>4. once[c] = "free" => projection.final[c] = Unsettled
      BY <2>1, <2>2 DEF LedgerInv, NoFinalBefore
    <2> QED BY <2>2, <2>3, <2>4
  <1> QED BY <1>1, CallInvariant, PTL

\* No call leaves an open reservation behind it (the finalize of Generate and
\* Stream runs before they return).
THEOREM ReturnedCallsAreSettled == Spec => []ReturnedIsSettled
  <1>1. CallInv => ReturnedIsSettled
    BY DEF CallInv, CallStages, CallStage, ReturnedIsSettled, Reserving
  <1> QED BY <1>1, CallInvariant, PTL

\* The boundary drives the ledger only through its operations: every step of
\* the wrapper is one operation of CostManager or leaves the ledger alone.
THEOREM CallsImplementLedger == Spec => ImplementsLedger
  <1>1. Init => LedgerInit
    BY DEF Init
  <1>2. CallInv /\ [Next]_vars => [LedgerNext]_ledgerVars
    <2> SUFFICES ASSUME CallInv, [Next]_vars PROVE [LedgerNext]_ledgerVars
      OBVIOUS
    <2>1. ASSUME NEW c \in Calls, ReserveCost(c) PROVE LedgerNext
      BY <2>1 DEF ReserveCost, LedgerNext
    <2>2. ASSUME NEW c \in Calls, SettleCost(c) PROVE LedgerNext
      BY <2>2 DEF SettleCost, LedgerNext, CallInv, CallTypes, Amounts
    <2>3. CASE StartNextRun \/ Crash
      BY <2>3 DEF StartNextRun, Crash, LedgerNext
    <2>4. ASSUME NEW c \in Calls, AcquireProviderInvocation(c) \/ Cancel(c) \/ Transport(c)
          PROVE  UNCHANGED ledgerVars
      BY <2>4 DEF AcquireProviderInvocation, Cancel, Transport, Respond, OpenStream,
                  ObserveUsage, EndStream
    <2>5. ASSUME NEW c \in Calls, Runtime(c), ~ReserveCost(c), ~SettleCost(c)
          PROVE  UNCHANGED ledgerVars
      BY <2>5 DEF Runtime, AbandonQueue, CommitProfile, AdmissionRefused, Send, HookFires,
                  ConsumerFinalizes, HookFinalizes, ReleaseSlot, Return, HookReturns
    <2> QED BY <2>1, <2>2, <2>3, <2>4, <2>5 DEF Next, vars
  <1> QED BY <1>1, <1>2, CallInvariant, PTL DEF Spec, ImplementsLedger, LedgerSpec

\* A call that waits for the mutex while another one's settlement fails is not
\* admitted: the ledger's theorem carries over to the boundary.
THEOREM NoAdmissionAfterUnsettled == Spec => UnsettledStopsRun
  BY CallsImplementLedger, UnsettledRunAdmitsNothing, PTL DEF ImplementsLedger

\* Concurrent calls do not oversubscribe a run's budget between them (the mutex
\* of CostManager.Reserve): the ledger's theorem carries over to the boundary,
\* with its cancellations, its two finalizers and its restarts.
THEOREM NoCallOversubscribes == Spec => BudgetHolds
  BY CallsImplementLedger, AdmissionsFitTheBudget, PTL DEF ImplementsLedger

=============================================================================
