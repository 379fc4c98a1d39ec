--------------------------- MODULE ProviderCalls ---------------------------
(***************************************************************************)
(* One generation attempt of every caller of a provider: the wrapper       *)
(* admittedLanguageModel (internal/agent/provider_request.go) around the   *)
(* slots of the provider (providerSemaphore) and the cost ledger.          *)
(*                                                                         *)
(* An attempt takes a slot, commits the resolved profile, reserves its     *)
(* cost, and only then uses the transport.  A plain call settles and       *)
(* returns its slot in the goroutine that called.  A stream has two        *)
(* finalizers, the consumer that drained it and the AfterFunc of the       *)
(* caller's context, and a sync.Once between them.  An external execution  *)
(* is admitted by the ledger alone (external_cost_boundary.go).            *)
(*                                                                         *)
(* Only the transport is not the program's own: it answers when it likes,  *)
(* and a stream may ignore that its context was cancelled.                 *)
(***************************************************************************)
EXTENDS CostLedger

CONSTANTS
    Streams,        \* the calls that stream their response
    External,       \* the executions of an external backend: no slot
    MaxConcurrent   \* slots of the provider

ASSUME CallsAssumption ==
    /\ IsFiniteSet(Calls)
    /\ Streams \subseteq Calls /\ External \subseteq Calls \ Streams
    /\ MaxConcurrent \in Nat \ {0}

VARIABLES
    slots,          \* slots of the provider that are taken
    call,           \* where the calling goroutine stands
    cancelled,      \* the caller's context is done
    seen,           \* providerStreamState.usage, or what a response reported
    early,          \* the usage the AfterFunc captured when it started
    hook,           \* the AfterFunc of the caller's context
    once            \* who runs finalize, and how far it has come

callVars == <<slots, call, cancelled, seen, early, hook, once>>
vars == <<ledgerVars, callVars>>

CallStates == {"idle", "profile", "reserve", "transport", "streaming", "finalize", "done"}
HookStates == {"none", "armed", "running", "stopped"}
OnceStates == {"free", "consumer", "hook", "settled", "done"}

Amounts == Usages \cup {NoMicros}

TypeOK ==
    /\ LedgerTypeOK
    /\ slots \in 0..MaxConcurrent
    /\ call \in [Calls -> CallStates]
    /\ cancelled \in [Calls -> BOOLEAN]
    /\ seen \in [Calls -> Amounts] /\ early \in [Calls -> Amounts]
    /\ hook \in [Calls -> HookStates]
    /\ once \in [Calls -> OnceStates]

Slotted == Calls \ External

Goto(c, s) == call' = [call EXCEPT ![c] = s]
Release(c) == slots' = slots - IF c \in Slotted THEN 1 ELSE 0

-----------------------------------------------------------------------------
(* Admission *)

\* acquireSem; an external execution starts with its reservation.
AcquireProviderInvocation(c) ==
    /\ call[c] = "idle"
    /\ IF c \in Slotted
       THEN slots < MaxConcurrent /\ slots' = slots + 1 /\ Goto(c, "profile")
       ELSE Goto(c, "reserve") /\ UNCHANGED slots
    /\ UNCHANGED <<ledgerVars, cancelled, seen, early, hook, once>>

\* A caller that waits for a slot gives up when its context is done.
AbandonQueue(c) ==
    /\ call[c] = "idle" /\ cancelled[c]
    /\ Goto(c, "done")
    /\ UNCHANGED <<ledgerVars, slots, cancelled, seen, early, hook, once>>

\* commitModelProfileResolved: an append of its own, before the reservation.
CommitProfile(c) ==
    /\ call[c] = "profile"
    /\ \/ Goto(c, "reserve") /\ UNCHANGED slots
       \/ LedgerFaults # {} /\ Goto(c, "done") /\ Release(c)
    /\ UNCHANGED <<ledgerVars, cancelled, seen, early, hook, once>>

ReserveCost(c) ==
    /\ call[c] = "reserve"
    /\ BeginReserve(c) \/ ReserveStep(c)
    /\ UNCHANGED callVars

\* A variant that returns without its slot.
RefusedKeepsSlot(c) ==
    /\ call[c] = "reserve" /\ stage[c] = "refused"
    /\ Goto(c, "done")
    /\ UNCHANGED <<ledgerVars, slots, cancelled, seen, early, hook, once>>

AdmissionRefused(c) ==
    /\ call[c] = "reserve" /\ stage[c] = "refused"
    /\ Goto(c, "done") /\ Release(c)
    /\ UNCHANGED <<ledgerVars, cancelled, seen, early, hook, once>>

\* The call goes out; a stream has registered its AfterFunc before.
Send(c) ==
    /\ call[c] = "reserve" /\ stage[c] = "open"
    /\ Goto(c, "transport")
    /\ hook' = IF c \in Streams THEN [hook EXCEPT ![c] = "armed"] ELSE hook
    /\ UNCHANGED <<ledgerVars, slots, cancelled, seen, early, once>>

-----------------------------------------------------------------------------
(* Transport *)

\* A response or an error: with its usage, or without any that is complete.
Respond(c) ==
    /\ call[c] = "transport" /\ c \notin Streams
    /\ Goto(c, "finalize")
    /\ \E u \in Amounts : seen' = [seen EXCEPT ![c] = u]
    /\ UNCHANGED <<ledgerVars, slots, cancelled, early, hook, once>>

\* stopCancellation prevents an AfterFunc that has not started.
StopHook(c) == hook' = IF hook[c] = "armed" THEN [hook EXCEPT ![c] = "stopped"] ELSE hook

\* A variant that disarms the AfterFunc once the stream is open.
OpenStreamDisarmed(c) ==
    /\ call[c] = "transport" /\ c \in Streams
    /\ Goto(c, "streaming") \/ Goto(c, "finalize")
    /\ StopHook(c)
    /\ UNCHANGED <<ledgerVars, slots, cancelled, seen, early, once>>

OpenStream(c) ==
    /\ call[c] = "transport" /\ c \in Streams
    /\ \/ Goto(c, "streaming") /\ UNCHANGED hook
       \/ Goto(c, "finalize") /\ StopHook(c)
    /\ UNCHANGED <<ledgerVars, slots, cancelled, seen, early, once>>

\* The part that reports the usage; parts without it change nothing here.
ObserveUsage(c) ==
    /\ call[c] = "streaming" /\ seen[c] = NoMicros
    /\ \E u \in Usages : seen' = [seen EXCEPT ![c] = u]
    /\ UNCHANGED <<ledgerVars, slots, call, cancelled, early, hook, once>>

\* The stream ends, or its consumer stops it.
EndStream(c) ==
    /\ call[c] = "streaming"
    /\ Goto(c, "finalize") /\ StopHook(c)
    /\ UNCHANGED <<ledgerVars, slots, cancelled, seen, early, once>>

Cancel(c) ==
    /\ ~cancelled[c] /\ call[c] # "done"
    /\ cancelled' = [cancelled EXCEPT ![c] = TRUE]
    /\ UNCHANGED <<ledgerVars, slots, call, seen, early, hook, once>>

-----------------------------------------------------------------------------
(* Finalization *)

\* The AfterFunc starts in a goroutine of its own.
HookFires(c) ==
    /\ hook[c] = "armed" /\ cancelled[c]
    /\ hook' = [hook EXCEPT ![c] = "running"]
    /\ early' = [early EXCEPT ![c] = seen[c]]
    /\ UNCHANGED <<ledgerVars, slots, call, cancelled, seen, once>>

\* Entering once.Do.  A plain call has one finalizer, its own goroutine.
ConsumerFinalizes(c) ==
    /\ call[c] = "finalize" /\ once[c] = "free"
    /\ once' = [once EXCEPT ![c] = "consumer"]
    /\ UNCHANGED <<ledgerVars, slots, call, cancelled, seen, early, hook>>

HookFinalizes(c) ==
    /\ hook[c] = "running" /\ once[c] = "free"
    /\ once' = [once EXCEPT ![c] = "hook"]
    /\ UNCHANGED <<ledgerVars, slots, call, cancelled, seen, early, hook>>

SettleCost(c) ==
    /\ \/ once[c] = "consumer" /\ Settle(c, seen[c])
       \/ once[c] = "hook" /\ Settle(c, early[c])
    /\ once' = [once EXCEPT ![c] = "settled"]
    /\ UNCHANGED <<slots, call, cancelled, seen, early, hook>>

ReleaseSlot(c) ==
    /\ once[c] = "settled"
    /\ once' = [once EXCEPT ![c] = "done"]
    /\ Release(c)
    /\ UNCHANGED <<ledgerVars, call, cancelled, seen, early, hook>>

\* A variant that returns while the other finalizer is at work.
ReturnAtOnce(c) ==
    /\ call[c] = "finalize" /\ once[c] # "free"
    /\ Goto(c, "done")
    /\ UNCHANGED <<ledgerVars, slots, cancelled, seen, early, hook, once>>

\* once.Do returns to both finalizers when the one that runs it is through.
Return(c) ==
    /\ call[c] = "finalize" /\ once[c] = "done"
    /\ Goto(c, "done")
    /\ UNCHANGED <<ledgerVars, slots, cancelled, seen, early, hook, once>>

HookReturns(c) ==
    /\ hook[c] = "running" /\ once[c] = "done"
    /\ hook' = [hook EXCEPT ![c] = "stopped"]
    /\ UNCHANGED <<ledgerVars, slots, call, cancelled, seen, early, once>>

-----------------------------------------------------------------------------
(* Runs *)

\* The public invocation has returned, and the next one begins.
StartNextRun ==
    /\ \A c \in Calls : call[c] \in {"idle", "done"}
    /\ NextRun
    /\ UNCHANGED callVars

Crash ==
    /\ CrashLedger
    /\ slots' = 0
    /\ call' = [c \in Calls |-> IF call[c] = "idle" THEN "idle" ELSE "done"]
    /\ hook' = [c \in Calls |-> IF hook[c] = "none" THEN "none" ELSE "stopped"]
    /\ once' = [c \in Calls |-> IF once[c] = "free" THEN "free" ELSE "done"]
    /\ UNCHANGED <<cancelled, seen, early>>

Init ==
    /\ LedgerInit
    /\ slots = 0
    /\ call = [c \in Calls |-> "idle"]
    /\ cancelled = [c \in Calls |-> FALSE]
    /\ seen = [c \in Calls |-> NoMicros] /\ early = [c \in Calls |-> NoMicros]
    /\ hook = [c \in Calls |-> "none"]
    /\ once = [c \in Calls |-> "free"]

\* What the program does on its own, without the transport.
Runtime(c) ==
    \/ AbandonQueue(c) \/ CommitProfile(c) \/ ReserveCost(c) \/ AdmissionRefused(c) \/ Send(c)
    \/ HookFires(c) \/ ConsumerFinalizes(c) \/ HookFinalizes(c)
    \/ SettleCost(c) \/ ReleaseSlot(c) \/ Return(c) \/ HookReturns(c)

Transport(c) == Respond(c) \/ OpenStream(c) \/ ObserveUsage(c) \/ EndStream(c)

Next ==
    \/ \E c \in Calls :
           AcquireProviderInvocation(c) \/ Runtime(c) \/ Transport(c) \/ Cancel(c)
    \/ StartNextRun \/ Crash

Spec == Init /\ [][Next]_vars

\* A goroutine that can run does, and a sync.Mutex is granted to each that
\* waits for it in turn.  A plain call returns once its context is done (the
\* HTTP client watches it); nothing is assumed of a stream.
Fairness ==
    \A c \in Calls :
        /\ SF_vars(Runtime(c))
        /\ SF_vars(cancelled[c] /\ Respond(c))

FairSpec == Spec /\ Fairness

-----------------------------------------------------------------------------
(* Properties *)

\* The goroutine has a slot from acquireSem to the release of finalize.
HoldsSlot(c) ==
    /\ c \in Slotted /\ once[c] # "done"
    /\ call[c] \notin {"idle", "done"}

\* Every slot taken is held by one call and returned once, however the
\* consumer, the cancellation and the errors before them interleave.
SlotsConserved == slots = Cardinality({c \in Calls : HoldsSlot(c)})

\* While the transport of a call may be spending, the budget counts the call:
\* its whole bound, unless a cancellation has begun to settle it.
TransportIsCharged ==
    \A c \in Calls : call[c] \in {"transport", "streaming"} =>
        /\ c \in projection.reserved /\ runOf[c] = run
        /\ once[c] = "free" => projection.final[c] = Unsettled

\* Nothing is left open behind a caller: when a call has returned to its
\* caller its reservation is settled or known not to be (the retry of a
\* rejected request is admitted after that), and nobody settles it later.
ReturnedIsSettled ==
    \A c \in Calls : call[c] = "done" => stage[c] \notin Reserving \cup {"open"}

\* A slot comes back, and the reservation is settled, when the caller's context
\* is done, even if the stream never answers.
CancelReturnsSlot ==
    \A c \in Slotted : (cancelled[c] /\ HoldsSlot(c)) ~> ~HoldsSlot(c)

\* The wrapper drives the ledger only through its operations.
ImplementsLedger == LedgerSpec

=============================================================================
