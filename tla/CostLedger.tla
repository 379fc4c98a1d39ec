----------------------------- MODULE CostLedger -----------------------------
(***************************************************************************)
(* The ledger of what a coordinator tree spends on generation: CostManager *)
(* (internal/team/cost_manager.go), the projection it decides on           *)
(* (internal/cost/projection.go) and the cost events of the journal.       *)
(*                                                                         *)
(* A provider call is admitted by Reserve, which holds the manager's mutex *)
(* while it appends up to three events: the price it calculates with, a    *)
(* warning, the reservation.  Settle replaces the reserved bound by what   *)
(* the call cost.  An append may be stored, may be refused, or may be      *)
(* stored although it reports an error.  The projection is published only  *)
(* after an append has succeeded, and is rebuilt from the journal when an  *)
(* execution run begins.                                                   *)
(*                                                                         *)
(* Cost events carry unique keys and each refers only to events appended   *)
(* before it, so a journal is kept as the set of its events, a Ledger.     *)
(***************************************************************************)
EXTENDS Integers, FiniteSets, FiniteSetsExt

CONSTANTS
    Calls,          \* provider invocations, each with an identity of its own
    Targets,        \* execution targets
    TargetOf,       \* TargetOf[c]: the target call c generates with
    Billing,        \* Billing[t]: a member of BillingModes
    Bound,          \* Bound[c]: micros that admission reserves for call c
    Usages,         \* what the observed usage of a call may cost, in micros
    MaxRunMicros,   \* the hard budget of one run, or NoMicros
    WarningMicros,  \* the warning threshold of one run, or NoMicros
    DenyUnknown,    \* UnknownPricePolicy = UnknownPriceDeny
    MaxMicros,      \* math.MaxInt64
    MaxRuns,        \* bound on the execution runs
    LedgerFaults    \* what may go wrong with an append, of {"refused", "lost"}

NoMicros == -1
Nobody   == "nobody"
NoRun    == 0
Runs     == 1..MaxRuns

\* "unbounded" is a metered target that publishes no maximum for an opaque
\* call; local and subscription targets are "free" of a numeric charge.
BillingModes == {"metered", "free", "unknown", "unbounded"}

ASSUME LedgerAssumption ==
    /\ TargetOf \in [Calls -> Targets] /\ Billing \in [Targets -> BillingModes]
    /\ Bound \in [Calls -> Nat] /\ Usages \subseteq Nat
    /\ MaxRunMicros \in Nat \cup {NoMicros} /\ WarningMicros \in Nat \cup {NoMicros}
    /\ DenyUnknown \in BOOLEAN
    /\ MaxMicros \in Nat /\ MaxRuns \in Nat \ {0}
    /\ Nobody \notin Calls
    /\ LedgerFaults \subseteq {"refused", "lost"}

\* ResolveRunPolicy: a hard budget requires the deny policy, and the warning
\* does not exceed it.  Amounts of one call fit an int64.
ASSUME PolicyAssumption ==
    /\ MaxRunMicros # NoMicros => DenyUnknown /\ WarningMicros <= MaxRunMicros
    /\ \A c \in Calls : Bound[c] <= MaxMicros
    /\ \A u \in Usages : u <= MaxMicros

VARIABLES
    journal,        \* the cost events that are stored
    projection,     \* CostManager.projection
    integrity,      \* CostManager.integrity is set
    mu,             \* who holds CostManager.mu
    run,            \* Coordinator.executionRunID
    runOf,          \* the run each call asked for admission in
    stage           \* where each call stands with the ledger

ledgerVars == <<journal, projection, integrity, mu, run, runOf, stage>>

\* A call is open between reservation and settlement; it is unsettled when
\* its settlement could not be appended, and gone when its process died.
Reserving == {"price", "decide", "deny", "warn", "book"}
Admitted  == {"open", "settled", "unsettled"}
Stages    == {"new", "refused", "gone"} \cup Reserving \cup Admitted

Unsettled == -1     \* the final amount of a reservation without settlement

Ledger == [prices   : SUBSET (Runs \X Targets),
           reserved : SUBSET Calls,
           final    : [Calls -> Nat \cup {Unsettled}],
           warned   : SUBSET Runs,
           denied   : SUBSET Calls]

EmptyLedger == [prices |-> {}, reserved |-> {}, final |-> [c \in Calls |-> Unsettled],
                warned |-> {}, denied |-> {}]

LedgerTypeOK ==
    /\ journal \in Ledger /\ projection \in Ledger
    /\ integrity \in BOOLEAN
    /\ mu \in Calls \cup {Nobody}
    /\ run \in Runs
    /\ runOf \in [Calls -> Runs \cup {NoRun}]
    /\ stage \in [Calls -> Stages]

-----------------------------------------------------------------------------
(* Amounts *)

Metered(c) == Billing[TargetOf[c]] = "metered"

\* What one reservation counts for: the bound until it is settled.
Charge(ledger, c) ==
    IF ~Metered(c) THEN 0
    ELSE IF ledger.final[c] = Unsettled THEN Bound[c] ELSE ledger.final[c]

Total(ledger, calls) == MapThenSumSet(LAMBDA c : Charge(ledger, c), calls)

\* Projection.KnownMicrosForRun
KnownMicrosForRun(r) ==
    Total(projection, {c \in projection.reserved : runOf[c] = r})

\* Summary adds up the invocations of every run, and fails on overflow.
SummaryOverflows == Total(projection, projection.reserved) > MaxMicros

Projected(c) == KnownMicrosForRun(run) + IF Metered(c) THEN Bound[c] ELSE 0

OverBudget(c) ==
    \/ Metered(c) /\ Projected(c) > MaxMicros
    \/ MaxRunMicros # NoMicros /\ Projected(c) > MaxRunMicros

UnknownDenied(c) ==
    /\ Billing[TargetOf[c]] \in {"unknown", "unbounded"}
    /\ DenyUnknown

CrossesWarning(c) ==
    /\ WarningMicros # NoMicros
    /\ KnownMicrosForRun(run) < WarningMicros /\ Projected(c) >= WarningMicros
    /\ run \notin projection.warned

-----------------------------------------------------------------------------
(* Events *)

WithPrice(l, r, t)   == [l EXCEPT !.prices = @ \cup {<<r, t>>}]
WithWarning(l, r)    == [l EXCEPT !.warned = @ \cup {r}]
WithDenial(l, c)     == [l EXCEPT !.denied = @ \cup {c}]
WithReservation(l, c) == [l EXCEPT !.reserved = @ \cup {c}]
WithSettlement(l, c, micros) == [l EXCEPT !.final[c] = micros]

\* What Reduce accepts: a reservation names a price of its run, a settlement
\* a reservation.  Every event is appended alone, so an order in which one
\* came before what it names would show as a journal that has it without.
Replayable(l) ==
    /\ \A c \in l.reserved : <<runOf[c], TargetOf[c]>> \in l.prices
    /\ \A c \in Calls : l.final[c] # Unsettled => c \in l.reserved

\* One append: its event is in the journal unless it was refused, and in the
\* projection only if the append returned without error.
Fates == {"stored"} \cup LedgerFaults

Publish(fate, stored, known) ==
    /\ journal' = IF fate = "refused" THEN journal ELSE stored
    /\ projection' = IF fate = "stored" THEN known ELSE projection

Move(c, s)  == stage' = [stage EXCEPT ![c] = s] /\ UNCHANGED mu
Leave(c, s) == stage' = [stage EXCEPT ![c] = s] /\ mu' = Nobody

\* After one append of Reserve: on, or out with an error.
Continue(c, fate, next) ==
    IF fate = "stored" THEN Move(c, next) ELSE Leave(c, "refused")

-----------------------------------------------------------------------------
(* Reserve *)

\* A variant that does not look at integrity under the mutex.
BeginReserveAnyhow(c) ==
    /\ stage[c] = "new" /\ mu = Nobody
    /\ runOf' = [runOf EXCEPT ![c] = run]
    /\ stage' = [stage EXCEPT ![c] = "price"] /\ mu' = c
    /\ UNCHANGED <<journal, projection, integrity, run>>

\* A variant that decides and books without the mutex.
BeginReserveAlongside(c) ==
    /\ stage[c] = "new" /\ mu = Nobody
    /\ runOf' = [runOf EXCEPT ![c] = run]
    /\ stage' = [stage EXCEPT ![c] = IF integrity THEN "refused" ELSE "price"]
    /\ UNCHANGED <<journal, projection, integrity, mu, run>>

\* The mutex is taken, and a degraded ledger admits nothing.
BeginReserve(c) ==
    /\ stage[c] = "new" /\ mu = Nobody
    /\ runOf' = [runOf EXCEPT ![c] = run]
    /\ IF integrity
       THEN stage' = [stage EXCEPT ![c] = "refused"] /\ mu' = mu
       ELSE stage' = [stage EXCEPT ![c] = "price"] /\ mu' = c
    /\ UNCHANGED <<journal, projection, integrity, run>>

\* ensurePriceSnapshot.  The event is a function of its key, so one that is
\* stored already is simply returned.
EnsurePrice(c) ==
    /\ stage[c] = "price"
    /\ IF <<run, TargetOf[c]>> \in projection.prices
       THEN Move(c, "decide") /\ UNCHANGED <<journal, projection>>
       ELSE \E fate \in Fates :
                /\ Publish(fate, WithPrice(journal, run, TargetOf[c]),
                           WithPrice(projection, run, TargetOf[c]))
                /\ Continue(c, fate, "decide")
    /\ UNCHANGED <<integrity, run, runOf>>

\* The comparison with the budget.
Decide(c) ==
    /\ stage[c] = "decide"
    /\ IF UnknownDenied(c) THEN Move(c, "deny") /\ UNCHANGED integrity
       ELSE IF SummaryOverflows THEN Leave(c, "refused") /\ integrity' = TRUE
       ELSE /\ Move(c, IF OverBudget(c) THEN "deny"
                       ELSE IF CrossesWarning(c) THEN "warn" ELSE "book")
            /\ UNCHANGED integrity
    /\ UNCHANGED <<journal, projection, run, runOf>>

\* deny: the decision stands whatever becomes of its event.
Deny(c) ==
    /\ stage[c] = "deny"
    /\ \E fate \in Fates : Publish(fate, WithDenial(journal, c), WithDenial(projection, c))
    /\ Leave(c, "refused")
    /\ UNCHANGED <<integrity, run, runOf>>

\* The warning of a run has one key, and carries the time and the projected
\* amount of the call that crossed the threshold: append compares what the
\* journal returns with the request, so a stored warning that the projection
\* does not have is a conflict for every later call.
Warn(c) ==
    /\ stage[c] = "warn"
    /\ IF run \in journal.warned
       THEN Leave(c, "refused") /\ UNCHANGED <<journal, projection>>
       ELSE \E fate \in Fates :
                /\ Publish(fate, WithWarning(journal, run), WithWarning(projection, run))
                /\ Continue(c, fate, "book")
    /\ UNCHANGED <<integrity, run, runOf>>

\* A variant that admits the call when the append may have been stored.
BookOnLost(c) ==
    /\ stage[c] = "book"
    /\ \E fate \in Fates :
           /\ Publish(fate, WithReservation(journal, c), WithReservation(projection, c))
           /\ Leave(c, IF fate # "refused" THEN "open" ELSE "refused")
    /\ UNCHANGED <<integrity, run, runOf>>

\* reserve: the call is admitted once its reservation has been published.
Book(c) ==
    /\ stage[c] = "book"
    /\ \E fate \in Fates :
           /\ Publish(fate, WithReservation(journal, c), WithReservation(projection, c))
           /\ Leave(c, IF fate = "stored" THEN "open" ELSE "refused")
    /\ UNCHANGED <<integrity, run, runOf>>

ReserveStep(c) ==
    \/ EnsurePrice(c) \/ Decide(c) \/ Deny(c) \/ Warn(c) \/ Book(c)

-----------------------------------------------------------------------------
(* Settle *)

\* buildSettlement: the observed usage is charged when it is complete and can
\* be priced, the reserved bound otherwise.
FinalMicros(c, usage) ==
    IF ~Metered(c) THEN 0 ELSE IF usage = NoMicros THEN Bound[c] ELSE usage

\* The one append of Settle.  It is not bound to the call's context, and its
\* failure degrades the ledger.
Settle(c, usage) ==
    /\ stage[c] = "open" /\ mu = Nobody
    /\ \E fate \in Fates :
           /\ Publish(fate, WithSettlement(journal, c, FinalMicros(c, usage)),
                      WithSettlement(projection, c, FinalMicros(c, usage)))
           /\ stage' = [stage EXCEPT ![c] = IF fate = "stored" THEN "settled" ELSE "unsettled"]
           /\ integrity' = (integrity \/ fate # "stored")
    /\ UNCHANGED <<mu, run, runOf>>

-----------------------------------------------------------------------------
(* Runs *)

\* An execution run begins with an identity of its own and with Rehydrate.
Rehydrate ==
    /\ run < MaxRuns /\ run' = run + 1
    /\ integrity' = ~Replayable(journal)
    /\ projection' = IF Replayable(journal) THEN journal ELSE projection
    /\ UNCHANGED <<journal, runOf>>

InFlight(c) == stage[c] \in Reserving \cup {"open"}

NextRun ==
    /\ \A c \in Calls : ~InFlight(c)
    /\ Rehydrate
    /\ UNCHANGED <<mu, stage>>

\* The process dies with its calls; what resumes is a new run.
CrashLedger ==
    /\ Rehydrate
    /\ mu' = Nobody
    /\ stage' = [c \in Calls |-> IF InFlight(c) THEN "gone" ELSE stage[c]]

LedgerInit ==
    /\ journal = EmptyLedger /\ projection = EmptyLedger
    /\ integrity = FALSE /\ mu = Nobody
    /\ run = 1 /\ runOf = [c \in Calls |-> NoRun]
    /\ stage = [c \in Calls |-> "new"]

LedgerNext ==
    \/ \E c \in Calls : BeginReserve(c) \/ ReserveStep(c)
    \/ \E c \in Calls, u \in Usages \cup {NoMicros} : Settle(c, u)
    \/ NextRun \/ CrashLedger

LedgerSpec == LedgerInit /\ [][LedgerNext]_ledgerVars

-----------------------------------------------------------------------------
(* Properties *)

\* Every stored reservation names a stored price and every stored settlement a
\* stored reservation, whatever was refused, lost or cut off by a crash: the
\* next Rehydrate does not degrade the ledger of a run that has not spent.
JournalReplays == Replayable(journal)

\* A call that may have reached its provider has a durable reservation
\* (INV-02): the reservation is published only after its append has returned.
AdmittedIsBooked ==
    \A c \in Calls : stage[c] \in Admitted => c \in journal.reserved

\* The projection knows every charge the journal has for the calls that were
\* admitted, so the budget is compared with all that was spent: a settlement
\* whose append failed latches integrity, and a reservation whose append
\* failed admits nothing.
ProjectionIsCurrent ==
    /\ ~integrity => projection.final = journal.final
    /\ \A c \in journal.reserved \ projection.reserved : stage[c] \in {"refused", "gone"}

Admits(c) == stage[c] = "book" /\ stage'[c] = "open"

\* Parallel calls cannot oversubscribe one run (A2.2): when a call is
\* admitted, the charges of the calls admitted in its run fit the budget.
BudgetHolds ==
    [][ \A c \in Calls : Admits(c) /\ MaxRunMicros # NoMicros =>
            Total(journal', {d \in Calls : stage'[d] \in Admitted /\ runOf[d] = run})
                <= MaxRunMicros ]_ledgerVars

\* After a settlement that could not be stored nothing more is admitted in
\* that run (INV-05), not even a call that was waiting for the mutex.
UnsettledStopsRun ==
    [][ \A c \in Calls : Admits(c) =>
            \A d \in Calls : stage[d] = "unsettled" => runOf[d] # run ]_ledgerVars

\* A crash does not restore budget that may have been consumed: an admission
\* also counts the reservations that crashed processes left open.
CrashKeepsBudget ==
    [][ \A c \in Calls : Admits(c) /\ MaxRunMicros # NoMicros =>
            Total(journal', {d \in journal'.reserved : stage'[d] \in {"open", "gone"}})
                <= MaxRunMicros ]_ledgerVars

=============================================================================
