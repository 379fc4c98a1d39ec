-------------------------- MODULE CostLedgerProofs --------------------------
(***************************************************************************)
(* What the ledger guarantees for any calls, targets, prices and budgets,  *)
(* and for any number of runs.                                             *)
(*                                                                         *)
(* The argument is that of the mutex: a call that stands inside Reserve    *)
(* holds mu and has asked in the current run, so nothing can degrade the   *)
(* ledger between its look at integrity and its reservation; and the       *)
(* projection never knows more than the journal, so that a price it knows  *)
(* is stored before the reservation that names it.                         *)
(*                                                                         *)
(* The budget needs one thing more: that a sum over calls does not depend  *)
(* on the order they are added in, grows with the calls and with their     *)
(* charges, and gains one charge by one call.  Those facts are proved by   *)
(* least counterexample on the finite sets of calls; the mutex then keeps  *)
(* what Decide compared true until the call is booked.                     *)
(***************************************************************************)
EXTENDS CostLedger, FiniteSetTheorems, WellFoundedInduction, TLAPS

\* A reservation in the making holds the mutex of a ledger that is not
\* degraded, and belongs to the current run.
InsideHolds ==
    /\ \A c \in Calls : stage[c] \in Reserving => mu = c /\ runOf[c] = run
    /\ mu # Nobody => ~integrity

\* The projection knows only what is stored.
ProjectionIsStored ==
    /\ projection.prices \subseteq journal.prices
    /\ projection.reserved \subseteq journal.reserved

\* A call that has passed ensurePriceSnapshot has its price.
PricedBeforeBooked ==
    \A c \in Calls : stage[c] \in {"warn", "book"} =>
        <<run, TargetOf[c]>> \in projection.prices

PricedBeforeDecided ==
    \A c \in Calls : stage[c] = "decide" => <<run, TargetOf[c]>> \in projection.prices

\* A call is stored only after it has asked, and asks in a run that was.
NewIsUnknown ==
    \A c \in Calls : /\ stage[c] = "new" => c \notin journal.reserved
                     /\ runOf[c] <= run

\* An unsettled call of the current run has degraded the ledger.
UnsettledDegrades ==
    \A c \in Calls : stage[c] = "unsettled" /\ runOf[c] = run => integrity

\* What is not settled has no final amount.
NoFinalBefore ==
    \A c \in Calls : stage[c] \notin {"settled", "unsettled"} =>
        journal.final[c] = Unsettled /\ projection.final[c] = Unsettled

LedgerInv ==
    /\ LedgerTypeOK
    /\ JournalReplays
    /\ AdmittedIsBooked
    /\ ProjectionIsCurrent
    /\ InsideHolds
    /\ ProjectionIsStored
    /\ PricedBeforeBooked /\ PricedBeforeDecided
    /\ NewIsUnknown
    /\ UnsettledDegrades
    /\ NoFinalBefore

-----------------------------------------------------------------------------
\* The journal and the projection are records of the ledger's fields.
LEMMA LedgerFields ==
    ASSUME NEW l \in Ledger
    PROVE  /\ l.prices \subseteq Runs \X Targets
           /\ l.reserved \subseteq Calls
           /\ l.final \in [Calls -> Nat \cup {Unsettled}]
           /\ l.warned \subseteq Runs
           /\ l.denied \subseteq Calls
  BY DEF Ledger

\* Every event keeps the ledger well formed, and touches one field.
LEMMA PriceFields ==
    ASSUME NEW l \in Ledger, NEW r \in Runs, NEW t \in Targets
    PROVE  /\ WithPrice(l, r, t) \in Ledger
           /\ WithPrice(l, r, t).prices = l.prices \cup {<<r, t>>}
           /\ WithPrice(l, r, t).reserved = l.reserved
           /\ WithPrice(l, r, t).final = l.final
  BY DEF Ledger, WithPrice

LEMMA WarningFields ==
    ASSUME NEW l \in Ledger, NEW r \in Runs
    PROVE  /\ WithWarning(l, r) \in Ledger
           /\ WithWarning(l, r).prices = l.prices
           /\ WithWarning(l, r).reserved = l.reserved
           /\ WithWarning(l, r).final = l.final
  BY DEF Ledger, WithWarning

LEMMA DenialFields ==
    ASSUME NEW l \in Ledger, NEW c \in Calls
    PROVE  /\ WithDenial(l, c) \in Ledger
           /\ WithDenial(l, c).prices = l.prices
           /\ WithDenial(l, c).reserved = l.reserved
           /\ WithDenial(l, c).final = l.final
  BY DEF Ledger, WithDenial

LEMMA ReservationFields ==
    ASSUME NEW l \in Ledger, NEW c \in Calls
    PROVE  /\ WithReservation(l, c) \in Ledger
           /\ WithReservation(l, c).prices = l.prices
           /\ WithReservation(l, c).reserved = l.reserved \cup {c}
           /\ WithReservation(l, c).final = l.final
  BY DEF Ledger, WithReservation

LEMMA SettlementFields ==
    ASSUME NEW l \in Ledger, NEW c \in Calls, NEW micros \in Nat
    PROVE  /\ WithSettlement(l, c, micros) \in Ledger
           /\ WithSettlement(l, c, micros).prices = l.prices
           /\ WithSettlement(l, c, micros).reserved = l.reserved
           /\ WithSettlement(l, c, micros).final = [l.final EXCEPT ![c] = micros]
  BY DEF Ledger, WithSettlement

\* What is charged at settlement is an amount.
LEMMA FinalIsAmount ==
    ASSUME NEW c \in Calls, NEW u \in Usages \cup {NoMicros}
    PROVE  FinalMicros(c, u) \in Nat
  BY LedgerAssumption DEF FinalMicros, NoMicros

LEMMA InitHolds == LedgerInit => LedgerInv
  <1> SUFFICES ASSUME LedgerInit PROVE LedgerInv
    OBVIOUS
  <1>1. EmptyLedger \in Ledger
    BY DEF EmptyLedger, Ledger, Unsettled
  <1>2. LedgerTypeOK
    <2>1. journal \in Ledger /\ projection \in Ledger
      BY <1>1 DEF LedgerInit
    <2>2. run \in Runs
      BY LedgerAssumption DEF LedgerInit, Runs
    <2>3. /\ integrity \in BOOLEAN /\ mu \in Calls \cup {Nobody}
          /\ runOf \in [Calls -> Runs \cup {NoRun}]
          /\ stage \in [Calls -> Stages]
      BY DEF LedgerInit, Stages
    <2> QED BY <2>1, <2>2, <2>3 DEF LedgerTypeOK
  <1>3. JournalReplays /\ AdmittedIsBooked /\ ProjectionIsCurrent
    BY DEF LedgerInit, JournalReplays, Replayable, AdmittedIsBooked, Admitted,
           ProjectionIsCurrent, EmptyLedger
  <1>4. InsideHolds /\ ProjectionIsStored /\ PricedBeforeBooked /\ PricedBeforeDecided
        /\ NewIsUnknown /\ UnsettledDegrades /\ NoFinalBefore
    BY DEF LedgerInit, NoFinalBefore, InsideHolds, ProjectionIsStored, PricedBeforeBooked, Reserving,
           PricedBeforeDecided, NewIsUnknown, UnsettledDegrades, EmptyLedger, NoRun
  <1> QED BY <1>2, <1>3, <1>4 DEF LedgerInv

-----------------------------------------------------------------------------
(* The steps.  Those of Reserve change journal and projection only for the *)
(* call that holds the mutex.                                              *)

\* The mutex has one holder.
LEMMA OneInside ==
    ASSUME LedgerInv, NEW c \in Calls, stage[c] \in Reserving
    PROVE  /\ mu = c /\ mu # Nobody /\ ~integrity /\ runOf[c] = run
           /\ \A d \in Calls : d # c => stage[d] \notin Reserving
  BY LedgerAssumption DEF LedgerInv, InsideHolds

LEMMA BeginReserveHolds ==
    ASSUME LedgerInv, NEW c \in Calls, BeginReserve(c)
    PROVE  LedgerInv'
  <1> USE DEF LedgerInv, BeginReserve
  <1>1. /\ stage[c] = "new" /\ mu = Nobody
        /\ journal' = journal /\ projection' = projection
        /\ integrity' = integrity /\ run' = run
        /\ runOf' = [runOf EXCEPT ![c] = run]
        /\ \/ integrity /\ stage' = [stage EXCEPT ![c] = "refused"] /\ mu' = mu
           \/ ~integrity /\ stage' = [stage EXCEPT ![c] = "price"] /\ mu' = c
    OBVIOUS
  <1>2. /\ runOf \in [Calls -> Runs \cup {NoRun}] /\ stage \in [Calls -> Stages]
        /\ run \in Runs /\ mu \in Calls \cup {Nobody}
    BY DEF LedgerTypeOK
  <1>3. /\ \A d \in Calls : d # c => stage'[d] = stage[d] /\ runOf'[d] = runOf[d]
        /\ stage'[c] \in {"refused", "price"} /\ runOf'[c] = run
        /\ stage'[c] = "price" => mu' = c /\ ~integrity
        /\ c \notin journal.reserved
    BY <1>1, <1>2 DEF NewIsUnknown
  <1>4. LedgerTypeOK'
    BY <1>1, <1>2 DEF LedgerTypeOK, Stages, Reserving
  <1>5. JournalReplays'
    <2>1. journal.final \in [Calls -> Nat \cup {Unsettled}] /\ journal.reserved \subseteq Calls
      BY LedgerFields DEF LedgerTypeOK
    <2> QED BY <1>1, <1>3, <2>1 DEF JournalReplays, Replayable
  <1>6. AdmittedIsBooked' /\ ProjectionIsCurrent' /\ ProjectionIsStored'
    <2>1. journal.reserved \subseteq Calls
      BY LedgerFields DEF LedgerTypeOK
    <2> QED BY <1>1, <1>3, <2>1
         DEF AdmittedIsBooked, ProjectionIsCurrent, ProjectionIsStored, Admitted
  <1>7. InsideHolds'
    BY <1>1, <1>2, <1>3, LedgerAssumption DEF InsideHolds, Reserving
  <1>8. PricedBeforeBooked' /\ PricedBeforeDecided' /\ UnsettledDegrades'
    BY <1>1, <1>3 DEF PricedBeforeBooked, PricedBeforeDecided, UnsettledDegrades
  <1>9. NewIsUnknown'
    BY <1>1, <1>2, <1>3, LedgerAssumption DEF NewIsUnknown, Runs, NoRun
  <1>10. NoFinalBefore'
    BY <1>1, <1>3 DEF NoFinalBefore
  <1> QED BY <1>4, <1>5, <1>6, <1>7, <1>8, <1>9, <1>10

\* What a step inside Reserve leaves as it is, and what it does to its own
\* call, which it takes to s.
StepTo(c, s) ==
    /\ stage[c] \in Reserving
    /\ run' = run /\ runOf' = runOf /\ integrity' \in BOOLEAN
    /\ journal' \in Ledger /\ projection' \in Ledger
    /\ journal'.final = journal.final /\ projection'.final = projection.final
    /\ journal.prices \subseteq journal'.prices /\ projection.prices \subseteq projection'.prices
    /\ projection'.prices \subseteq journal'.prices
    /\ journal.reserved \subseteq journal'.reserved
    /\ projection.reserved \subseteq projection'.reserved
    /\ projection'.reserved \subseteq journal'.reserved
    /\ journal'.reserved \subseteq journal.reserved \cup {c}
    /\ c \in journal'.reserved =>
           c \in journal.reserved \/ <<run, TargetOf[c]>> \in journal.prices
    /\ stage' = [stage EXCEPT ![c] = s]
    /\ s \in Reserving => mu' = mu /\ integrity' = integrity
    /\ s \notin Reserving => mu' = Nobody
    /\ s \in {"decide", "warn", "book"} => <<run, TargetOf[c]>> \in projection'.prices
    /\ s = "open" => c \in journal'.reserved
    /\ s # "refused" /\ c \in journal'.reserved =>
           c \in journal.reserved \/ c \in projection'.reserved

StepInside(c) ==
    \E s \in {"decide", "deny", "warn", "book", "refused", "open"} : StepTo(c, s)

LEMMA StepInsideHolds ==
    ASSUME LedgerInv, NEW c \in Calls, StepInside(c)
    PROVE  LedgerInv'
  <1> USE DEF LedgerInv
  <1>1. PICK s \in {"decide", "deny", "warn", "book", "refused", "open"} : StepTo(c, s)
    BY DEF StepInside
  <1>2. /\ stage \in [Calls -> Stages] /\ mu \in Calls \cup {Nobody}
        /\ run \in Runs /\ runOf \in [Calls -> Runs \cup {NoRun}]
        /\ journal.reserved \subseteq Calls /\ journal.final \in [Calls -> Nat \cup {Unsettled}]
    BY LedgerFields DEF LedgerTypeOK
  <1>3. /\ mu = c /\ ~integrity /\ runOf[c] = run
        /\ \A d \in Calls : d # c => stage[d] \notin Reserving
    BY <1>1, OneInside DEF StepTo
  <1>4. /\ \A d \in Calls : d # c => stage'[d] = stage[d]
        /\ stage'[c] = s
    BY <1>1, <1>2 DEF StepTo
  <1>5. LedgerTypeOK'
    <2>1. stage' \in [Calls -> Stages]
      BY <1>1, <1>2 DEF Stages, Reserving, Admitted, StepTo
    <2>2. mu' \in Calls \cup {Nobody}
      BY <1>1, <1>2 DEF StepTo
    <2> QED BY <2>1, <2>2, <1>1, <1>2 DEF LedgerTypeOK, StepTo
  <1>6. JournalReplays'
    BY <1>1, <1>2, <1>3 DEF JournalReplays, Replayable, StepTo
  <1>7. AdmittedIsBooked'
    BY <1>1, <1>4 DEF AdmittedIsBooked, Admitted, StepTo
  <1>8. ProjectionIsCurrent'
    <2>1. projection'.final = journal'.final
      BY <1>1, <1>3 DEF ProjectionIsCurrent, StepTo
    <2>2. ASSUME NEW d \in journal'.reserved \ projection'.reserved
          PROVE  stage'[d] \in {"refused", "gone"}
      <3>1. CASE d # c
        BY <1>1, <3>1, <2>2, <1>2, <1>3, <1>4 DEF ProjectionIsCurrent, StepTo
      <3>2. CASE d = c
        <4>1. c \notin journal.reserved
          BY <1>1, <3>2, <2>2, <1>2, <1>3 DEF ProjectionIsCurrent, StepTo, Reserving
        <4>2. s = "refused"
          BY <4>1, <3>2, <2>2, <1>1 DEF StepTo
        <4> QED BY <4>2, <3>2, <1>4
      <3> QED BY <3>1, <3>2
    <2> QED BY <2>1, <2>2 DEF ProjectionIsCurrent
  <1>9. InsideHolds'
    BY <1>1, <1>3, <1>4, LedgerAssumption DEF InsideHolds, StepTo
  <1>10. ProjectionIsStored'
    BY <1>1 DEF ProjectionIsStored, StepTo
  <1>11. PricedBeforeBooked' /\ PricedBeforeDecided'
    BY <1>1, <1>3, <1>4 DEF PricedBeforeBooked, PricedBeforeDecided, StepTo, Reserving
  <1>12. NewIsUnknown'
    BY <1>1, <1>4 DEF NewIsUnknown, StepTo, Reserving
  <1>13. UnsettledDegrades'
    BY <1>1, <1>3, <1>4 DEF UnsettledDegrades, StepTo
  <1>14. NoFinalBefore'
    BY <1>1, <1>4 DEF NoFinalBefore, StepTo, Reserving
  <1> QED BY <1>5, <1>6, <1>7, <1>8, <1>9, <1>10, <1>11, <1>12, <1>13, <1>14

\* Where a call inside Reserve stands, with what that tells of the ledger.
LEMMA InsideFacts ==
    ASSUME LedgerInv, NEW c \in Calls, stage[c] \in Reserving
    PROVE  /\ mu = c /\ runOf[c] = run /\ run \in Runs /\ TargetOf[c] \in Targets
           /\ journal \in Ledger /\ projection \in Ledger /\ integrity \in BOOLEAN
           /\ stage \in [Calls -> Stages]
           /\ projection.prices \subseteq journal.prices
           /\ projection.reserved \subseteq journal.reserved
  BY OneInside, LedgerAssumption DEF LedgerInv, LedgerTypeOK, ProjectionIsStored

LEMMA EnsurePriceInside ==
    ASSUME LedgerInv, NEW c \in Calls, EnsurePrice(c)
    PROVE  StepInside(c)
  <1>1. stage[c] = "price" /\ stage[c] \in Reserving
    BY DEF EnsurePrice, Reserving
  <1>2. CASE <<run, TargetOf[c]>> \in projection.prices
    <2>1. StepTo(c, "decide")
      BY <1>1, <1>2, InsideFacts DEF EnsurePrice, Move, StepTo, Reserving
    <2> QED BY <2>1 DEF StepInside
  <1>3. CASE <<run, TargetOf[c]>> \notin projection.prices
    <2>1. PICK fate \in Fates :
             /\ Publish(fate, WithPrice(journal, run, TargetOf[c]),
                        WithPrice(projection, run, TargetOf[c]))
             /\ Continue(c, fate, "decide")
      BY <1>3 DEF EnsurePrice
    <2>2. /\ journal' = journal \/ journal' = WithPrice(journal, run, TargetOf[c])
          /\ fate = "stored" => /\ journal' = WithPrice(journal, run, TargetOf[c])
                                /\ projection' = WithPrice(projection, run, TargetOf[c])
          /\ fate # "stored" => projection' = projection
      BY <2>1 DEF Publish
    <2>3. /\ fate = "stored" => stage' = [stage EXCEPT ![c] = "decide"] /\ mu' = mu
          /\ fate # "stored" => stage' = [stage EXCEPT ![c] = "refused"] /\ mu' = Nobody
      BY <2>1 DEF Continue, Move, Leave
    <2>4. /\ journal' \in Ledger /\ projection' \in Ledger
          /\ journal'.reserved = journal.reserved /\ projection'.reserved = projection.reserved
          /\ journal'.final = journal.final /\ projection'.final = projection.final
          /\ journal.prices \subseteq journal'.prices
          /\ projection.prices \subseteq projection'.prices
          /\ projection'.prices \subseteq journal'.prices
          /\ fate = "stored" => <<run, TargetOf[c]>> \in projection'.prices
      BY <2>2, <1>1, InsideFacts, PriceFields
    <2>5. /\ run' = run /\ runOf' = runOf /\ integrity' = integrity
          /\ projection.reserved \subseteq journal.reserved
          /\ integrity \in BOOLEAN
      BY <1>1, InsideFacts DEF EnsurePrice
    <2>6. CASE fate = "stored"
      <3>1. StepTo(c, "decide")
        BY <2>6, <1>1, <2>3, <2>4, <2>5 DEF StepTo, Reserving
      <3> QED BY <3>1 DEF StepInside
    <2>7. CASE fate # "stored"
      <3>1. StepTo(c, "refused")
        BY <2>7, <1>1, <2>3, <2>4, <2>5 DEF StepTo, Reserving
      <3> QED BY <3>1 DEF StepInside
    <2> QED BY <2>6, <2>7
  <1> QED BY <1>2, <1>3

LEMMA DecideInside ==
    ASSUME LedgerInv, NEW c \in Calls, Decide(c)
    PROVE  StepInside(c)
  <1>1. /\ stage[c] = "decide" /\ stage[c] \in Reserving
        /\ <<run, TargetOf[c]>> \in projection.prices
    BY DEF Decide, Reserving, LedgerInv, PricedBeforeDecided
  <1>2. PICK s \in {"deny", "warn", "book", "refused"} :
           /\ stage' = [stage EXCEPT ![c] = s]
           /\ s # "refused" => mu' = mu /\ integrity' = integrity
           /\ s = "refused" => mu' = Nobody /\ integrity' = TRUE
    BY DEF Decide, Move, Leave
  <1>3. StepTo(c, s)
    BY <1>1, <1>2, InsideFacts DEF Decide, StepTo, Reserving
  <1> QED BY <1>3 DEF StepInside

LEMMA DenyInside ==
    ASSUME LedgerInv, NEW c \in Calls, Deny(c)
    PROVE  StepInside(c)
  <1>1. stage[c] = "deny" /\ stage[c] \in Reserving
    BY DEF Deny, Reserving
  <1>2. PICK fate \in Fates : Publish(fate, WithDenial(journal, c), WithDenial(projection, c))
    BY DEF Deny
  <1>3. /\ journal' \in {journal, WithDenial(journal, c)}
        /\ projection' \in {projection, WithDenial(projection, c)}
    BY <1>2 DEF Publish
  <1>4. /\ journal' \in Ledger /\ projection' \in Ledger
        /\ journal'.reserved = journal.reserved /\ projection'.reserved = projection.reserved
        /\ journal'.final = journal.final /\ projection'.final = projection.final
        /\ journal'.prices = journal.prices /\ projection'.prices = projection.prices
    BY <1>1, <1>3, InsideFacts, DenialFields
  <1>5. StepTo(c, "refused")
    BY <1>1, <1>4, InsideFacts DEF Deny, Leave, StepTo, Reserving
  <1> QED BY <1>5 DEF StepInside

LEMMA WarnInside ==
    ASSUME LedgerInv, NEW c \in Calls, Warn(c)
    PROVE  StepInside(c)
  <1>1. /\ stage[c] = "warn" /\ stage[c] \in Reserving
        /\ <<run, TargetOf[c]>> \in projection.prices
    BY DEF Warn, Reserving, LedgerInv, PricedBeforeBooked
  <1>2. CASE run \in journal.warned
    <2>1. StepTo(c, "refused")
      BY <1>1, <1>2, InsideFacts DEF Warn, Leave, StepTo, Reserving
    <2> QED BY <2>1 DEF StepInside
  <1>3. CASE run \notin journal.warned
    <2>1. PICK fate \in Fates : /\ Publish(fate, WithWarning(journal, run),
                                           WithWarning(projection, run))
                                /\ Continue(c, fate, "book")
      BY <1>3 DEF Warn
    <2>2. /\ journal' \in {journal, WithWarning(journal, run)}
          /\ projection' \in {projection, WithWarning(projection, run)}
      BY <2>1 DEF Publish
    <2>3. /\ journal' \in Ledger /\ projection' \in Ledger
          /\ journal'.reserved = journal.reserved /\ projection'.reserved = projection.reserved
          /\ journal'.final = journal.final /\ projection'.final = projection.final
          /\ journal'.prices = journal.prices /\ projection'.prices = projection.prices
      BY <1>1, <2>2, InsideFacts, WarningFields
    <2>4. /\ fate = "stored" => stage' = [stage EXCEPT ![c] = "book"] /\ mu' = mu
          /\ fate # "stored" => stage' = [stage EXCEPT ![c] = "refused"] /\ mu' = Nobody
      BY <2>1 DEF Continue, Move, Leave
    <2>5. StepTo(c, IF fate = "stored" THEN "book" ELSE "refused")
      BY <1>1, <2>3, <2>4, InsideFacts DEF Warn, StepTo, Reserving
    <2> QED BY <2>5 DEF StepInside
  <1> QED BY <1>2, <1>3

LEMMA BookInside ==
    ASSUME LedgerInv, NEW c \in Calls, Book(c)
    PROVE  StepInside(c)
  <1>1. /\ stage[c] = "book" /\ stage[c] \in Reserving
        /\ <<run, TargetOf[c]>> \in projection.prices
    BY DEF Book, Reserving, LedgerInv, PricedBeforeBooked
  <1>2. PICK fate \in Fates :
           /\ Publish(fate, WithReservation(journal, c), WithReservation(projection, c))
           /\ Leave(c, IF fate = "stored" THEN "open" ELSE "refused")
    BY DEF Book
  <1>3. /\ journal' \in {journal, WithReservation(journal, c)}
        /\ fate = "stored" => /\ journal' = WithReservation(journal, c)
                              /\ projection' = WithReservation(projection, c)
        /\ fate # "stored" => projection' = projection
    BY <1>2 DEF Publish
  <1>4. /\ journal' \in Ledger /\ projection' \in Ledger
        /\ journal'.reserved \in {journal.reserved, journal.reserved \cup {c}}
        /\ journal'.final = journal.final /\ projection'.final = projection.final
        /\ journal'.prices = journal.prices /\ projection'.prices = projection.prices
        /\ fate = "stored" => /\ journal'.reserved = journal.reserved \cup {c}
                              /\ projection'.reserved = projection.reserved \cup {c}
        /\ fate # "stored" => projection'.reserved = projection.reserved
    BY <1>1, <1>3, InsideFacts, ReservationFields
  <1>5. /\ fate = "stored" => stage' = [stage EXCEPT ![c] = "open"]
        /\ fate # "stored" => stage' = [stage EXCEPT ![c] = "refused"]
        /\ mu' = Nobody
    BY <1>2 DEF Leave
  <1>6. StepTo(c, IF fate = "stored" THEN "open" ELSE "refused")
    BY <1>1, <1>4, <1>5, InsideFacts DEF Book, StepTo, Reserving
  <1> QED BY <1>6 DEF StepInside

LEMMA SettleHolds ==
    ASSUME LedgerInv, NEW c \in Calls, NEW u \in Usages \cup {NoMicros}, Settle(c, u)
    PROVE  LedgerInv'
  <1> USE DEF LedgerInv
  <1> DEFINE micros == FinalMicros(c, u)
  <1>1. PICK fate \in Fates :
           /\ Publish(fate, WithSettlement(journal, c, micros),
                      WithSettlement(projection, c, micros))
           /\ stage' = [stage EXCEPT ![c] = IF fate = "stored" THEN "settled" ELSE "unsettled"]
           /\ integrity' = (integrity \/ fate # "stored")
    BY DEF Settle
  <1>2. /\ stage[c] = "open" /\ mu = Nobody /\ mu' = mu /\ run' = run /\ runOf' = runOf
        /\ c \in journal.reserved
    BY DEF Settle, AdmittedIsBooked, Admitted
  <1>3. /\ journal \in Ledger /\ projection \in Ledger /\ micros \in Nat
        /\ stage \in [Calls -> Stages] /\ integrity \in BOOLEAN
        /\ run \in Runs /\ TargetOf[c] \in Targets
        /\ runOf \in [Calls -> Runs \cup {NoRun}]
    BY FinalIsAmount, LedgerAssumption DEF LedgerTypeOK
  <1>4. /\ journal' \in {journal, WithSettlement(journal, c, micros)}
        /\ projection' \in {projection, WithSettlement(projection, c, micros)}
        /\ fate = "stored" => /\ journal' = WithSettlement(journal, c, micros)
                              /\ projection' = WithSettlement(projection, c, micros)
    BY <1>1 DEF Publish
  <1>5. /\ journal' \in Ledger /\ projection' \in Ledger
        /\ journal'.reserved = journal.reserved /\ projection'.reserved = projection.reserved
        /\ journal'.prices = journal.prices /\ projection'.prices = projection.prices
        /\ journal'.final \in {journal.final, [journal.final EXCEPT ![c] = micros]}
        /\ projection'.final \in {projection.final, [projection.final EXCEPT ![c] = micros]}
        /\ fate = "stored" => /\ journal'.final = [journal.final EXCEPT ![c] = micros]
                              /\ projection'.final = [projection.final EXCEPT ![c] = micros]
    BY <1>3, <1>4, SettlementFields
  <1>6. /\ \A d \in Calls : d # c => stage'[d] = stage[d]
        /\ stage'[c] \in {"settled", "unsettled"}
        /\ stage'[c] = "unsettled" => integrity'
        /\ ~integrity' => ~integrity /\ fate = "stored"
    BY <1>1, <1>3
  <1>7. journal.reserved \subseteq Calls /\ journal.final \in [Calls -> Nat \cup {Unsettled}]
    BY <1>3, LedgerFields
  <1>8. LedgerTypeOK'
    <2>1. stage' \in [Calls -> Stages]
      BY <1>1, <1>3 DEF Stages, Admitted
    <2>2. integrity' \in BOOLEAN
      BY <1>1
    <2> QED BY <2>1, <2>2, <1>2, <1>5 DEF LedgerTypeOK
  <1>9. JournalReplays'
    BY <1>2, <1>5, <1>7 DEF JournalReplays, Replayable
  <1>10. AdmittedIsBooked'
    BY <1>2, <1>5, <1>6 DEF AdmittedIsBooked, Admitted
  <1>11. ProjectionIsCurrent'
    BY <1>2, <1>5, <1>6, <1>7 DEF ProjectionIsCurrent
  <1>12. InsideHolds'
    BY <1>2, <1>6 DEF InsideHolds, Reserving
  <1>13. ProjectionIsStored' /\ PricedBeforeBooked' /\ PricedBeforeDecided'
    BY <1>2, <1>5, <1>6 DEF ProjectionIsStored, PricedBeforeBooked, PricedBeforeDecided
  <1>14. NewIsUnknown'
    BY <1>2, <1>5, <1>6 DEF NewIsUnknown
  <1>15. UnsettledDegrades'
    BY <1>2, <1>6 DEF UnsettledDegrades
  <1>16. NoFinalBefore'
    <2>1. projection.final \in [Calls -> Nat \cup {Unsettled}]
      BY <1>3, LedgerFields
    <2> QED BY <2>1, <1>5, <1>6, <1>7 DEF NoFinalBefore
  <1> QED BY <1>8, <1>9, <1>10, <1>11, <1>12, <1>13, <1>14, <1>15, <1>16

\* A new run begins with nothing under way and with all that is stored.
LEMMA RehydrateHolds ==
    ASSUME LedgerInv, Rehydrate, mu' \in Calls \cup {Nobody}, stage' \in [Calls -> Stages],
           \A c \in Calls : /\ ~InFlight(c)'
                            /\ stage'[c] # stage[c] => InFlight(c) /\ stage'[c] = "gone"
    PROVE  LedgerInv'
  <1> USE DEF LedgerInv
  <1>1. /\ run' = run + 1 /\ run < MaxRuns /\ ~integrity' /\ runOf' = runOf
        /\ journal' = journal /\ projection' = journal
    BY DEF Rehydrate, JournalReplays
  <1>2. /\ run \in Runs /\ runOf \in [Calls -> Runs \cup {NoRun}]
        /\ journal \in Ledger
    BY DEF LedgerTypeOK
  <1>3. /\ run' \in Runs
        /\ \A c \in Calls : runOf'[c] <= run' /\ runOf'[c] # run'
    BY <1>1, <1>2, LedgerAssumption DEF NewIsUnknown, Runs, NoRun
  <1>4. \A c \in Calls : stage'[c] \notin Reserving /\ stage'[c] # "open"
    BY DEF InFlight
  <1>5. LedgerTypeOK'
    <2>1. integrity' \in BOOLEAN /\ journal' \in Ledger /\ projection' \in Ledger
      BY <1>1, <1>2 DEF Rehydrate
    <2> QED BY <2>1, <1>1, <1>2, <1>3 DEF LedgerTypeOK
  <1>6. JournalReplays'
    BY <1>1 DEF JournalReplays, Replayable
  <1>7. AdmittedIsBooked'
    BY <1>1 DEF AdmittedIsBooked, Admitted
  <1>8. ProjectionIsCurrent' /\ ProjectionIsStored'
    BY <1>1 DEF ProjectionIsCurrent, ProjectionIsStored
  <1>9. InsideHolds' /\ PricedBeforeBooked' /\ PricedBeforeDecided'
    BY <1>1, <1>4 DEF InsideHolds, PricedBeforeBooked, PricedBeforeDecided, Reserving
  <1>10. NewIsUnknown' /\ UnsettledDegrades'
    BY <1>1, <1>3 DEF NewIsUnknown, UnsettledDegrades
  <1>11. NoFinalBefore'
    <2>1. \A c \in Calls : stage'[c] \notin {"settled", "unsettled"} =>
                               stage[c] \notin {"settled", "unsettled"}
      BY DEF InFlight, Reserving
    <2> QED BY <2>1, <1>1 DEF NoFinalBefore
  <1> QED BY <1>5, <1>6, <1>7, <1>8, <1>9, <1>10, <1>11

LEMMA NextRunHolds ==
    ASSUME LedgerInv, NextRun
    PROVE  LedgerInv'
  <1>1. /\ Rehydrate /\ mu' \in Calls \cup {Nobody} /\ stage' \in [Calls -> Stages]
        /\ \A c \in Calls : ~InFlight(c)' /\ stage'[c] = stage[c]
    BY DEF NextRun, InFlight, LedgerInv, LedgerTypeOK
  <1> QED BY <1>1, RehydrateHolds

LEMMA CrashHolds ==
    ASSUME LedgerInv, CrashLedger
    PROVE  LedgerInv'
  <1>1. stage \in [Calls -> Stages]
    BY DEF LedgerInv, LedgerTypeOK
  <1>2. \A c \in Calls : stage'[c] = IF InFlight(c) THEN "gone" ELSE stage[c]
    BY DEF CrashLedger
  <1>3. stage' \in [Calls -> Stages]
    BY <1>1 DEF CrashLedger, Stages
  <1>4. \A c \in Calls : /\ ~InFlight(c)'
                         /\ stage'[c] # stage[c] => InFlight(c) /\ stage'[c] = "gone"
    BY <1>2 DEF InFlight, Reserving
  <1>5. Rehydrate /\ mu' \in Calls \cup {Nobody}
    BY DEF CrashLedger
  <1> QED BY <1>3, <1>4, <1>5, RehydrateHolds

LEMMA StutterHolds ==
    ASSUME LedgerInv, UNCHANGED ledgerVars
    PROVE  LedgerInv'
  <1> USE DEF ledgerVars
  <1>1. LedgerTypeOK' /\ JournalReplays' /\ AdmittedIsBooked' /\ ProjectionIsCurrent'
    BY DEF LedgerInv, LedgerTypeOK, JournalReplays, Replayable, AdmittedIsBooked,
           ProjectionIsCurrent
  <1>2. /\ InsideHolds' /\ ProjectionIsStored' /\ PricedBeforeBooked'
        /\ PricedBeforeDecided' /\ NewIsUnknown' /\ UnsettledDegrades' /\ NoFinalBefore'
    BY DEF LedgerInv, InsideHolds, ProjectionIsStored, PricedBeforeBooked,
           PricedBeforeDecided, NewIsUnknown, UnsettledDegrades, NoFinalBefore
  <1> QED BY <1>1, <1>2 DEF LedgerInv

LEMMA LedgerStepHolds == LedgerInv /\ [LedgerNext]_ledgerVars => LedgerInv'
  <1> SUFFICES ASSUME LedgerInv, [LedgerNext]_ledgerVars PROVE LedgerInv'
    OBVIOUS
  <1>1. ASSUME NEW c \in Calls, BeginReserve(c) PROVE LedgerInv'
    BY <1>1, BeginReserveHolds
  <1>2. ASSUME NEW c \in Calls, ReserveStep(c) PROVE LedgerInv'
    BY <1>2, StepInsideHolds, EnsurePriceInside, DecideInside, DenyInside, WarnInside,
       BookInside DEF ReserveStep
  <1>3. ASSUME NEW c \in Calls, NEW u \in Usages \cup {NoMicros}, Settle(c, u)
        PROVE  LedgerInv'
    BY <1>3, SettleHolds
  <1>4. CASE NextRun
    BY <1>4, NextRunHolds
  <1>5. CASE CrashLedger
    BY <1>5, CrashHolds
  <1>6. CASE UNCHANGED ledgerVars
    BY <1>6, StutterHolds
  <1> QED BY <1>1, <1>2, <1>3, <1>4, <1>5, <1>6 DEF LedgerNext

-----------------------------------------------------------------------------
(* Sums of charges.  Total folds over a set by taking its members one by   *)
(* one; what it returns does not depend on the order.                      *)

\* A set of numbers has a least one.
LEMMA SomeLeast ==
    ASSUME NEW S \in SUBSET Nat, S # {}
    PROVE  \E x \in S : \A y \in S : x <= y
  <1>1. PICK x \in S : \A y \in S : ~(<<y, x>> \in OpToRel(<, Nat))
    BY NatLessThanWellFounded, WFMin
  <1>2. ASSUME NEW y \in S PROVE x <= y
    <2>1. <<y, x>> \in Nat \X Nat /\ <<y, x>>[1] = y /\ <<y, x>>[2] = x
      OBVIOUS
    <2>2. ~(y < x)
      BY <1>1, <2>1 DEF OpToRel
    <2> QED BY <2>2
  <1> QED BY <1>2

First(s) == CHOOSE y \in s : TRUE

\* One step of the fold, and the sums of all subsets that it reaches.
SumOf(l, s, g) == IF s = {} THEN 0 ELSE Charge(l, First(s)) + g[s \ {First(s)}]
Sums(l, S, g)  == g = [s \in SUBSET S |-> SumOf(l, s, g)]

LEMMA TotalIsSum ==
    ASSUME NEW l, NEW S
    PROVE  Total(l, S) = (CHOOSE g : Sums(l, S, g))[S]
  BY DEF Total, MapThenSumSet, MapThenFoldSet, Sums, SumOf, First

LEMMA ChargeIsAmount ==
    ASSUME NEW l \in Ledger, NEW c \in Calls
    PROVE  Charge(l, c) \in Nat
  <1>1. l.final[c] \in Nat \cup {Unsettled} /\ Bound[c] \in Nat
    BY LedgerFields, LedgerAssumption
  <1> QED BY <1>1 DEF Charge

\* The subsets of a finite set, and what is left when a member is taken away.
LEMMA Smaller ==
    ASSUME NEW S, IsFiniteSet(S), NEW s \in SUBSET S
    PROVE  /\ IsFiniteSet(s) /\ Cardinality(s) \in Nat /\ Cardinality(s) <= Cardinality(S)
           /\ s # {} => First(s) \in s
           /\ Cardinality(s) = 0 <=> s = {}
           /\ \A x \in s : s \ {x} \in SUBSET S /\ Cardinality(s \ {x}) = Cardinality(s) - 1
  <1>1. IsFiniteSet(s) /\ Cardinality(s) <= Cardinality(S)
    BY FS_Subset
  <1>2. s # {} => First(s) \in s
    BY DEF First
  <1> QED BY <1>1, <1>2, FS_CardinalityType, FS_RemoveElement, FS_EmptySet

\* The recursion has a solution: built up to subsets of n members at a time.
LEMMA SumsExist ==
    ASSUME NEW l \in Ledger, NEW S \in SUBSET Calls, IsFiniteSet(S)
    PROVE  \E g : Sums(l, S, g)
  <1> DEFINE Upto(n)    == {s \in SUBSET S : Cardinality(s) <= n}
             Part(n, g) == g = [s \in Upto(n) |-> SumOf(l, s, g)]
             Bad        == {n \in Nat : \A g : ~Part(n, g)}
  <1>1. Bad = {}
    <2> SUFFICES ASSUME Bad # {} PROVE FALSE
      OBVIOUS
    <2>1. PICK n \in Bad : \A m \in Bad : n <= m
      BY SomeLeast
    <2>2. CASE n = 0
      <3>1. Upto(0) = {{}}
        <4>1. \A s \in SUBSET S : Cardinality(s) <= 0 <=> s = {}
          BY Smaller
        <4> QED BY <4>1
      <3> DEFINE g == [s \in {{}} |-> 0]
      <3>2. \A s \in {{}} : SumOf(l, s, g) = 0
        BY DEF SumOf
      <3>3. g = [s \in {{}} |-> SumOf(l, s, g)]
        BY <3>2
      <3>4. Part(0, g)
        BY <3>1, <3>3
      <3> QED BY <2>2, <3>4
    <2>3. CASE n # 0
      <3>1. n - 1 \in Nat /\ n - 1 \notin Bad
        BY <2>1, <2>3
      <3>2. PICK g : Part(n - 1, g)
        BY <3>1
      <3> DEFINE h == [s \in Upto(n) |-> SumOf(l, s, g)]
      <3>3. \A s \in Upto(n - 1) : s \in Upto(n) /\ h[s] = g[s]
        <4>1. \A s \in Upto(n - 1) : g[s] = SumOf(l, s, g)
          BY <3>2
        <4>2. \A s \in Upto(n - 1) : s \in Upto(n)
          BY <3>1, Smaller
        <4> QED BY <4>1, <4>2
      <3>4. \A s \in Upto(n) : s # {} => s \ {First(s)} \in Upto(n - 1)
        BY <3>1, Smaller
      <3>5. \A s \in Upto(n) : SumOf(l, s, h) = SumOf(l, s, g)
        <4> HIDE DEF h, Upto
        <4> QED BY <3>3, <3>4 DEF SumOf
      <3>6. h = [s \in Upto(n) |-> SumOf(l, s, h)]
        BY <3>5
      <3>7. Part(n, h)
        BY <3>6
      <3> HIDE DEF h, Part
      <3> QED BY <2>1, <3>7
    <2> QED BY <2>2, <2>3
  <1>2. Cardinality(S) \in Nat
    BY FS_CardinalityType
  <1>3. PICK g : Part(Cardinality(S), g)
    BY <1>1, <1>2
  <1>4. Upto(Cardinality(S)) = SUBSET S
    BY Smaller
  <1> QED BY <1>3, <1>4 DEF Sums

\* What it solves: nothing costs nothing, and any member may be taken first.
LEMMA SumsAdd ==
    ASSUME NEW l \in Ledger, NEW S \in SUBSET Calls, IsFiniteSet(S), NEW g, Sums(l, S, g)
    PROVE  /\ g[{}] = 0 /\ \A s \in SUBSET S : g[s] \in Nat
           /\ \A s \in SUBSET S : \A x \in s : g[s] = Charge(l, x) + g[s \ {x}]
  <1>1. \A s \in SUBSET S : g[s] = SumOf(l, s, g)
    BY DEF Sums
  <1>2. \A s \in SUBSET S : s # {} => g[s] = Charge(l, First(s)) + g[s \ {First(s)}]
    BY <1>1 DEF SumOf
  <1>3. g[{}] = 0
    <2>1. {} \in SUBSET S
      OBVIOUS
    <2> QED BY <1>1, <2>1 DEF SumOf
  <1>4. \A s \in SUBSET S : g[s] \in Nat
    <2> DEFINE Bad == {n \in Nat : \E s \in SUBSET S : Cardinality(s) = n /\ g[s] \notin Nat}
    <2>1. Bad = {}
      <3> SUFFICES ASSUME Bad # {} PROVE FALSE
        OBVIOUS
      <3>1. PICK n \in Bad : \A m \in Bad : n <= m
        BY SomeLeast
      <3>2. PICK s \in SUBSET S : Cardinality(s) = n /\ g[s] \notin Nat
        BY <3>1
      <3>3. s # {}
        BY <1>3, <3>2
      <3> DEFINE r == s \ {First(s)}
      <3>4. /\ First(s) \in s /\ r \in SUBSET S
            /\ Cardinality(r) = n - 1 /\ Cardinality(r) \in Nat
        BY <3>2, <3>3, Smaller
      <3>5. g[r] \in Nat
        BY <3>1, <3>4
      <3>6. Charge(l, First(s)) \in Nat
        BY <3>4, ChargeIsAmount
      <3> QED BY <1>2, <3>2, <3>3, <3>5, <3>6
    <2> QED BY <2>1, Smaller
  <1>5. \A s \in SUBSET S : \A x \in s : g[s] = Charge(l, x) + g[s \ {x}]
    <2> DEFINE Adds(s) == \A x \in s : g[s] = Charge(l, x) + g[s \ {x}]
               Bad == {n \in Nat : \E s \in SUBSET S : Cardinality(s) = n /\ ~Adds(s)}
    <2>1. Bad = {}
      <3> SUFFICES ASSUME Bad # {} PROVE FALSE
        OBVIOUS
      <3>1. PICK n \in Bad : \A m \in Bad : n <= m
        BY SomeLeast
      <3>2. PICK s \in SUBSET S : Cardinality(s) = n /\ ~Adds(s)
        BY <3>1
      <3>3. PICK x \in s : g[s] # Charge(l, x) + g[s \ {x}]
        BY <3>2
      <3> DEFINE y == First(s)
      <3>4. /\ s \ {x} \in SUBSET S /\ Cardinality(s \ {x}) = n - 1 /\ n - 1 \in Nat
            /\ s # {}
        BY <3>2, <3>3, Smaller
      <3>5. /\ y \in s /\ g[s] = Charge(l, y) + g[s \ {y}]
            /\ s \ {y} \in SUBSET S /\ Cardinality(s \ {y}) = n - 1
        <4>1. First(s) \in s /\ g[s] = Charge(l, First(s)) + g[s \ {First(s)}]
          BY <1>2, <3>4, Smaller
        <4> HIDE DEF y
        <4>2. y \in s /\ g[s] = Charge(l, y) + g[s \ {y}]
          BY <4>1 DEF y
        <4>3. s \ {y} \in SUBSET S /\ Cardinality(s \ {y}) = n - 1
          BY <3>2, <4>2, Smaller
        <4> QED BY <4>2, <4>3
      <3>6. x # y
        BY <3>3, <3>5
      <3>7. Adds(s \ {x}) /\ Adds(s \ {y})
        BY <3>1, <3>4, <3>5
      <3> HIDE DEF y
      <3> DEFINE r == (s \ {x}) \ {y}
      <3>8. (s \ {y}) \ {x} = r /\ r \in SUBSET S
        OBVIOUS
      <3>9. g[s \ {x}] = Charge(l, y) + g[r]
        BY <3>5, <3>6, <3>7
      <3>10. g[s \ {y}] = Charge(l, x) + g[r]
        <4>1. x \in s \ {y}
          BY <3>6
        <4>2. g[s \ {y}] = Charge(l, x) + g[(s \ {y}) \ {x}]
          BY <3>7, <4>1
        <4> QED BY <3>8, <4>2
      <3>11. Charge(l, x) \in Nat /\ Charge(l, y) \in Nat /\ g[r] \in Nat
        BY <1>4, <3>5, <3>8, ChargeIsAmount
      <3> HIDE DEF r
      <3> QED BY <3>3, <3>5, <3>9, <3>10, <3>11
    <2>2. ASSUME NEW s \in SUBSET S PROVE Adds(s)
      <3>1. Cardinality(s) \in Nat
        BY Smaller
      <3> QED BY <2>1, <3>1
    <2> QED BY <2>2
  <1> QED BY <1>3, <1>4, <1>5

\* A sum over more calls, each charged no less, is no less.
LEMMA SumsGrow ==
    ASSUME NEW l \in Ledger, NEW S \in SUBSET Calls, IsFiniteSet(S), NEW g, Sums(l, S, g),
           NEW m \in Ledger, NEW T \in SUBSET Calls, IsFiniteSet(T), NEW h, Sums(m, T, h),
           \A c \in S : Charge(l, c) <= Charge(m, c)
    PROVE  \A s \in SUBSET S, t \in SUBSET T : s \subseteq t => g[s] <= h[t]
  <1>1. /\ g[{}] = 0 /\ \A s \in SUBSET S : g[s] \in Nat
        /\ \A s \in SUBSET S : \A x \in s : g[s] = Charge(l, x) + g[s \ {x}]
    BY SumsAdd
  <1>2. /\ h[{}] = 0 /\ \A t \in SUBSET T : h[t] \in Nat
        /\ \A t \in SUBSET T : \A x \in t : h[t] = Charge(m, x) + h[t \ {x}]
    BY SumsAdd
  <1> DEFINE Holds(t) == \A s \in SUBSET S : s \subseteq t => g[s] <= h[t]
             Bad == {n \in Nat : \E t \in SUBSET T : Cardinality(t) = n /\ ~Holds(t)}
  <1>3. Bad = {}
    <2> SUFFICES ASSUME Bad # {} PROVE FALSE
      OBVIOUS
    <2>1. PICK n \in Bad : \A k \in Bad : n <= k
      BY SomeLeast
    <2>2. PICK t \in SUBSET T : Cardinality(t) = n /\ ~Holds(t)
      BY <2>1
    <2>3. PICK s \in SUBSET S : s \subseteq t /\ ~(g[s] <= h[t])
      BY <2>2
    <2>4. t # {}
      <3> SUFFICES ASSUME t = {} PROVE FALSE
        OBVIOUS
      <3>1. s = {}
        BY <2>3
      <3> QED BY <1>1, <1>2, <2>3, <3>1
    <2>5. PICK x \in t : TRUE
      BY <2>4
    <2>6. /\ t \ {x} \in SUBSET T /\ Cardinality(t \ {x}) = n - 1 /\ n - 1 \in Nat
          /\ s \ {x} \in SUBSET S /\ s \ {x} \subseteq t \ {x}
      BY <2>2, <2>3, Smaller
    <2>7. Holds(t \ {x})
      BY <2>1, <2>6
    <2>8. g[s \ {x}] <= h[t \ {x}]
      BY <2>6, <2>7
    <2>9. /\ g[s] \in Nat /\ h[t] \in Nat /\ g[s \ {x}] \in Nat /\ h[t \ {x}] \in Nat
          /\ Charge(m, x) \in Nat /\ h[t] = Charge(m, x) + h[t \ {x}]
      BY <1>1, <1>2, <2>6, ChargeIsAmount
    <2>10. CASE x \in s
      <3>1. g[s] = Charge(l, x) + g[s \ {x}] /\ Charge(l, x) <= Charge(m, x)
            /\ Charge(l, x) \in Nat
        BY <1>1, <2>10, ChargeIsAmount
      <3> QED BY <2>3, <2>8, <2>9, <3>1
    <2>11. CASE x \notin s
      <3>1. s \ {x} = s
        BY <2>11
      <3> QED BY <2>3, <2>8, <2>9, <3>1
    <2> QED BY <2>10, <2>11
  <1> QED BY <1>3, Smaller

\* The total itself: it grows with its calls and their charges, and a call that
\* is added adds its charge.
LEMMA TotalGrows ==
    ASSUME NEW l \in Ledger, NEW m \in Ledger, NEW S \in SUBSET Calls, NEW T \in SUBSET Calls,
           IsFiniteSet(T), S \subseteq T, \A c \in S : Charge(l, c) <= Charge(m, c)
    PROVE  /\ Total(l, S) \in Nat /\ Total(m, T) \in Nat
           /\ Total(l, S) <= Total(m, T)
  <1> DEFINE g == CHOOSE f : Sums(l, S, f)
             h == CHOOSE f : Sums(m, T, f)
  <1>1. IsFiniteSet(S)
    BY FS_Subset
  <1>2. Sums(l, S, g) /\ Sums(m, T, h)
    BY <1>1, SumsExist
  <1>3. Total(l, S) = g[S] /\ Total(m, T) = h[T]
    BY TotalIsSum
  <1> HIDE DEF g, h
  <1>4. g[S] \in Nat /\ h[T] \in Nat
    BY <1>1, <1>2, SumsAdd
  <1>5. g[S] <= h[T]
    BY <1>1, <1>2, SumsGrow
  <1> QED BY <1>3, <1>4, <1>5

LEMMA TotalAdds ==
    ASSUME NEW l \in Ledger, NEW S \in SUBSET Calls, IsFiniteSet(S), NEW c \in Calls, c \notin S
    PROVE  Total(l, S \cup {c}) = Total(l, S) + Charge(l, c)
  <1> DEFINE T == S \cup {c}
             g == CHOOSE f : Sums(l, S, f)
             h == CHOOSE f : Sums(l, T, f)
  <1>1. T \in SUBSET Calls /\ IsFiniteSet(T)
    BY FS_AddElement
  <1>2. Sums(l, S, g) /\ Sums(l, T, h)
    BY <1>1, SumsExist
  <1>3. Total(l, S) = g[S] /\ Total(l, T) = h[T]
    BY TotalIsSum
  <1>4. \A x \in Calls : Charge(l, x) <= Charge(l, x)
    BY ChargeIsAmount
  <1>5. T \ {c} = S /\ c \in T /\ S \in SUBSET T /\ T \in SUBSET T /\ S \in SUBSET S
    OBVIOUS
  <1> HIDE DEF g, h, T
  <1>6. g[S] <= h[S] /\ h[S] <= g[S]
    BY <1>1, <1>2, <1>4, <1>5, SumsGrow
  <1>7. h[T] = Charge(l, c) + h[S] /\ g[S] \in Nat /\ h[S] \in Nat
    BY <1>1, <1>2, <1>5, SumsAdd
  <1>8. Charge(l, c) \in Nat
    BY ChargeIsAmount
  <1> QED BY <1>3, <1>6, <1>7, <1>8 DEF T

-----------------------------------------------------------------------------
(* The budget.  A call compares it with what the projection knows and is   *)
(* admitted later, after more appends; the mutex keeps what it compared.   *)

\* A call that has passed Decide fits the budget until it is booked.
DecidedFits == \A c \in Calls : stage[c] \in {"warn", "book"} => ~OverBudget(c)

BudgetInv == LedgerInv /\ IsFiniteSet(journal.reserved) /\ DecidedFits

Known(r) == {c \in projection.reserved : runOf[c] = r}

\* The calls the projection knows are finitely many.
LEMMA KnownFinite ==
    ASSUME BudgetInv
    PROVE  /\ journal \in Ledger /\ projection \in Ledger
           /\ journal.reserved \in SUBSET Calls /\ projection.reserved \in SUBSET Calls
           /\ \A r : Known(r) \in SUBSET Calls /\ IsFiniteSet(Known(r))
  <1>1. /\ journal \in Ledger /\ projection \in Ledger
        /\ projection.reserved \subseteq journal.reserved
    BY DEF BudgetInv, LedgerInv, LedgerTypeOK, ProjectionIsStored
  <1>2. journal.reserved \in SUBSET Calls /\ projection.reserved \in SUBSET Calls
    BY <1>1, LedgerFields
  <1>3. ASSUME NEW r PROVE Known(r) \in SUBSET Calls /\ IsFiniteSet(Known(r))
    <2>1. Known(r) \in SUBSET Calls /\ Known(r) \in SUBSET journal.reserved
      BY <1>1, <1>2 DEF Known
    <2>2. IsFiniteSet(journal.reserved)
      BY DEF BudgetInv
    <2> QED BY <2>1, <2>2, FS_Subset
  <1> QED BY <1>1, <1>2, <1>3

\* What the comparison looks at.
LEMMA ComparedSame ==
    ASSUME BudgetInv, projection' \in Ledger, projection'.reserved = projection.reserved,
           projection'.final = projection.final, run' = run, runOf' = runOf,
           NEW c \in Calls, ~OverBudget(c)
    PROVE  ~OverBudget(c)'
  <1>1. Known(run)' = Known(run)
    BY DEF Known
  <1>2. \A d \in Calls : /\ Charge(projection, d) <= Charge(projection', d)
                         /\ Charge(projection', d) <= Charge(projection, d)
    <2> TAKE d \in Calls
    <2>1. Charge(projection', d) = Charge(projection, d)
      BY DEF Charge
    <2>2. Charge(projection, d) \in Nat
      BY KnownFinite, ChargeIsAmount
    <2> QED BY <2>1, <2>2
  <1> DEFINE S == Known(run)
  <1>3. S \in SUBSET Calls /\ IsFiniteSet(S) /\ S \subseteq S /\ projection \in Ledger
    BY KnownFinite
  <1> HIDE DEF S
  <1>4. Total(projection', S) = Total(projection, S)
    <2>1. /\ Total(projection, S) \in Nat /\ Total(projection', S) \in Nat
          /\ Total(projection, S) <= Total(projection', S)
          /\ Total(projection', S) <= Total(projection, S)
      BY <1>2, <1>3, TotalGrows
    <2> QED BY <2>1
  <1>5. /\ KnownMicrosForRun(run) = Total(projection, S)
        /\ KnownMicrosForRun(run)' = Total(projection', S)
    BY <1>1 DEF S, Known, KnownMicrosForRun
  <1>6. KnownMicrosForRun(run)' = KnownMicrosForRun(run)
    BY <1>4, <1>5
  <1> QED BY <1>6 DEF OverBudget, Projected, Metered

\* Decide lets a call on only if it fits.
LEMMA DecideFits ==
    ASSUME BudgetInv, NEW c \in Calls, Decide(c), stage'[c] \in {"warn", "book"}
    PROVE  ~OverBudget(c)
  <1>1. stage[c] = "decide" /\ stage \in [Calls -> Stages]
    BY DEF Decide, BudgetInv, LedgerInv, LedgerTypeOK
  <1> QED BY <1>1 DEF Decide, Move, Leave

LEMMA FitsInside ==
    ASSUME BudgetInv, NEW c \in Calls, ReserveStep(c)
    PROVE  DecidedFits'
  <1>1. StepInside(c)
    BY EnsurePriceInside, DecideInside, DenyInside, WarnInside, BookInside
       DEF ReserveStep, BudgetInv
  <1>2. /\ stage[c] \in Reserving /\ run' = run /\ runOf' = runOf /\ projection' \in Ledger
        /\ \A d \in Calls : d # c => stage'[d] = stage[d]
        /\ projection'.final = projection.final
    BY <1>1 DEF StepInside, StepTo, BudgetInv, LedgerInv, LedgerTypeOK
  <1>3. \A d \in Calls : d # c => stage'[d] \notin Reserving
    BY <1>2, OneInside DEF BudgetInv
  <1> SUFFICES ASSUME stage'[c] \in {"warn", "book"} PROVE ~OverBudget(c)'
    BY <1>3 DEF DecidedFits, Reserving
  <1>4. stage \in [Calls -> Stages] /\ projection \in Ledger
    BY DEF BudgetInv, LedgerInv, LedgerTypeOK
  <1>5. CASE Decide(c)
    <2>1. projection' = projection
      BY <1>5 DEF Decide
    <2> QED BY <1>2, <1>5, <2>1, DecideFits, ComparedSame
  <1>6. CASE Warn(c)
    <2>1. stage[c] = "warn" /\ projection' \in {projection, WithWarning(projection, run)}
      BY <1>6 DEF Warn, Publish
    <2>2. projection'.reserved = projection.reserved
      BY <1>4, <2>1 DEF WithWarning, Ledger
    <2>3. ~OverBudget(c)
      BY <2>1 DEF BudgetInv, DecidedFits
    <2> QED BY <1>2, <2>2, <2>3, ComparedSame
  <1>7. CASE EnsurePrice(c) \/ Deny(c) \/ Book(c)
    BY <1>4, <1>7 DEF EnsurePrice, Deny, Book, Continue, Move, Leave
  <1> QED BY <1>5, <1>6, <1>7 DEF ReserveStep

\* No other step changes what a decided call compared: it would need the mutex.
LEMMA BudgetStepHolds == BudgetInv /\ [LedgerNext]_ledgerVars => BudgetInv'
  <1> SUFFICES ASSUME BudgetInv, [LedgerNext]_ledgerVars PROVE BudgetInv'
    OBVIOUS
  <1>1. LedgerInv' /\ LedgerInv /\ stage \in [Calls -> Stages] /\ projection \in Ledger
    BY LedgerStepHolds DEF BudgetInv, LedgerInv, LedgerTypeOK
  <1>2. IsFiniteSet(journal.reserved)
    BY DEF BudgetInv
  <1>3. ASSUME NEW c \in Calls, ReserveStep(c) PROVE BudgetInv'
    <2>1. StepInside(c)
      BY <1>1, <1>3, EnsurePriceInside, DecideInside, DenyInside, WarnInside, BookInside
         DEF ReserveStep
    <2>2. journal'.reserved \subseteq journal.reserved \cup {c}
      BY <2>1 DEF StepInside, StepTo
    <2>3. IsFiniteSet(journal'.reserved)
      BY <1>2, <2>2, FS_AddElement, FS_Subset
    <2> QED BY <1>1, <1>3, <2>3, FitsInside DEF BudgetInv
  <1>4. ASSUME NEW c \in Calls, BeginReserve(c) PROVE BudgetInv'
    <2>1. \A d \in Calls : stage[d] \notin Reserving
      BY <1>1, <1>4, OneInside DEF BeginReserve
    <2>2. \A d \in Calls : stage'[d] \notin {"warn", "book"}
      BY <1>1, <1>4, <2>1 DEF BeginReserve, Reserving
    <2>3. journal' = journal
      BY <1>4 DEF BeginReserve
    <2> QED BY <1>1, <1>2, <2>2, <2>3 DEF BudgetInv, DecidedFits
  <1>5. ASSUME NEW c \in Calls, NEW u \in Usages \cup {NoMicros}, Settle(c, u)
        PROVE  BudgetInv'
    <2>1. \A d \in Calls : stage[d] \notin Reserving
      BY <1>1, <1>5, OneInside DEF Settle
    <2>2. \A d \in Calls : stage'[d] \notin {"warn", "book"}
      <3>1. \A d \in Calls : stage'[d] = stage[d] \/ stage'[d] \in {"settled", "unsettled"}
        BY <1>1, <1>5 DEF Settle
      <3> QED BY <2>1, <3>1 DEF Reserving
    <2>3. journal'.reserved = journal.reserved
      <3>1. journal' \in {journal, WithSettlement(journal, c, FinalMicros(c, u))}
        BY <1>5 DEF Settle, Publish
      <3>2. journal \in Ledger
        BY <1>1 DEF LedgerInv, LedgerTypeOK
      <3>3. FinalMicros(c, u) \in Nat
        BY <1>1, FinalIsAmount
      <3>4. CASE journal' = WithSettlement(journal, c, FinalMicros(c, u))
        BY <3>2, <3>3, <3>4, SettlementFields
      <3> QED BY <3>1, <3>4
    <2> QED BY <1>1, <1>2, <2>2, <2>3 DEF BudgetInv, DecidedFits
  <1>6. CASE NextRun \/ CrashLedger
    <2>1. journal' = journal
      BY <1>6 DEF NextRun, CrashLedger, Rehydrate
    <2>2. \A d \in Calls : stage'[d] \notin {"warn", "book"}
      BY <1>1, <1>6 DEF NextRun, CrashLedger, InFlight, Reserving
    <2> QED BY <1>1, <1>2, <2>1, <2>2 DEF BudgetInv, DecidedFits
  <1>7. CASE UNCHANGED ledgerVars
    <2>1. \A c \in Calls : ~OverBudget(c) => ~OverBudget(c)'
      BY <1>1, <1>7, ComparedSame DEF ledgerVars
    <2> QED BY <1>1, <1>2, <1>7, <2>1 DEF BudgetInv, DecidedFits, ledgerVars
  <1> QED BY <1>3, <1>4, <1>5, <1>6, <1>7 DEF LedgerNext

\* When a call is booked, the calls admitted in its run are among those the
\* comparison has counted, each with the charge it has in the journal.
LEMMA AdmissionFits ==
    ASSUME BudgetInv, [LedgerNext]_ledgerVars, NEW c \in Calls, Admits(c),
           MaxRunMicros # NoMicros
    PROVE  Total(journal', {d \in Calls : stage'[d] \in Admitted /\ runOf[d] = run})
               <= MaxRunMicros
  <1> DEFINE A == {d \in Calls : stage'[d] \in Admitted /\ runOf[d] = run}
             K == Known(run)
  <1>1. LedgerInv /\ stage[c] = "book" /\ stage'[c] = "open"
    BY DEF Admits, BudgetInv
  <1>2. Book(c)
    <2>1. stage[c] \in Reserving
      BY <1>1 DEF Reserving
    <2>2. mu = c /\ mu # Nobody /\ \A d \in Calls : d # c => stage[d] \notin Reserving
      BY <1>1, <2>1, OneInside
    <2>3. ~NextRun /\ ~CrashLedger /\ ~(UNCHANGED ledgerVars)
      BY <1>1, <2>1 DEF NextRun, CrashLedger, InFlight, ledgerVars
    <2>4. \A d \in Calls : ~BeginReserve(d) /\ \A u : ~Settle(d, u)
      BY <2>2 DEF BeginReserve, Settle
    <2>5. \A d \in Calls : ReserveStep(d) => d = c
      BY <2>2 DEF ReserveStep, EnsurePrice, Decide, Deny, Warn, Book, Reserving
    <2>6. ReserveStep(c)
      BY <2>3, <2>4, <2>5 DEF LedgerNext
    <2> QED BY <1>1, <2>6 DEF ReserveStep, EnsurePrice, Decide, Deny, Warn
  <1>3. PICK fate \in Fates :
           /\ Publish(fate, WithReservation(journal, c), WithReservation(projection, c))
           /\ Leave(c, IF fate = "stored" THEN "open" ELSE "refused")
    BY <1>2 DEF Book
  <1>4. stage \in [Calls -> Stages] /\ journal \in Ledger /\ projection \in Ledger
    BY <1>1 DEF LedgerInv, LedgerTypeOK
  <1>5. journal' = WithReservation(journal, c) /\ stage' = [stage EXCEPT ![c] = "open"]
    BY <1>1, <1>3, <1>4 DEF Publish, Leave
  <1>6. journal' \in Ledger /\ journal'.final = projection.final
    <2>1. ~integrity
      BY <1>1, OneInside DEF Reserving
    <2> QED BY <1>1, <1>4, <1>5, <2>1, ReservationFields DEF LedgerInv, ProjectionIsCurrent
  <1>7. K \in SUBSET Calls /\ IsFiniteSet(K)
    BY KnownFinite
  <1>8. A \subseteq K \cup {c}
    <2> SUFFICES ASSUME NEW d \in A, d # c PROVE d \in K
      OBVIOUS
    <2>1. stage[d] \in Admitted /\ runOf[d] = run
      BY <1>4, <1>5
    <2>2. d \in journal.reserved
      BY <1>1, <2>1 DEF LedgerInv, AdmittedIsBooked
    <2>3. d \in projection.reserved
      BY <1>1, <2>1, <2>2 DEF LedgerInv, ProjectionIsCurrent, Admitted
    <2> QED BY <2>1, <2>3 DEF Known
  <1>9. \A d \in Calls : Charge(journal', d) <= Charge(projection, d)
    <2> TAKE d \in Calls
    <2>1. Charge(journal', d) = Charge(projection, d) /\ Charge(projection, d) \in Nat
      BY <1>4, <1>6, ChargeIsAmount DEF Charge
    <2> QED BY <2>1
  <1>10. A \in SUBSET Calls /\ K \cup {c} \in SUBSET Calls /\ IsFiniteSet(K \cup {c})
         /\ K \subseteq K \cup {c}
    BY <1>7, FS_AddElement
  <1>11. Projected(c) = Total(projection, K) + Charge(projection, c)
    <2>1. projection.final[c] = Unsettled
      BY <1>1 DEF LedgerInv, NoFinalBefore
    <2>2. KnownMicrosForRun(run) = Total(projection, K)
      BY DEF KnownMicrosForRun, Known
    <2> QED BY <2>1, <2>2 DEF Projected, Charge
  <1>12. Projected(c) <= MaxRunMicros
    <2>1. ~OverBudget(c)
      BY <1>1 DEF BudgetInv, DecidedFits
    <2>2. Projected(c) \in Nat
      <3>1. Total(projection, K) \in Nat
        <4>1. \A d \in K : Charge(projection, d) <= Charge(projection, d)
          BY <1>4, <1>7, ChargeIsAmount
        <4> QED BY <1>4, <1>7, <4>1, TotalGrows
      <3>2. Charge(projection, c) \in Nat
        BY <1>4, ChargeIsAmount
      <3> QED BY <1>11, <3>1, <3>2
    <2>3. MaxRunMicros \in Nat
      BY LedgerAssumption
    <2> QED BY <2>1, <2>2, <2>3 DEF OverBudget
  <1> HIDE DEF A, K
  <1>13. Total(projection, K \cup {c}) <= Projected(c)
    <2>1. \A d \in Calls : Charge(projection, d) \in Nat
      BY <1>4, ChargeIsAmount
    <2>2. CASE c \in K
      <3>1. K \cup {c} = K
        BY <2>2
      <3>2. Total(projection, K) \in Nat
        <4>1. \A d \in K : Charge(projection, d) <= Charge(projection, d)
          BY <1>7, <2>1
        <4> QED BY <1>4, <1>7, <4>1, TotalGrows
      <3>3. Charge(projection, c) \in Nat
        BY <2>1
      <3>4. Total(projection, K) <= Total(projection, K) + Charge(projection, c)
        BY <3>2, <3>3
      <3> QED BY <1>11, <3>1, <3>4
    <2>3. CASE c \notin K
      <3>1. Total(projection, K \cup {c}) = Total(projection, K) + Charge(projection, c)
        BY <1>4, <1>7, <2>3, TotalAdds
      <3>2. Total(projection, K \cup {c}) \in Nat
        <4>1. \A d \in Calls : Charge(projection, d) <= Charge(projection, d)
          BY <2>1
        <4> QED BY <1>4, <1>10, <4>1, TotalGrows
      <3> QED BY <1>11, <3>1, <3>2
    <2> QED BY <2>2, <2>3
  <1>14. /\ Total(journal', A) \in Nat /\ Total(projection, K \cup {c}) \in Nat
         /\ Total(journal', A) <= Total(projection, K \cup {c})
    BY <1>4, <1>6, <1>8, <1>9, <1>10, TotalGrows
  <1>15. Projected(c) \in Int /\ MaxRunMicros \in Int
    <2>1. Total(projection, K) \in Nat
      <3>1. \A d \in K : Charge(projection, d) <= Charge(projection, d)
        BY <1>4, <1>7, ChargeIsAmount
      <3> QED BY <1>4, <1>7, <3>1, TotalGrows
    <2> QED BY <1>4, <1>11, <2>1, ChargeIsAmount, LedgerAssumption DEF NoMicros
  <1>16. Total(journal', A) <= MaxRunMicros
    BY <1>12, <1>13, <1>14, <1>15
  <1> QED BY <1>16 DEF A

LEMMA BudgetInvariant == LedgerSpec => []BudgetInv
  <1>1. LedgerInit => BudgetInv
    <2> SUFFICES ASSUME LedgerInit PROVE BudgetInv
      OBVIOUS
    <2>1. journal.reserved = {} /\ \A c \in Calls : stage[c] = "new"
      BY DEF LedgerInit, EmptyLedger
    <2> QED BY <2>1, InitHolds, FS_EmptySet DEF BudgetInv, DecidedFits
  <1> QED BY <1>1, BudgetStepHolds, PTL DEF LedgerSpec

-----------------------------------------------------------------------------
(* Results                                                                 *)

LEMMA LedgerInvariant == LedgerSpec => []LedgerInv
  BY InitHolds, LedgerStepHolds, PTL DEF LedgerSpec

\* The state of the ledger has the shape the code's types give it.
THEOREM LedgerIsTyped == LedgerSpec => []LedgerTypeOK
  <1>1. LedgerInv => LedgerTypeOK
    BY DEF LedgerInv
  <1> QED BY <1>1, LedgerInvariant, PTL

\* What is stored replays, whatever appends are refused, lost or cut off by a
\* crash: Rehydrate never condemns a ledger (Projection.Reduce).
THEOREM StoredLedgerReplays == LedgerSpec => []JournalReplays
  <1>1. LedgerInv => JournalReplays
    BY DEF LedgerInv
  <1> QED BY <1>1, LedgerInvariant, PTL

\* No call that may have reached its provider is without a stored reservation
\* (CostManager.Reserve).
THEOREM AdmittedCallsAreBooked == LedgerSpec => []AdmittedIsBooked
  <1>1. LedgerInv => AdmittedIsBooked
    BY DEF LedgerInv
  <1> QED BY <1>1, LedgerInvariant, PTL

\* The budget of a ledger that is not degraded is compared with everything
\* that was stored for its calls (CostManager.projection).
THEOREM BudgetSeesTheJournal == LedgerSpec => []ProjectionIsCurrent
  <1>1. LedgerInv => ProjectionIsCurrent
    BY DEF LedgerInv
  <1> QED BY <1>1, LedgerInvariant, PTL

\* Nothing is admitted in a run after a settlement of it that could not be
\* stored, not even a call that was waiting for the mutex (CostManager.Settle).
THEOREM UnsettledRunAdmitsNothing == LedgerSpec => UnsettledStopsRun
  <1>1. LedgerInv /\ [LedgerNext]_ledgerVars =>
        [ \A c \in Calls : Admits(c) =>
             \A d \in Calls : stage[d] = "unsettled" => runOf[d] # run ]_ledgerVars
    <2> SUFFICES ASSUME LedgerInv, NEW c \in Calls, Admits(c),
                        NEW d \in Calls, stage[d] = "unsettled", runOf[d] = run
                 PROVE  FALSE
      OBVIOUS
    <2>1. stage[c] \in Reserving
      BY DEF Admits, Reserving
    <2>2. ~integrity
      BY <2>1, OneInside
    <2> QED BY <2>2 DEF LedgerInv, UnsettledDegrades
  <1> QED BY <1>1, LedgerInvariant, PTL DEF LedgerSpec, UnsettledStopsRun

\* No interleaving of admissions oversubscribes a run (CostManager.Reserve):
\* when a call is admitted, the bounds of the calls of its run that are open and
\* what the others have cost fit the budget together.
THEOREM AdmissionsFitTheBudget == LedgerSpec => BudgetHolds
  <1>1. BudgetInv /\ [LedgerNext]_ledgerVars =>
        [ \A c \in Calls : Admits(c) /\ MaxRunMicros # NoMicros =>
             Total(journal', {d \in Calls : stage'[d] \in Admitted /\ runOf[d] = run})
                 <= MaxRunMicros ]_ledgerVars
    BY AdmissionFits
  <1> QED BY <1>1, BudgetInvariant, PTL DEF LedgerSpec, BudgetHolds

=============================================================================
