--------------------------- MODULE ProviderQuota ---------------------------
(***************************************************************************)
(* The cooldown of one Ollama Cloud account: Engine.Wait and               *)
(* Engine.Rejected (internal/ollamaquota/cooldown.go), driven by the       *)
(* request loop admittedLanguageModel.recover                              *)
(* (internal/agent/provider_request.go), with the provider slots a request *)
(* takes between them and the cooldown events of the journal               *)
(* (internal/team/provider_quota.go).                                      *)
(*                                                                         *)
(* The account has a gate.  A caller holds it while it sleeps until the    *)
(* next check and asks for the balance, and, when the balance is unknown,  *)
(* until its own request, the probe, has been answered.  A deadline is     *)
(* "none", in the "future", or "due".                                      *)
(***************************************************************************)
EXTENDS Integers, FiniteSets

CONSTANTS
    Callers,        \* goroutines that generate with the account
    MaxConcurrent,  \* slots of the provider
    SaveFaults,     \* what may go wrong with a save, of {"refused", "lost"}
    Cancellable,    \* the callers whose context may be cancelled
    Crashes         \* whether the process may restart

Nobody == "nobody"

ASSUME QuotaAssumption ==
    /\ IsFiniteSet(Callers) /\ Nobody \notin Callers
    /\ MaxConcurrent \in Nat \ {0}
    /\ SaveFaults \subseteq {"refused", "lost"}
    /\ Cancellable \subseteq Callers
    /\ Crashes \in BOOLEAN

VARIABLES
    gate,       \* account.gate: the caller that holds it
    loaded,     \* account.loaded
    integrity,  \* account.integrity is set
    until,      \* account.until
    saved,      \* the last cooldown event of the account in the journal
    slots,      \* slots of the provider that are taken
    at,         \* where each caller stands in recover
    probe,      \* the caller was handed a finish function, and the gate with it
    outcome,    \* how the transport answered the caller
    overtaken,  \* the cooldown was cleared after the caller was rejected
    cancelled

vars == <<gate, loaded, integrity, until, saved, slots, at, probe, outcome, overtaken, cancelled>>

Deadlines == {"none", "future", "due"}
Stations  == {"idle", "wait", "paused", "query", "ready", "sending", "finish",
              "rejected", "schedule"}
Outcomes  == {"none", "accepted", "rejected", "failed"}

TypeOK ==
    /\ gate \in Callers \cup {Nobody}
    /\ loaded \in BOOLEAN /\ integrity \in BOOLEAN
    /\ until \in Deadlines /\ saved \in Deadlines
    /\ slots \in 0..MaxConcurrent
    /\ at \in [Callers -> Stations]
    /\ probe \in [Callers -> BOOLEAN] /\ overtaken \in [Callers -> BOOLEAN]
    /\ outcome \in [Callers -> Outcomes]
    /\ cancelled \in [Callers -> BOOLEAN]

Goto(c, s) == at' = [at EXCEPT ![c] = s]
Drop       == gate' = Nobody

\* account.save for caller c: the event is in the journal unless it was
\* refused; the deadline in memory follows only a save that returned without
\* error.  An error condemns the account unless the caller was cancelled.  A
\* cleared deadline sets availableAt, which overtakes every rejectedAt that was
\* taken before.
Overtake(d) == overtaken[d] \/ at[d] \in {"rejected", "schedule"}

Fates(c) == {"stored"} \cup SaveFaults \cup IF cancelled[c] THEN {"refused", "lost"} ELSE {}

Save(c, deadline, fate) ==
    /\ saved' = IF fate = "refused" THEN saved ELSE deadline
    /\ until' = IF fate = "stored" THEN deadline ELSE until
    /\ integrity' = (integrity \/ (fate # "stored" /\ ~cancelled[c]))
    /\ overtaken' = IF fate = "stored" /\ deadline = "none"
                    THEN [d \in Callers |-> Overtake(d)] ELSE overtaken

-----------------------------------------------------------------------------
(* Wait *)

\* One turn of recover: the admission checks, then Wait.  An idle caller is
\* between two turns or between two requests.
Request(c) ==
    /\ at[c] = "idle" /\ ~cancelled[c]
    /\ Goto(c, "wait")
    /\ UNCHANGED <<gate, loaded, integrity, until, saved, slots, probe, outcome, overtaken, cancelled>>

\* A caller that waits for the gate gives up.
GiveUp(c) ==
    /\ at[c] \in {"wait", "rejected"} /\ cancelled[c]
    /\ Goto(c, "idle")
    /\ UNCHANGED <<gate, loaded, integrity, until, saved, slots, probe, outcome, overtaken, cancelled>>

\* acquire: a condemned account admits nobody; the first caller of a process
\* reads the journal, and a journal that cannot be read admits nobody either.
Enter(c) ==
    /\ at[c] = "wait" /\ gate = Nobody
    /\ \/ integrity /\ Goto(c, "idle") /\ UNCHANGED <<gate, loaded, until>>
       \/ ~integrity /\ ~loaded /\ Goto(c, "idle") /\ UNCHANGED <<gate, loaded, until>>
       \/ /\ ~integrity
          /\ gate' = c /\ Goto(c, "paused")
          /\ loaded' = TRUE /\ until' = IF loaded THEN until ELSE saved
    /\ UNCHANGED <<integrity, saved, slots, probe, outcome, overtaken, cancelled>>

\* A variant that takes a deadline that has passed for none.
PausedTillDue(c) ==
    /\ at[c] = "paused"
    /\ \/ cancelled[c] /\ Goto(c, "idle") /\ Drop
       \/ ~cancelled[c] /\ until \in {"none", "due"} /\ Goto(c, "ready") /\ Drop
    /\ UNCHANGED <<loaded, integrity, until, saved, slots, probe, outcome, overtaken, cancelled>>

\* The head of Wait's loop.
Paused(c) ==
    /\ at[c] = "paused"
    /\ \/ cancelled[c] /\ Goto(c, "idle") /\ Drop
       \/ ~cancelled[c] /\ until = "none" /\ Goto(c, "ready") /\ Drop
       \/ ~cancelled[c] /\ until = "due" /\ Goto(c, "query") /\ UNCHANGED gate
    /\ UNCHANGED <<loaded, integrity, until, saved, slots, probe, outcome, overtaken, cancelled>>

\* The balance says that the account may be used, or when to ask again; a
\* balance that cannot be had makes the caller the probe, with the next check
\* already in the journal.  A caller that is cancelled after Wait has looked at
\* its context comes here too, and its save may be cut off.
Queried(c, balance) ==
    /\ at[c] = "query"
    /\ \E fate \in Fates(c) :
           /\ Save(c, IF balance = "available" THEN "none" ELSE "future", fate)
           /\ IF fate # "stored" THEN Goto(c, "idle") /\ Drop /\ UNCHANGED probe
              ELSE /\ UNCHANGED gate
                   /\ Goto(c, IF balance = "unknown" THEN "ready" ELSE "paused")
                   /\ probe' = [probe EXCEPT ![c] = (balance = "unknown")]
    /\ UNCHANGED <<loaded, slots, outcome, cancelled>>

\* A variant that returns with the gate.
QueryCancelledHolding(c) ==
    /\ at[c] = "query" /\ cancelled[c]
    /\ Goto(c, "idle")
    /\ UNCHANGED <<gate, loaded, integrity, until, saved, slots, probe, outcome, overtaken,
                   cancelled>>

QueryCancelled(c) ==
    /\ at[c] = "query" /\ cancelled[c]
    /\ Goto(c, "idle") /\ Drop
    /\ UNCHANGED <<loaded, integrity, until, saved, slots, probe, outcome, overtaken, cancelled>>

-----------------------------------------------------------------------------
(* The request itself *)

TakeSlot(c) ==
    /\ at[c] = "ready"
    /\ \/ slots < MaxConcurrent /\ slots' = slots + 1 /\ Goto(c, "sending")
          /\ overtaken' = [overtaken EXCEPT ![c] = FALSE] /\ UNCHANGED outcome
       \/ /\ cancelled[c] /\ Goto(c, "finish")
          /\ outcome' = [outcome EXCEPT ![c] = "failed"] /\ UNCHANGED <<slots, overtaken>>
    /\ UNCHANGED <<gate, loaded, integrity, until, saved, probe, cancelled>>

\* The slot is returned before recover sees the answer: a 429 before any part
\* of a response is "rejected", any other error "failed".
Respond(c) ==
    /\ at[c] = "sending"
    /\ slots' = slots - 1 /\ Goto(c, "finish")
    /\ \E o \in Outcomes \ {"none"} : outcome' = [outcome EXCEPT ![c] = o]
    /\ UNCHANGED <<gate, loaded, integrity, until, saved, probe, overtaken, cancelled>>

\* finish: an accepted probe clears the cooldown, and the gate is free again.
\* A rejected request then goes to Rejected, with the time of now.
AfterAnswer(c) == IF outcome[c] = "rejected" THEN "rejected" ELSE "idle"

\* A variant that keeps the gate of a probe that was rejected.
FinishKeepsGate(c) ==
    /\ at[c] = "finish"
    /\ outcome' = [outcome EXCEPT ![c] = "none"]
    /\ probe' = [probe EXCEPT ![c] = FALSE]
    /\ IF probe[c] /\ outcome[c] # "rejected" THEN Drop ELSE UNCHANGED gate
    /\ Goto(c, AfterAnswer(c))
    /\ UNCHANGED <<loaded, integrity, until, saved, slots, overtaken, cancelled>>

Finish(c) ==
    /\ at[c] = "finish"
    /\ outcome' = [outcome EXCEPT ![c] = "none"]
    /\ probe' = [probe EXCEPT ![c] = FALSE]
    /\ IF probe[c] THEN Drop ELSE UNCHANGED gate
    /\ IF probe[c] /\ outcome[c] = "accepted"
       THEN /\ \E fate \in Fates(c) : Save(c, "none", fate)
            /\ Goto(c, "idle")
       ELSE /\ Goto(c, AfterAnswer(c))
            /\ UNCHANGED <<integrity, until, saved, overtaken>>
    /\ UNCHANGED <<loaded, slots, cancelled>>

-----------------------------------------------------------------------------
(* Rejected *)

\* A variant that does not ask when the request was rejected.
RejectedAnyhow(c) ==
    /\ at[c] = "rejected" /\ gate = Nobody
    /\ IF integrity \/ until = "future" THEN Goto(c, "idle") /\ UNCHANGED gate
       ELSE Goto(c, "schedule") /\ gate' = c
    /\ UNCHANGED <<loaded, integrity, until, saved, slots, probe, outcome, overtaken, cancelled>>

\* An overtaken rejection, and one whose cooldown is there already, change nothing:
\* the caller takes another turn.
Rejected(c) ==
    /\ at[c] = "rejected" /\ gate = Nobody
    /\ IF integrity THEN Goto(c, "idle") /\ UNCHANGED gate
       ELSE IF overtaken[c] \/ until = "future" THEN Goto(c, "idle") /\ UNCHANGED gate
       ELSE Goto(c, "schedule") /\ gate' = c
    /\ UNCHANGED <<loaded, integrity, until, saved, slots, probe, outcome, overtaken, cancelled>>

\* Whatever the balance says, the next check lies ahead: at the reset, at the
\* provider's Retry-After, or in ten minutes.  Here too the context is looked at
\* before the save.
Schedule(c) ==
    /\ at[c] = "schedule"
    /\ Goto(c, "idle") /\ Drop
    /\ \/ cancelled[c] /\ UNCHANGED <<integrity, until, saved, overtaken>>
       \/ \E fate \in Fates(c) : Save(c, "future", fate)
    /\ UNCHANGED <<loaded, slots, probe, outcome, cancelled>>

-----------------------------------------------------------------------------

Cancel(c) ==
    /\ c \in Cancellable /\ ~cancelled[c]
    /\ cancelled' = [cancelled EXCEPT ![c] = TRUE]
    /\ UNCHANGED <<gate, loaded, integrity, until, saved, slots, at, probe, outcome, overtaken>>

Elapse(deadline) == IF deadline = "future" THEN "due" ELSE deadline

Tick ==
    /\ "future" \in {until, saved}
    /\ until' = Elapse(until) /\ saved' = Elapse(saved)
    /\ UNCHANGED <<gate, loaded, integrity, slots, at, probe, outcome, overtaken, cancelled>>

\* A new process knows nothing of the account but what it reads.
Restart ==
    /\ Crashes
    /\ gate' = Nobody /\ loaded' = FALSE /\ integrity' = FALSE /\ until' = "none"
    /\ slots' = 0
    /\ at' = [c \in Callers |-> "idle"]
    /\ probe' = [c \in Callers |-> FALSE] /\ overtaken' = [c \in Callers |-> FALSE]
    /\ outcome' = [c \in Callers |-> "none"] /\ cancelled' = [c \in Callers |-> FALSE]
    /\ UNCHANGED saved

Init ==
    /\ gate = Nobody /\ loaded = FALSE /\ integrity = FALSE /\ until = "none"
    /\ saved = "none"
    /\ slots = 0
    /\ at = [c \in Callers |-> "idle"]
    /\ probe = [c \in Callers |-> FALSE] /\ overtaken = [c \in Callers |-> FALSE]
    /\ outcome = [c \in Callers |-> "none"] /\ cancelled = [c \in Callers |-> FALSE]

Balances == {"available", "limited", "unknown"}

Next ==
    \/ \E c \in Callers :
           \/ Request(c) \/ GiveUp(c) \/ Enter(c) \/ Paused(c)
           \/ \E balance \in Balances : Queried(c, balance)
           \/ QueryCancelled(c)
           \/ TakeSlot(c) \/ Respond(c) \/ Finish(c) \/ Rejected(c) \/ Schedule(c)
           \/ Cancel(c)
    \/ Tick \/ Restart

Spec == Init /\ [][Next]_vars

\* Goroutines run; a buffered channel serves its senders in turn, so neither
\* the gate nor the slots pass a waiting caller over for ever; time passes; a
\* query returns within balanceTimeout and a transport answers (the stall
\* watchdog cancels one that does not); and an exhausted limit is reset at last.
Fairness ==
    /\ WF_vars(Tick)
    /\ \A c \in Callers :
           /\ WF_vars(GiveUp(c)) /\ WF_vars(Paused(c)) /\ WF_vars(QueryCancelled(c))
           /\ SF_vars(Enter(c)) /\ SF_vars(Rejected(c)) /\ SF_vars(TakeSlot(c))
           /\ WF_vars(\E balance \in Balances : Queried(c, balance))
           /\ SF_vars(Queried(c, "available") \/ Queried(c, "unknown"))
           /\ WF_vars(Respond(c)) /\ WF_vars(Finish(c)) /\ WF_vars(Schedule(c))

FairSpec == Spec /\ Fairness

-----------------------------------------------------------------------------
(* Properties *)

\* Callers stay paused while a cooldown is in force and while another caller
\* probes: who comes out of Wait to send its request either is the probe,
\* with the gate in its hand and its next check in the journal, or finds no
\* cooldown and no probe under way.  None comes out of a condemned account.
PausedWhileCooling ==
    [][ \A c \in Callers : at[c] # "ready" /\ at'[c] = "ready" =>
            /\ ~integrity'
            /\ \/ probe'[c] /\ gate' = c /\ until' = "future" /\ saved' = "future"
               \/ ~probe'[c] /\ until' = "none" /\ \A d \in Callers : ~probe'[d] ]_vars

\* The gate is with the one caller that works on the account, all the time and
\* through every error on the way: nobody else holds a finish function.
GateIsHeld ==
    \A c \in Callers :
        (at[c] \in {"paused", "query", "schedule"} \/ probe[c]) <=> gate = c

\* A rejection that was queued for the gate when the cooldown was cleared does
\* not bring it back, and nobody clears it under a rejection at work.
ClearedStaysClear ==
    \A c \in Callers : at[c] = "schedule" => ~overtaken[c]

\* A cooldown survives the process: what the callers of a sound account wait
\* for is in the journal, unless the save that took it out was cut off by its
\* caller's cancellation.
CooldownIsJournaled ==
    (until # "none" /\ saved = "none") => integrity \/ \E c \in Callers : cancelled[c]

\* Every caller gets its turn at the gate: the probe holds it while it queues
\* for a slot, which is safe only because a request gives its slot back before
\* it asks for the gate.
EveryoneGetsTheGate ==
    \A c \in Callers : at[c] \in {"wait", "rejected"} ~> at[c] \notin {"wait", "rejected"}

=============================================================================
