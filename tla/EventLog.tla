------------------------------ MODULE EventLog ------------------------------
(***************************************************************************)
(* What the event journal promises to its callers: one log that only       *)
(* grows, in which no idempotency key occurs twice, and that holds every   *)
(* event an append has acknowledged.                                       *)
(***************************************************************************)
EXTENDS Naturals, Sequences

CONSTANT NoKey      \* the empty idempotency key

VARIABLES
    log,            \* the events, oldest first
    acked           \* ids of the events that appends returned to callers

KeyOccursOnce(events) ==
    \A i, j \in 1..Len(events) :
        i # j /\ events[i].key # NoKey => events[i].key # events[j].key

Ids(events) == {events[i].id : i \in 1..Len(events)}

Init == log = <<>> /\ acked = {}

\* A batch of events is added at the end, whole.
Extend ==
    /\ Len(log') > Len(log)
    /\ \A i \in 1..Len(log) : log'[i] = log[i]
    /\ KeyOccursOnce(log')
    /\ UNCHANGED acked

\* A call returns events, its own or those an earlier call recorded.
Acknowledge ==
    /\ acked \subseteq acked' /\ acked' \subseteq Ids(log)
    /\ UNCHANGED log

Next == Extend \/ Acknowledge

Spec == Init /\ [][Next]_<<log, acked>>
=============================================================================
