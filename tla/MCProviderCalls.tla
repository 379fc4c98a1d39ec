-------------------------- MODULE MCProviderCalls --------------------------
(* Instances of ProviderCalls for TLC: a stream and plain calls that         *)
(* generate with one metered target.                                        *)
EXTENDS ProviderCalls, TLC

CONSTANTS c1, c2, c3, main

Two   == {c1, c2}
Three == {c1, c2, c3}

Models      == {main}
AllMain     == [c \in Calls |-> main]
MainMetered == main :> "metered"
BoundTwo    == [c \in Calls |-> 2]

\* A call costs less than its bound, or more.
CheapOrDear == {1, 3}
=============================================================================
