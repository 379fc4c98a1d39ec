---------------------------- MODULE MCEventStore ----------------------------
(***************************************************************************)
(* The handles and requests EventStore is checked on.                      *)
(***************************************************************************)
EXTENDS EventStore, TLC

CONSTANTS h1, h2, c1, c2, c3, k1, k2, none

TwoProcesses  == c1 :> h1 @@ c2 :> h2
SharedHandle  == c1 :> h1 @@ c2 :> h1 @@ c3 :> h2
E(k, d) == [key |-> k, data |-> d]

\* One key that every caller uses; an event without a key beside a batch of two
\* keys; and the batch in both orders.
One      == {<<E(k1, "a")>>}
Mixed    == {<<E(none, "a")>>, <<E(k1, "a"), E(k2, "a")>>}
Orders   == {<<E(none, "a")>>, <<E(k1, "a"), E(k2, "a")>>, <<E(k2, "a"), E(k1, "a")>>}

\* The callers of one handle may change places.
Symmetry == Permutations({c1, c2})
=============================================================================
