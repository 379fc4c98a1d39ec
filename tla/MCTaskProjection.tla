------------------------- MODULE MCTaskProjection --------------------------
(* Instances of TaskProjection for TLC.                                     *)
EXTENDS TaskProjection, TLC

CONSTANTS p1, p2

Both == {p1, p2}

\* The goroutines run the same code: no constant tells them apart.
Anyone == Permutations(Both)
=============================================================================
