--------------------------- MODULE MCDagScheduler ---------------------------
(***************************************************************************)
(* The batches DagScheduler is checked on.  Each is the smallest in which  *)
(* the behaviour its run is about happens with other tasks in flight.      *)
(***************************************************************************)
EXTENDS DagScheduler

NoSets2 == <<{}, {}>>
NoSets3 == <<{}, {}, {}>>
NoSets4 == <<{}, {}, {}, {}>>
NoEdge2 == <<0, 0>>

\* Fork: two tasks over one producer, either of which may send the run back to
\* it while the other is in flight, and a fourth task over the second.
ForkDependsOn == <<{}, {1}, {1}, {3}>>
ForkOnFailure == <<0, 1, 1, 0>>
ForkClasses   == <<{}, {"semantic", "cancelled"}, {}, {}>>
ForkRetries   == <<0, 1, 1, 0>>

\* Criterion: 1 repairs what 2 and 3 are judged by, 2 repairs what 3 is judged
\* by, and 4 has the same target as 3.  4 mutates what 1 mutates and 3 reads, and
\* is ordered after both, though 3 may never start when 2 fails.  3 may send the
\* run back to 2.  5, a duplicate, waits on 4 and may only try again itself.
CriterionDependsOn  == <<{}, {}, {2}, {}, {4}>>
CriterionTargetsOf  == <<{}, {1}, {1, 2}, {2}, {}>>
CriterionOnFailure  == <<0, 0, 2, 0, 5>>
CriterionClasses    == <<{}, {}, {"semantic"}, {}, {"semantic"}>>
CriterionRetries    == <<1, 1, 1, 0, 1>>
CriterionOrderAfter == <<{}, {}, {}, {1, 3}, {}>>
CriterionClaims     == <<{<<"repo", "write">>}, {}, {<<"repo", "read">>},
                         {<<"repo", "write">>}, {}>>

\* Siblings: two tasks over one producer, the first of which may send the run
\* back to it while the second is in flight or done.
SiblingsDependsOn == <<{}, {1}, {1}>>
SiblingsOnFailure == <<0, 1, 0>>
SiblingsRetries   == <<0, 1, 0>>
=============================================================================
