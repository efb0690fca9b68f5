--------------------------- MODULE MCParallelTasks ---------------------------
(***************************************************************************)
(* Instances of ParallelTasks.                                             *)
(***************************************************************************)
EXTENDS ParallelTasks

\* No limit, and fewer workers than tasks.
SomeLimits == {-1, 0, 2}
==============================================================================
