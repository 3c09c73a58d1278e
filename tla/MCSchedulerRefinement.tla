----------------------- MODULE MCSchedulerRefinement -----------------------
(* Small instances of SchedulerRefinement for TLC. *)
EXTENDS SchedulerRefinement, TLC

Symmetry == Permutations(Pool) \cup Permutations(Tasks \ Coroutines)
=============================================================================
