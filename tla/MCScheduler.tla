---------------------------- MODULE MCScheduler ----------------------------
(* Small instances of Scheduler for TLC. *)
EXTENDS Scheduler, TLC

(* Threads of the pool are interchangeable, and so are the cells of plain  *)
(* tasks.                                                                  *)
Symmetry == Permutations(Pool) \cup Permutations(Tasks \ Coroutines)
=============================================================================
