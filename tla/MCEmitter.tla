---------------------------- MODULE MCEmitter ----------------------------
(* Small instances of Emitter: one or two events, interchangeable handlers. *)
EXTENDS Emitter

CONSTANTS h1, h2

Symmetry == Permutations({h1, h2})

CountsUsed == {-1, 1, 2}

=============================================================================
