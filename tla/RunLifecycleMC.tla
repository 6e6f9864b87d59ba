--------------------------- MODULE RunLifecycleMC ---------------------------
(* Runs are interchangeable.                                               *)
EXTENDS RunLifecycle, TLC

Symmetry == Permutations(Runs)

===========================================================================
