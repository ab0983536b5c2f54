---------------------------- MODULE MCJobEngine ----------------------------
(* JobEngine with the jobs interchangeable, for TLC. *)
EXTENDS JobEngine, TLC

Symmetry == Permutations(Job)
=============================================================================
