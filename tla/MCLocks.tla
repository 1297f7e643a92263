------------------------------ MODULE MCLocks ------------------------------
(* Four threads: two can wait and one be late while the fourth is inside. *)
EXTENDS Locks, TLC

Symmetry == Permutations(Threads)
=============================================================================
