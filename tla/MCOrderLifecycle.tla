-------------------------- MODULE MCOrderLifecycle --------------------------
(* Small instances of OrderLifecycle for TLC. *)
EXTENDS OrderLifecycle, TLC

CONSTANTS r1, r2, t1, t2

Symmetry == Permutations(Requests) \cup Permutations(Techs)

=============================================================================
