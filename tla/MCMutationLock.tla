--------------------------- MODULE MCMutationLock ---------------------------
(* Small instances of MutationLock. *)
EXTENDS MutationLock, TLC

CONSTANTS p1, p2, p3

Symmetry == Permutations(Procs)
=============================================================================
