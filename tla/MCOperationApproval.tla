------------------------ MODULE MCOperationApproval ------------------------
(* Small instances of OperationApproval. *)
EXTENDS OperationApproval, TLC

CONSTANTS c1, c2, m1, m2

(* Callback threads are interchangeable, and so are provider messages.       *)
Symmetry == Permutations(Callbacks) \cup Permutations(Messages)
=============================================================================
