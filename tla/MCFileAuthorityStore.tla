------------------------ MODULE MCFileAuthorityStore ------------------------
(* Small instances of FileAuthorityStore. *)
EXTENDS FileAuthorityStore

CONSTANTS p1, p2, o1, o2, b1, b2

(* Two operations, one of them with two bodies. *)
Transactions == {[op |-> o1, body |-> b1], [op |-> o2, body |-> b1], [op |-> o2, body |-> b2]}
OnePage == {<<[op |-> o1, body |-> b1], [op |-> o2, body |-> b2]>>}
NoPages == {}
=============================================================================
