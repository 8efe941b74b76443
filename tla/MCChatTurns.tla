---------------------------- MODULE MCChatTurns ----------------------------
(* ChatTurns for TLC: two Turns of one Session and a bounded number of faults. *)
EXTENDS ChatTurns
CONSTANTS t1, t2
=============================================================================
