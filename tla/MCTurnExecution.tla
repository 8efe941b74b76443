-------------------------- MODULE MCTurnExecution --------------------------
(* TLC's instance of TurnExecution. *)
EXTENDS TurnExecution
=============================================================================
