---------------------------- MODULE MCTurnStream ----------------------------
(* Instances of TurnStream for TLC. *)
EXTENDS TurnStream, TLC

=============================================================================
