---------------------------- MODULE TurnSequence ----------------------------
(***************************************************************************)
(* Consecutive turns of one loop, as TurnStream and DaemonTurn have them:  *)
(* the turns, where their reader is, and the daemon that works on them.    *)
(* Turns and their turn_ids are the generations 1 .. MaxTurns.             *)
(***************************************************************************)
EXTENDS TurnBoundary, Sequences

CONSTANTS
  MaxTurns,     \* bound: turns
  MaxChunks     \* bound: chunks the daemon sends about a turn

Gens == 1 .. MaxTurns

VARIABLES
  turn,       \* the generation the reader is at
  pc,         \* where the reader is
  result,     \* per turn: how it ended
  inbox,      \* what the daemon has not read: inputs and cancels
  query,      \* the generation the daemon works on, or NoID
  phase,      \* its state: "none", "admitted", "running" or "closing"
  chunks,     \* what the daemon knows of its chunks so far
  closed      \* history: turns whose every frame the daemon has sent

=============================================================================
