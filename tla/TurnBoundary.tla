---------------------------- MODULE TurnBoundary ----------------------------
(***************************************************************************)
(* The rules that decide which frame may end a turn (src/turn_boundary.go, *)
(* src/appkit/turn_lifecycle_gate.go), shared by TurnRunner (module        *)
(* TurnStream) and by DaemonSession (module DaemonTurn).                   *)
(*                                                                         *)
(* A turn_id "loop:generation" is its generation, NoID when it is absent.  *)
(***************************************************************************)
EXTENDS Integers

NoID == 0

TurnIDsMatch(expected, candidate) ==
  expected # NoID /\ candidate # NoID /\ expected = candidate

(* stream.end, strange_loop.completed *)
IsTurnTerminalAllowed(expected, frameTurn, queryStarted, progressSeen) ==
  /\ queryStarted /\ progressSeen
  /\ TurnIDsMatch(expected, frameTurn)

(* status=idle; without a turn_id only after a cancel *)
IsIdleTerminalAllowed(expected, frameTurn, queryStarted, progressSeen, cancelSeen) ==
  /\ queryStarted /\ expected # NoID
  /\ \/ TurnIDsMatch(expected, frameTurn) /\ (progressSeen \/ cancelSeen)
     \/ frameTurn = NoID /\ cancelSeen

(* status=running with turn_id `id' binds the turn, unless id is older. *)
Binds(expected, id) == id # NoID /\ (expected = NoID \/ id >= expected)

=============================================================================
