---------------------------- MODULE MCDaemonTurn ----------------------------
(* Instances of DaemonTurn for TLC. *)
EXTENDS DaemonTurn, TLC

CONSTANTS l1, l2

Kind(m, d, w) == [mode |-> m, data |-> d, wrapped |-> w]

Text == Kind("messages", "text", FALSE)
Empty == Kind("messages", "empty", FALSE)

(* A chunk of text or one that is filtered, and a chunk of text *)
MCKinds == <<{Text, Empty}, {Text}>>

=============================================================================
