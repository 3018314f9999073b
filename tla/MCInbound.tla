------------------------------ MODULE MCInbound ------------------------------
(* Instances of Inbound for TLC. *)
EXTENDS Inbound, TLC

CONSTANTS l1, l2

Kind(t, m, d, w) == [type |-> t, mode |-> m, data |-> d, wrapped |-> w]

(* stream.end wrapped in `next'; stream.end in a messages body;         *)
(* cognition step; a chunk of text                                         *)
MCKinds ==
  {Kind("event", "custom", "stream.end", TRUE),
   Kind("event", "messages", "stream.end", FALSE),
   Kind("event", "custom", "step", FALSE),
   Kind("event", "messages", "text", FALSE)}

=============================================================================
