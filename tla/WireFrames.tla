----------------------------- MODULE WireFrames -----------------------------
(***************************************************************************)
(* What the client makes of one frame: its decoding (src/protocol.go), its *)
(* drop priority (src/inbound_priority.go), whether it is a leftover, a    *)
(* progress chunk, the end of a turn, or wants an acknowledgement          *)
(* (src/stream_terminal.go), and whether it is dropped before the turn     *)
(* sees it (src/appkit/chunk_filter.go).                                   *)
(*                                                                         *)
(* A frame is a record:                                                    *)
(*   type     the wire type; for a wrapped frame, that of the inner frame  *)
(*   mode     of an event; "" otherwise                                    *)
(*   data     what the client tells apart of the payload                   *)
(*   loop     loop_id, or NoLoop                                           *)
(*   turn     turn_id, or NoID                                             *)
(*   wrapped  TRUE: it comes as payload.data of a `next' envelope          *)
(***************************************************************************)
EXTENDS TurnBoundary

CONSTANT NoLoop   \* no loop_id

(* soothe.stream.end with scope turn, strange_loop.completed *)
IsTurnEndCustomData(data) == data \in {"stream.end", "loop.completed"}

messagesWireTerminal(data) == data = "stream.end"

IsTurnProgressChunk(mode, data) ==
  \/ mode \in {"messages", "updates"}
  \/ mode = "custom" /\ data \in {"plan", "step", "card"}

-----------------------------------------------------------------------------
(* DecodeMessage, nextToEventMessage.  An envelope (connection_ack, error,   *)
(* complete) has no loop_id field.  An event taken out of a `next' keeps its *)
(* mode, data and loop_id; its turn_id survives only in the data of a custom *)
(* event.  Any other wrapped frame becomes an event whose mode is its type.  *)
DecodeMessage(f) ==
  CASE f.type \in {"connection_ack", "error", "complete"} /\ ~f.wrapped ->
         [f EXCEPT !.loop = NoLoop]
    [] f.type = "event" /\ f.wrapped ->
         [f EXCEPT !.wrapped = FALSE,
                   !.turn = IF IsTurnEndCustomData(f.data) THEN f.turn ELSE NoID]
    [] f.type # "event" /\ f.wrapped ->
         [f EXCEPT !.type = "event", !.mode = f.type, !.loop = NoLoop,
                   !.wrapped = FALSE]
    [] OTHER -> f

(* Drop priorities: lower is kept, higher is a candidate for dropping. *)
Critical == 0
High == 1
Normal == 2

InboundFrameDropPriority(f) ==
  CASE f.type \in {"complete", "error", "connection_ack"} -> Critical
    [] f.type = "status" /\ f.data \in {"idle", "running", "stopped", "detached"} ->
         Critical
    [] f.type = "event" /\ f.mode = "custom"
         /\ (IsTurnEndCustomData(f.data) \/ f.data = "error") -> Critical
    [] f.type = "event" /\ f.mode = "custom"
         /\ f.data \in {"plan", "step", "tool_batch"} -> High
    [] f.type = "event" /\ f.mode = "messages"
         /\ (messagesWireTerminal(f.data) \/ f.data = "goal_completion") -> Critical
    [] OTHER -> Normal

(* StalePendingFrameLabel(f) # "" *)
IsStalePending(f) ==
  \/ f.type \in {"connection_ack", "replay.begin", "replay.end", "card.created",
                 "complete"}
  \/ f.type = "event" /\ f.mode = "custom" /\ IsTurnEndCustomData(f.data)

(* kept[1] < kept[2] < ... are the places of the frames of the queue q that  *)
(* are no leftovers.                                                         *)
FreshAt(q, kept) ==
  /\ \A i, j \in DOMAIN kept : i < j => kept[i] < kept[j]
  /\ {kept[i] : i \in DOMAIN kept} = {i \in DOMAIN q : ~IsStalePending(q[i])}

(* A frame without loop_id is not counted. *)
InboundNeedsDeliveryAck(f) ==
  /\ f.loop # NoLoop
  /\ \/ f.type = "complete"
     \/ f.type = "event" /\ f.mode = "custom" /\ IsTurnEndCustomData(f.data)
     \/ f.type = "event" /\ f.mode = "messages" /\ messagesWireTerminal(f.data)

(* An `updates' chunk without an interrupt, a `messages' chunk without text. *)
ShouldDropStreamChunkEarly(f) ==
  \/ f.mode = "updates" /\ f.data # "interrupt"
  \/ f.mode = "messages" /\ f.data = "empty"

=============================================================================
