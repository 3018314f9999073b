---------------------------- MODULE MCTurnOutput ----------------------------
(* Instances of TurnOutput for TLC. *)
EXTENDS TurnOutput, TLC

CONSTANTS t1, t2, k1, k2, c1, c2

MCKeyOf == (t1 :> k1) @@ (t2 :> k1)

Msg(type, mode, has, mtype, phase, text, ends) ==
  [type |-> type, mode |-> mode, has |-> has, mtype |-> mtype, phase |-> phase,
   text |-> text, ends |-> ends]

a == "a"
b == "b"
Quiz == "quiz"

Chunk(text) == Msg("event", "messages", {}, "chunk", NoPhase, text, FALSE)
Message(phase, text) == Msg("event", "messages", {}, "ai", phase, text, FALSE)
Data(has, text) == Msg("event", "custom", has, "other", NoPhase, text, FALSE)
Status(state, ends) == Msg("status", state, {}, "other", NoPhase, <<>>, ends)

MCMessages ==
  { Chunk(<<a>>), Chunk(<<a, b>>), Message(Quiz, <<a, b, Blank>>), Message(Quiz, <<b>>),
    Message(NoPhase, <<b, Blank>>), Message("plan_direct", <<b, Blank>>),
    Data({"step"}, <<a>>), Data({"output", Quiz}, <<a, b>>),
    Data({"output", "final_report", "reported"}, <<b, a>>),
    Data({"error"}, <<>>), Data({"stream", "turn_end"}, <<>>),
    [Data({"stream", "turn_end"}, <<>>) EXCEPT !.ends = TRUE],
    Status("idle", TRUE), Status("idle", FALSE),
    Msg("envelope", "error", {}, "other", NoPhase, <<>>, FALSE) }

Scene(turns, chans, messages, n, soft, treatIdle) ==
  [turns |-> turns, chans |-> chans, messages |-> messages, frames |-> n,
   soft |-> soft, treatIdle |-> treatIdle]

\* One turn and every message; two turns that share the subscribers.
MCScenes ==
  {Scene({t1}, {}, MCMessages, 3, {}, FALSE), Scene({t1}, {}, MCMessages, 3, Causes, FALSE),
   Scene({t1}, {}, MCMessages, 3, {}, TRUE)}
  \cup {Scene({t1, t2}, {c1, c2}, {Message(Quiz, <<a, b, Blank>>)}, 1, {}, FALSE)}
=============================================================================
