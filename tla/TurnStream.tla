----------------------------- MODULE TurnStream -----------------------------
(***************************************************************************)
(* How TurnRunner.runTurn reads the event stream of a pooled connection    *)
(* (src/appkit/turn_runner.go, turn_boundary.go, turn_lifecycle_gate.go,   *)
(* src/turn_boundary.go): consecutive turns share one channel, so what the *)
(* daemon still has to say about one turn meets the next one.              *)
(*                                                                         *)
(* A frame is what Feed and the classifier tell apart:                     *)
(*   running, idle, stopped    status frames                               *)
(*   end                       stream.end with scope turn                  *)
(*   progress                  a chunk with reply text, not yet            *)
(*                             deliverable                                 *)
(*   deliverable               a chunk that completes the turn by phase    *)
(*   other                     an event that is neither progress nor end   *)
(***************************************************************************)
EXTENDS TurnSequence

Chunks == {"progress", "deliverable", "other"}
Frames == [kind : Chunks \cup {"running", "idle", "stopped", "end"}, gen : Gens]

ASSUME StreamAssumption ==
  MaxTurns \in Nat /\ MaxChunks \in Nat

(* pc: "idle", "send" or "stream" of runTurn.  result: the outcome, the turn  *)
(* whose frame ended it, the turns whose text it has.  chunks: their number, *)
(* and whether one was progress.                                             *)
VARIABLES
  armed,      \* runTurn's armed
  gate,       \* the turn's TurnLifecycleGate
  content,    \* the turns whose text is in assistantContent
  eventCh,    \* conn.eventCh
  mute,       \* history: turns closed without a progress chunk
  late        \* history: turns with a chunk sent after the client had left

runVars == <<turn, pc, armed, gate, content, result>>
daemonSide == <<inbox, query, phase, chunks, closed, mute, late>>
streamVars == <<runVars, daemonSide, eventCh>>

NewGate == [sawRunning |-> FALSE, sawTurnProgress |-> FALSE, expected |-> NoID]
NoOutcome == [how |-> "none", by |-> NoID, text |-> {}]

StreamTypeOK ==
  /\ turn \in 0 .. MaxTurns
  /\ pc \in {"idle", "send", "stream"}
  /\ armed \in BOOLEAN
  /\ gate \in [sawRunning : BOOLEAN, sawTurnProgress : BOOLEAN,
               expected : Gens \cup {NoID}]
  /\ content \subseteq Gens
  /\ eventCh \in Seq(Frames)
  /\ inbox \in Seq([kind : {"input", "cancel"}, gen : Gens])
  /\ query \in Gens \cup {NoID}
  /\ phase \in {"none", "admitted", "running", "closing"}
  /\ chunks \in [n : 0 .. MaxChunks, progress : BOOLEAN]
  /\ closed \subseteq Gens /\ mute \subseteq closed /\ late \subseteq Gens
  /\ result \in [Gens -> [how : {"none", "completed", "failed", "timeout", "cancelled"},
                          by : Gens \cup {NoID}, text : SUBSET Gens]]

StreamInit ==
  /\ turn = 0
  /\ pc = "idle"
  /\ armed = FALSE
  /\ gate = NewGate
  /\ content = {}
  /\ eventCh = <<>>
  /\ inbox = <<>>
  /\ query = NoID
  /\ phase = "none"
  /\ chunks = [n |-> 0, progress |-> FALSE]
  /\ closed = {}
  /\ mute = {}
  /\ late = {}
  /\ result = [g \in Gens |-> NoOutcome]

-----------------------------------------------------------------------------
(* TurnLifecycleGate.Observe *)

(* IsTurnProgressChunk *)
IsProgressChunk(f) == f.kind \in {"progress", "deliverable"}

(* status=running with a turn_id that is not older binds the gate to it and  *)
(* forgets the progress of another turn.                                     *)
ObserveRunning(g, id) ==
  IF Binds(g.expected, id)
  THEN [sawRunning |-> TRUE, expected |-> id,
        sawTurnProgress |-> g.sawTurnProgress /\ g.expected \in {NoID, id}]
  ELSE [g EXCEPT !.sawRunning = TRUE]

(* Mutant of Observe: the gate stays with the first turn_id it saw. *)
ObserveFirst(g, f) ==
  CASE f.kind = "running" ->
         IF g.expected = NoID THEN ObserveRunning(g, f.gen)
                              ELSE [g EXCEPT !.sawRunning = TRUE]
    [] IsProgressChunk(f) -> [g EXCEPT !.sawTurnProgress = TRUE]
    [] OTHER -> g

Observe(g, f) ==
  CASE f.kind = "running"     -> ObserveRunning(g, f.gen)
    [] IsProgressChunk(f) -> [g EXCEPT !.sawTurnProgress = TRUE]
    [] OTHER                  -> g

(* TurnBoundary.Feed: does frame f end the turn of a gate that observed it? *)
(* cancellationSeen is never set in appkit.                                  *)
Ends(g, f) ==
  \/ /\ f.kind = "stopped" /\ g.sawRunning
     /\ g.expected # NoID => TurnIDsMatch(g.expected, f.gen)
  \/ /\ f.kind = "idle"
     /\ IsIdleTerminalAllowed(g.expected, f.gen, g.sawRunning, g.sawTurnProgress,
                              FALSE)
  \/ /\ f.kind = "end"
     /\ IsTurnTerminalAllowed(g.expected, f.gen, g.sawRunning, g.sawTurnProgress)

(* Mutant of isStaleTurnEndEvent: nothing is stale. *)
StaleNothing(f) == f.kind = "none"

isStaleTurnEndEvent(f) == f.kind \in {"idle", "stopped", "end"}

-----------------------------------------------------------------------------
(* runTurn *)

(* A turn begins: what is in the channel is dropped. *)
Drain ==
  /\ pc = "idle" /\ turn < MaxTurns
  /\ turn' = turn + 1
  /\ pc' = "send"
  /\ eventCh' = <<>>
  /\ UNCHANGED <<armed, gate, content, result, daemonSide>>

(* Mutant of SendInput: the text of the last turn is kept. *)
SendInputKeepsText ==
  /\ pc = "send"
  /\ inbox' = Append(inbox, [kind |-> "input", gen |-> turn])
  /\ pc' = "stream"
  /\ armed' = FALSE
  /\ gate' = NewGate
  /\ UNCHANGED <<turn, content, eventCh, result, query, phase, chunks, closed,
                 mute, late>>

(* SendMessage; a fresh TurnBoundary *)
SendInput ==
  /\ pc = "send"
  /\ inbox' = Append(inbox, [kind |-> "input", gen |-> turn])
  /\ pc' = "stream"
  /\ armed' = FALSE
  /\ gate' = NewGate
  /\ content' = {}
  /\ UNCHANGED <<turn, eventCh, result, query, phase, chunks, closed,
                 mute, late>>

(* The turn returns; the deferred drain empties the channel. *)
ReturnTurn(how, by, text) ==
  /\ result' = [result EXCEPT ![turn] = [how |-> how, by |-> by, text |-> text]]
  /\ pc' = "idle"
  /\ eventCh' = <<>>

(* The next frame of the channel *)
NextEvent == Head(eventCh)
Streaming == pc = "stream" /\ eventCh # <<>>

(* Not armed: an end marker is discarded. *)
DiscardStale ==
  /\ Streaming /\ ~armed
  /\ isStaleTurnEndEvent(NextEvent)
  /\ eventCh' = Tail(eventCh)
  /\ UNCHANGED <<runVars, daemonSide>>

(* Not armed: running binds the boundary and does not arm. *)
TrackRunning ==
  /\ Streaming /\ ~armed
  /\ NextEvent.kind = "running"
  /\ gate' = Observe(gate, NextEvent)
  /\ eventCh' = Tail(eventCh)
  /\ UNCHANGED <<turn, pc, armed, content, result, daemonSide>>

(* The frame is one for this turn: any when armed; a chunk, or what the two *)
(* tests above let through, arms.                                           *)
ForTurn ==
  /\ Streaming
  /\ ~armed => ~isStaleTurnEndEvent(NextEvent) /\ NextEvent.kind # "running"
Observed == Observe(gate, NextEvent)
Text == IF IsProgressChunk(NextEvent) THEN content \cup {NextEvent.gen} ELSE content

(* Phase early-complete *)
EarlyComplete ==
  /\ ForTurn /\ NextEvent.kind = "deliverable"
  /\ ReturnTurn("completed", NextEvent.gen, Text)
  /\ armed' = TRUE /\ gate' = Observed /\ content' = Text
  /\ UNCHANGED <<turn, daemonSide>>

(* The boundary ends the turn: with a reply it completes, else it fails. *)
BoundaryEnds ==
  /\ ForTurn /\ Ends(Observed, NextEvent)
  /\ ReturnTurn(IF Text # {} THEN "completed" ELSE "failed", NextEvent.gen, Text)
  /\ armed' = TRUE /\ gate' = Observed /\ content' = Text
  /\ UNCHANGED <<turn, daemonSide>>

(* The frame is consumed and the turn goes on. *)
ConsumeEvent ==
  /\ ForTurn /\ NextEvent.kind # "deliverable" /\ ~Ends(Observed, NextEvent)
  /\ armed' = TRUE /\ gate' = Observed /\ content' = Text
  /\ eventCh' = Tail(eventCh)
  /\ UNCHANGED <<turn, pc, result, daemonSide>>

(* The classifier reports a failed event: the turn fails on it. *)
EventFails ==
  /\ ForTurn /\ NextEvent.kind = "other"
  /\ ReturnTurn("failed", NextEvent.gen, content)
  /\ armed' = TRUE /\ gate' = Observed
  /\ UNCHANGED <<turn, content, daemonSide>>

(* QueryTimeout or IdleTimeout: sendLoopCancel, then the timeout policy *)
Timeout ==
  /\ pc = "stream"
  /\ inbox' = Append(inbox, [kind |-> "cancel", gen |-> turn])
  /\ ReturnTurn("timeout", NoID, content)
  /\ UNCHANGED <<turn, armed, gate, content, query, phase, chunks, closed,
                 mute, late>>

(* QueryGate.Cancel: the daemon is told, then the context is cancelled. *)
Cancel ==
  /\ pc = "stream"
  /\ inbox' = Append(inbox, [kind |-> "cancel", gen |-> turn])
  /\ ReturnTurn("cancelled", NoID, content)
  /\ UNCHANGED <<turn, armed, gate, content, query, phase, chunks, closed,
                 mute, late>>

-----------------------------------------------------------------------------
(* The daemon, as far as the client relies on it: it works on one query at a *)
(* time, announces it, sends chunks, and closes with stream.end and idle, or *)
(* with stopped after a cancel.                                              *)

EmitFrame(kind) == eventCh' = Append(eventCh, [kind |-> kind, gen |-> query])

Admit ==
  /\ inbox # <<>> /\ Head(inbox).kind = "input" /\ query = NoID
  /\ query' = Head(inbox).gen
  /\ inbox' = Tail(inbox)
  /\ phase' = "admitted"
  /\ chunks' = [n |-> 0, progress |-> FALSE]
  /\ UNCHANGED <<runVars, eventCh, closed, mute, late>>

EmitRunning ==
  /\ phase = "admitted"
  /\ phase' = "running"
  /\ EmitFrame("running")
  /\ UNCHANGED <<runVars, inbox, query, chunks, closed, mute, late>>

EmitChunk(kind) ==
  /\ phase = "running" /\ chunks.n < MaxChunks
  /\ chunks' = [n |-> chunks.n + 1, progress |-> chunks.progress \/ kind # "other"]
  /\ late' = IF query = turn /\ pc = "stream" THEN late ELSE late \cup {query}
  /\ EmitFrame(kind)
  /\ UNCHANGED <<runVars, inbox, query, phase, closed, mute>>

EmitEnd ==
  /\ phase = "running"
  /\ phase' = "closing"
  /\ EmitFrame("end")
  /\ UNCHANGED <<runVars, inbox, query, chunks, closed, mute, late>>

EmitIdle ==
  /\ phase = "closing"
  /\ EmitFrame("idle")
  /\ phase' = "none" /\ query' = NoID
  /\ closed' = closed \cup {query}
  /\ mute' = IF chunks.progress THEN mute ELSE mute \cup {query}
  /\ UNCHANGED <<runVars, inbox, chunks, late>>

(* A cancel is read: the loop stops what it runs. *)
EmitStopped ==
  /\ inbox # <<>> /\ Head(inbox).kind = "cancel"
  /\ inbox' = Tail(inbox)
  /\ phase' = "none" /\ query' = NoID
  /\ IF query = NoID THEN UNCHANGED <<eventCh, closed>>
                     ELSE EmitFrame("stopped") /\ closed' = closed \cup {query}
  /\ UNCHANGED <<runVars, chunks, mute, late>>

-----------------------------------------------------------------------------
ReadStep ==
  DiscardStale \/ TrackRunning \/ EarlyComplete \/ BoundaryEnds \/ ConsumeEvent

DaemonStep ==
  \/ Admit \/ EmitRunning \/ EmitEnd \/ EmitIdle \/ EmitStopped
  \/ \E kind \in Chunks : EmitChunk(kind)

StreamNext ==
  \/ Drain \/ SendInput \/ ReadStep \/ EventFails \/ Timeout \/ Cancel
  \/ DaemonStep

(* runTurn reads its channel; nothing is owed by the timers or the daemon. *)
StreamFairness == WF_streamVars(ReadStep) /\ WF_streamVars(SendInput)

StreamSpec == StreamInit /\ [][StreamNext]_streamVars
StreamLiveSpec == StreamSpec /\ StreamFairness

-----------------------------------------------------------------------------
(* Leftover end markers of an earlier turn never end a turn: whatever ends  *)
(* it is a frame about that turn, unless a chunk of an earlier turn came    *)
(* after the client had left it.  (runTurn's armed flag and the turn_id of  *)
(* TurnBoundary are there for it.)                                          *)
EndsOnOwnFrame ==
  \A g \in Gens : result[g].by \in {NoID, g} \/ \E h \in late : h < g

(* "Drop leftovers from a prior turn (or early-complete) before send": the  *)
(* reply a turn persists and broadcasts holds no text of another turn,      *)
(* but for chunks the daemon sent after the client had left that turn.      *)
ReplyIsOwn ==
  \A g \in Gens : result[g].how = "completed" => result[g].text \subseteq {g} \cup late

(* "Daemon turn closed with no usable reply -- fail rather than hang until  *)
(* QueryTimeout": when the daemon has closed the turn, the turn ends on     *)
(* what is in the channel, without its timers, provided that there was some *)
(* progress in it.                                                          *)
ClosedTurnEnds ==
  \A g \in Gens : g \in closed \ mute /\ turn = g ~> result[g].how # "none"

=============================================================================
