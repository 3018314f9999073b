----------------------------- MODULE DaemonTurn -----------------------------
(***************************************************************************)
(* DaemonSession.SendTurn and IterTurnChunks (src/appkit/                  *)
(* daemon_session.go): one turn after the other on the stream socket of a  *)
(* session.  IterTurnChunks peels leftovers, reads until the turn ends,    *)
(* and drains for a while; between turns the application may call          *)
(* EnsureConnected or Connect.                                             *)
(*                                                                         *)
(* The peel and the drain read with a deadline.  A read that passes its    *)
(* deadline makes every later read of that socket fail: it is "poisoned".  *)
(* Frames are those of WireFrames, with the number id of the frame on the  *)
(* wire; one frame per payload.                                            *)
(***************************************************************************)
EXTENDS WireFrames, TurnSequence

CONSTANTS
  Loop,       \* the session's loop
  Foreign,    \* another loop of the client
  ChunkKinds, \* per place in a turn, the events it may have: mode, data, and wrapped
  Controls,   \* control frames the daemon sends: "ping", "disconnect"
  PeelReads,  \* frames a peel reads at most
  MaxFaults   \* bound: cancels, foreign frames, errors, losses

ASSUME DaemonTurnAssumption ==
  /\ NoLoop \notin {Loop, Foreign} /\ Loop # Foreign
  /\ PeelReads \in Nat /\ MaxTurns \in Nat /\ MaxChunks \in Nat /\ MaxFaults \in Nat
  /\ DOMAIN ChunkKinds = 1 .. MaxChunks

(* pc: where IterTurnChunks is.  result: the error, the end state, and the   *)
(* turn of the frame that ended the turn.  chunks: their number.             *)
VARIABLES
  ctxDone,    \* its context is cancelled, or maxWait has passed
  peels,      \* reads left to PeelStalePendingControlEvents
  it,         \* its locals, and the LastTurn... fields of the session
  drains,     \* frames drainAfterIdle has read
  sock,       \* the stream socket: "open", "closed" or "poisoned"
  alive,      \* client.IsConnectionAlive()
  pending,    \* client.pendingEvents
  wire,       \* frames the client has not read
  sent,       \* frames sent so far
  faults,     \* faults so far
  out,        \* history: frames yielded, by turn
  log,        \* history: per turn, the chunks sent about it
  haunted     \* history: turns sent while frames of a turn left early may come

iterVars == <<turn, pc, ctxDone, peels, it, drains, out, result>>
sockVars == <<sock, alive, pending, wire>>
daemonVars == <<sent, inbox, query, phase, chunks, log, closed>>
vars == <<iterVars, sockVars, daemonVars, faults, haunted>>

NewIter == [queryStarted |-> FALSE, expected |-> NoID, progress |-> FALSE,
            cancelSeen |-> FALSE, endState |-> ""]
NoResult == [err |-> "none", endState |-> "", by |-> NoID]

Ended == {"idle", "stopped", "stream_end", "completed"}
EndStates == Ended \cup {"", "connection_lost"}
Errors == {"none", "nil", "ctx", "read", "lost", "daemon"}

TypeOK ==
  /\ turn \in 0 .. MaxTurns
  /\ pc \in {"idle", "start", "peel", "top", "read", "drain"}
  /\ ctxDone \in BOOLEAN /\ alive \in BOOLEAN
  /\ peels \in 0 .. PeelReads
  /\ it \in [queryStarted : BOOLEAN, expected : Gens \cup {NoID}, progress : BOOLEAN,
             cancelSeen : BOOLEAN, endState : EndStates]
  /\ sock \in {"open", "closed", "poisoned"}
  /\ \A s \in {wire, pending} : \A i \in DOMAIN s : s[i].id \in 1 .. sent
  /\ query \in Gens \cup {NoID}
  /\ phase \in {"none", "admitted", "running", "closing"}
  /\ chunks \in 0 .. MaxChunks /\ faults \in 0 .. MaxFaults
  /\ closed \subseteq Gens /\ haunted \subseteq Gens
  /\ result \in [Gens -> [err : Errors, endState : EndStates, by : Gens \cup {NoID}]]

(* A session after Connect *)
Init ==
  /\ turn = 0 /\ pc = "idle" /\ ctxDone = FALSE /\ peels = 0 /\ drains = 0
  /\ it = NewIter
  /\ sock = "open" /\ alive = TRUE /\ pending = <<>> /\ wire = <<>>
  /\ sent = 0 /\ inbox = <<>> /\ query = NoID /\ phase = "none" /\ chunks = 0
  /\ faults = 0
  /\ out = [g \in Gens |-> <<>>]
  /\ log = [g \in Gens |-> <<>>]
  /\ closed = {} /\ haunted = {}
  /\ result = [g \in Gens |-> NoResult]

-----------------------------------------------------------------------------
(* Between turns *)

(* IterTurnChunks has returned before the turn ended. *)
LeftEarly(g) == result[g].err # "none" /\ result[g].endState \notin Ended

(* SendTurn, then IterTurnChunks.  What is written to a socket whose peer is *)
(* gone is lost.  A write that fails ends the session (module Client).       *)
SendTurn ==
  /\ pc = "idle" /\ turn < MaxTurns
  /\ turn' = turn + 1
  /\ pc' = "start"
  /\ ctxDone' = FALSE
  /\ inbox' = IF sock = "closed" THEN inbox ELSE Append(inbox, turn')
  /\ haunted' = IF /\ \E h \in 1 .. turn : LeftEarly(h)
                   /\ query # NoID \/ inbox # <<>> \/ wire # <<>> \/ pending # <<>>
                  THEN haunted \cup {turn'} ELSE haunted
  /\ UNCHANGED <<peels, it, drains, out, result, sockVars, sent, query, phase,
                 chunks, log, closed, faults>>

(* A fresh socket, with the loop subscribed; the inbox of the daemon stays. *)
FreshSocket ==
  /\ sock' = "open" /\ alive' = TRUE /\ pending' = <<>> /\ wire' = <<>>

(* EnsureConnected does something only when the drop signal has fired. *)
EnsureConnected ==
  /\ pc = "idle"
  /\ IF alive THEN UNCHANGED sockVars ELSE FreshSocket
  /\ UNCHANGED <<iterVars, daemonVars, faults>>

(* Connect once more: the way out when a turn failed. *)
Connect ==
  /\ pc = "idle" /\ turn > 0 /\ result[turn].err # "nil"
  /\ FreshSocket
  /\ UNCHANGED <<iterVars, daemonVars, faults>>

-----------------------------------------------------------------------------
(* ReadEvent: the pending queue first, then the socket *)

Control ==
  pending = <<>> /\ wire # <<>> /\ sock # "poisoned" /\ Head(wire).type \in Controls
HasFrame == pending # <<>> \/ (wire # <<>> /\ sock # "poisoned" /\ ~Control)
Frame == IF pending # <<>> THEN Head(pending) ELSE DecodeMessage(Head(wire))
Consume ==
  IF pending # <<>> THEN pending' = Tail(pending) /\ UNCHANGED <<sock, alive, wire>>
                    ELSE wire' = Tail(wire) /\ UNCHANGED <<sock, alive, pending>>

(* The read waits: nothing is there, and the socket is open. *)
Waits == pending = <<>> /\ wire = <<>> /\ sock = "open"
(* It fails with the timeout of an earlier read. *)
Poisoned == pending = <<>> /\ sock = "poisoned"
(* It returns nil, nil: the peer is gone, or the frame was a control frame,  *)
(* which isControlFrame consumes.                                            *)
NilRead == Control \/ (pending = <<>> /\ wire = <<>> /\ sock = "closed")
ReadNil ==
  /\ NilRead
  /\ wire' = IF Control THEN Tail(wire) ELSE wire
  /\ alive' = (alive /\ ~(Control /\ Head(wire).type = "disconnect"))

Goto(to) == pc' = to

Return(err, s) ==
  /\ Goto("idle")
  /\ result' = [result EXCEPT ![turn] = [@ EXCEPT !.err = err, !.endState = s]]

-----------------------------------------------------------------------------
(* PeelStalePendingControlEvents *)

IterStart ==
  /\ pc = "start"
  /\ it' = NewIter
  /\ drains' = 0
  /\ \E n \in 0 .. Len(pending) : \E kept \in [1 .. n -> DOMAIN pending] :
       /\ FreshAt(pending, kept)
       /\ pending' = [i \in 1 .. n |-> pending[kept[i]]]
  /\ peels' = PeelReads
  /\ Goto("peel")
  /\ UNCHANGED <<turn, ctxDone, out, result, sock, alive, wire, daemonVars, faults>>

(* Mutant of PeelFrame: a frame it puts back was only looked at. *)
PeelFrameKeeps ==
  /\ pc = "peel" /\ peels > 0 /\ HasFrame
  /\ IF IsStalePending(Frame)
       THEN Consume /\ peels' = peels - 1 /\ UNCHANGED pc
       ELSE /\ pending' = Append(pending, Frame)
            /\ Goto("top")
            /\ UNCHANGED <<peels, sock, alive, wire>>
  /\ UNCHANGED <<turn, ctxDone, it, drains, out, result, daemonVars, faults>>

(* A leftover is dropped; another frame goes to the end of the queue. *)
PeelFrame ==
  /\ pc = "peel" /\ peels > 0 /\ HasFrame
  /\ IF IsStalePending(Frame)
       THEN Consume /\ peels' = peels - 1 /\ UNCHANGED pc
       ELSE /\ pending' = Append(IF pending # <<>> THEN Tail(pending) ELSE <<>>, Frame)
            /\ wire' = IF pending # <<>> THEN wire ELSE Tail(wire)
            /\ Goto("top")
            /\ UNCHANGED <<peels, sock, alive>>
  /\ UNCHANGED <<turn, ctxDone, it, drains, out, result, daemonVars, faults>>

(* 5 ms without a frame *)
PeelTimeout ==
  /\ pc = "peel" /\ peels > 0 /\ Waits
  /\ sock' = "poisoned"
  /\ Goto("top")
  /\ UNCHANGED <<turn, ctxDone, peels, it, drains, out, result, alive, pending,
                 wire, daemonVars, faults>>

(* A read that fails or returns nil, or eight frames peeled *)
PeelEnds ==
  /\ pc = "peel"
  /\ \/ peels > 0 /\ ReadNil
     \/ (peels = 0 \/ Poisoned) /\ UNCHANGED <<wire, alive>>
  /\ Goto("top")
  /\ UNCHANGED <<turn, ctxDone, peels, it, drains, out, result, sock, pending,
                 daemonVars, faults>>

-----------------------------------------------------------------------------
(* The loop of iterTurnChunksLocked *)

(* ctx and maxWait are looked at between two reads only. *)
Top ==
  /\ pc = "top"
  /\ IF ctxDone THEN Return("ctx", "") ELSE Goto("read") /\ UNCHANGED result
  /\ UNCHANGED <<turn, ctxDone, peels, it, drains, out, sockVars, daemonVars, faults>>

Taken == pc = "read" /\ HasFrame

(* Mutant of Mismatch: the loop_id of a frame is not looked at. *)
MismatchTurnOnly(f) ==
  /\ it.expected # NoID /\ f.type \in {"event", "status"}
  /\ ~(f.type = "status" /\ f.data = "running")
  /\ ~TurnIDsMatch(it.expected, f.turn)

(* A frame of another loop, or of another turn once the turn is bound; a     *)
(* status that ends a turn passes without a turn_id.                         *)
Mismatch(f) ==
  \/ f.loop \notin {NoLoop, Loop}
  \/ /\ it.expected # NoID /\ f.type \in {"event", "status"}
     /\ ~(f.type = "status" /\ f.data = "running")
     /\ IF f.type = "status" /\ f.data \in {"idle", "stopped"}
          THEN f.turn \notin {NoID, it.expected}
          ELSE ~TurnIDsMatch(it.expected, f.turn)

(* The frame ends the turn. *)
EndsTurn(f) ==
  \/ /\ f.type = "status" /\ it.queryStarted
     /\ \/ /\ f.data = "stopped"
           /\ it.expected # NoID => TurnIDsMatch(it.expected, f.turn)
        \/ /\ f.data = "idle"
           /\ IsIdleTerminalAllowed(it.expected, f.turn, it.queryStarted,
                                    it.progress, it.cancelSeen)
  \/ /\ f.type = "event" /\ f.mode = "custom" /\ IsTurnEndCustomData(f.data)
     /\ IsTurnTerminalAllowed(it.expected, f.turn, it.queryStarted, it.progress)

IsTurnEnd(f) == f.type = "event" /\ f.mode = "custom" /\ IsTurnEndCustomData(f.data)

(* The loop goes on without it. *)
Ignored(f) ==
  \/ Mismatch(f)
  \/ f.type \notin {"error", "status", "command_response", "event"}
  \/ f.type = "status" /\ f.data # "running" /\ ~EndsTurn(f)
  \/ f.type = "event" /\ (ShouldDropStreamChunkEarly(f) \/ (IsTurnEnd(f) /\ ~EndsTurn(f)))

Yield(f) == out' = [out EXCEPT ![turn] = Append(@, f)]

ReadIgnored ==
  /\ Taken /\ Ignored(Frame)
  /\ Consume
  /\ Goto("top")
  /\ UNCHANGED <<turn, ctxDone, peels, it, drains, out, result, daemonVars, faults>>

(* status=running binds the turn_id, unless it is older, and forgets the     *)
(* progress of another turn.                                                 *)
ReadRunning ==
  /\ Taken /\ ~Ignored(Frame) /\ Frame.type = "status" /\ Frame.data = "running"
  /\ Consume
  /\ it' = IF Binds(it.expected, Frame.turn)
             THEN [it EXCEPT !.queryStarted = TRUE, !.expected = Frame.turn,
                             !.progress = @ /\ it.expected \in {NoID, Frame.turn}]
             ELSE [it EXCEPT !.queryStarted = TRUE]
  /\ Goto("top")
  /\ UNCHANGED <<turn, ctxDone, peels, drains, out, result, daemonVars, faults>>

ReadError ==
  /\ Taken /\ ~Ignored(Frame) /\ Frame.type = "error"
  /\ Consume
  /\ Return("daemon", "")
  /\ UNCHANGED <<turn, ctxDone, peels, it, drains, out, daemonVars, faults>>

(* command_response: "Cancellation requested" *)
ReadCancelled ==
  /\ Taken /\ ~Ignored(Frame) /\ Frame.type = "command_response"
  /\ Consume
  /\ it' = [it EXCEPT !.cancelSeen = TRUE]
  /\ Goto("top")
  /\ UNCHANGED <<turn, ctxDone, peels, drains, out, result, daemonVars, faults>>

ReadChunk ==
  /\ Taken /\ ~Ignored(Frame) /\ Frame.type = "event" /\ ~IsTurnEnd(Frame)
  /\ Consume
  /\ it' = [it EXCEPT !.progress = @ \/ IsTurnProgressChunk(Frame.mode, Frame.data)]
  /\ Yield(Frame)
  /\ Goto("top")
  /\ UNCHANGED <<turn, ctxDone, peels, drains, result, daemonVars, faults>>

(* The channel is full and the context is done. *)
YieldCancelled ==
  /\ Taken /\ ~Ignored(Frame) /\ Frame.type = "event" /\ ctxDone
  /\ Consume
  /\ Return("ctx", "")
  /\ UNCHANGED <<turn, ctxDone, peels, it, drains, out, daemonVars, faults>>

(* stopped, idle, or the end of the stream, which is yielded: then the drain *)
ReadEnd ==
  /\ Taken /\ ~Ignored(Frame) /\ EndsTurn(Frame)
  /\ Consume
  /\ it' = [it EXCEPT !.endState =
              CASE ~IsTurnEnd(Frame) -> Frame.data
                [] Frame.data = "stream.end" -> "stream_end"
                [] OTHER -> "completed"]
  /\ IF IsTurnEnd(Frame) THEN Yield(Frame) ELSE UNCHANGED out
  /\ result' = [result EXCEPT ![turn].by = Frame.turn]
  /\ Goto("drain")
  /\ UNCHANGED <<turn, ctxDone, peels, drains, daemonVars, faults>>

(* Mutant of ReadPoisoned: a read that timed out is taken for a clean close. *)
ReadPoisonedNil ==
  /\ pc = "read" /\ Poisoned
  /\ Return("nil", "")
  /\ UNCHANGED <<turn, ctxDone, peels, it, drains, out, sockVars, daemonVars, faults>>

(* Mutant of ReadNothing: a nil event is no reason to return. *)
ReadNothingSkips ==
  /\ pc = "read" /\ ReadNil
  /\ Goto("top")
  /\ UNCHANGED <<turn, ctxDone, peels, it, drains, out, result, sock, pending,
                 daemonVars, faults>>

(* A nil event: an error only when the drop signal has fired. *)
ReadNothing ==
  /\ pc = "read" /\ ReadNil
  /\ IF it.queryStarted /\ ~alive' THEN Return("lost", "connection_lost")
                                   ELSE Return("nil", "")
  /\ UNCHANGED <<turn, ctxDone, peels, it, drains, out, sock, pending, daemonVars,
                 faults>>

ReadPoisoned ==
  /\ pc = "read" /\ Poisoned
  /\ Return("read", "")
  /\ UNCHANGED <<turn, ctxDone, peels, it, drains, out, sockVars, daemonVars, faults>>

-----------------------------------------------------------------------------
(* drainAfterIdle *)

DrainFrame ==
  /\ pc = "drain" /\ HasFrame
  /\ Consume
  /\ drains' = drains + 1
  /\ IF Frame.type = "event" /\ Frame.loop \in {NoLoop, Loop}
          /\ ~ShouldDropStreamChunkEarly(Frame)
       THEN Yield(Frame) ELSE UNCHANGED out
  /\ IF Frame.type = "error" THEN Return("nil", it.endState)
                             ELSE UNCHANGED <<pc, result>>
  /\ UNCHANGED <<turn, ctxDone, peels, it, daemonVars, faults>>

(* 250 ms without a frame *)
DrainTimeout ==
  /\ pc = "drain" /\ Waits
  /\ sock' = "poisoned"
  /\ Return("nil", it.endState)
  /\ UNCHANGED <<turn, ctxDone, peels, it, drains, out, alive, pending, wire,
                 daemonVars, faults>>

(* The read fails or returns nil; postIdleDrain has passed; ctx is done. *)
DrainEnds ==
  /\ pc = "drain"
  /\ \/ ReadNil
     \/ (Poisoned \/ drains > 0 \/ ctxDone) /\ UNCHANGED <<wire, alive>>
  /\ Return("nil", it.endState)
  /\ UNCHANGED <<turn, ctxDone, peels, it, drains, out, sock, pending, daemonVars,
                 faults>>

-----------------------------------------------------------------------------
(* The daemon, the network and the application's cancels *)

(* A frame about the loop: it is lost when the socket is not open. *)
Sent(type, mode, data, loop, gen, wrapped) ==
  [type |-> type, mode |-> mode, data |-> data, loop |-> loop, turn |-> gen,
   wrapped |-> wrapped, id |-> sent + 1]
Emit(f) ==
  /\ sent' = sent + 1
  /\ wire' = IF sock = "open" THEN Append(wire, f) ELSE wire
  /\ UNCHANGED <<sock, alive, pending>>
Status(data, gen) == Sent("status", "", data, Loop, gen, FALSE)

Fault == faults < MaxFaults /\ faults' = faults + 1

CancelTurn == -1

DaemonAdmits ==
  /\ inbox # <<>> /\ Head(inbox) # CancelTurn /\ query = NoID
  /\ query' = Head(inbox) /\ inbox' = Tail(inbox)
  /\ phase' = "admitted" /\ chunks' = 0
  /\ UNCHANGED <<iterVars, sockVars, sent, log, closed, faults>>

DaemonRuns ==
  /\ phase = "admitted"
  /\ Emit(Status("running", query))
  /\ phase' = "running"
  /\ UNCHANGED <<iterVars, inbox, query, chunks, log, closed, faults>>

DaemonChunk(k) ==
  /\ phase = "running"
  /\ Emit(Sent("event", k.mode, k.data, Loop, query, k.wrapped))
  /\ chunks' = chunks + 1
  /\ log' = [log EXCEPT ![query] = Append(@, [id |-> sent', mode |-> k.mode, data |-> k.data])]
  /\ UNCHANGED <<iterVars, inbox, query, phase, closed, faults>>

DaemonEnds ==
  /\ phase = "running"
  /\ \E d \in {"stream.end", "loop.completed"} :
       Emit(Sent("event", "custom", d, Loop, query, FALSE))
  /\ phase' = "closing"
  /\ UNCHANGED <<iterVars, inbox, query, chunks, log, closed, faults>>

DaemonIdles ==
  /\ phase = "closing"
  /\ Emit(Status("idle", query))
  /\ phase' = "none" /\ query' = NoID
  /\ closed' = closed \cup {query}
  /\ UNCHANGED <<iterVars, inbox, chunks, log, faults>>

(* A cancel is read: a reply, then stopped with the turn_id, or idle without *)
DaemonCancels ==
  /\ inbox # <<>> /\ Head(inbox) = CancelTurn
  /\ inbox' = Tail(inbox)
  /\ phase' = "none" /\ query' = NoID
  /\ \E gen \in {query, NoID} :
       LET reply == Sent("command_response", "", "cancel", NoLoop, NoID, FALSE)
           last  == IF gen = NoID THEN Status("idle", NoID) ELSE Status("stopped", gen)
       IN  wire' = IF sock = "open" THEN wire \o <<reply, [last EXCEPT !.id = sent + 2]>>
                                    ELSE wire
  /\ sent' = sent + 2
  /\ closed' = closed \cup ({query} \ {NoID})
  /\ UNCHANGED <<iterVars, sock, alive, pending, chunks, log, faults>>

DaemonNoise ==
  /\ Fault
  /\ \E f \in {Sent("status", "", "idle", Foreign, NoID, FALSE),
               Sent("event", "messages", "text", Foreign, NoID, FALSE),
               Sent("error", "", "", NoLoop, NoID, FALSE)}
            \cup {Sent(c, "", "", NoLoop, NoID, FALSE) : c \in Controls} : Emit(f)
  /\ UNCHANGED <<iterVars, inbox, query, phase, chunks, log, closed>>

Break ==
  /\ Fault
  /\ sock = "open"
  /\ sock' = "closed"
  /\ wire' \in {wire, <<>>}
  /\ UNCHANGED <<iterVars, alive, pending, daemonVars>>

CancelActiveTurn ==
  /\ Fault
  /\ pc # "idle" /\ sock # "closed"
  /\ inbox' = Append(inbox, CancelTurn)
  /\ UNCHANGED <<iterVars, sockVars, sent, query, phase, chunks, log, closed>>

CtxDone ==
  /\ Fault
  /\ pc # "idle" /\ ~ctxDone
  /\ ctxDone' = TRUE
  /\ UNCHANGED <<turn, pc, peels, it, drains, out, result, sockVars, daemonVars>>

-----------------------------------------------------------------------------
IterStep ==
  \/ IterStart \/ PeelFrame \/ PeelTimeout \/ PeelEnds
  \/ Top \/ ReadIgnored \/ ReadRunning \/ ReadError \/ ReadCancelled
  \/ ReadChunk \/ ReadEnd \/ ReadNothing \/ ReadPoisoned
  \/ DrainFrame \/ DrainTimeout \/ DrainEnds

Daemon ==
  \/ DaemonAdmits \/ DaemonRuns \/ DaemonEnds \/ DaemonIdles \/ DaemonCancels
  \/ chunks < MaxChunks /\ \E k \in ChunkKinds[chunks + 1] : DaemonChunk(k)

Next ==
  \/ SendTurn
  \/ /\ UNCHANGED haunted
     /\ \/ EnsureConnected \/ Connect
        \/ IterStep \/ YieldCancelled
        \/ Daemon \/ DaemonNoise \/ Break \/ CancelActiveTurn \/ CtxDone

(* IterTurnChunks goes on where a read returns.  Nothing is owed by the      *)
(* daemon, the network or the application.                                   *)
Fairness == WF_vars(IterStep /\ UNCHANGED haunted)

Spec == Init /\ [][Next]_vars
LiveSpec == Spec /\ Fairness

-----------------------------------------------------------------------------
(* A chunk that counts as progress *)
Shown(f) == IsTurnProgressChunk(f.mode, f.data) /\ ~ShouldDropStreamChunkEarly(f)

(* The numbers of the chunks in s, and of those the filter lets through *)
ChunkIds(s) == {s[i].id : i \in {j \in DOMAIN s : ~IsTurnEnd(s[j])}}
PassedIds(s) == {s[i].id : i \in {j \in DOMAIN s : ~ShouldDropStreamChunkEarly(s[j])}}

(* Chunks reach the application in the order of the wire and once each, over *)
(* all turns: a frame the peel puts back is neither overtaken nor repeated.  *)
InWireOrder ==
  \A g, h \in Gens : \A i \in DOMAIN out[g], j \in DOMAIN out[h] :
    g < h \/ (g = h /\ i < j) => out[g][i].id < out[h][j].id

(* "streams turn chunks until idle/stopped/stream.end": a turn that returns  *)
(* with an end state was ended by a frame of its own, or by the idle without *)
(* turn_id that answers a cancel of it, and it has yielded exactly the       *)
(* chunks the daemon sent about it that the filter lets through (in the      *)
(* order of the wire and once each: InWireOrder).  Excepted is a turn sent   *)
(* while a turn that was left early may still be heard.                      *)
OwnTurnComplete ==
  \A g \in Gens \ haunted :
    result[g].err = "nil" /\ result[g].endState \in Ended
    => /\ result[g].by = g \/ (result[g].by = NoID /\ g \in closed)
       /\ ChunkIds(out[g]) = PassedIds(log[g])

(* IterTurnChunks returns without error and without an end state only when   *)
(* the daemon has gone: on an open socket, no error means an ended turn.     *)
SilentEnd ==
  [][\A g \in Gens :
       result[g].err = "none" /\ result'[g].err = "nil" /\ result'[g].endState = ""
         => sock = "closed" \/ ~alive']_vars

(* A turn that the daemon has closed after a progress chunk, or whose socket *)
(* is closed or poisoned, does not keep IterTurnChunks waiting for ever.     *)
IterReturns ==
  \A g \in Gens :
    ~<>[](/\ turn = g /\ pc # "idle"
          /\ sock # "open" \/ (g \in closed /\ \E i \in DOMAIN log[g] : Shown(log[g][i])))

=============================================================================
