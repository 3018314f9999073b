------------------------------- MODULE Client -------------------------------
(***************************************************************************)
(* soothe.Client (src/client.go): the life of a connection, the lock       *)
(* Client.mu, and the signal Disconnected() that a connection dropped.     *)
(*                                                                         *)
(* Goroutines: App connects, starts the readers, reconnects; the Closers   *)
(* call Close; the Senders call SendMessage (requests, notifications,      *)
(* delivery acks); reader r is the goroutine of the r-th ReceiveMessages.  *)
(* A critical section of mu that calls nothing is one step taken while mu  *)
(* is free; only SendMessage keeps mu over a call, and mu then holds its   *)
(* name.                                                                   *)
(*                                                                         *)
(* The n-th dial makes socket n and, when it is installed, signal channel  *)
(* n; channel 0 is the one NewClient made.  sync.Once is modelled with its *)
(* two fields, because Connect overwrites it in place.  Frames are reduced *)
(* to what the read loop does with them: forwarding is no step here.       *)
(***************************************************************************)
EXTENDS Integers, FiniteSets

CONSTANTS
  App,         \* the goroutine that connects
  Closers,     \* goroutines that call Close
  Senders,     \* goroutines that call SendMessage
  NoProc,      \* mu is free
  MaxConn,     \* bound: dials
  MaxSends,    \* bound: SendMessage and Close calls
  Scenes       \* the ways the client is used, one of which a behaviour takes:
               \*   dials    how often App connects
               \*   closers  who else closes
               \*   errors   a write to a broken socket may fail at once
               \*   wait     App reconnects only when its readers have ended

Conns == 1 .. MaxConn
Readers == Conns
Procs == {App} \cup Closers \cup Senders \cup Readers
NoConn == 0
Chans == 0 .. MaxConn
Causes == {"clean", "unclean"}

ASSUME ClientAssumption ==
  /\ MaxConn \in Nat /\ MaxSends \in Nat
  /\ Scenes \subseteq [dials : 0 .. MaxConn, closers : SUBSET Closers,
                      errors : BOOLEAN, wait : BOOLEAN]
  /\ NoProc \notin Procs
  /\ App \notin Closers \cup Senders \cup Readers
  /\ Closers \cap Senders = {}
  /\ Readers \cap (Closers \cup Senders) = {}

VARIABLES
  scene,         \* how the client is used
  mu,            \* holder of Client.mu
  conn,          \* c.conn: a socket or nil
  closed,        \* c.closed
  sock,          \* per socket: what the network made of it
  disconnCh,     \* c.disconnCh
  disconnCause,  \* c.disconnCause
  disconnected,  \* c.disconnected
  once,          \* c.disconnOnce: its done flag and its mutex
  chan,          \* per channel: the buffered cause, and closed
  readerActive,  \* c.readerActive
  pc,            \* per goroutine: where it is
  local,         \* per goroutine: its snapshot of c.conn or c.disconnCh
  cause,         \* per goroutine: argument of signalDisconnect
  ret,           \* per goroutine: where signalDisconnect returns to
  dials,         \* sockets dialled so far
  sends,         \* calls of SendMessage and Close so far
  goodbye,       \* history: sockets that delivered a `disconnect' frame
  failed,        \* history: sockets on which SendMessage met a write error
  crash          \* the runtime error that ended the program, or "none"

connVars == <<scene, conn, closed, sock, dials>>
sigVars == <<disconnCh, disconnCause, disconnected, once, chan, crash>>
procVars == <<pc, local, cause, ret>>
vars == <<mu, connVars, sigVars, procVars, readerActive, sends, goodbye, failed>>

SignalPCs == {"once", "cause", "flag", "fire", "leave"}
AppPCs == {"idle", "dial", "install", "init", "ack", "teardown", "receive",
           "hangup", "redial", "shut", "off"}
ReaderPCs == {"none", "snap", "read", "pong", "exit", "done"}
PCs == SignalPCs \cup AppPCs \cup ReaderPCs \cup {"unlock", "close"}

TypeOK ==
  /\ scene \in Scenes
  /\ mu \in Procs \cup {NoProc}
  /\ conn \in Conns \cup {NoConn}
  /\ closed \in BOOLEAN
  /\ sock \in [Conns -> {"none", "open", "broken"}]
  /\ disconnCh \in Chans
  /\ disconnCause \in Causes \cup {"zero"}
  /\ disconnected \in BOOLEAN
  /\ once \in [done : BOOLEAN, locked : BOOLEAN]
  /\ chan \in [Chans -> [buf : Causes \cup {"zero"}, closed : BOOLEAN]]
  /\ readerActive \in BOOLEAN
  /\ pc \in [Procs -> PCs]
  /\ local \in [Procs -> Chans]
  /\ cause \in [Procs -> Causes]
  /\ ret \in [Procs -> PCs]
  /\ dials \in 0 .. MaxConn
  /\ sends \in 0 .. MaxSends
  /\ goodbye \subseteq Conns
  /\ failed \subseteq Conns
  /\ crash \in {"none", "close of closed channel", "unlock of unlocked mutex"}

(* NewClient *)
Init ==
  /\ scene \in Scenes
  /\ mu = NoProc
  /\ conn = NoConn
  /\ closed = FALSE
  /\ sock = [s \in Conns |-> "none"]
  /\ disconnCh = 0
  /\ disconnCause = "zero"
  /\ disconnected = FALSE
  /\ once = [done |-> FALSE, locked |-> FALSE]
  /\ chan = [c \in Chans |-> [buf |-> "zero", closed |-> FALSE]]
  /\ readerActive = FALSE
  /\ pc = [p \in Procs |-> IF p \in Readers THEN "none" ELSE "idle"]
  /\ local = [p \in Procs |-> 0]
  /\ cause = [p \in Procs |-> "unclean"]
  /\ ret = [p \in Procs |-> "idle"]
  /\ dials = 0
  /\ sends = 0
  /\ goodbye = {}
  /\ failed = {}
  /\ crash = "none"

Goto(p, to) == pc' = [pc EXCEPT ![p] = to]

(* A runtime error ends the program. *)
Crash(why) ==
  /\ crash' = why
  /\ pc' = [p \in Procs |-> "off"]

(* c.conn != nil && !c.closed *)
IsConnected == conn # NoConn /\ ~closed

-----------------------------------------------------------------------------
(* signalDisconnect(why), continuing at `to' *)

Signal(p, why, to) ==
  /\ pc' = [pc EXCEPT ![p] = "once"]
  /\ cause' = [cause EXCEPT ![p] = why]
  /\ ret' = [ret EXCEPT ![p] = to]

(* Mutant of OnceDone: a flag in place of the Once, which does not wait. *)
OnceSkips(p) ==
  /\ pc[p] = "once"
  /\ once.done \/ once.locked
  /\ Goto(p, ret[p])
  /\ UNCHANGED <<mu, connVars, sigVars, local, cause, ret, readerActive, sends,
                 goodbye, failed>>

(* Once.Do returns when done, and otherwise waits for its mutex. *)
OnceDone(p) ==
  /\ pc[p] = "once"
  /\ once.done
  /\ Goto(p, ret[p])
  /\ UNCHANGED <<mu, connVars, sigVars, local, cause, ret, readerActive, sends,
                 goodbye, failed>>

(* Mutant of OnceEnter: every call runs the body. *)
OnceAlways(p) ==
  /\ pc[p] = "once"
  /\ ~once.locked
  /\ once' = [once EXCEPT !.locked = TRUE]
  /\ Goto(p, "cause")
  /\ UNCHANGED <<mu, connVars, disconnCh, disconnCause, disconnected, chan,
                 crash, local, cause, ret, readerActive, sends, goodbye, failed>>

OnceEnter(p) ==
  /\ pc[p] = "once"
  /\ ~once.done /\ ~once.locked
  /\ once' = [once EXCEPT !.locked = TRUE]
  /\ Goto(p, "cause")
  /\ UNCHANGED <<mu, connVars, disconnCh, disconnCause, disconnected, chan,
                 crash, local, cause, ret, readerActive, sends, goodbye, failed>>

(* Under mu: record the cause and take the current channel. *)
RecordCause(p) ==
  /\ pc[p] = "cause"
  /\ mu = NoProc
  /\ disconnCause' = cause[p]
  /\ local' = [local EXCEPT ![p] = disconnCh]
  /\ Goto(p, "flag")
  /\ UNCHANGED <<mu, connVars, disconnCh, disconnected, once, chan, crash,
                 cause, ret, readerActive, sends, goodbye, failed>>

SetFlag(p) ==
  /\ pc[p] = "flag"
  /\ disconnected' = TRUE
  /\ Goto(p, "fire")
  /\ UNCHANGED <<mu, connVars, disconnCh, disconnCause, once, chan, crash,
                 local, cause, ret, readerActive, sends, goodbye, failed>>

(* Mutant of Fire: the channel is closed without the cause. *)
FireBare(p) ==
  /\ pc[p] = "fire"
  /\ chan' = [chan EXCEPT ![local[p]].closed = TRUE]
  /\ Goto(p, "leave")
  /\ UNCHANGED <<mu, connVars, disconnCh, disconnCause, disconnected, once,
                 crash, local, cause, ret, readerActive, sends, goodbye, failed>>

(* Send the cause if the buffer has room, and close. *)
Fire(p) ==
  /\ pc[p] = "fire"
  /\ IF chan[local[p]].closed
       THEN Crash("close of closed channel") /\ chan' = chan
       ELSE /\ chan' = [chan EXCEPT ![local[p]] =
                          [buf |-> cause[p], closed |-> TRUE]]
            /\ Goto(p, "leave")
            /\ crash' = crash
  /\ UNCHANGED <<mu, connVars, disconnCh, disconnCause, disconnected, once,
                 local, cause, ret, readerActive, sends, goodbye, failed>>

(* Do's deferred done.Store(1) and m.Unlock(). *)
OnceLeave(p) ==
  /\ pc[p] = "leave"
  /\ once' = [done |-> TRUE, locked |-> FALSE]
  /\ IF once.locked
       THEN Goto(p, ret[p]) /\ crash' = crash
       ELSE Crash("unlock of unlocked mutex")
  /\ UNCHANGED <<mu, connVars, disconnCh, disconnCause, disconnected, chan,
                 local, cause, ret, readerActive, sends, goodbye, failed>>

SignalStep(p) ==
  \/ OnceDone(p) \/ OnceEnter(p) \/ RecordCause(p) \/ SetFlag(p)
  \/ Fire(p) \/ OnceLeave(p)

-----------------------------------------------------------------------------
(* SendMessage: the write is done under mu *)

CallSend(s) ==
  /\ pc[s] = "idle"
  /\ sends < MaxSends
  /\ sends' = sends + 1
  /\ Goto(s, "init")
  /\ UNCHANGED <<mu, connVars, sigVars, local, cause, ret, readerActive,
                 goodbye, failed>>

AfterSend(p) == IF p = App THEN "ack" ELSE "idle"
SendFailed(p) == IF p = App THEN "teardown" ELSE "idle"

(* The write is accepted; a broken socket may still buffer it. *)
SendOK(p) ==
  /\ pc[p] = "init"
  /\ mu = NoProc
  /\ IsConnected
  /\ Goto(p, AfterSend(p))
  /\ UNCHANGED <<mu, connVars, sigVars, local, cause, ret, readerActive, sends,
                 goodbye, failed>>

(* Not connected, or the caller's ctx is done. *)
SendRefused(p) ==
  /\ pc[p] = "init"
  /\ mu = NoProc
  /\ Goto(p, SendFailed(p))
  /\ UNCHANGED <<mu, connVars, sigVars, local, cause, ret, readerActive, sends,
                 goodbye, failed>>

(* The write fails: signalDisconnect is called with mu still held. *)
SendError(p) ==
  /\ pc[p] = "init"
  /\ mu = NoProc
  /\ IsConnected /\ sock[conn] = "broken" /\ scene.errors
  /\ mu' = p
  /\ failed' = failed \cup {conn}
  /\ Signal(p, "unclean", "unlock")
  /\ UNCHANGED <<connVars, sigVars, local, readerActive, sends, goodbye>>

SendUnlock(p) ==
  /\ pc[p] = "unlock"
  /\ mu' = NoProc
  /\ Goto(p, SendFailed(p))
  /\ UNCHANGED <<connVars, sigVars, local, cause, ret, readerActive, sends,
                 goodbye, failed>>

SendStep(p) == SendOK(p) \/ SendRefused(p) \/ SendError(p) \/ SendUnlock(p)

-----------------------------------------------------------------------------
(* Close *)

CallClose(p) ==
  /\ pc[p] = "idle" /\ p \in scene.closers \cup {App}
  /\ sends < MaxSends
  /\ sends' = sends + 1
  /\ Goto(p, "close")
  /\ UNCHANGED <<mu, connVars, sigVars, local, cause, ret, readerActive,
                 goodbye, failed>>

CloseNothing(p) ==
  /\ pc[p] = "close"
  /\ mu = NoProc
  /\ ~IsConnected
  /\ Goto(p, "idle")
  /\ UNCHANGED <<mu, connVars, sigVars, local, cause, ret, readerActive, sends,
                 goodbye, failed>>

(* Mutant of CloseTake: mu is kept until Close returns. *)
CloseTakeLocked(p) ==
  /\ pc[p] = "close"
  /\ mu = NoProc
  /\ IsConnected
  /\ mu' = p
  /\ closed' = TRUE
  /\ conn' = NoConn
  /\ local' = [local EXCEPT ![p] = conn]
  /\ Goto(p, "hangup")
  /\ UNCHANGED <<scene, sock, dials, sigVars, cause, ret, readerActive, sends,
                 goodbye, failed>>

CloseTake(p) ==
  /\ pc[p] = "close"
  /\ mu = NoProc
  /\ IsConnected
  /\ closed' = TRUE
  /\ conn' = NoConn
  /\ local' = [local EXCEPT ![p] = conn]
  /\ Goto(p, "hangup")
  /\ UNCHANGED <<mu, scene, sock, dials, sigVars, cause, ret, readerActive, sends,
                 goodbye, failed>>

CloseHangup(p) ==
  /\ pc[p] = "hangup"
  /\ sock' = [sock EXCEPT ![local[p]] = "broken"]
  /\ Signal(p, "unclean", "shut")
  /\ UNCHANGED <<mu, scene, conn, closed, dials, sigVars, local, readerActive, sends,
                 goodbye, failed>>

CloseReturn(p) ==
  /\ pc[p] = "shut"
  /\ Goto(p, "idle")
  /\ UNCHANGED <<mu, connVars, sigVars, local, cause, ret, readerActive, sends,
                 goodbye, failed>>

CloseStep(p) ==
  CloseNothing(p) \/ CloseTake(p) \/ CloseHangup(p) \/ CloseReturn(p)

-----------------------------------------------------------------------------
(* Connect and Reconnect *)

(* What a careful application waits for: the message channels are closed. *)
ReadersEnded == scene.wait => \A r \in Readers : pc[r] \in {"none", "done"}

(* Connect on a client that has no connection. *)
CallConnect ==
  /\ pc[App] = "idle"
  /\ dials < scene.dials
  /\ ~IsConnected
  /\ ReadersEnded
  /\ Goto(App, "dial")
  /\ UNCHANGED <<mu, connVars, sigVars, local, cause, ret, readerActive, sends,
                 goodbye, failed>>

(* Reconnect, after Disconnected() fired: close the old socket quietly. *)
CallReconnect ==
  /\ pc[App] = "idle"
  /\ mu = NoProc
  /\ dials < scene.dials
  /\ chan[disconnCh].closed
  /\ ReadersEnded
  /\ local' = [local EXCEPT ![App] = conn]
  /\ Goto(App, "redial")
  /\ UNCHANGED <<mu, connVars, sigVars, cause, ret, readerActive, sends,
                 goodbye, failed>>

ReconnectHangup ==
  /\ pc[App] = "redial"
  /\ sock' = [s \in Conns |-> IF s = local[App] THEN "broken" ELSE sock[s]]
  /\ Goto(App, "dial")
  /\ UNCHANGED <<mu, scene, conn, closed, dials, sigVars, local, cause, ret,
                 readerActive, sends, goodbye, failed>>

Dial ==
  /\ pc[App] = "dial"
  /\ dials < scene.dials
  /\ dials' = dials + 1
  /\ sock' = [sock EXCEPT ![dials + 1] = "open"]
  /\ Goto(App, "install")
  /\ UNCHANGED <<mu, scene, conn, closed, sigVars, local, cause, ret, readerActive,
                 sends, goodbye, failed>>

DialFails ==
  /\ pc[App] = "dial"
  /\ Goto(App, "idle")
  /\ UNCHANGED <<mu, connVars, sigVars, local, cause, ret, readerActive, sends,
                 goodbye, failed>>

(* Mutants of Install: the channel, or the Once, is not reset. *)
InstallOldChannel ==
  /\ pc[App] = "install"
  /\ mu = NoProc
  /\ conn' = dials
  /\ closed' = FALSE
  /\ disconnCause' = "zero"
  /\ disconnected' = FALSE
  /\ once' = [done |-> FALSE, locked |-> FALSE]
  /\ Goto(App, "init")
  /\ UNCHANGED <<mu, scene, sock, dials, disconnCh, chan, crash, local, cause, ret,
                 readerActive, sends, goodbye, failed>>

InstallOldOnce ==
  /\ pc[App] = "install"
  /\ mu = NoProc
  /\ conn' = dials
  /\ closed' = FALSE
  /\ disconnCh' = dials
  /\ disconnCause' = "zero"
  /\ disconnected' = FALSE
  /\ Goto(App, "init")
  /\ UNCHANGED <<mu, scene, sock, dials, once, chan, crash, local, cause, ret,
                 readerActive, sends, goodbye, failed>>

(* Under mu: install the socket and reset the signal. *)
Install ==
  /\ pc[App] = "install"
  /\ mu = NoProc
  /\ conn' = dials
  /\ closed' = FALSE
  /\ disconnCh' = dials
  /\ disconnCause' = "zero"
  /\ disconnected' = FALSE
  /\ once' = [done |-> FALSE, locked |-> FALSE]
  /\ Goto(App, "init")
  /\ UNCHANGED <<mu, scene, sock, dials, chan, crash, local, cause, ret, readerActive,
                 sends, goodbye, failed>>

(* The handshake's reads: connection_ack, or a `disconnect' frame, which   *)
(* ReadEvent consumes and then reports as a close, or any failure.         *)
HandshakeOK ==
  /\ pc[App] = "ack"
  /\ conn # NoConn /\ sock[conn] = "open"
  /\ Goto(App, "receive")
  /\ UNCHANGED <<mu, connVars, sigVars, local, cause, ret, readerActive, sends,
                 goodbye, failed>>

HandshakeGoodbye ==
  /\ pc[App] = "ack"
  /\ conn # NoConn /\ sock[conn] = "open"
  /\ goodbye' = goodbye \cup {conn}
  /\ Signal(App, "clean", "teardown")
  /\ UNCHANGED <<mu, connVars, sigVars, local, readerActive, sends, failed>>

HandshakeFails ==
  /\ pc[App] = "ack"
  /\ Goto(App, "teardown")
  /\ UNCHANGED <<mu, connVars, sigVars, local, cause, ret, readerActive, sends,
                 goodbye, failed>>

(* Connect's teardown after a failed handshake: no signal. *)
Teardown ==
  /\ pc[App] = "teardown"
  /\ mu = NoProc
  /\ closed' = TRUE
  /\ conn' = NoConn
  /\ sock' = [sock EXCEPT ![dials] = "broken"]
  /\ Goto(App, "idle")
  /\ UNCHANGED <<mu, scene, dials, sigVars, local, cause, ret, readerActive, sends,
                 goodbye, failed>>

-----------------------------------------------------------------------------
(* ReceiveMessages and its goroutine *)

Receive(r) ==
  /\ pc[App] = "receive"
  /\ mu = NoProc
  /\ r = dials
  /\ IF IsConnected
       THEN /\ readerActive' = TRUE
            /\ pc' = [pc EXCEPT ![App] = "idle", ![r] = "snap"]
       ELSE Goto(App, "idle") /\ UNCHANGED readerActive
  /\ UNCHANGED <<mu, connVars, sigVars, local, cause, ret, sends, goodbye,
                 failed>>

(* Top of the loop, under mu: snapshot c.conn. *)
ReaderSnap(r) ==
  /\ pc[r] = "snap"
  /\ mu = NoProc
  /\ local' = [local EXCEPT ![r] = conn]
  /\ Goto(r, IF IsConnected THEN "read" ELSE "exit")
  /\ UNCHANGED <<mu, connVars, sigVars, cause, ret, readerActive, sends,
                 goodbye, failed>>

(* A frame that is forwarded, routed or dropped; a ping, answered by      *)
(* sendPong under mu; a `disconnect' frame; a read error.                 *)
ReadFrame(r) ==
  /\ pc[r] = "read"
  /\ sock[local[r]] = "open"
  /\ Goto(r, "snap")
  /\ UNCHANGED <<mu, connVars, sigVars, local, cause, ret, readerActive, sends,
                 goodbye, failed>>

ReadPing(r) ==
  /\ pc[r] = "read"
  /\ sock[local[r]] = "open"
  /\ Goto(r, "pong")
  /\ UNCHANGED <<mu, connVars, sigVars, local, cause, ret, readerActive, sends,
                 goodbye, failed>>

SendPong(r) ==
  /\ pc[r] = "pong"
  /\ mu = NoProc
  /\ Goto(r, "snap")
  /\ UNCHANGED <<mu, connVars, sigVars, local, cause, ret, readerActive, sends,
                 goodbye, failed>>

ReadGoodbye(r) ==
  /\ pc[r] = "read"
  /\ sock[local[r]] = "open"
  /\ goodbye' = goodbye \cup {local[r]}
  /\ Signal(r, "clean", "snap")
  /\ UNCHANGED <<mu, connVars, sigVars, local, readerActive, sends, failed>>

ReadError(r) ==
  /\ pc[r] = "read"
  /\ sock[local[r]] = "broken"
  /\ Signal(r, "unclean", "exit")
  /\ UNCHANGED <<mu, connVars, sigVars, local, readerActive, sends, goodbye,
                 failed>>

ReaderExit(r) ==
  /\ pc[r] = "exit"
  /\ readerActive' = FALSE
  /\ Goto(r, "done")
  /\ UNCHANGED <<mu, connVars, sigVars, local, cause, ret, sends, goodbye,
                 failed>>

-----------------------------------------------------------------------------
(* The network breaks a connection. *)
Break(s) ==
  /\ sock[s] = "open"
  /\ sock' = [sock EXCEPT ![s] = "broken"]
  /\ UNCHANGED <<mu, scene, conn, closed, dials, sigVars, procVars, readerActive,
                 sends, goodbye, failed>>

(* What a goroutine inside a call of the client does next. *)
AppStep ==
  \/ ReconnectHangup \/ Dial \/ DialFails \/ Install
  \/ HandshakeOK \/ HandshakeFails \/ Teardown
  \/ \E r \in Readers : Receive(r)
ReaderStep(r) == ReaderSnap(r) \/ SendPong(r) \/ ReadError(r) \/ ReaderExit(r)

Step(p) ==
  \/ SignalStep(p)
  \/ p \in Senders \cup {App} /\ SendStep(p)
  \/ p \in Closers \cup {App} /\ CloseStep(p)
  \/ p = App /\ AppStep
  \/ p \in Readers /\ ReaderStep(p)

(* What the application or the peer may do. *)
Environment ==
  \/ \E s \in Senders : CallSend(s)
  \/ \E p \in Closers \cup {App} : CallClose(p)
  \/ CallConnect \/ CallReconnect \/ HandshakeGoodbye
  \/ \E r \in Readers : ReadFrame(r) \/ ReadPing(r) \/ ReadGoodbye(r)
  \/ \E s \in Conns : Break(s)

Next == Environment \/ \E p \in Procs : Step(p)

(* A goroutine that can run does: Go's mutexes and its scheduler do not    *)
(* starve a waiter.                                                        *)
Fairness == \A p \in Procs : WF_vars(Step(p))

Spec == Init /\ [][Next]_vars
LiveSpec == Spec /\ Fairness

-----------------------------------------------------------------------------
(* Properties *)

(***************************************************************************)
(* signalDisconnect is "safe to call from any goroutine": no interleaving  *)
(* of readers, closers, senders and Connect closes a channel twice or      *)
(* unlocks a Once that is not locked, either of which ends the program.    *)
(***************************************************************************)
NoCrash == crash = "none"

(***************************************************************************)
(* Close "fires Disconnected()": when Close returns, the channel of the    *)
(* connection it closed has been closed, even if a reader saw the drop     *)
(* first and is still inside signalDisconnect.                             *)
(***************************************************************************)
CloseFires ==
  \A p \in Closers \cup {App} : pc[p] = "shut" => chan[disconnCh].closed

(***************************************************************************)
(* The value received from the channel, the value of DisconnectCauseValue  *)
(* and the flag IsDisconnected agree once the signal has fired.            *)
(***************************************************************************)
CauseAgrees ==
  chan[disconnCh].closed =>
    chan[disconnCh].buf = disconnCause /\ disconnCause # "zero" /\ disconnected

(***************************************************************************)
(* The signal of a connection tells the truth: while a healthy connection  *)
(* is installed whose peer did not say `disconnect', its channel is open   *)
(* and IsConnectionAlive holds.                                            *)
(***************************************************************************)
NoSpuriousSignal ==
  IsConnected /\ sock[conn] = "open" /\ conn \notin goodbye =>
    ~chan[disconnCh].closed /\ ~disconnected

(* Goroutines that read from socket s: read loops, and the handshake. *)
Reading(s) ==
  {r \in Readers : pc[r] = "read" /\ local[r] = s}
    \cup {p \in {App} : pc[p] = "ack" /\ conn = s}

(***************************************************************************)
(* "gorilla/websocket forbids concurrent readers": no two goroutines read  *)
(* the same socket.                                                        *)
(***************************************************************************)
OneReaderPerSocket == \A s \in Conns : Cardinality(Reading(s)) <= 1

(***************************************************************************)
(* readerActive is set exactly while a read loop runs, so RequestResponse  *)
(* never reads the socket beside it.                                       *)
(***************************************************************************)
ReaderFlagExact ==
  readerActive <=> \E r \in Readers : pc[r] \notin {"none", "done"}

(***************************************************************************)
(* A broken connection that has a reader is noticed: Disconnected() fires, *)
(* where no write fails.                                                   *)
(***************************************************************************)
BreakNoticed ==
  \A s \in Conns :
    ~scene.errors /\ (\E r \in Readers : pc[r] = "read" /\ local[r] = s) /\ sock[s] = "broken"
      ~> chan[s].closed

(***************************************************************************)
(* A write error is signalled: "signal an unclean drop so consumers can    *)
(* reconnect" (SendMessage).                                               *)
(***************************************************************************)
WriteErrorSignalled == \A s \in Conns : s \in failed ~> chan[s].closed

(***************************************************************************)
(* Every goroutine inside Connect, Close or SendMessage comes out again,   *)
(* where no write fails.                                                   *)
(***************************************************************************)
CallsReturn ==
  \A p \in {App} \cup Closers \cup Senders :
    ~scene.errors /\ pc[p] # "idle" ~> pc[p] = "idle"

=============================================================================
