---------------------------- MODULE Client_proofs ---------------------------
(***************************************************************************)
(* Proofs about the disconnect signal of Client, for any number of         *)
(* closers, senders and connections, in the scenes where Connect does not  *)
(* overlap the end of the previous connection: the client connects once,   *)
(* or nobody else closes it and the application waits for its readers.     *)
(* There no interleaving crashes the program, Close has fired the signal   *)
(* when it returns, the three ways to ask for the cause agree, and a       *)
(* healthy connection is never reported dropped.                           *)
(***************************************************************************)
EXTENDS Client, FiniteSetTheorems, TLAPS

(* Connect does not overlap the end of another connection. *)
Tame(sc) == sc.dials <= 1 \/ (sc.closers = {} /\ sc.wait)

Signalling(p) == pc[p] \in SignalPCs
InBody(p) == pc[p] \in {"cause", "flag", "fire", "leave"}

(* Where each goroutine can be, and where signalDisconnect returns to *)
PlaceOf(p) ==
  /\ p = App =>
       /\ pc[p] \in (AppPCs \ {"off"}) \cup SignalPCs \cup {"unlock", "close"}
       /\ Signalling(p) => ret[p] \in {"unlock", "shut", "teardown"}
  /\ p \in Closers =>
       /\ pc[p] \in SignalPCs \cup {"idle", "close", "hangup", "shut"}
       /\ Signalling(p) => ret[p] = "shut"
       /\ pc[p] # "idle" => p \in scene.closers
  /\ p \in Senders =>
       /\ pc[p] \in SignalPCs \cup {"idle", "init", "unlock"}
       /\ Signalling(p) => ret[p] = "unlock"
  /\ p \in Readers =>
       /\ pc[p] \in SignalPCs \cup ReaderPCs
       /\ Signalling(p) => ret[p] \in {"snap", "exit"}
Places == \A p \in Procs : PlaceOf(p)

(* mu is held by the SendMessage whose write has failed. *)
HoldsMu(p) == pc[p] = "unlock" \/ (Signalling(p) /\ ret[p] = "unlock")
MuHeld == \A p \in Procs : HoldsMu(p) <=> mu = p

(* The channel in place is the one of the last dial that was installed. *)
Numbered ==
  /\ disconnCh = IF pc[App] = "install" THEN dials - 1 ELSE dials
  /\ conn # NoConn => conn = disconnCh
  /\ \A c \in Chans : c > disconnCh => ~chan[c].closed
  /\ dials <= scene.dials

(* Before the first connection nothing is signalled. *)
Virgin ==
  disconnCh = 0 =>
    /\ \A p \in Procs :
         pc[p] \in {"idle", "close", "dial", "install", "none"} \/ (p \in Senders /\ pc[p] = "init")
    /\ ~once.done /\ ~chan[0].closed /\ ~disconnected

(* App is on its way from a connect or reconnect to its reader. *)
Connecting ==
  \/ pc[App] \in {"redial", "dial", "install", "init", "ack", "teardown", "receive", "unlock"}
  \/ Signalling(App) /\ ret[App] # "shut"
Calm ==
  /\ Connecting => \A r \in Readers : pc[r] \in {"none", "done"}
  /\ pc[App] \in {"redial", "dial", "install"} =>
       \A p \in Closers : pc[p] \in {"idle", "close"}
  /\ pc[App] \in {"redial", "dial", "install"} /\ scene.dials <= 1 => conn = NoConn

(* What the connection in place has done to deserve its signal *)
Reason == ~IsConnected \/ sock[conn] = "broken" \/ conn \in goodbye
Closing(p) == pc[p] \in {"hangup", "shut"} \/ (Signalling(p) /\ ret[p] = "shut")
Reasons ==
  /\ \A p \in Procs : Signalling(p) => Reason
  /\ once.done \/ disconnected \/ chan[disconnCh].closed => Reason
  /\ \A p \in Procs : Closing(p) => ~IsConnected
  /\ \A r \in Readers : pc[r] = "read" => local[r] # NoConn /\ (IsConnected => local[r] = conn)

(* The body of the Once *)
OnceBody ==
  /\ once.locked <=> \E p \in Procs : InBody(p)
  /\ \A p, q \in Procs : InBody(p) /\ InBody(q) => p = q
  /\ once.locked => ~once.done
  /\ once.done => chan[disconnCh].closed
  /\ chan[disconnCh].closed => once.done \/ \E p \in Procs : pc[p] = "leave"
  /\ \A p \in Procs :
       /\ pc[p] \in {"flag", "fire"} => local[p] = disconnCh /\ disconnCause = cause[p]
       /\ pc[p] = "fire" => disconnected
       /\ pc[p] = "leave" => chan[disconnCh].closed

(* One read loop at a time *)
Active(r) == pc[r] \notin {"none", "done"}
OneReader ==
  /\ \A r, q \in Readers : Active(r) /\ Active(q) => r = q
  /\ ReaderFlagExact

ClientInv ==
  /\ TypeOK /\ Tame(scene) /\ Places /\ MuHeld /\ Numbered /\ Virgin /\ Calm /\ Reasons
  /\ OnceBody /\ OneReader
  /\ NoCrash /\ CloseFires /\ CauseAgrees /\ NoSpuriousSignal

-----------------------------------------------------------------------------
(* The small sets *)
LEMMA Members ==
  /\ MaxConn \in Nat /\ MaxSends \in Nat
  /\ Conns \subseteq Chans /\ Chans \subseteq Nat /\ NoConn \in Chans /\ NoConn \notin Conns
  /\ \A c \in Chans : c # NoConn => c \in Conns
  /\ App \in Procs /\ Closers \subseteq Procs /\ Senders \subseteq Procs /\ Readers \subseteq Procs
  /\ App \notin Closers /\ App \notin Senders /\ App \notin Readers /\ NoProc \notin Procs
  /\ \A p \in Procs : p = App \/ p \in Closers \/ p \in Senders \/ p \in Readers
  /\ \A p \in Closers : p \notin Senders /\ p \notin Readers
  /\ \A p \in Senders : p \notin Readers
BY ClientAssumption DEF Conns, Chans, NoConn, Procs, Readers

(* The steps of the program, each with the goroutine that may take it *)
Moves(p) ==
  \/ OnceDone(p) \/ OnceEnter(p) \/ RecordCause(p) \/ SetFlag(p) \/ Fire(p) \/ OnceLeave(p)
  \/ p \in Senders /\ CallSend(p)
  \/ p \in Senders \cup {App} /\ (SendOK(p) \/ SendRefused(p) \/ SendError(p) \/ SendUnlock(p))
  \/ p \in Closers \cup {App}
       /\ (CallClose(p) \/ CloseNothing(p) \/ CloseTake(p) \/ CloseHangup(p) \/ CloseReturn(p))
  \/ p = App
       /\ \/ CallConnect \/ CallReconnect \/ ReconnectHangup \/ Dial \/ DialFails \/ Install
          \/ HandshakeOK \/ HandshakeGoodbye \/ HandshakeFails \/ Teardown
  \/ p \in Readers
       /\ \/ ReaderSnap(p) \/ ReadFrame(p) \/ ReadPing(p) \/ SendPong(p)
          \/ ReadGoodbye(p) \/ ReadError(p) \/ ReaderExit(p)

(* A step is one of a goroutine, a frame that is received, or a break. *)
LEMMA NextCases ==
  Next => \/ \E p \in Procs : Moves(p)
          \/ \E r \in Readers : Receive(r)
          \/ \E s \in Conns : Break(s)
BY Members, Zenon
DEF Next, Environment, Step, SignalStep, SendStep, CloseStep, AppStep, ReaderStep, Moves

-----------------------------------------------------------------------------
(* Types *)

(* The places of each kind of goroutine are places. *)
LEMMA PlaceNames ==
  /\ SignalPCs \subseteq PCs /\ AppPCs \subseteq PCs /\ ReaderPCs \subseteq PCs
  /\ {"unlock", "close", "off", "once", "cause", "flag", "fire", "leave"} \subseteq PCs
  /\ {"idle", "dial", "install", "init", "ack", "teardown", "receive"} \subseteq PCs
  /\ {"hangup", "redial", "shut", "snap", "read", "pong", "exit", "done"} \subseteq PCs
BY Zenon DEF PCs, AppPCs, SignalPCs, ReaderPCs

ProcTypes ==
  /\ pc \in [Procs -> PCs] /\ local \in [Procs -> Chans]
  /\ cause \in [Procs -> Causes] /\ ret \in [Procs -> PCs]
ConnTypes ==
  /\ scene \in Scenes /\ mu \in Procs \cup {NoProc} /\ conn \in Conns \cup {NoConn}
  /\ closed \in BOOLEAN /\ sock \in [Conns -> {"none", "open", "broken"}]
  /\ readerActive \in BOOLEAN /\ dials \in 0 .. MaxConn /\ sends \in 0 .. MaxSends
  /\ goodbye \subseteq Conns /\ failed \subseteq Conns
SignalTypes ==
  /\ disconnCh \in Chans /\ disconnCause \in Causes \cup {"zero"} /\ disconnected \in BOOLEAN
  /\ once \in [done : BOOLEAN, locked : BOOLEAN]
  /\ chan \in [Chans -> [buf : Causes \cup {"zero"}, closed : BOOLEAN]]
  /\ crash \in {"none", "close of closed channel", "unlock of unlocked mutex"}

(* The type invariant in three parts *)
LEMMA Types ==
  /\ TypeOK <=> ProcTypes /\ ConnTypes /\ SignalTypes
  /\ TypeOK' <=> ProcTypes' /\ ConnTypes' /\ SignalTypes'
BY Zenon DEF TypeOK, ProcTypes, ConnTypes, SignalTypes

(* The counters are numbers. *)
LEMMA Counts ==
  ASSUME TypeOK
  PROVE  dials \in Nat /\ disconnCh \in Nat /\ scene.dials \in Nat
<1>1. scene.dials \in 0 .. MaxConn
  BY ClientAssumption, Zenon DEF TypeOK
<1>2. MaxConn \in Nat
  BY Members, Zenon
<1>3. dials \in 0 .. MaxConn /\ disconnCh \in 0 .. MaxConn
  BY Zenon DEF TypeOK, Chans
<1> QED
  BY <1>1, <1>2, <1>3

(* What belongs to the goroutines keeps its type. *)
LEMMA ProcStep ==
  ASSUME TypeOK, NEW p \in Procs, Moves(p)
  PROVE  ProcTypes'
<1>0. ProcTypes /\ conn \in Chans /\ disconnCh \in Chans
  BY Types, Members, Zenon DEF TypeOK
<1> HIDE DEF PCs, Chans
<1> USE <1>0, PlaceNames DEF ProcTypes, Goto
<1>1. CASE OnceDone(p) \/ OnceEnter(p) \/ RecordCause(p) \/ SetFlag(p)
  BY <1>1, ZenonT(30) DEF OnceDone, OnceEnter, RecordCause, SetFlag
<1>2. CASE Fire(p)
  BY <1>2, Zenon DEF Fire, Crash
<1>3. CASE OnceLeave(p)
  BY <1>3, Zenon DEF OnceLeave, Crash
<1>4. CASE CallSend(p) \/ SendOK(p) \/ SendRefused(p) \/ SendUnlock(p)
  BY <1>4, ZenonT(30) DEF CallSend, SendOK, SendRefused, SendUnlock, AfterSend, SendFailed
<1>5. CASE SendError(p)
  BY <1>5, Zenon DEF SendError, Signal, Causes
<1>6. CASE CallClose(p) \/ CloseNothing(p) \/ CloseTake(p) \/ CloseReturn(p)
  BY <1>6, ZenonT(30) DEF CallClose, CloseNothing, CloseTake, CloseReturn
<1>7. CASE CloseHangup(p)
  BY <1>7, Zenon DEF CloseHangup, Signal, Causes
<1>8. CASE p = App /\ (CallConnect \/ CallReconnect \/ ReconnectHangup \/ Dial \/ DialFails)
  BY <1>8, ZenonT(20) DEF CallConnect, CallReconnect, ReconnectHangup, Dial, DialFails
<1>9. CASE p = App /\ (Install \/ HandshakeOK \/ HandshakeFails \/ Teardown)
  BY <1>9, ZenonT(30) DEF Install, HandshakeOK, HandshakeFails, Teardown
<1>10. CASE p = App /\ HandshakeGoodbye
  BY <1>10, Zenon DEF HandshakeGoodbye, Signal, Causes
<1>11. CASE ReaderSnap(p) \/ ReadFrame(p) \/ ReadPing(p) \/ SendPong(p) \/ ReaderExit(p)
  BY <1>11 DEF ReaderSnap, ReadFrame, ReadPing, SendPong, ReaderExit
<1>12. CASE ReadGoodbye(p) \/ ReadError(p)
  BY <1>12 DEF ReadGoodbye, ReadError, Signal, Causes
<1> QED
  BY <1>1, <1>2, <1>3, <1>4, <1>5, <1>6, <1>7, <1>8, <1>9, <1>10, <1>11, <1>12, ZenonT(30) DEF Moves

(* What belongs to the connections keeps its type. *)
LEMMA ConnStep ==
  ASSUME TypeOK, Reasons, NEW p \in Procs, Moves(p)
  PROVE  ConnTypes'
<1>0. ConnTypes
  BY Types, Zenon
<1>a. MaxSends \in Nat /\ MaxConn \in Nat
  BY Members, Zenon
<1>1. CASE OnceDone(p) \/ OnceEnter(p) \/ RecordCause(p) \/ SetFlag(p) \/ Fire(p) \/ OnceLeave(p)
  BY <1>0, <1>1, Zenon
  DEF ConnTypes, OnceDone, OnceEnter, RecordCause, SetFlag, Fire, OnceLeave, connVars
<1>2. CASE SendOK(p) \/ SendRefused(p) \/ SendUnlock(p)
  BY <1>0, <1>2, Zenon DEF ConnTypes, SendOK, SendRefused, SendUnlock, connVars
<1>3. CASE SendError(p)
  <2>1. conn \in Conns
    BY <1>0, <1>3, Zenon DEF ConnTypes, SendError, IsConnected
  <2> QED
    BY <1>0, <1>3, <2>1, Zenon DEF ConnTypes, SendError, connVars
<1>4. CASE CallSend(p) \/ CallClose(p)
  BY <1>0, <1>4, <1>a DEF ConnTypes, CallSend, CallClose, connVars
<1>5. CASE CloseNothing(p) \/ CloseTake(p) \/ CloseReturn(p) \/ CloseHangup(p)
  BY <1>0, <1>5, Zenon DEF ConnTypes, CloseNothing, CloseTake, CloseReturn, CloseHangup, connVars
<1>6. CASE CallConnect \/ CallReconnect \/ ReconnectHangup \/ DialFails
  BY <1>0, <1>6, Zenon DEF ConnTypes, CallConnect, CallReconnect, ReconnectHangup, DialFails, connVars
<1>7. CASE Dial
  <2>1. scene.dials \in 0 .. MaxConn
    BY <1>0, ClientAssumption, Zenon DEF ConnTypes
  <2>2. dials + 1 \in 0 .. MaxConn
    BY <1>0, <1>7, <1>a, <2>1, SMTT(30) DEF ConnTypes, Dial
  <2> QED
    BY <1>0, <1>7, <2>2, Zenon DEF ConnTypes, Dial
<1>8. CASE Install
  <2>1. dials \in Conns \cup {NoConn}
    BY <1>0, <1>a DEF ConnTypes, Conns, NoConn
  <2> QED
    BY <1>0, <1>8, <2>1, Zenon DEF ConnTypes, Install
<1>9. CASE HandshakeOK \/ HandshakeGoodbye \/ HandshakeFails \/ Teardown
  BY <1>0, <1>9, Zenon
  DEF ConnTypes, HandshakeOK, HandshakeGoodbye, HandshakeFails, Teardown, connVars
<1>10. CASE ReaderSnap(p) \/ ReadFrame(p) \/ ReadPing(p) \/ SendPong(p) \/ ReadError(p) \/ ReaderExit(p)
  BY <1>0, <1>10, Zenon
  DEF ConnTypes, ReaderSnap, ReadFrame, ReadPing, SendPong, ReadError, ReaderExit, connVars
<1>11. CASE p \in Readers /\ ReadGoodbye(p)
  <2>1. local[p] \in Conns
    BY <1>11, Members, Zenon DEF TypeOK, Reasons, ReadGoodbye
  <2> QED
    BY <1>0, <1>11, <2>1, Zenon DEF ConnTypes, ReadGoodbye, connVars
<1> QED
  BY <1>1, <1>2, <1>3, <1>4, <1>5, <1>6, <1>7, <1>8, <1>9, <1>10, <1>11, ZenonT(30) DEF Moves

(* What belongs to signalDisconnect keeps its type. *)
LEMMA SignalStepTypes ==
  ASSUME TypeOK, NEW p \in Procs, Moves(p)
  PROVE  SignalTypes'
<1>0. SignalTypes /\ cause[p] \in Causes /\ local[p] \in Chans /\ dials \in Chans
  BY Types, Members, Zenon DEF TypeOK, Chans
<1> HIDE DEF Chans, Causes
<1>1. CASE OnceDone(p)
  BY <1>0, <1>1, Zenon DEF SignalTypes, OnceDone, sigVars
<1>2. CASE OnceEnter(p)
  BY <1>0, <1>2, Zenon DEF SignalTypes, OnceEnter
<1>3. CASE RecordCause(p) \/ SetFlag(p)
  BY <1>0, <1>3, Zenon DEF SignalTypes, RecordCause, SetFlag
<1>4. CASE Fire(p)
  <2>1. [buf |-> cause[p], closed |-> TRUE] \in [buf : Causes \cup {"zero"}, closed : BOOLEAN]
    BY <1>0, Zenon
  <2> QED
    BY <1>0, <1>4, <2>1, ZenonT(30) DEF SignalTypes, Fire, Crash
<1>5. CASE OnceLeave(p)
  BY <1>0, <1>5, Zenon DEF SignalTypes, OnceLeave, Crash
<1>6. CASE Install
  BY <1>0, <1>6, Zenon DEF SignalTypes, Install
<1>7. CASE UNCHANGED sigVars
  BY <1>0, <1>7, Zenon DEF SignalTypes, sigVars
<1> QED
  BY <1>1, <1>2, <1>3, <1>4, <1>5, <1>6, <1>7, ZenonT(30)
  DEF Moves, CallSend, SendOK, SendRefused, SendError, SendUnlock, CallClose, CloseNothing,
      CloseTake, CloseHangup, CloseReturn, CallConnect, CallReconnect, ReconnectHangup, Dial,
      DialFails, HandshakeOK, HandshakeGoodbye, HandshakeFails, Teardown, ReaderSnap, ReadFrame,
      ReadPing, SendPong, ReadGoodbye, ReadError, ReaderExit

(* Every step keeps the types. *)
LEMMA TypeStep ==
  ASSUME TypeOK, Reasons, Next
  PROVE  TypeOK'
<1>1. ASSUME NEW p \in Procs, Moves(p)
      PROVE  TypeOK'
  BY <1>1, ProcStep, ConnStep, SignalStepTypes, Types, Zenon
<1>2. ASSUME NEW r \in Readers, Receive(r)
      PROVE  TypeOK'
  <2>1. ProcTypes'
    BY <1>2, Members, PlaceNames, Types DEF ProcTypes, Receive, Goto
  <2>2. ConnTypes' /\ SignalTypes'
    BY <1>2, Types, ZenonT(20) DEF ConnTypes, SignalTypes, Receive, connVars, sigVars
  <2> QED
    BY <2>1, <2>2, Types, Zenon
<1>3. ASSUME NEW s \in Conns, Break(s)
      PROVE  TypeOK'
  BY <1>3, ZenonT(30) DEF TypeOK, Break, sigVars, procVars
<1> QED
  BY <1>1, <1>2, <1>3, NextCases, Zenon

-----------------------------------------------------------------------------
(* The body of the Once is left by the goroutine that entered it, so that  *)
(* the channel it closes is still open, and the mutex it unlocks locked.   *)

Fired(p) ==
  /\ pc[p] = "fire" /\ ~chan[local[p]].closed
  /\ chan' = [chan EXCEPT ![local[p]] = [buf |-> cause[p], closed |-> TRUE]]
  /\ Goto(p, "leave")
  /\ UNCHANGED <<mu, connVars, disconnCh, disconnCause, disconnected, once, crash,
                 local, cause, ret, readerActive, goodbye>>

Left(p) ==
  /\ pc[p] = "leave"
  /\ once' = [done |-> TRUE, locked |-> FALSE]
  /\ Goto(p, ret[p])
  /\ UNCHANGED <<mu, connVars, disconnCh, disconnCause, disconnected, chan, crash,
                 local, cause, ret, readerActive, goodbye>>

(* The body of the Once closes a channel that is open. *)
LEMMA FireFits ==
  ASSUME TypeOK, OnceBody, NEW p \in Procs, Fire(p)
  PROVE  Fired(p)
<1>1. pc[p] = "fire" /\ local[p] = disconnCh /\ InBody(p)
  BY Zenon DEF Fire, OnceBody, InBody
<1>2. \A q \in Procs : pc[q] # "leave"
  BY <1>1, Zenon DEF OnceBody, InBody
<1>3. ~once.done
  BY <1>1, Zenon DEF OnceBody
<1>4. ~chan[local[p]].closed
  BY <1>1, <1>2, <1>3, Zenon DEF OnceBody
<1> QED
  BY <1>1, <1>4, Zenon DEF Fire, Fired

(* The body of the Once leaves the Once it entered. *)
LEMMA LeaveFits ==
  ASSUME OnceBody, NEW p \in Procs, OnceLeave(p)
  PROVE  Left(p)
<1>1. once.locked
  BY Zenon DEF OnceLeave, OnceBody, InBody
<1> QED
  BY <1>1, Zenon DEF OnceLeave, Left

(* No step crashes. *)
LEMMA CrashStep ==
  ASSUME TypeOK, OnceBody, NoCrash, NEW p \in Procs, Moves(p)
  PROVE  NoCrash'
<1>1. CASE Fire(p) \/ OnceLeave(p)
  BY <1>1, FireFits, LeaveFits, Zenon DEF Fired, Left, NoCrash
<1>2. CASE UNCHANGED crash
  BY <1>2, Zenon DEF NoCrash
<1> QED
  BY <1>1, <1>2, Zenon
  DEF Moves, OnceDone, OnceEnter, RecordCause, SetFlag, Install, sigVars,
      CallSend, SendOK, SendRefused, SendError, SendUnlock, CallClose, CloseNothing,
      CloseTake, CloseHangup, CloseReturn, CallConnect, CallReconnect, ReconnectHangup, Dial,
      DialFails, HandshakeOK, HandshakeGoodbye, HandshakeFails, Teardown, ReaderSnap, ReadFrame,
      ReadPing, SendPong, ReadGoodbye, ReadError, ReaderExit

-----------------------------------------------------------------------------
(* Places and mu *)

(* A step moves one goroutine. *)
Others(p) ==
  \A q \in Procs : q # p =>
    pc'[q] = pc[q] /\ local'[q] = local[q] /\ cause'[q] = cause[q] /\ ret'[q] = ret[q]

(* A step of one goroutine leaves the others where they are. *)
LEMMA OneMoves ==
  ASSUME TypeOK, OnceBody, NEW p \in Procs, Moves(p)
  PROVE  Others(p)
<1>0. ProcTypes
  BY Types, Zenon
<1> USE <1>0 DEF ProcTypes, Others, Goto
<1>1. CASE Fire(p) \/ OnceLeave(p)
  BY <1>1, FireFits, LeaveFits, Zenon DEF Fired, Left
<1>2. CASE OnceDone(p) \/ OnceEnter(p) \/ RecordCause(p) \/ SetFlag(p)
  BY <1>2, Zenon DEF OnceDone, OnceEnter, RecordCause, SetFlag
<1>3. CASE CallSend(p) \/ SendOK(p) \/ SendRefused(p) \/ SendError(p) \/ SendUnlock(p)
  BY <1>3, Zenon DEF CallSend, SendOK, SendRefused, SendError, SendUnlock, Signal
<1>4. CASE CallClose(p) \/ CloseNothing(p) \/ CloseTake(p) \/ CloseHangup(p) \/ CloseReturn(p)
  BY <1>4, Zenon DEF CallClose, CloseNothing, CloseTake, CloseHangup, CloseReturn, Signal
<1>5. CASE p = App /\ (CallConnect \/ CallReconnect \/ ReconnectHangup \/ Dial \/ DialFails)
  BY <1>5, Zenon DEF CallConnect, CallReconnect, ReconnectHangup, Dial, DialFails
<1>6. CASE p = App /\ (Install \/ HandshakeOK \/ HandshakeGoodbye \/ HandshakeFails \/ Teardown)
  BY <1>6, Zenon DEF Install, HandshakeOK, HandshakeGoodbye, HandshakeFails, Teardown, Signal
<1>7. CASE ReaderSnap(p) \/ ReadFrame(p) \/ ReadPing(p) \/ SendPong(p) \/ ReaderExit(p)
  BY <1>7, Zenon DEF ReaderSnap, ReadFrame, ReadPing, SendPong, ReaderExit
<1>8. CASE ReadGoodbye(p) \/ ReadError(p)
  BY <1>8, Zenon DEF ReadGoodbye, ReadError, Signal
<1> QED
  BY <1>1, <1>2, <1>3, <1>4, <1>5, <1>6, <1>7, <1>8, ZenonT(30) DEF Moves

(* The scene is fixed. *)
LEMMA SameScene ==
  ASSUME NEW p \in Procs, Moves(p)
  PROVE  scene' = scene
BY Zenon DEF Moves, OnceDone, OnceEnter, RecordCause, SetFlag, Fire, OnceLeave, Install, connVars,
      CallSend, SendOK, SendRefused, SendError, SendUnlock, CallClose, CloseNothing,
      CloseTake, CloseHangup, CloseReturn, CallConnect, CallReconnect, ReconnectHangup, Dial,
      DialFails, HandshakeOK, HandshakeGoodbye, HandshakeFails, Teardown, ReaderSnap, ReadFrame,
      ReadPing, SendPong, ReadGoodbye, ReadError, ReaderExit

(* A goroutine stays where its kind can be. *)
LEMMA PlaceMoves ==
  ASSUME TypeOK, OnceBody, Places, NEW p \in Procs, Moves(p)
  PROVE  PlaceOf(p)'
<1>0. ProcTypes /\ PlaceOf(p) /\ scene' = scene
  BY Types, SameScene, Zenon DEF Places
<1>a. /\ p = App => p \notin Closers /\ p \notin Senders /\ p \notin Readers
      /\ p \in Closers => p \notin Senders /\ p \notin Readers
      /\ p \in Senders => p \notin Readers
  BY Members, Zenon
<1> USE <1>0, <1>a DEF ProcTypes, PlaceOf, Signalling, SignalPCs, Goto
<1>1. CASE Fire(p) \/ OnceEnter(p) \/ RecordCause(p) \/ SetFlag(p)
  BY <1>1, FireFits, Zenon DEF Fired, OnceEnter, RecordCause, SetFlag
<1>2. CASE OnceDone(p) \/ OnceLeave(p)
  BY <1>2, LeaveFits, Zenon DEF Left, OnceDone, AppPCs, ReaderPCs
<1>3. CASE p \in Senders /\ CallSend(p)
  BY <1>3, Zenon DEF CallSend
<1>4. CASE p \in Senders \cup {App} /\ (SendOK(p) \/ SendRefused(p) \/ SendUnlock(p))
  BY <1>4, Zenon DEF SendOK, SendRefused, SendUnlock, AppPCs, AfterSend, SendFailed
<1>5. CASE p \in Senders \cup {App} /\ SendError(p)
  BY <1>5, Zenon DEF SendError, Signal
<1>6. CASE /\ p \in Closers \cup {App}
           /\ CallClose(p) \/ CloseNothing(p) \/ CloseTake(p) \/ CloseReturn(p)
  BY <1>6, Zenon DEF CallClose, CloseNothing, CloseTake, CloseReturn, AppPCs
<1>7. CASE p \in Closers \cup {App} /\ CloseHangup(p)
  BY <1>7, Zenon DEF CloseHangup, Signal
<1>8. CASE p = App /\ (CallConnect \/ CallReconnect \/ ReconnectHangup \/ Dial \/ DialFails)
  BY <1>8, ZenonT(30) DEF CallConnect, CallReconnect, ReconnectHangup, Dial, DialFails, AppPCs
<1>9. CASE p = App /\ (Install \/ HandshakeOK \/ HandshakeFails \/ Teardown)
  BY <1>9, ZenonT(20) DEF Install, HandshakeOK, HandshakeFails, Teardown, AppPCs
<1>10. CASE p = App /\ HandshakeGoodbye
  BY <1>10, Zenon DEF HandshakeGoodbye, Signal
<1>11. CASE /\ p \in Readers
            /\ ReaderSnap(p) \/ ReadFrame(p) \/ ReadPing(p) \/ SendPong(p) \/ ReaderExit(p)
  BY <1>11, Zenon DEF ReaderSnap, ReadFrame, ReadPing, SendPong, ReaderExit, ReaderPCs
<1>12. CASE p \in Readers /\ (ReadGoodbye(p) \/ ReadError(p))
  BY <1>12, Zenon DEF ReadGoodbye, ReadError, Signal
<1> QED
  BY <1>1, <1>2, <1>3, <1>4, <1>5, <1>6, <1>7, <1>8, <1>9, <1>10, <1>11, <1>12, ZenonT(30) DEF Moves

(* So do all of them. *)
LEMMA PlacesStep ==
  ASSUME TypeOK, OnceBody, Places, NEW p \in Procs, Moves(p)
  PROVE  Places'
<1>1. ASSUME NEW q \in Procs, q # p PROVE PlaceOf(q)'
  BY <1>1, OneMoves, SameScene, ZenonT(20) DEF Places, PlaceOf, Others, Signalling
<1> QED
  BY <1>1, PlaceMoves, Zenon DEF Places

(* mu changes hands only in SendMessage. *)
LEMMA MuMoves ==
  ASSUME TypeOK, OnceBody, Places, MuHeld, NEW p \in Procs, Moves(p)
  PROVE  \/ mu' = mu /\ (HoldsMu(p)' <=> HoldsMu(p))
         \/ mu = NoProc /\ mu' = p /\ HoldsMu(p)'
         \/ mu = p /\ mu' = NoProc /\ ~HoldsMu(p)'
<1>0. ProcTypes /\ PlaceOf(p) /\ p # NoProc
  BY Types, Members, Zenon DEF Places
<1>a. /\ p = App => p \notin Closers /\ p \notin Senders /\ p \notin Readers
      /\ p \in Closers => p \notin Senders /\ p \notin Readers
      /\ p \in Senders => p \notin Readers
  BY Members, Zenon
<1> USE <1>0, <1>a DEF ProcTypes, HoldsMu, Signalling, SignalPCs, Goto
<1>1. CASE Fire(p) \/ OnceEnter(p) \/ RecordCause(p) \/ SetFlag(p)
  BY <1>1, FireFits, Zenon DEF Fired, OnceEnter, RecordCause, SetFlag
<1>2. CASE OnceDone(p) \/ OnceLeave(p)
  BY <1>2, LeaveFits, Members, Zenon DEF Left, OnceDone, PlaceOf
<1>3. CASE p \in Senders /\ CallSend(p)
  BY <1>3, Zenon DEF CallSend
<1>4. CASE SendOK(p) \/ SendRefused(p)
  BY <1>4, Zenon DEF SendOK, SendRefused, AfterSend, SendFailed
<1>5. CASE SendUnlock(p)
  BY <1>5, Zenon DEF SendUnlock, SendFailed, MuHeld
<1>6. CASE SendError(p)
  BY <1>6, Zenon DEF SendError, Signal
<1>7. CASE CallClose(p) \/ CloseNothing(p) \/ CloseTake(p) \/ CloseReturn(p)
  BY <1>7, Zenon DEF CallClose, CloseNothing, CloseTake, CloseReturn
<1>8. CASE CloseHangup(p)
  BY <1>8, Zenon DEF CloseHangup, Signal
<1>9. CASE p = App /\ (CallConnect \/ CallReconnect \/ ReconnectHangup \/ Dial \/ DialFails)
  BY <1>9, Zenon DEF CallConnect, CallReconnect, ReconnectHangup, Dial, DialFails
<1>10. CASE p = App /\ (Install \/ HandshakeOK \/ HandshakeFails \/ Teardown)
  BY <1>10, Zenon DEF Install, HandshakeOK, HandshakeFails, Teardown
<1>11. CASE p = App /\ HandshakeGoodbye
  BY <1>11, Zenon DEF HandshakeGoodbye, Signal
<1>12. CASE ReaderSnap(p) \/ ReadFrame(p) \/ ReadPing(p) \/ SendPong(p) \/ ReaderExit(p)
  BY <1>12, Zenon DEF ReaderSnap, ReadFrame, ReadPing, SendPong, ReaderExit
<1>13. CASE ReadGoodbye(p) \/ ReadError(p)
  BY <1>13, Zenon DEF ReadGoodbye, ReadError, Signal
<1> QED
  BY <1>1, <1>2, <1>3, <1>4, <1>5, <1>6, <1>7, <1>8, <1>9, <1>10, <1>11, <1>12, <1>13, Zenon DEF Moves

(* mu stays with the SendMessage whose write has failed. *)
LEMMA MuStep ==
  ASSUME TypeOK, OnceBody, Places, MuHeld, NEW p \in Procs, Moves(p)
  PROVE  MuHeld'
<1>1. ASSUME NEW q \in Procs, q # p PROVE HoldsMu(q)' <=> mu' = q
  <2>1. HoldsMu(q)' <=> mu = q
    BY <1>1, OneMoves, Zenon DEF Others, MuHeld, HoldsMu, Signalling
  <2> QED
    BY <1>1, <2>1, MuMoves, Members, Zenon
<1>2. HoldsMu(p)' <=> mu' = p
  BY MuMoves, Members, Zenon DEF MuHeld
<1> QED
  BY <1>1, <1>2, Zenon DEF MuHeld

-----------------------------------------------------------------------------
(* The Once *)

(* Outside the body of the Once the signal is left alone. *)
Outside(p) ==
  /\ ~InBody(p) /\ ~InBody(p)'
  /\ UNCHANGED <<disconnCh, disconnCause, disconnected, once, chan>>

(* A step is part of signalDisconnect, installs a connection, or is neither. *)
LEMMA SignalCases ==
  ASSUME TypeOK, Places, NEW p \in Procs, Moves(p)
  PROVE  \/ OnceEnter(p) \/ RecordCause(p) \/ SetFlag(p) \/ Fire(p) \/ OnceLeave(p)
         \/ p = App /\ Install
         \/ Outside(p)
<1>0. ProcTypes /\ PlaceOf(p)
  BY Types, Zenon DEF Places
<1> USE <1>0 DEF ProcTypes, Goto, Outside, InBody, sigVars
<1>1. CASE OnceDone(p)
  <2>1. ret[p] \in {"unlock", "shut", "teardown", "snap", "exit"}
    BY <1>1, Members, Zenon DEF OnceDone, PlaceOf, Signalling, SignalPCs
  <2> QED
    BY <1>1, <2>1, Zenon DEF OnceDone
<1>2. CASE CallSend(p) \/ SendOK(p) \/ SendRefused(p) \/ SendUnlock(p)
  BY <1>2, Zenon DEF CallSend, SendOK, SendRefused, SendUnlock, AfterSend, SendFailed
<1>3. CASE CallClose(p) \/ CloseNothing(p) \/ CloseTake(p) \/ CloseReturn(p)
  BY <1>3, Zenon DEF CallClose, CloseNothing, CloseTake, CloseReturn
<1>4. CASE p = App /\ (CallConnect \/ CallReconnect \/ ReconnectHangup \/ Dial \/ DialFails)
  BY <1>4, Zenon DEF CallConnect, CallReconnect, ReconnectHangup, Dial, DialFails
<1>5. CASE p = App /\ (HandshakeOK \/ HandshakeFails \/ Teardown)
  BY <1>5, Zenon DEF HandshakeOK, HandshakeFails, Teardown
<1>6. CASE ReaderSnap(p) \/ ReadFrame(p) \/ ReadPing(p) \/ SendPong(p) \/ ReaderExit(p)
  BY <1>6, Zenon DEF ReaderSnap, ReadFrame, ReadPing, SendPong, ReaderExit
<1>7. CASE p = App /\ HandshakeGoodbye
  BY <1>7, Zenon DEF HandshakeGoodbye, Signal
<1>8. CASE SendError(p) \/ CloseHangup(p) \/ ReadGoodbye(p) \/ ReadError(p)
  BY <1>8, Zenon DEF SendError, CloseHangup, ReadGoodbye, ReadError, Signal
<1> QED
  BY <1>1, <1>2, <1>3, <1>4, <1>5, <1>6, <1>7, <1>8, Zenon DEF Moves

(* Connect resets the signal when nobody is in signalDisconnect. *)
LEMMA InstallAlone ==
  ASSUME ClientInv, Install
  PROVE  \A q \in Procs : ~Signalling(q) /\ pc[q] \notin {"hangup", "shut", "read"}
<1>1. pc[App] = "install" /\ mu = NoProc
  BY Zenon DEF Install
<1>2. ASSUME NEW q \in Procs
      PROVE  ~Signalling(q) /\ pc[q] \notin {"hangup", "shut", "read"}
  <2>0. PlaceOf(q) /\ ~HoldsMu(q)
    BY <1>1, Members, Zenon DEF ClientInv, Places, MuHeld
  <2>1. CASE q = App
    BY <1>1, <2>1, Zenon DEF Signalling, SignalPCs
  <2>2. CASE q \in Closers
    BY <1>1, <2>2, Zenon DEF ClientInv, Calm, Signalling, SignalPCs
  <2>3. CASE q \in Senders
    BY <2>0, <2>3, Zenon DEF PlaceOf, HoldsMu, Signalling, SignalPCs
  <2>4. CASE q \in Readers
    BY <1>1, <2>4, Zenon DEF ClientInv, Calm, Connecting, Signalling, SignalPCs
  <2> QED
    BY <2>1, <2>2, <2>3, <2>4, Members, Zenon
<1> QED
  BY <1>2, Zenon

(* The channel Connect puts in place is open. *)
LEMMA InstallOpen ==
  ASSUME ClientInv, Install
  PROVE  ~chan'[disconnCh'].closed /\ disconnCh' = dials /\ dials # NoConn
<1>1. pc[App] = "install" /\ disconnCh' = dials /\ chan' = chan
  BY Zenon DEF Install
<1>2. dials \in Chans /\ dials \in Nat /\ disconnCh \in Nat
  BY Members, Zenon DEF ClientInv, TypeOK, Chans
<1>3. dials > disconnCh
  BY <1>1, <1>2 DEF ClientInv, Numbered
<1> QED
  BY <1>1, <1>2, <1>3 DEF ClientInv, Numbered, NoConn

(* signalDisconnect closes the channel in place, with its cause in it. *)
LEMMA FireEffect ==
  ASSUME TypeOK, OnceBody, NEW p \in Procs, Fire(p)
  PROVE  /\ chan'[disconnCh] = [buf |-> cause[p], closed |-> TRUE]
         /\ disconnCause = cause[p] /\ disconnected
         /\ UNCHANGED <<disconnCh, disconnCause, disconnected, once, local, cause, ret>>
<1>1. Fired(p)
  BY FireFits, Zenon
<1>2. local[p] = disconnCh /\ disconnCause = cause[p] /\ disconnected
  BY Zenon DEF Fire, OnceBody
<1>3. chan \in [Chans -> [buf : Causes \cup {"zero"}, closed : BOOLEAN]] /\ disconnCh \in Chans
  BY Zenon DEF TypeOK
<1>4. chan' = [chan EXCEPT ![disconnCh] = [buf |-> cause[p], closed |-> TRUE]]
  BY <1>1, <1>2, Zenon DEF Fired
<1>5. chan'[disconnCh] = [buf |-> cause[p], closed |-> TRUE]
  BY <1>3, <1>4, Zenon
<1> QED
  BY <1>1, <1>2, <1>5, Zenon DEF Fired

(* One goroutine at most is in the body of a Once. *)
LEMMA OnceStep ==
  ASSUME ClientInv, NEW p \in Procs, Moves(p)
  PROVE  OnceBody'
<1>0. TypeOK /\ OnceBody /\ Places /\ Others(p) /\ ProcTypes /\ SignalTypes
  BY OneMoves, Types, Zenon DEF ClientInv
<1>1. CASE Outside(p)
  BY <1>0, <1>1 DEF OnceBody, Outside, Others, InBody
<1>2. CASE OnceEnter(p)
  <2>1. /\ pc[p] = "once" /\ pc'[p] = "cause" /\ once'.locked /\ ~once'.done
        /\ \A q \in Procs : ~InBody(q)
        /\ UNCHANGED <<disconnCh, disconnCause, disconnected, chan>>
    BY <1>0, <1>2, Zenon DEF OnceEnter, OnceBody, ProcTypes, SignalTypes, Goto
  <2>2. ~once.done /\ ~chan[disconnCh].closed
    BY <1>0, <1>2, <2>1, Zenon DEF OnceEnter, OnceBody, InBody
  <2>3. InBody(p)' /\ \A q \in Procs : InBody(q)' => q = p
    BY <1>0, <2>1, Zenon DEF Others, InBody
  <2>4. \A q \in Procs : pc'[q] \notin {"flag", "fire", "leave"}
    BY <2>1, <2>3, Zenon DEF InBody
  <2> QED
    BY <2>1, <2>2, <2>3, <2>4, Zenon DEF OnceBody
<1>3. CASE RecordCause(p)
  <2>1. /\ pc[p] = "cause" /\ pc'[p] = "flag" /\ local'[p] = disconnCh /\ cause' = cause
        /\ disconnCause' = cause[p]
        /\ UNCHANGED <<disconnCh, disconnected, chan, once>>
    BY <1>0, <1>3, Zenon DEF RecordCause, ProcTypes, Goto
  <2> QED
    BY <1>0, <2>1 DEF OnceBody, Others, InBody
<1>4. CASE SetFlag(p)
  <2>1. /\ pc[p] = "flag" /\ pc'[p] = "fire" /\ disconnected'
        /\ UNCHANGED <<disconnCh, disconnCause, chan, once, local, cause>>
    BY <1>0, <1>4, Zenon DEF SetFlag, ProcTypes, Goto
  <2> QED
    BY <1>0, <2>1 DEF OnceBody, Others, InBody
<1>5. CASE Fire(p)
  <2>1. chan'[disconnCh'] = [buf |-> cause[p], closed |-> TRUE] /\ once' = once
    BY <1>0, <1>5, FireEffect, Zenon
  <2>2. chan'[disconnCh'].closed
    BY <2>1
  <2>3. pc[p] = "fire" /\ pc'[p] = "leave"
    BY <1>0, <1>5, FireFits, Zenon DEF Fired, ProcTypes, Goto
  <2>4. \A q \in Procs : InBody(q)' <=> InBody(q)
    BY <1>0, <2>3, Zenon DEF Others, InBody
  <2>5. \A q \in Procs : pc'[q] \notin {"flag", "fire"}
    BY <1>0, <2>3, SMTT(30) DEF OnceBody, Others, InBody
  <2> QED
    BY <1>0, <2>1, <2>2, <2>3, <2>4, <2>5, Zenon DEF OnceBody
<1>6. CASE OnceLeave(p)
  <2>1. /\ pc[p] = "leave" /\ pc'[p] = ret[p] /\ ~once'.locked /\ once'.done
        /\ UNCHANGED <<disconnCh, disconnCause, disconnected, chan, local, cause>>
    BY <1>0, <1>6, LeaveFits DEF Left, ProcTypes, Goto
  <2>2. ret[p] \in {"unlock", "shut", "teardown", "snap", "exit"}
    BY <1>0, <2>1, Members, Zenon DEF Places, PlaceOf, Signalling, SignalPCs
  <2> QED
    BY <1>0, <2>1, <2>2 DEF OnceBody, Others, InBody
<1>7. CASE p = App /\ Install
  <2>1. \A q \in Procs : ~InBody(q)'
    <3>1. pc' = [pc EXCEPT ![App] = "init"]
      BY <1>7, Zenon DEF Install, Goto
    <3> QED
      BY <1>0, <1>7, <3>1, InstallAlone, Zenon DEF ProcTypes, InBody, Signalling, SignalPCs
  <2>2. ~once'.locked /\ ~once'.done
    BY <1>7, Zenon DEF Install
  <2> QED
    BY <1>7, <2>1, <2>2, InstallOpen, Zenon DEF OnceBody, InBody
<1> QED
  BY <1>0, <1>1, <1>2, <1>3, <1>4, <1>5, <1>6, <1>7, SignalCases, ZenonT(30)

(* Channel, cause and flag go on agreeing. *)
LEMMA CauseStep ==
  ASSUME ClientInv, NEW p \in Procs, Moves(p)
  PROVE  CauseAgrees'
<1>0. TypeOK /\ OnceBody /\ Places /\ CauseAgrees /\ ProcTypes /\ SignalTypes
  BY Types, Zenon DEF ClientInv
<1>a. cause[p] # "zero"
  BY <1>0, Zenon DEF ProcTypes, Causes
<1>1. CASE Outside(p) \/ OnceEnter(p) \/ SetFlag(p)
  BY <1>0, <1>1, Zenon DEF CauseAgrees, Outside, OnceEnter, SetFlag
<1>2. CASE RecordCause(p)
  <2>1. InBody(p) /\ pc[p] # "leave"
    BY <1>2, Zenon DEF RecordCause, InBody
  <2>2. ~chan[disconnCh].closed
    BY <1>0, <2>1, Zenon DEF OnceBody, InBody
  <2> QED
    BY <1>2, <2>2, Zenon DEF CauseAgrees, RecordCause
<1>3. CASE Fire(p)
  <2>1. /\ chan'[disconnCh'] = [buf |-> cause[p], closed |-> TRUE]
        /\ disconnCause' = cause[p] /\ disconnected'
    BY <1>0, <1>3, FireEffect
  <2> QED
    BY <1>a, <2>1, SMTT(30) DEF CauseAgrees
<1>4. CASE OnceLeave(p)
  BY <1>0, <1>4, Zenon DEF CauseAgrees, OnceLeave
<1>5. CASE Install
  BY <1>5, InstallOpen, Zenon DEF CauseAgrees
<1> QED
  BY <1>0, <1>1, <1>2, <1>3, <1>4, <1>5, SignalCases, Zenon

-----------------------------------------------------------------------------
(* What becomes of a connection: until Connect puts another one in place   *)
(* it is dropped, breaks or says goodbye, and never comes back.            *)

Ages ==
  /\ (conn' = conn /\ closed' = closed) \/ conn' = NoConn
  /\ conn # NoConn /\ sock[conn] = "broken" => sock'[conn] = "broken"
  /\ goodbye \subseteq goodbye'
  /\ disconnCh' = disconnCh

(* Until the next one is installed, a connection only ages. *)
LEMMA AgeMoves ==
  ASSUME ClientInv, NEW p \in Procs, Moves(p), ~Install
  PROVE  Ages
<1>0. ConnTypes /\ Numbered
  BY Types, Zenon DEF ClientInv
<1> USE <1>0 DEF Ages, sigVars, connVars
<1>1. CASE OnceDone(p) \/ OnceEnter(p) \/ RecordCause(p) \/ SetFlag(p) \/ Fire(p) \/ OnceLeave(p)
  BY <1>1, Zenon DEF OnceDone, OnceEnter, RecordCause, SetFlag, Fire, OnceLeave
<1>2. CASE CallSend(p) \/ SendOK(p) \/ SendRefused(p) \/ SendError(p) \/ SendUnlock(p)
  BY <1>2, Zenon DEF CallSend, SendOK, SendRefused, SendError, SendUnlock
<1>3. CASE CallClose(p) \/ CloseNothing(p) \/ CloseReturn(p)
  BY <1>3, Zenon DEF CallClose, CloseNothing, CloseReturn
<1>4. CASE CloseTake(p) \/ CloseHangup(p) \/ ReconnectHangup \/ Teardown
  BY <1>4, Zenon DEF CloseTake, CloseHangup, ReconnectHangup, Teardown, ConnTypes
<1>5. CASE CallConnect \/ CallReconnect \/ DialFails
  BY <1>5, Zenon DEF CallConnect, CallReconnect, DialFails
<1>6. CASE Dial
  <2>1. conn # NoConn => conn = dials
    BY <1>6, Zenon DEF Dial, Numbered
  <2>2. dials # dials + 1
    BY DEF ConnTypes
  <2> QED
    BY <1>6, <2>1, <2>2, Zenon DEF Dial, ConnTypes
<1>7. CASE HandshakeOK \/ HandshakeGoodbye \/ HandshakeFails
  BY <1>7, Zenon DEF HandshakeOK, HandshakeGoodbye, HandshakeFails
<1>8. CASE ReaderSnap(p) \/ ReadFrame(p) \/ ReadPing(p) \/ SendPong(p) \/ ReaderExit(p)
  BY <1>8, Zenon DEF ReaderSnap, ReadFrame, ReadPing, SendPong, ReaderExit
<1>9. CASE ReadGoodbye(p) \/ ReadError(p)
  BY <1>9, Zenon DEF ReadGoodbye, ReadError
<1> QED
  BY <1>1, <1>2, <1>3, <1>4, <1>5, <1>6, <1>7, <1>8, <1>9, ZenonT(30) DEF Moves

(* A reason to signal stays one until Connect. *)
LEMMA ReasonKept ==
  ASSUME Ages
  PROVE  /\ Reason => Reason'
         /\ ~IsConnected => ~IsConnected'
         /\ IsConnected' => conn' = conn /\ IsConnected
BY DEF Ages, Reason, IsConnected

(* The channel in place stays that of the last dial that was installed. *)
LEMMA NumberStep ==
  ASSUME ClientInv, NEW p \in Procs, Moves(p)
  PROVE  Numbered'
<1>0. /\ TypeOK /\ Numbered /\ Places /\ Others(p) /\ ProcTypes /\ ConnTypes /\ SignalTypes
      /\ OnceBody /\ PlaceOf(p)
  BY OneMoves, Types, Zenon DEF ClientInv, Places
<1>a. dials \in Nat /\ disconnCh \in Nat /\ scene.dials \in Nat /\ scene' = scene
  BY <1>0, SameScene, Counts, Zenon
<1>b. App \in Procs /\ NoConn = 0 /\ \A c \in Chans : c \in Nat
  BY Members, Zenon DEF NoConn
<1>1. CASE Dial
  <2>1. /\ pc[App] = "dial" /\ pc'[App] = "install" /\ dials' = dials + 1 /\ dials < scene.dials
        /\ UNCHANGED <<disconnCh, conn, chan>>
    BY <1>0, <1>b, <1>1, Zenon DEF Dial, ProcTypes, Goto, sigVars
  <2> QED
    BY <1>0, <1>a, <1>b, <2>1 DEF Numbered
<1>2. CASE Install
  <2>1. /\ pc[App] = "install" /\ pc'[App] = "init" /\ disconnCh' = dials /\ conn' = dials
        /\ UNCHANGED <<dials, chan>>
    BY <1>0, <1>b, <1>2, Zenon DEF Install, ProcTypes, Goto
  <2> QED
    BY <1>0, <1>a, <1>b, <2>1 DEF Numbered
<1>3. CASE ~Dial /\ ~Install
  <2>1. UNCHANGED dials
    BY <1>3, Zenon
    DEF Moves, OnceDone, OnceEnter, RecordCause, SetFlag, Fire, OnceLeave, connVars,
      CallSend, SendOK, SendRefused, SendError, SendUnlock, CallClose, CloseNothing,
      CloseTake, CloseHangup, CloseReturn, CallConnect, CallReconnect, ReconnectHangup,
      DialFails, HandshakeOK, HandshakeGoodbye, HandshakeFails, Teardown, ReaderSnap, ReadFrame,
      ReadPing, SendPong, ReadGoodbye, ReadError, ReaderExit
  <2>2. pc'[App] = "install" <=> pc[App] = "install"
    <3>1. CASE p # App
      BY <1>0, <3>1, Members, Zenon DEF Others
    <3>2. CASE p = App /\ (OnceDone(p) \/ OnceLeave(p))
      BY <1>0, <3>2, LeaveFits, Zenon DEF OnceDone, Left, PlaceOf, Signalling, SignalPCs, ProcTypes, Goto
    <3>3. CASE p = App /\ ~(OnceDone(p) \/ OnceLeave(p))
      BY <1>0, <1>3, <3>3, FireFits, Members, ZenonT(20)
      DEF Moves, OnceEnter, RecordCause, SetFlag, Fired, ProcTypes, Goto, Signal,
        CallSend, SendOK, SendRefused, SendError, SendUnlock, CallClose, CloseNothing,
        CloseTake, CloseHangup, CloseReturn, CallConnect, CallReconnect, ReconnectHangup,
        DialFails, HandshakeOK, HandshakeGoodbye, HandshakeFails, Teardown, AfterSend, SendFailed
    <3> QED
      BY <3>1, <3>2, <3>3, Zenon
  <2>3. Ages
    BY <1>3, AgeMoves, Zenon
  <2>4. \A c \in Chans : c > disconnCh => chan'[c] = chan[c]
    <3>1. CASE Fire(p)
      <4>1. local[p] = disconnCh /\ chan' = [chan EXCEPT ![local[p]] = [buf |-> cause[p], closed |-> TRUE]]
        BY <1>0, <3>1, FireFits, Zenon DEF Fired, Fire, OnceBody
      <4>2. \A c \in Chans : c > disconnCh => c # disconnCh
        BY <1>a, <1>b
      <4> QED
        BY <1>0, <4>1, <4>2, Zenon DEF SignalTypes
    <3>2. CASE ~Fire(p)
      BY <1>0, <1>3, <3>2, SignalCases, Zenon
      DEF Outside, OnceEnter, RecordCause, SetFlag, OnceLeave
    <3> QED
      BY <3>1, <3>2, Zenon
  <2> QED
    BY <1>0, <1>a, <2>1, <2>2, <2>3, <2>4, Zenon DEF Ages, Numbered
<1> QED
  BY <1>1, <1>2, <1>3, Zenon

(* Before the first connection nothing is signalled. *)
LEMMA VirginStep ==
  ASSUME ClientInv, NEW p \in Procs, Moves(p)
  PROVE  Virgin'
<1>1. CASE Install
  BY <1>1, InstallOpen, Zenon DEF Virgin, NoConn
<1>2. CASE ~Install /\ disconnCh # 0
  BY <1>2, AgeMoves, Zenon DEF Ages, Virgin
<1>3. CASE ~Install /\ disconnCh = 0
  <2>0. /\ Virgin /\ OnceBody /\ PlaceOf(p) /\ Others(p) /\ ProcTypes
        /\ conn = NoConn /\ ~chan[disconnCh].closed
    BY <1>3, OneMoves, Types, Zenon DEF ClientInv, Places, Virgin, Numbered, NoConn
  <2>1. ~Signalling(p) /\ pc[p] \in {"idle", "close", "dial", "install", "none", "init"}
    BY <1>3, <2>0, Zenon DEF Virgin, Signalling, SignalPCs
  <2>2. \/ p \in Senders /\ (CallSend(p) \/ SendRefused(p))
        \/ CallClose(p) \/ CloseNothing(p)
        \/ p = App /\ (CallConnect \/ Dial \/ DialFails)
    BY <1>3, <2>0, <2>1, Members, ZenonT(30)
    DEF Moves, OnceDone, OnceEnter, RecordCause, SetFlag, Fire, OnceLeave, IsConnected, Virgin,
      SendOK, SendRefused, SendError, SendUnlock, CloseTake, CloseHangup, CloseReturn,
      CallReconnect, ReconnectHangup, HandshakeOK, HandshakeGoodbye, HandshakeFails, Teardown,
      ReaderSnap, ReadFrame, ReadPing, SendPong, ReadGoodbye, ReadError, ReaderExit
  <2>3. UNCHANGED sigVars
    BY <2>2, Zenon
    DEF CallSend, SendRefused, CallClose, CloseNothing, CallConnect, Dial, DialFails
  <2>4. pc'[p] \in {"idle", "close", "dial", "install", "none"} \/ (p \in Senders /\ pc'[p] = "init")
    BY <2>0, <2>2, Members, Zenon
    DEF CallSend, SendRefused, CallClose, CloseNothing, CallConnect, Dial, DialFails, SendFailed,
        ProcTypes, Goto
  <2> QED
    BY <1>3, <2>0, <2>3, <2>4, Zenon DEF Virgin, Others, sigVars
<1> QED
  BY <1>1, <1>2, <1>3, Zenon

(* A connect starts where no reader runs and nobody is closing. *)
LEMMA ConnectsAlone ==
  ASSUME ClientInv, CallConnect \/ CallReconnect
  PROVE  /\ \A r \in Readers : pc[r] \in {"none", "done"}
         /\ \A q \in Closers : pc[q] \in {"idle", "close"}
         /\ scene.dials <= 1 => conn = NoConn
<1>0. /\ TypeOK /\ Virgin /\ Places /\ Numbered /\ Tame(scene)
      /\ pc[App] = "idle" /\ dials < scene.dials /\ ReadersEnded
  BY Zenon DEF ClientInv, CallConnect, CallReconnect
<1>a. dials \in Nat /\ scene.dials \in Nat
  BY <1>0, Counts, Zenon
<1>1. CASE scene.dials <= 1
  <2>1. dials = 0
    BY <1>0, <1>a, <1>1
  <2>2. disconnCh = 0 /\ conn = NoConn
    BY <1>0, <2>1, Zenon DEF Numbered, NoConn
  <2>3. \A r \in Readers : pc[r] \in {"none", "done"}
    BY <1>0, <2>2, Members, Zenon DEF Virgin, Places, PlaceOf, ReaderPCs, SignalPCs
  <2>4. \A q \in Closers : pc[q] \in {"idle", "close"}
    BY <1>0, <2>2, Members, Zenon DEF Virgin, Places, PlaceOf, SignalPCs
  <2> QED
    BY <2>2, <2>3, <2>4, Zenon
<1>2. CASE ~(scene.dials <= 1)
  <2>1. scene.closers = {} /\ scene.wait
    BY <1>0, <1>2, Zenon DEF Tame
  <2>2. \A q \in Closers : pc[q] = "idle"
    BY <1>0, <2>1, Members, Zenon DEF Places, PlaceOf
  <2> QED
    BY <1>0, <1>2, <2>1, <2>2, Zenon DEF ReadersEnded
<1> QED
  BY <1>1, <1>2, Zenon

(* Only these two start a connect. *)
Dialling == pc[App] \in {"redial", "dial", "install"}

(* Only Connect and Reconnect start a dial. *)
LEMMA ConnectMoves ==
  ASSUME ClientInv, NEW p \in Procs, Moves(p)
  PROVE  \/ p = App /\ (CallConnect \/ CallReconnect)
         \/ (Connecting' => Connecting) /\ (Dialling' => Dialling)
<1>0. ProcTypes /\ PlaceOf(p) /\ Others(p) /\ OnceBody /\ App \in Procs
  BY OneMoves, Types, Members, Zenon DEF ClientInv, Places
<1>1. CASE p # App
  BY <1>0, <1>1, Zenon DEF Others, Connecting, Dialling, Signalling
<1>2. CASE p = App
  <2> USE <1>0, <1>2 DEF ProcTypes, Connecting, Dialling, Signalling, SignalPCs, Goto
  <2>1. CASE Fire(p) \/ OnceEnter(p) \/ RecordCause(p) \/ SetFlag(p)
    BY <2>1, FireFits, Zenon DEF ClientInv, Fired, OnceEnter, RecordCause, SetFlag
  <2>2. CASE OnceDone(p) \/ OnceLeave(p)
    BY <2>2, LeaveFits, Zenon DEF OnceDone, Left, PlaceOf
  <2>3. CASE SendOK(p) \/ SendRefused(p) \/ SendUnlock(p)
    BY <2>3, Zenon DEF SendOK, SendRefused, SendUnlock, AfterSend, SendFailed
  <2>4. CASE SendError(p) \/ CloseHangup(p) \/ HandshakeGoodbye
    BY <2>4, Zenon DEF SendError, CloseHangup, HandshakeGoodbye, Signal
  <2>5. CASE CallClose(p) \/ CloseNothing(p) \/ CloseTake(p) \/ CloseReturn(p)
    BY <2>5, Zenon DEF CallClose, CloseNothing, CloseTake, CloseReturn
  <2>6. CASE ReconnectHangup \/ Dial \/ DialFails
    BY <2>6, Zenon DEF ReconnectHangup, Dial, DialFails
  <2>7. CASE Install \/ HandshakeOK \/ HandshakeFails \/ Teardown
    BY <2>7, Zenon DEF Install, HandshakeOK, HandshakeFails, Teardown
  <2> QED
    BY <2>1, <2>2, <2>3, <2>4, <2>5, <2>6, <2>7, Members, ZenonT(30) DEF Moves
<1> QED
  BY <1>1, <1>2, Zenon

(* Readers that have not started or have ended take no step. *)
LEMMA IdleReader ==
  ASSUME NEW p \in Readers, pc[p] \in {"none", "done"}
  PROVE  ~Moves(p)
BY Members, Zenon
DEF Moves, OnceDone, OnceEnter, RecordCause, SetFlag, Fire, OnceLeave, CallSend, SendOK,
    SendRefused, SendError, SendUnlock, CallClose, CloseNothing, CloseTake, CloseHangup,
    CloseReturn, ReaderSnap, ReadFrame, ReadPing, SendPong, ReadGoodbye, ReadError, ReaderExit

(* While App dials, a closer finds nothing to close. *)
LEMMA CloserWaits ==
  ASSUME ClientInv, Dialling, NEW p \in Closers, Moves(p)
  PROVE  pc'[p] \in {"idle", "close"}
<1>0. /\ PlaceOf(p) /\ ProcTypes /\ Calm /\ Tame(scene) /\ p \in Procs
      /\ pc[p] \in {"idle", "close"} /\ (scene.dials <= 1 => conn = NoConn)
  BY Types, Members, Zenon DEF ClientInv, Places, Calm, Dialling
<1>1. CallClose(p) \/ CloseNothing(p) \/ CloseTake(p)
  BY <1>0, Members, Zenon
  DEF Moves, OnceDone, OnceEnter, RecordCause, SetFlag, Fire, OnceLeave, CallSend, SendOK,
    SendRefused, SendError, SendUnlock, CloseHangup, CloseReturn
<1>2. ~CloseTake(p)
  BY <1>0, Zenon DEF CloseTake, IsConnected, Tame, PlaceOf
<1> QED
  BY <1>0, <1>1, <1>2, Zenon DEF CallClose, CloseNothing, ProcTypes, Goto

(* While a connection is set up no reader runs, and nobody closes during the dial. *)
LEMMA CalmStep ==
  ASSUME ClientInv, NEW p \in Procs, Moves(p)
  PROVE  Calm'
<1>0. Calm /\ Others(p) /\ scene' = scene
  BY OneMoves, SameScene, Zenon DEF ClientInv
<1>1. CASE p = App /\ (CallConnect \/ CallReconnect)
  <2>1. /\ \A r \in Readers : pc[r] \in {"none", "done"}
        /\ \A q \in Closers : pc[q] \in {"idle", "close"}
        /\ scene.dials <= 1 => conn = NoConn
        /\ conn' = conn
    BY <1>1, ConnectsAlone, Zenon DEF CallConnect, CallReconnect, connVars
  <2>2. \A q \in Readers \cup Closers : pc'[q] = pc[q]
    BY <1>0, <1>1, Members, Zenon DEF Others
  <2> QED
    BY <1>0, <2>1, <2>2, Zenon DEF Calm
<1>2. CASE (Connecting' => Connecting) /\ (Dialling' => Dialling)
  <2>1. Connecting' => \A r \in Readers : pc'[r] \in {"none", "done"}
    BY <1>0, <1>2, IdleReader, Members, Zenon DEF Calm, Others
  <2>2. Dialling' => \A q \in Closers : pc'[q] \in {"idle", "close"}
    BY <1>0, <1>2, CloserWaits, Members, ZenonT(30) DEF Calm, Others, Dialling
  <2>3. Dialling' /\ scene'.dials <= 1 => conn' = NoConn
    <3>1. CASE Install
      BY <3>1, Members, Zenon DEF Install, Dialling, ClientInv, TypeOK, Goto
    <3>2. CASE ~Install
      BY <1>0, <1>2, <3>2, AgeMoves, Zenon DEF Ages, Calm, Dialling
    <3> QED
      BY <3>1, <3>2, Zenon
  <2> QED
    BY <2>1, <2>2, <2>3, Zenon DEF Calm, Dialling
<1> QED
  BY <1>1, <1>2, ConnectMoves, Zenon

-----------------------------------------------------------------------------
(* The reasons for a signal *)

(* signalDisconnect is called about the connection in place. *)
LEMMA BeginMoves ==
  ASSUME ClientInv, NEW p \in Procs, Moves(p), ~Install
  PROVE  (Signalling(p)' => Signalling(p) \/ Reason') /\ (Closing(p)' => ~IsConnected')
<1>0. /\ ProcTypes /\ PlaceOf(p) /\ OnceBody /\ TypeOK /\ Ages /\ Reasons
      /\ (Closing(p) => ~IsConnected')
  BY AgeMoves, ReasonKept, Types, Zenon DEF ClientInv, Places, Reasons
<1> USE <1>0 DEF ProcTypes, Signalling, Closing, SignalPCs, Goto
<1>1. CASE Fire(p) \/ OnceEnter(p) \/ RecordCause(p) \/ SetFlag(p)
  BY <1>1, FireFits, Zenon DEF Fired, OnceEnter, RecordCause, SetFlag
<1>2. CASE OnceDone(p) \/ OnceLeave(p)
  <2>1. ret[p] \in {"unlock", "shut", "teardown", "snap", "exit"}
    BY <1>2, Members, Zenon DEF OnceDone, OnceLeave, PlaceOf
  <2> QED
    BY <1>2, <2>1, LeaveFits, Zenon DEF OnceDone, Left
<1>3. CASE CallSend(p) \/ SendOK(p) \/ SendRefused(p) \/ SendUnlock(p)
  BY <1>3, Zenon DEF CallSend, SendOK, SendRefused, SendUnlock, AfterSend, SendFailed
<1>4. CASE SendError(p)
  BY <1>4, Zenon DEF SendError, Signal, Reason, IsConnected, connVars
<1>5. CASE CallClose(p) \/ CloseNothing(p) \/ CloseReturn(p)
  BY <1>5, Zenon DEF CallClose, CloseNothing, CloseReturn
<1>6. CASE CloseTake(p)
  BY <1>6, Zenon DEF CloseTake, IsConnected
<1>7. CASE CloseHangup(p)
  BY <1>7, Zenon DEF CloseHangup, Signal, Reason
<1>8. CASE p = App /\ (CallConnect \/ CallReconnect \/ ReconnectHangup \/ Dial \/ DialFails)
  BY <1>8, Zenon DEF CallConnect, CallReconnect, ReconnectHangup, Dial, DialFails
<1>9. CASE p = App /\ (HandshakeOK \/ HandshakeFails \/ Teardown)
  BY <1>9, Zenon DEF HandshakeOK, HandshakeFails, Teardown
<1>10. CASE p = App /\ HandshakeGoodbye
  BY <1>10, Zenon DEF HandshakeGoodbye, Signal, Reason, connVars
<1>11. CASE ReaderSnap(p) \/ ReadFrame(p) \/ ReadPing(p) \/ SendPong(p) \/ ReaderExit(p)
  BY <1>11, Zenon DEF ReaderSnap, ReadFrame, ReadPing, SendPong, ReaderExit
<1>12. CASE p \in Readers /\ (ReadGoodbye(p) \/ ReadError(p))
  <2>1. local[p] = conn \/ ~IsConnected
    BY <1>12, Zenon DEF Reasons, ReadGoodbye, ReadError
  <2> QED
    BY <1>12, <2>1, SMTT(30) DEF ReadGoodbye, ReadError, Signal, Reason, IsConnected, connVars
<1> QED
  BY <1>1, <1>2, <1>3, <1>4, <1>5, <1>6, <1>7, <1>8, <1>9, <1>10, <1>11, <1>12, ZenonT(20) DEF Moves

(* A reader reads the connection it found in place. *)
LEMMA ReadMoves ==
  ASSUME ClientInv, NEW p \in Readers, Moves(p), ~Install, pc'[p] = "read"
  PROVE  local'[p] # NoConn /\ (IsConnected' => local'[p] = conn')
<1>0. ProcTypes /\ PlaceOf(p) /\ p \in Procs /\ OnceBody /\ TypeOK
  BY Types, Members, Zenon DEF ClientInv, Places
<1>1. ReaderSnap(p)
  BY <1>0, FireFits, LeaveFits, Members, ZenonT(30)
  DEF Moves, ProcTypes, PlaceOf, Signalling, SignalPCs, Goto, Signal, OnceDone, OnceEnter,
    RecordCause, SetFlag, Fired, Left, CallSend, SendOK, SendRefused, SendError, SendUnlock,
    CallClose, CloseNothing, CloseTake, CloseHangup, CloseReturn, ReadFrame, ReadPing, SendPong,
    ReadGoodbye, ReadError, ReaderExit
<1> QED
  BY <1>0, <1>1, Zenon DEF ReaderSnap, ProcTypes, Goto, IsConnected, connVars

(* Whoever signals has a reason. *)
LEMMA ReasonStep ==
  ASSUME ClientInv, NEW p \in Procs, Moves(p)
  PROVE  Reasons'
<1>0. /\ Reasons /\ Others(p) /\ OnceBody /\ TypeOK /\ ProcTypes /\ Places
  BY OneMoves, Types, Zenon DEF ClientInv
<1>1. CASE Install
  <2>1. pc' = [pc EXCEPT ![App] = "init"] /\ ~once'.done /\ ~disconnected' /\ ret' = ret
    BY <1>1, Zenon DEF Install, Goto
  <2>2. \A q \in Procs : ~Signalling(q)' /\ ~Closing(q)' /\ pc'[q] # "read"
    BY <1>0, <1>1, <2>1, InstallAlone, Zenon DEF ProcTypes, Signalling, SignalPCs, Closing
  <2> QED
    BY <1>1, <2>1, <2>2, InstallOpen, Members, Zenon DEF Reasons
<1>2. CASE ~Install
  <2>0. /\ Ages /\ (Reason => Reason') /\ (~IsConnected => ~IsConnected')
        /\ (IsConnected' => conn' = conn /\ IsConnected)
    BY <1>2, AgeMoves, ReasonKept, Zenon
  <2>1. \A q \in Procs : Signalling(q)' => Reason'
    <3>1. Signalling(p)' => Reason'
      BY <1>0, <1>2, <2>0, BeginMoves, Zenon DEF Reasons
    <3> QED
      BY <1>0, <2>0, <3>1, Zenon DEF Reasons, Others, Signalling
  <2>2. once'.done \/ disconnected' \/ chan'[disconnCh'].closed => Reason'
    <3>1. CASE Signalling(p)
      BY <1>0, <2>0, <3>1, Zenon DEF Reasons
    <3>2. CASE ~Signalling(p)
      <4>1. Outside(p)
        BY <1>0, <1>2, <3>2, SignalCases, Zenon
        DEF OnceEnter, RecordCause, SetFlag, Fire, OnceLeave, Signalling, SignalPCs
      <4> QED
        BY <1>0, <2>0, <4>1, Zenon DEF Reasons, Outside
    <3> QED
      BY <3>1, <3>2, Zenon
  <2>3. \A q \in Procs : Closing(q)' => ~IsConnected'
    <3>1. Closing(p)' => ~IsConnected'
      BY <1>2, BeginMoves, Zenon
    <3> QED
      BY <1>0, <2>0, <3>1, Zenon DEF Reasons, Others, Closing, Signalling
  <2>4. \A r \in Readers : pc'[r] = "read" =>
          local'[r] # NoConn /\ (IsConnected' => local'[r] = conn')
    <3>1. p \in Readers /\ pc'[p] = "read" =>
            local'[p] # NoConn /\ (IsConnected' => local'[p] = conn')
      BY <1>2, ReadMoves, Zenon
    <3> QED
      BY <1>0, <2>0, <3>1, Members, Zenon DEF Reasons, Others
  <2> QED
    BY <2>1, <2>2, <2>3, <2>4, Zenon DEF Reasons
<1> QED
  BY <1>1, <1>2, Zenon

(* So the signal is true. *)
LEMMA Truthful ==
  ASSUME Reasons
  PROVE  NoSpuriousSignal
BY Zenon DEF Reasons, Reason, NoSpuriousSignal

(* Close returns with the signal fired. *)
LEMMA CloseStepFires ==
  ASSUME ClientInv, NEW p \in Procs, Moves(p)
  PROVE  CloseFires'
<1>0. /\ Others(p) /\ OnceBody /\ TypeOK /\ ProcTypes /\ Places /\ CloseFires /\ PlaceOf(p)
      /\ Closers \cup {App} \subseteq Procs
  BY OneMoves, Types, Members, Zenon DEF ClientInv, Places
<1>1. CASE Install
  <2>1. pc' = [pc EXCEPT ![App] = "init"]
    BY <1>1, Zenon DEF Install, Goto
  <2> QED
    BY <1>0, <1>1, <2>1, InstallAlone, Zenon DEF ProcTypes, CloseFires
<1>2. CASE ~Install
  <2>1. chan[disconnCh].closed => chan'[disconnCh'].closed
    <3>1. CASE Fire(p)
      <4>1. chan'[disconnCh'] = [buf |-> cause[p], closed |-> TRUE]
        BY <1>0, <3>1, FireEffect, Zenon
      <4> QED
        BY <4>1
    <3>2. CASE ~Fire(p)
      BY <1>0, <1>2, <3>2, SignalCases, Zenon
      DEF Outside, OnceEnter, RecordCause, SetFlag, OnceLeave
    <3> QED
      BY <3>1, <3>2, Zenon
  <2>2. pc'[p] = "shut" => chan[disconnCh].closed
    <3>1. CASE OnceDone(p) \/ OnceLeave(p)
      BY <1>0, <3>1, Zenon DEF OnceDone, OnceLeave, OnceBody
    <3>2. CASE Fire(p) \/ OnceEnter(p) \/ RecordCause(p) \/ SetFlag(p)
      BY <1>0, <3>2, FireFits, Zenon DEF Fired, OnceEnter, RecordCause, SetFlag, ProcTypes, Goto
    <3>3. CASE CallSend(p) \/ SendOK(p) \/ SendRefused(p) \/ SendError(p) \/ SendUnlock(p)
      BY <1>0, <3>3, Zenon
      DEF CallSend, SendOK, SendRefused, SendError, SendUnlock, AfterSend, SendFailed, ProcTypes,
          Goto, Signal
    <3>4. CASE CallClose(p) \/ CloseNothing(p) \/ CloseTake(p) \/ CloseHangup(p) \/ CloseReturn(p)
      BY <1>0, <3>4, Zenon
      DEF CallClose, CloseNothing, CloseTake, CloseHangup, CloseReturn, ProcTypes, Goto, Signal
    <3>5. CASE p = App /\ (CallConnect \/ CallReconnect \/ ReconnectHangup \/ Dial \/ DialFails)
      BY <1>0, <3>5, Zenon
      DEF CallConnect, CallReconnect, ReconnectHangup, Dial, DialFails, ProcTypes, Goto
    <3>6. CASE p = App /\ (HandshakeOK \/ HandshakeGoodbye \/ HandshakeFails \/ Teardown)
      BY <1>0, <3>6, Zenon
      DEF HandshakeOK, HandshakeGoodbye, HandshakeFails, Teardown, ProcTypes, Goto, Signal
    <3>7. CASE p \in Readers /\ (ReaderSnap(p) \/ ReadFrame(p) \/ ReadPing(p) \/ SendPong(p)
                                   \/ ReadGoodbye(p) \/ ReadError(p) \/ ReaderExit(p))
      BY <1>0, <3>7, Zenon
      DEF ReaderSnap, ReadFrame, ReadPing, SendPong, ReadGoodbye, ReadError, ReaderExit,
          ProcTypes, Goto, Signal
    <3> QED
      BY <1>2, <3>1, <3>2, <3>3, <3>4, <3>5, <3>6, <3>7, Zenon DEF Moves
  <2> QED
    BY <1>0, <2>1, <2>2, Zenon DEF CloseFires, Others
<1> QED
  BY <1>1, <1>2, Zenon

-----------------------------------------------------------------------------
(* One read loop *)

(* readerActive goes down with the reader that set it. *)
LEMMA ReaderMoves ==
  ASSUME ClientInv, NEW p \in Procs, Moves(p)
  PROVE  \/ p \in Readers /\ Active(p) /\ ~Active(p)' /\ ~readerActive'
         \/ readerActive' = readerActive /\ (p \in Readers => (Active(p)' <=> Active(p)))
<1>0. ProcTypes /\ PlaceOf(p) /\ TypeOK /\ OnceBody
  BY Types, Zenon DEF ClientInv, Places
<1>1. CASE p \in Readers
  <2> USE <1>0, <1>1 DEF ProcTypes, Active, Goto
  <2>1. CASE OnceDone(p) \/ OnceLeave(p)
    BY <2>1, LeaveFits, Zenon DEF OnceDone, Left, PlaceOf, Signalling, SignalPCs
  <2>2. CASE Fire(p) \/ OnceEnter(p) \/ RecordCause(p) \/ SetFlag(p)
    BY <2>2, FireFits, Zenon DEF Fired, OnceEnter, RecordCause, SetFlag
  <2>3. CASE ReaderSnap(p) \/ ReadFrame(p) \/ ReadPing(p) \/ SendPong(p)
    BY <2>3, Zenon DEF ReaderSnap, ReadFrame, ReadPing, SendPong
  <2>4. CASE ReadGoodbye(p) \/ ReadError(p)
    BY <2>4, Zenon DEF ReadGoodbye, ReadError, Signal
  <2>5. CASE ReaderExit(p)
    BY <2>5, Zenon DEF ReaderExit
  <2> QED
    BY <2>1, <2>2, <2>3, <2>4, <2>5, Members, Zenon DEF Moves
<1>2. CASE p \notin Readers
  BY <1>2, Zenon
  DEF Moves, OnceDone, OnceEnter, RecordCause, SetFlag, Fire, OnceLeave, Install,
      CallSend, SendOK, SendRefused, SendError, SendUnlock, CallClose, CloseNothing,
      CloseTake, CloseHangup, CloseReturn, CallConnect, CallReconnect, ReconnectHangup, Dial,
      DialFails, HandshakeOK, HandshakeGoodbye, HandshakeFails, Teardown
<1> QED
  BY <1>1, <1>2, Zenon

(* One read loop at most is active, and the flag says so. *)
LEMMA ReaderStepOne ==
  ASSUME ClientInv, NEW p \in Procs, Moves(p)
  PROVE  OneReader'
<1>0. OneReader /\ Others(p) /\ Readers \subseteq Procs
  BY OneMoves, Members, Zenon DEF ClientInv
<1>1. \A q \in Readers : q # p => (Active(q)' <=> Active(q))
  BY <1>0, Zenon DEF Others, Active
<1>2. CASE p \in Readers /\ Active(p) /\ ~Active(p)' /\ ~readerActive'
  <2>1. \A q \in Readers : ~Active(q)'
    BY <1>0, <1>1, <1>2, Zenon DEF OneReader
  <2> QED
    BY <1>2, <2>1, Zenon DEF OneReader, ReaderFlagExact, Active
<1>3. CASE readerActive' = readerActive /\ (p \in Readers => (Active(p)' <=> Active(p)))
  <2>1. \A q \in Readers : Active(q)' <=> Active(q)
    BY <1>1, <1>3, Zenon
  <2> QED
    BY <1>0, <1>3, <2>1, Zenon DEF OneReader, ReaderFlagExact, Active
<1> QED
  BY <1>2, <1>3, ReaderMoves, Zenon

-----------------------------------------------------------------------------
(* The two steps that are not one goroutine's *)

(* ReceiveMessages starts a reader only when none is active. *)
LEMMA ReceiveStep ==
  ASSUME ClientInv, NEW r \in Readers, Receive(r), TypeOK'
  PROVE  ClientInv'
<1>0. /\ pc[App] = "receive" /\ pc[r] \in {"none", "done"} /\ App # r
      /\ App \in Procs /\ r \in Procs
      /\ \A q \in Readers : ~Active(q)
  BY Members, Zenon DEF ClientInv, Receive, Calm, Connecting, Active
<1>1. /\ pc'[App] = "idle" /\ pc'[r] \in {"none", "done", "snap"}
      /\ \A q \in Procs : q # App /\ q # r => pc'[q] = pc[q]
      /\ UNCHANGED <<mu, connVars, sigVars, local, cause, ret, goodbye>>
  BY <1>0, Types, Zenon DEF ClientInv, ProcTypes, Receive, Goto
<1>a. /\ \A q \in Procs : /\ Signalling(q)' <=> Signalling(q)
                          /\ InBody(q)' <=> InBody(q)
                          /\ Closing(q)' <=> Closing(q)
                          /\ HoldsMu(q)' <=> HoldsMu(q)
                          /\ \A x \in {"flag", "fire", "leave", "read", "shut"} :
                               pc'[q] = x <=> pc[q] = x
  BY <1>0, <1>1, Zenon DEF Signalling, SignalPCs, InBody, Closing, HoldsMu
<1>2. Tame(scene)' /\ NoCrash' /\ CauseAgrees' /\ NoSpuriousSignal'
  BY <1>1, Zenon DEF ClientInv, Tame, NoCrash, CauseAgrees, NoSpuriousSignal, IsConnected, connVars, sigVars
<1>3. Places'
  <2>1. \A q \in Procs : q # App /\ q # r => PlaceOf(q)'
    BY <1>1, <1>a, Zenon DEF ClientInv, Places, PlaceOf, connVars
  <2>2. PlaceOf(App)'
    BY <1>0, <1>1, Members, Zenon DEF PlaceOf, AppPCs, Signalling, SignalPCs
  <2>3. PlaceOf(r)'
    BY <1>0, <1>1, Members, Zenon DEF PlaceOf, ReaderPCs, Signalling, SignalPCs
  <2> QED
    BY <2>1, <2>2, <2>3, Zenon DEF Places
<1>4. MuHeld'
  BY <1>1, <1>a, Zenon DEF ClientInv, MuHeld
<1>5. Numbered'
  BY <1>0, <1>1, Zenon DEF ClientInv, Numbered, connVars, sigVars
<1>6. Virgin'
  BY <1>0, <1>1, Members, Zenon DEF ClientInv, Virgin, sigVars
<1>7. Calm'
  BY <1>0, <1>1, Zenon DEF Calm, Connecting, Signalling, SignalPCs
<1>8. Reasons'
  BY <1>1, <1>a, Members, Zenon DEF ClientInv, Reasons, Reason, IsConnected, connVars, sigVars
<1>9. OnceBody'
  BY <1>1, <1>a, ZenonT(20) DEF ClientInv, OnceBody, sigVars
<1>10. CloseFires'
  BY <1>1, <1>a, Members, Zenon DEF ClientInv, CloseFires, sigVars
<1>11. OneReader'
  <2>1. \A q \in Readers : q # r => ~Active(q)'
    BY <1>0, <1>1, Members, Zenon DEF Active
  <2>2. readerActive' <=> Active(r)'
    <3>1. CASE IsConnected
      BY <1>0, <3>1, Types, Zenon DEF ClientInv, ProcTypes, Receive, Active
    <3>2. CASE ~IsConnected
      BY <1>0, <3>2, Types, Zenon DEF ClientInv, ProcTypes, Receive, Active, Goto, OneReader, ReaderFlagExact
    <3> QED
      BY <3>1, <3>2, Zenon
  <2> QED
    BY <2>1, <2>2, Zenon DEF OneReader, ReaderFlagExact, Active
<1> QED
  BY <1>2, <1>3, <1>4, <1>5, <1>6, <1>7, <1>8, <1>9, <1>10, <1>11, Zenon DEF ClientInv

(* The network breaks a connection. *)
LEMMA BreakStep ==
  ASSUME ClientInv, NEW s \in Conns, Break(s), TypeOK'
  PROVE  ClientInv'
<1>1. UNCHANGED <<mu, scene, conn, closed, dials, sigVars, procVars, readerActive, goodbye>>
  BY Zenon DEF Break
<1>2. Tame(scene)' /\ NoCrash' /\ CauseAgrees' /\ CloseFires' /\ OneReader' /\ OnceBody'
  BY <1>1, Zenon
  DEF ClientInv, Tame, NoCrash, CauseAgrees, CloseFires, OneReader, ReaderFlagExact, Active,
      OnceBody, InBody, sigVars, procVars
<1>3. Places' /\ MuHeld' /\ Numbered' /\ Virgin' /\ Calm'
  BY <1>1, Zenon
  DEF ClientInv, Places, PlaceOf, MuHeld, HoldsMu, Numbered, Virgin, Calm, Connecting, Signalling,
      sigVars, procVars
<1>4. Reasons'
  <2>1. Reason => Reason'
    <3>1. conn # NoConn => conn \in Conns
      BY Zenon DEF ClientInv, TypeOK
    <3>2. sock \in [Conns -> {"none", "open", "broken"}] /\ sock' = [sock EXCEPT ![s] = "broken"]
      BY Zenon DEF ClientInv, TypeOK, Break
    <3>3. conn # NoConn /\ sock[conn] = "broken" => sock'[conn] = "broken"
      BY <3>1, <3>2, Zenon
    <3> QED
      BY <1>1, <3>3, Zenon DEF Reason, IsConnected
  <2> QED
    BY <1>1, <2>1, Zenon
    DEF ClientInv, Reasons, Closing, Signalling, IsConnected, sigVars, procVars
<1>5. NoSpuriousSignal'
  BY <1>4, Zenon DEF Reasons, Reason, NoSpuriousSignal
<1> QED
  BY <1>2, <1>3, <1>4, <1>5, Zenon DEF ClientInv

-----------------------------------------------------------------------------
(* The theorems *)

(* The invariant holds at first, *)
LEMMA InitInv ==
  ASSUME \A sc \in Scenes : Tame(sc), Init
  PROVE  ClientInv
<1>0. \A p \in Procs : pc[p] = IF p \in Readers THEN "none" ELSE "idle"
  BY Zenon DEF Init
<1>1. TypeOK
  <2>1. "none" \in PCs /\ "idle" \in PCs /\ 0 \in Chans /\ NoConn = 0
    BY Members, Zenon DEF PCs, ReaderPCs, AppPCs, NoConn
  <2>2. ProcTypes
    BY <2>1, Zenon DEF Init, ProcTypes, Causes
  <2>3. ConnTypes
    <3>1. MaxConn \in Nat /\ MaxSends \in Nat
      BY Members, Zenon
    <3>2. 0 \in 0 .. MaxConn /\ 0 \in 0 .. MaxSends
      BY <3>1
    <3> QED
      BY <3>2, Zenon DEF Init, ConnTypes
  <2>4. SignalTypes
    BY <2>1, Zenon DEF Init, SignalTypes
  <2> QED
    BY <2>2, <2>3, <2>4, Types, Zenon
<1>2. Tame(scene) /\ NoCrash
  BY Zenon DEF Init, NoCrash
<1>3. Places /\ MuHeld
  BY <1>0, Members, Zenon
  DEF Init, Places, PlaceOf, MuHeld, HoldsMu, Signalling, SignalPCs, AppPCs, ReaderPCs
<1>4. Numbered /\ Virgin
  <2>1. scene.dials \in Nat /\ pc[App] = "idle" /\ \A c \in Chans : ~chan[c].closed
    BY <1>0, <1>1, Counts, Members, Zenon DEF Init
  <2> QED
    BY <1>0, <2>1, Members DEF Init, Numbered, Virgin, NoConn
<1>5. Calm /\ OneReader
  BY <1>0, Members, Zenon DEF Init, Calm, Connecting, Signalling, SignalPCs, OneReader, ReaderFlagExact, Active
<1>6. Reasons /\ OnceBody /\ CloseFires /\ CauseAgrees
  BY <1>0, Members, Zenon
  DEF Init, Reasons, Reason, IsConnected, Closing, Signalling, SignalPCs, OnceBody, InBody,
      CloseFires, CauseAgrees, NoConn
<1> QED
  BY <1>1, <1>2, <1>3, <1>4, <1>5, <1>6, Truthful, Zenon DEF ClientInv

(* and every step keeps it. *)
LEMMA InvStep ==
  ASSUME ClientInv, [Next]_vars
  PROVE  ClientInv'
<1>1. CASE UNCHANGED vars
  <2>1. UNCHANGED <<mu, scene, conn, closed, sock, dials, disconnCh, disconnCause, disconnected,
                    once, chan, crash, pc, local, cause, ret, readerActive, sends, goodbye, failed>>
    BY <1>1, Zenon DEF vars, connVars, sigVars, procVars
  <2>2. TypeOK' /\ Tame(scene)' /\ NoCrash'
    BY <2>1, ZenonT(30) DEF ClientInv, TypeOK, Tame, NoCrash
  <2>3. Places' /\ MuHeld'
    BY <2>1, Zenon DEF ClientInv, Places, PlaceOf, MuHeld, HoldsMu, Signalling
  <2>4. Numbered' /\ Virgin' /\ Calm'
    BY <2>1, Zenon DEF ClientInv, Numbered, Virgin, Calm, Connecting, Signalling
  <2>5. Reasons' /\ NoSpuriousSignal'
    BY <2>1, Zenon DEF ClientInv, Reasons, Reason, Closing, IsConnected, Signalling, NoSpuriousSignal
  <2>6. OnceBody' /\ OneReader'
    BY <2>1, Zenon DEF ClientInv, OnceBody, InBody, OneReader, ReaderFlagExact, Active
  <2>7. CloseFires' /\ CauseAgrees'
    BY <2>1, Zenon DEF ClientInv, CloseFires, CauseAgrees, IsConnected
  <2> QED
    BY <2>2, <2>3, <2>4, <2>5, <2>6, <2>7, Zenon DEF ClientInv
<1>2. CASE Next
  <2>0. TypeOK'
    BY <1>2, TypeStep, Zenon DEF ClientInv
  <2>1. ASSUME NEW p \in Procs, Moves(p)
        PROVE  ClientInv'
    <3>1. Tame(scene)'
      BY <2>1, SameScene, Zenon DEF ClientInv, Tame
    <3>2. Places' /\ MuHeld' /\ NoCrash'
      BY <2>1, PlacesStep, MuStep, CrashStep, Zenon DEF ClientInv
    <3>3. Numbered' /\ Virgin' /\ Calm'
      BY <2>1, NumberStep, VirginStep, CalmStep, Zenon
    <3>4. Reasons' /\ NoSpuriousSignal'
      <4>1. Reasons'
        BY <2>1, ReasonStep, Zenon
      <4> QED
        BY <4>1, Zenon DEF Reasons, Reason, NoSpuriousSignal
    <3>5. OnceBody' /\ OneReader' /\ CloseFires' /\ CauseAgrees'
      BY <2>1, OnceStep, ReaderStepOne, CloseStepFires, CauseStep, Zenon
    <3> QED
      BY <2>0, <3>1, <3>2, <3>3, <3>4, <3>5, Zenon DEF ClientInv
  <2> QED
    BY <1>2, <2>0, <2>1, ReceiveStep, BreakStep, NextCases, Zenon
<1> QED
  BY <1>1, <1>2, Zenon

(* ClientInv is inductive where Connect does not overlap the end of another  *)
(* connection.                                                               *)
THEOREM ClientInvariant ==
  ASSUME \A sc \in Scenes : Tame(sc)
  PROVE  Spec => []ClientInv
<1>1. Init => ClientInv
  BY InitInv, Zenon
<1>2. ClientInv /\ [Next]_vars => ClientInv'
  BY InvStep, Zenon
<1> QED
  BY <1>1, <1>2, PTL DEF Spec

(***************************************************************************)
(* signalDisconnect is safe to call from any goroutine: however readers,   *)
(* closers, failing writes and Connect interleave, no channel is closed    *)
(* twice and no unlocked Once is unlocked.                                 *)
(***************************************************************************)
THEOREM SignalNeverCrashes ==
  ASSUME \A sc \in Scenes : Tame(sc)
  PROVE  Spec => []NoCrash
BY ClientInvariant, PTL DEF ClientInv

(***************************************************************************)
(* Close has fired Disconnected() when it returns, also when a reader got  *)
(* into signalDisconnect first.                                            *)
(***************************************************************************)
THEOREM CloseHasFired ==
  ASSUME \A sc \in Scenes : Tame(sc)
  PROVE  Spec => []CloseFires
BY ClientInvariant, PTL DEF ClientInv

(***************************************************************************)
(* What Disconnected() delivers, DisconnectCauseValue and IsDisconnected   *)
(* agree from the moment the channel is closed.                            *)
(***************************************************************************)
THEOREM CausesAgree ==
  ASSUME \A sc \in Scenes : Tame(sc)
  PROVE  Spec => []CauseAgrees
BY ClientInvariant, PTL DEF ClientInv

(***************************************************************************)
(* The signal of the connection in place never fires without a drop, a     *)
(* close or a `disconnect' frame: the late end of an earlier connection is *)
(* not taken for the end of the new one.                                   *)
(***************************************************************************)
THEOREM SignalIsTrue ==
  ASSUME \A sc \in Scenes : Tame(sc)
  PROVE  Spec => []NoSpuriousSignal
BY ClientInvariant, PTL DEF ClientInv

(***************************************************************************)
(* readerActive is set exactly while a read loop of ReceiveMessages runs.  *)
(***************************************************************************)
THEOREM ReaderFlagIsExact ==
  ASSUME \A sc \in Scenes : Tame(sc)
  PROVE  Spec => []ReaderFlagExact
BY ClientInvariant, PTL DEF ClientInv, OneReader

(* With one active reader, and none beside a handshake, no socket has two. *)
LEMMA SoleReader ==
  ASSUME ClientInv
  PROVE  OneReaderPerSocket
<1>1. \A r \in Readers : pc[r] = "read" => Active(r)
  BY Zenon DEF Active
<1>2. pc[App] = "ack" => \A r \in Readers : ~Active(r)
  BY Zenon DEF ClientInv, Calm, Connecting, Active
<1>3. ASSUME NEW s \in Conns
      PROVE  Cardinality(Reading(s)) <= 1
  <2>1. \A p, q \in Reading(s) : p = q
    BY <1>1, <1>2, Zenon DEF Reading, ClientInv, OneReader
  <2>2. CASE Reading(s) = {}
    BY <2>2, FS_EmptySet
  <2>3. CASE Reading(s) # {}
    <3>1. PICK p \in Reading(s) : TRUE
      BY <2>3, Zenon
    <3>2. Reading(s) = {p}
      BY <2>1, <3>1, Zenon
    <3>3. Cardinality(Reading(s)) = 1
      BY <3>2, FS_Singleton, Zenon
    <3> QED
      BY <3>3
  <2> QED
    BY <2>2, <2>3, Zenon
<1> QED
  BY <1>3, Zenon DEF OneReaderPerSocket

(***************************************************************************)
(* gorilla/websocket forbids concurrent readers, and there are none: no    *)
(* two goroutines, read loops or handshake, read the same socket.          *)
(***************************************************************************)
THEOREM SocketReadByOne ==
  ASSUME \A sc \in Scenes : Tame(sc)
  PROVE  Spec => []OneReaderPerSocket
BY ClientInvariant, SoleReader, PTL

=============================================================================
