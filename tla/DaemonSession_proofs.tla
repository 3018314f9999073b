------------------------ MODULE DaemonSession_proofs ------------------------
(***************************************************************************)
(* Proofs about the connections of DaemonSession, for any number of        *)
(* goroutines on the sidecar, of connections, loops, retries and faults:   *)
(* rpcMu keeps the calls on the sidecar apart, only Close can pull a       *)
(* connection from under a call, a session that is not closed loses no     *)
(* socket, and a call that returns nil has its loop subscribed.            *)
(***************************************************************************)
EXTENDS DaemonSession, TLAPS

(* Who can be where *)
Roles ==
  /\ pc[Closer] \in {"idle", "stream", "sidecar", "lock"}
  /\ pc[App] \in PCs \ {"stream", "sidecar", "call"}
  /\ \A p \in Rpcs : pc[p] \in {"idle", "lock", "dial", "handshake", "call", "stuck"}
  /\ \A p \in sent : pc[p] \in Asks

(* rpcMu is held by the call that is past its lock, also when it is stuck in *)
(* a write.                                                                  *)
Mutex ==
  /\ rpcMu \in Rpcs \cup {Nobody}
  /\ \A p \in Rpcs : pc[p] \notin {"idle", "lock"} <=> rpcMu = p

(* Connections are numbered as they are dialed; a closed client has none. *)
Numbered ==
  \A k \in Clients : cl[k].conn <= dialed /\ (cl[k].conn # NoConn => ~cl[k].closed)

(* Close has set closed before it closes the clients. *)
Closing == pc[Closer] # "idle" => closed

(* The connection a process works on is the one of its client, or Close has  *)
(* taken it away and shut it.                                                *)
Busy(p) == p \in sent \/ pc[p] = "handshake"
Work ==
  \A p \in Procs : Busy(p) =>
    /\ mine[p] \in 1 .. dialed
    /\ \/ cl[Of(p)].conn = mine[p]
       \/ closed /\ cl[Of(p)].conn = NoConn /\ link[mine[p]].st = "dead"

(* A client that is about to dial has no socket to lose. *)
Live(n) == n # NoConn /\ link[n].st \in {"open", "poisoned"}
DialsFresh ==
  ~closed =>
    /\ pc[App] = "dial" => ~Live(cl["stream"].conn)
    /\ (\E p \in Rpcs : pc[p] = "dial") => ~Live(cl["rpc"].conn)
    /\ ~rpcConnected /\ rpcMu = Nobody => ~Live(cl["rpc"].conn)
    /\ \A p \in Rpcs : pc[p] = "call" => rpcConnected

(* The loop App works on: it has one when it subscribes, and has subscribed  *)
(* it when it probes.                                                        *)
LoopKnown ==
  /\ pc[App] \in {"subscribe", "reattach", "resubscribe", "probe"} => resume # NoLoop
  /\ pc[App] = "probe" /\ IsOpen(cl["stream"].conn)
       => resume \in link[cl["stream"].conn].loops
  /\ ret = "ok" => pc[App] \in {"idle", "stuck"}

(* A connect has an attempt left, or is Reconnect's. *)
Attempts ==
  /\ pc[App] = "lock" => reconnects
  /\ \A p \in Procs : pc[p] \in {"dial", "handshake"}
       => tries[p] > 0 \/ (p = App /\ reconnects)

SessionInv ==
  /\ TypeOK /\ Roles /\ Mutex /\ Numbered /\ Closing /\ Work /\ DialsFresh /\ LoopKnown
  /\ Attempts /\ NoLeakedSocket /\ OkIsSubscribed /\ CrashOnlyByClose

-----------------------------------------------------------------------------
(* Types *)

ClientState == [conn : Conns \cup {NoConn}, closed : BOOLEAN, dropped : BOOLEAN]
LinkState ==
  [st : {"none", "open", "poisoned", "leaving", "dead"}, loops : SUBSET Loops]

ClientTypes ==
  /\ cl \in [Clients -> ClientState] /\ link \in [Conns -> LinkState]
  /\ dialed \in 0 .. MaxConn

(* The small sets *)
LEMMA Members ==
  /\ App \in Procs /\ Closer \in Procs /\ Rpcs \subseteq Procs
  /\ App # Closer /\ App \notin Rpcs /\ Closer \notin Rpcs /\ Nobody \notin Procs
  /\ \A p \in Procs : p = App \/ p = Closer \/ p \in Rpcs
  /\ "stream" \in Clients /\ "rpc" \in Clients
  /\ \A p \in Procs : Of(p) \in Clients
  /\ NoConn \notin Conns /\ NoLoop \notin Loops
  /\ MaxConn \in Nat /\ MaxLoops \in Nat /\ MaxFaults \in Nat
  /\ MaxRetries \in Nat /\ MaxRetries > 0
BY SessionAssumption
DEF App, Closer, Procs, Nobody, Clients, Of, NoConn, NoLoop, Conns, Loops

(* The types of the connections that the helpers make *)
LEMMA FreshType ==
  ASSUME NEW st \in {"none", "open", "poisoned", "leaving", "dead"}
  PROVE  Fresh(st) \in LinkState
BY Zenon DEF Fresh, LinkState

(* Shut ends a connection. *)
LEMMA ShutType ==
  ASSUME NEW l \in [Conns -> LinkState], NEW n
  PROVE  Shut(l, n) \in [Conns -> LinkState]
BY FreshType, Zenon DEF Shut

(* So does Client.Close, *)
LEMMA CloseClientType ==
  ASSUME NEW k \in Clients, NEW c \in [Clients -> ClientState],
         NEW l \in [Conns -> LinkState], CloseClient(k, c, l)
  PROVE  cl' \in [Clients -> ClientState] /\ link' \in [Conns -> LinkState]
<1>1. [conn |-> NoConn, closed |-> TRUE, dropped |-> TRUE] \in ClientState
  BY Zenon DEF ClientState
<1> QED
  BY <1>1, ShutType, ZenonT(30) DEF CloseClient

(* and the end of an attempt. *)
LEMMA ConnectFailedType ==
  ASSUME NEW p \in Procs, NEW c \in [Clients -> ClientState],
         NEW l \in [Conns -> LinkState], ConnectFailed(p, c, l)
  PROVE  cl' \in [Clients -> ClientState] /\ link' \in [Conns -> LinkState]
BY CloseClientType, Members, Zenon DEF ConnectFailed

(* Which request of whom is answered *)
LEMMA ReplyCases ==
  ASSUME Roles, NEW p \in Procs, Reply(p)
  PROVE  /\ p \in sent /\ IsOpen(mine[p]) /\ mine[p] # NoConn
         /\ sent' = sent \ {p} /\ mine' = [mine EXCEPT ![p] = NoConn]
         /\ \/ p = App /\ LoopCreated(p)
            \/ p = App /\ Reattached(p)
            \/ p = App /\ Resubscribed(p)
            \/ p = App /\ LoopSubscribed(p)
            \/ p = App /\ Probed(p)
            \/ p \in Rpcs /\ CallAnswered(p)
         /\ UNCHANGED <<cl, dialed, closed, rpcConnected, op, reconnects, calls, tries,
                        crashed, daemon, faults>>
<1>1. /\ p \in sent /\ IsOpen(mine[p]) /\ mine[p] # NoConn
      /\ sent' = sent \ {p} /\ mine' = [mine EXCEPT ![p] = NoConn]
      /\ UNCHANGED <<cl, dialed, closed, rpcConnected, op, reconnects, calls, tries,
                     crashed, daemon, faults>>
  BY Zenon DEF Reply, Answered, IsOpen
<1>2. pc[p] \in Asks /\ p # Closer
  BY <1>1, Zenon DEF Roles, Asks
<1>3. /\ p = App => pc[p] # "call"
      /\ p # App => p \in Rpcs /\ pc[p] = "call"
  BY <1>2, Members, Zenon DEF Roles, Asks
<1>4. CASE p # App
  BY <1>1, <1>3, <1>4, Zenon DEF Reply, LoopCreated, Reattached, Resubscribed, LoopSubscribed, Probed
<1>5. CASE p = App
  BY <1>1, <1>3, <1>5, Zenon DEF Reply, CallAnswered
<1> QED
  BY <1>4, <1>5, Zenon

(* Clients and connections keep their types. *)
LEMMA ClientTypesStep ==
  ASSUME SessionInv, [Next]_vars
  PROVE  ClientTypes'
<1>0. /\ cl \in [Clients -> ClientState] /\ link \in [Conns -> LinkState]
      /\ dialed \in 0 .. MaxConn /\ mine \in [Procs -> Conns \cup {NoConn}]
      /\ resume \in Loops \cup {NoLoop} /\ Roles /\ LoopKnown
  BY Zenon DEF SessionInv, TypeOK, ClientState, LinkState
<1>1. ASSUME NEW p \in Procs, Dial(p) PROVE ClientTypes'
  <2>1. dialed' \in Conns
    BY <1>0, <1>1, Members DEF Dial, Conns
  <2>2. Fresh("open") \in LinkState
        /\ [conn |-> dialed', closed |-> FALSE, dropped |-> FALSE] \in ClientState
    BY <2>1, FreshType, Zenon DEF ClientState
  <2>3. dialed' \in 0 .. MaxConn
    BY <2>1 DEF Conns
  <2> QED
    BY <1>0, <1>1, <2>2, <2>3, Zenon DEF ClientTypes, Dial
<1>2. ASSUME NEW p \in Procs, DialFails(p) PROVE ClientTypes'
  BY <1>0, <1>2, ConnectFailedType, Zenon DEF ClientTypes, DialFails
<1>3. ASSUME NEW p \in Procs, HandshakeFails(p) PROVE ClientTypes'
  <2> DEFINE c == [cl EXCEPT ![Of(p)] = [conn |-> NoConn, closed |-> TRUE,
                                         dropped |-> @.dropped \/ Leaves(mine[p])]]
  <2>1. c \in [Clients -> ClientState]
    <3>1. Of(p) \in Clients /\ cl[Of(p)].dropped \in BOOLEAN
      BY <1>0, Members, Zenon DEF ClientState
    <3> QED
      BY <1>0, <3>1, Zenon DEF ClientState
  <2>2. ConnectFailed(p, c, Shut(link, mine[p])) /\ dialed' = dialed
    BY <1>3, Zenon DEF HandshakeFails
  <2> HIDE DEF c
  <2> QED
    BY <1>0, <2>1, <2>2, ShutType, ConnectFailedType, Zenon DEF ClientTypes
<1>4. ASSUME NEW p \in Procs, Reply(p) PROVE ClientTypes'
  <2>1. link' = link \/ (Subscribed(p) /\ resume \in Loops)
    BY <1>0, <1>4, ReplyCases, Zenon
    DEF LoopCreated, Reattached, Resubscribed, LoopSubscribed, Probed, CallAnswered, LoopKnown
  <2>2. mine[p] \in Conns /\ UNCHANGED <<cl, dialed>>
    BY <1>0, <1>4, ReplyCases, Zenon
  <2> QED
    BY <1>0, <1>4, <2>1, <2>2 DEF ClientTypes, Subscribed, LinkState
<1>5. ASSUME NEW p \in Procs, ReplyFails(p) PROVE ClientTypes'
  BY <1>0, <1>5, ShutType, Members, ZenonT(30) DEF ClientTypes, ReplyFails, ClientState
<1>6. ASSUME NEW p \in Procs, ReplyTimeout(p) PROVE ClientTypes'
  BY <1>0, <1>6, ZenonT(30) DEF ClientTypes, ReplyTimeout, LinkState
<1>7. CASE EnsureRedials
  <2>1. [conn |-> NoConn, closed |-> TRUE, dropped |-> TRUE] \in ClientState
    BY Zenon DEF ClientState
  <2> QED
    BY <1>0, <1>7, <2>1, ShutType, Zenon DEF ClientTypes, EnsureRedials
<1>8. CASE StreamGoodbye
  BY <1>0, <1>8, ShutType, ZenonT(20) DEF ClientTypes, StreamGoodbye, ClientState
<1>9. CASE CloseStream \/ CloseSidecar
  BY <1>0, <1>9, CloseClientType, Members, Zenon DEF ClientTypes, CloseStream, CloseSidecar
<1>10. CASE DaemonStops
  BY <1>0, <1>10, FreshType, Zenon DEF ClientTypes, DaemonStops
<1>11. ASSUME NEW n \in Conns, Lose(n) PROVE ClientTypes'
  BY <1>0, <1>11, FreshType, Zenon DEF ClientTypes, Lose
<1>12. CASE UNCHANGED clientVars
  BY <1>0, <1>12, Zenon DEF ClientTypes, clientVars
<1> QED
  BY <1>1, <1>2, <1>3, <1>4, <1>5, <1>6, <1>7, <1>8, <1>9, <1>10, <1>11, <1>12, ZenonT(20)
  DEF Next, Step, Environment, vars, Connect, NewLoop, EnsureConnected, SwitchLoop, Close,
      CallRpc, WriteFails, Crash, Handshake, Send, SendFails, LockRpc, CloseDone,
      DaemonStarts, DaemonDegrades

-----------------------------------------------------------------------------
(* rpcMu *)

(* A process goes from one place to another: all that the places and rpcMu   *)
(* see of a step.                                                            *)
Move(p, to) ==
  /\ Goto(p, to) /\ sent' \subseteq sent /\ p \notin sent'
  /\ \A q \in Procs \ {p} : mine'[q] = mine[q]
  /\ to = "handshake" => Dial(p)
  /\ p = App => to \in PCs \ {"stream", "sidecar", "call"} /\ rpcMu' = rpcMu
  /\ p = Closer => /\ to \in {"idle", "stream", "sidecar", "lock"} /\ rpcMu' = rpcMu
                   /\ to = "idle" \/ closed'
  /\ p \in Rpcs =>
       /\ to = "call" => rpcConnected'
       /\ to \in {"idle", "lock", "dial", "handshake", "call", "stuck"}
       /\ \/ pc[p] = "idle" /\ to = "lock" /\ rpcMu' = rpcMu
          \/ pc[p] = "lock" /\ rpcMu = Nobody /\ to \notin {"idle", "lock"} /\ rpcMu' = p
          \/ pc[p] \notin {"idle", "lock"} /\ to = "idle" /\ rpcMu' = Nobody
          \/ pc[p] \notin {"idle", "lock"} /\ to \notin {"idle", "lock"} /\ rpcMu' = rpcMu

(* A caller that goes on keeps its role, and rpcMu its holder. *)
LEMMA MoveKeeps ==
  ASSUME pc \in [Procs -> PCs], Roles, Mutex, NEW p \in Procs, NEW to, Move(p, to)
  PROVE  pc' \in [Procs -> PCs] /\ Roles' /\ Mutex'
<1>1. to \in PCs
  BY Members, Zenon DEF Move, PCs, Asks
<1>2. pc' = [pc EXCEPT ![p] = to] /\ pc' \in [Procs -> PCs]
  BY <1>1, Zenon DEF Move, Goto
<1>3. Roles'
  BY <1>2, Members DEF Roles, Move
<1>4. Mutex'
  BY <1>2, Members DEF Roles, Mutex, Move
<1> QED
  BY <1>2, <1>3, <1>4, Zenon

(* Most steps are a move, the others leave the places alone. *)
LEMMA Moves ==
  ASSUME Roles, Mutex, Closing, mine \in [Procs -> Conns \cup {NoConn}], [Next]_vars
  PROVE  \/ \E p \in Procs : \E to \in PCs : Move(p, to)
         \/ \E p \in Procs : Send(p)
         \/ UNCHANGED <<pc, rpcMu, sent, mine>>
<1>1. ASSUME NEW p \in Procs, Dial(p) PROVE Move(p, "handshake")
  BY <1>1, Members, Zenon DEF Dial, Move, Roles, sessionVars, PCs, Asks
<1>2. ASSUME NEW p \in Procs, DialFails(p) \/ HandshakeFails(p)
      PROVE  Move(p, "dial") \/ Move(p, "idle")
  <2>1. /\ pc[p] \in {"dial", "handshake"} /\ p # Closer /\ p \notin sent /\ sent' = sent
        /\ \A q \in Procs \ {p} : mine'[q] = mine[q]
    BY <1>2, Zenon DEF DialFails, HandshakeFails, Roles, Asks
  <2>2. \/ Goto(p, "dial") /\ rpcMu' = rpcMu
        \/ Goto(p, "idle") /\ p = App /\ rpcMu' = rpcMu
        \/ Goto(p, "idle") /\ p # App /\ rpcMu' = Nobody
    BY <1>2, Zenon DEF DialFails, HandshakeFails, ConnectFailed, ConnectWithRetries, Retry, Return
  <2> QED
    BY <2>1, <2>2, Members, Zenon DEF Move, PCs, Asks
<1>3. ASSUME NEW p \in Procs, Handshake(p)
      PROVE  \E to \in PCs : Move(p, to)
  <2>1. /\ pc[p] = "handshake" /\ p # Closer /\ p \notin sent /\ sent' = sent
        /\ Goto(p, AfterConnect(p)) /\ rpcMu' = rpcMu
        /\ rpcConnected' = (rpcConnected \/ p # App)
        /\ \A q \in Procs \ {p} : mine'[q] = mine[q]
    BY <1>3, Zenon DEF Handshake, Roles, Asks
  <2>2. /\ p = App => AfterConnect(p) \in {"new", "reattach", "subscribe"}
        /\ p # App => AfterConnect(p) = "call"
    BY Zenon DEF AfterConnect
  <2> QED
    BY <2>1, <2>2, Members, Zenon DEF Move, PCs, Asks
<1>4. ASSUME NEW p \in Procs, Reply(p)
      PROVE  \E to \in PCs : Move(p, to)
  <2>1. CASE p = App
    <3>1. PICK to \in {"subscribe", "resubscribe", "probe", "idle"} :
            Goto(p, to) /\ rpcMu' = rpcMu
      BY <1>4, <2>1, Members, ReplyCases, Zenon
      DEF LoopCreated, Reattached, Resubscribed, LoopSubscribed, Probed, Return
    <3> QED
      BY <1>4, <2>1, <3>1, Members, ReplyCases, Zenon DEF Move, PCs, Asks
  <2>2. CASE p # App
    BY <1>4, <2>2, Members, ReplyCases, Zenon DEF CallAnswered, Return, Move, PCs
  <2> QED
    BY <2>1, <2>2, Zenon
<1>5. ASSUME NEW p \in Procs, SendFails(p) \/ ReplyFails(p) \/ ReplyTimeout(p)
      PROVE  \E to \in PCs : Move(p, to)
  <2>1. /\ pc[p] \in Asks /\ sent' = sent \ {p} /\ AskFailed(p)
        /\ \A q \in Procs \ {p} : mine'[q] = mine[q]
    BY <1>5, Zenon DEF SendFails, ReplyFails, ReplyTimeout, Answered, Roles
  <2>2. p = App \/ (p \in Rpcs /\ pc[p] = "call")
    BY <2>1, Members, Zenon DEF Roles, Asks
  <2>3. CASE p = App
    <3>1. PICK to \in {"new", "idle"} : Goto(p, to) /\ rpcMu' = rpcMu
      BY <2>1, <2>3, Zenon DEF AskFailed, Return
    <3> QED
      BY <2>1, <2>3, <3>1, Members, Zenon DEF Move, PCs, Asks
  <2>4. CASE p \in Rpcs /\ pc[p] = "call"
    BY <2>1, <2>4, Members, Zenon DEF AskFailed, Return, Move, PCs
  <2> QED
    BY <2>2, <2>3, <2>4, Zenon
<1>6. ASSUME NEW p \in Procs, WriteFails(p)
      PROVE  Move(p, "stuck")
  BY <1>6, Members, Zenon DEF WriteFails, Move, Roles, sessionVars, PCs, Asks
<1>7. ASSUME NEW p \in Procs, CallRpc(p) PROVE Move(p, "lock")
  BY <1>7, Members, Zenon DEF CallRpc, Move, Roles, sessionVars, Asks
<1>8. ASSUME NEW p \in Procs, LockRpc(p) PROVE Move(p, "call") \/ Move(p, "dial")
  BY <1>8, Members, Zenon DEF LockRpc, ConnectWithRetries, Move, Roles, Asks
<1>9. ASSUME NEW l, Connect(l) PROVE Move(App, "dial")
  BY <1>9, Members, Zenon DEF Connect, Begin, ConnectWithRetries, Move, Roles, sessionVars, PCs, Asks
<1>10. CASE NewLoop
  BY <1>10, Members, Zenon DEF NewLoop, Begin, Move, Roles, sessionVars, PCs, Asks
<1>11. ASSUME NEW l, SwitchLoop(l) PROVE Move(App, "subscribe")
  BY <1>11, Members, Zenon DEF SwitchLoop, Begin, Move, Roles, sessionVars, PCs, Asks
<1>12. CASE EnsureConnected
  <2>1. UNCHANGED <<pc, rpcMu, sent, mine>> \/ Move(App, "lock")
    BY <1>12, Members, Zenon DEF EnsureConnected, Move, Roles, sessionVars, PCs, Asks
  <2> QED
    BY <2>1, Members, Zenon DEF PCs
<1>13. CASE EnsureRedials
  BY <1>13, Members, Zenon DEF EnsureRedials, Move, Roles, PCs, Asks
<1>14. CASE Close
  BY <1>14, Members, Zenon DEF Close, Move, Roles, PCs, Asks
<1>15. CASE CloseStream
  BY <1>15, Members, Zenon DEF Closing, CloseStream, Move, Roles, sessionVars, PCs, Asks
<1>16. CASE CloseSidecar
  BY <1>16, Members, Zenon DEF Closing, CloseSidecar, Move, Roles, sessionVars, PCs, Asks
<1>17. CASE CloseDone
  BY <1>17, Members, Zenon DEF CloseDone, Move, Roles, PCs, Asks
<1>18. CASE StreamGoodbye \/ Environment \/ (\E p \in Procs : Crash(p)) \/ UNCHANGED vars
  BY <1>18, Zenon
  DEF StreamGoodbye, Environment, DaemonStarts, DaemonDegrades, DaemonStops, Lose, Crash,
      vars, sessionVars
<1> USE DEF PCs, Asks
<1> QED
  BY <1>1, <1>2, <1>3, <1>4, <1>5, <1>6, <1>7, <1>8, <1>9, <1>10, <1>11, <1>12, <1>13,
     <1>14, <1>15, <1>16, <1>17, <1>18, Members, ZenonT(30)
  DEF Next, Step

(* The places and rpcMu *)
LEMMA PlacesStep ==
  ASSUME SessionInv, [Next]_vars
  PROVE  pc' \in [Procs -> PCs] /\ Roles' /\ Mutex'
<1>0. /\ pc \in [Procs -> PCs] /\ Roles /\ Mutex /\ Closing
      /\ mine \in [Procs -> Conns \cup {NoConn}]
  BY Zenon DEF SessionInv, TypeOK
<1>1. ASSUME NEW p \in Procs, Send(p) PROVE pc' \in [Procs -> PCs] /\ Roles' /\ Mutex'
  BY <1>0, <1>1, Zenon DEF Send, Roles, Mutex, sessionVars
<1>2. CASE UNCHANGED <<pc, rpcMu, sent, mine>>
  BY <1>0, <1>2, Zenon DEF Roles, Mutex
<1> QED
  BY <1>0, <1>1, <1>2, Moves, MoveKeeps, Zenon

-----------------------------------------------------------------------------
(* The connections *)

(* What a step other than a dial does: a connection never comes back to      *)
(* life, and a client that gives up its connection shuts it.                 *)
Quiet ==
  /\ dialed' = dialed
  /\ \A n \in Conns : \/ link'[n].st = link[n].st
                      \/ link'[n].st = "dead"
                      \/ link[n].st = "open" /\ link'[n].st \in {"poisoned", "leaving"}
  /\ \A n \in Conns : link'[n].st = "open" => link[n].loops \subseteq link'[n].loops
  /\ \A k \in Clients :
       \/ cl'[k].conn = cl[k].conn /\ cl'[k].closed = cl[k].closed
       \/ cl'[k].conn = NoConn /\ (cl[k].conn # NoConn => link'[cl[k].conn].st = "dead")

(* What Shut changes *)
LEMMA ShutFact ==
  ASSUME NEW l \in [Conns -> LinkState], NEW n
  PROVE  /\ \A m \in Conns : Shut(l, n)[m].st = IF m = n THEN "dead" ELSE l[m].st
         /\ \A m \in Conns : m # n => Shut(l, n)[m] = l[m]
BY Zenon DEF Shut, Fresh

(* Client.Close opens nothing and leaves the client without a connection. *)
LEMMA CloseClientQuiet ==
  ASSUME ClientTypes, NEW k \in Clients, CloseClient(k, cl, link), dialed' = dialed,
         Numbered
  PROVE  Quiet /\ cl'[k].conn = NoConn
<1>0. /\ cl \in [Clients -> ClientState] /\ link \in [Conns -> LinkState]
      /\ cl[k].conn # NoConn => cl[k].conn \in Conns /\ ~cl[k].closed
  BY Zenon DEF ClientTypes, ClientState, Numbered
<1>1. CASE cl[k].conn = NoConn
  BY <1>1, Zenon DEF CloseClient, Quiet
<1>2. CASE cl[k].conn # NoConn
  <2>1. /\ cl' = [cl EXCEPT ![k] = [conn |-> NoConn, closed |-> TRUE, dropped |-> TRUE]]
        /\ link' = Shut(link, cl[k].conn)
    BY <1>0, <1>2, Zenon DEF CloseClient
  <2>2. \A m \in Conns : IF m = cl[k].conn THEN link'[m].st = "dead"
                                            ELSE link'[m] = link[m]
    BY <1>0, <2>1, ShutFact
  <2>3. \A j \in Clients : IF j = k THEN cl'[j].conn = NoConn ELSE cl'[j] = cl[j]
    BY <1>0, <2>1, Zenon
  <2> QED
    BY <1>0, <1>2, <2>2, <2>3, ZenonT(20) DEF Quiet
<1> QED
  BY <1>1, <1>2, Zenon

(* Only a dial opens a connection. *)
LEMMA QuietSteps ==
  ASSUME SessionInv, [Next]_vars
  PROVE  Quiet \/ \E p \in Procs : Dial(p)
<1>0. /\ ClientTypes /\ Numbered /\ Work /\ Roles
      /\ cl \in [Clients -> ClientState] /\ link \in [Conns -> LinkState]
      /\ mine \in [Procs -> Conns \cup {NoConn}]
  BY Zenon DEF SessionInv, TypeOK, ClientTypes, ClientState, LinkState
<1>1. CASE UNCHANGED clientVars
  BY <1>1, Zenon DEF Quiet, clientVars
<1>2. ASSUME NEW p \in Procs, DialFails(p) PROVE Quiet
  BY <1>0, <1>2, CloseClientQuiet, Members, Zenon DEF DialFails, ConnectFailed, Quiet
<1>3. ASSUME NEW p \in Procs, HandshakeFails(p) PROVE Quiet
  <2> DEFINE c == [cl EXCEPT ![Of(p)] = [conn |-> NoConn, closed |-> TRUE,
                                         dropped |-> @.dropped \/ Leaves(mine[p])]]
             l == Shut(link, mine[p])
  <2>1. ConnectFailed(p, c, l) /\ dialed' = dialed
    BY <1>3, Zenon DEF HandshakeFails
  <2>2. /\ \A j \in Clients : IF j = Of(p) THEN c[j].conn = NoConn ELSE c[j] = cl[j]
        /\ p = App => c["stream"].conn = NoConn
    BY <1>0, Members, Zenon DEF Of
  <2>3. /\ mine[p] \in Conns /\ (cl[Of(p)].conn # NoConn => cl[Of(p)].conn = mine[p])
        /\ \A m \in Conns : IF m = mine[p] THEN l[m].st = "dead" ELSE l[m] = link[m]
    <3>1. mine[p] \in Conns /\ (cl[Of(p)].conn # NoConn => cl[Of(p)].conn = mine[p])
      BY <1>0, <1>3, Members DEF Work, Busy, HandshakeFails, NoConn
    <3> QED
      BY <1>0, <3>1, ShutFact
  <2> HIDE DEF c, l
  <2>4. cl' = c /\ link' = l
    BY <2>1, <2>2, Members, Zenon DEF ConnectFailed, CloseClient
  <2> QED
    BY <1>0, <2>1, <2>2, <2>3, <2>4, ZenonT(20) DEF Quiet
<1>4. ASSUME NEW p \in Procs, Reply(p) PROVE Quiet
  <2>1. (link' = link \/ Subscribed(p)) /\ UNCHANGED <<cl, dialed>>
    BY <1>0, <1>4, ReplyCases, Zenon
    DEF LoopCreated, Reattached, Resubscribed, LoopSubscribed, Probed, CallAnswered
  <2> QED
    BY <1>0, <2>1, SMTT(30) DEF Quiet, Subscribed, LinkState
<1>5. ASSUME NEW p \in Procs, ReplyFails(p) PROVE Quiet
  <2>1. \A k \in Clients : cl'[k].conn = cl[k].conn /\ cl'[k].closed = cl[k].closed
    BY <1>0, <1>5, ZenonT(20) DEF ReplyFails, ClientState
  <2> QED
    BY <1>0, <1>5, <2>1, ShutFact DEF ReplyFails, Quiet
<1>6. ASSUME NEW p \in Procs, ReplyTimeout(p) PROVE Quiet
  BY <1>0, <1>6 DEF ReplyTimeout, IsOpen, Quiet, LinkState
<1>7. CASE EnsureRedials
  <2> DEFINE drop == rpcConnected /\ IsConnected("rpc")
             l == IF drop THEN Shut(link, cl["rpc"].conn) ELSE link
  <2>1. /\ dialed' = dialed
        /\ cl' = IF drop THEN [cl EXCEPT !["rpc"] = [conn |-> NoConn, closed |-> TRUE,
                                                     dropped |-> TRUE]]
                         ELSE cl
        /\ link' = IF cl["stream"].conn = NoConn THEN l ELSE Shut(l, cl["stream"].conn)
    BY <1>7, Zenon DEF EnsureRedials
  <2>2. /\ l \in [Conns -> LinkState]
        /\ \A m \in Conns : l[m] = link[m] \/ l[m].st = "dead"
        /\ drop => cl["rpc"].conn \in Conns /\ l[cl["rpc"].conn].st = "dead"
    BY <1>0, ShutType, ShutFact, Members DEF IsConnected, ClientState
  <2>3. \A k \in Clients : \/ cl'[k].conn = cl[k].conn /\ cl'[k].closed = cl[k].closed
                           \/ drop /\ k = "rpc" /\ cl'[k].conn = NoConn
    BY <1>0, <2>1, Zenon
  <2> HIDE DEF l, drop
  <2>4. \A m \in Conns : link'[m] = l[m] \/ link'[m].st = "dead"
    BY <2>1, <2>2, ShutFact
  <2> QED
    BY <2>1, <2>2, <2>3, <2>4, ZenonT(60) DEF Quiet
<1>8. CASE StreamGoodbye
  <2>1. \A k \in Clients : cl'[k].conn = cl[k].conn /\ cl'[k].closed = cl[k].closed
    BY <1>0, <1>8 DEF StreamGoodbye, ClientState
  <2> QED
    BY <1>0, <1>8, <2>1, ShutFact DEF StreamGoodbye, Quiet
<1>9. CASE CloseStream \/ CloseSidecar
  BY <1>0, <1>9, CloseClientQuiet, Members, Zenon DEF CloseStream, CloseSidecar
<1>10. CASE DaemonStops
  BY <1>10, Zenon DEF DaemonStops, Quiet, Fresh
<1>11. ASSUME NEW n \in Conns, Lose(n) PROVE Quiet
  BY <1>0, <1>11 DEF Lose, Quiet, Fresh, IsOpen
<1> QED
  BY <1>1, <1>2, <1>3, <1>4, <1>5, <1>6, <1>7, <1>8, <1>9, <1>10, <1>11, ZenonT(20)
  DEF Next, Step, Environment, vars, Connect, NewLoop, EnsureConnected, SwitchLoop, Close,
      CallRpc, WriteFails, Crash, Handshake, Send, SendFails, LockRpc, CloseDone,
      DaemonStarts, DaemonDegrades

(* closed is never taken back. *)
LEMMA ClosedStays ==
  ASSUME [Next]_vars
  PROVE  closed' = closed \/ closed' = TRUE
<1>1. ASSUME NEW p, Step(p) PROVE closed' = closed
  BY <1>1, Zenon DEF Step, Dial, DialFails, Handshake, HandshakeFails, Send, SendFails, Reply,
     ReplyFails, EnsureRedials, LockRpc, CloseStream, CloseSidecar, CloseDone, sessionVars
<1> QED
  BY <1>1, Zenon DEF Next, vars, Connect, NewLoop, EnsureConnected, StreamGoodbye, SwitchLoop, Close,
     CallRpc, WriteFails, ReplyTimeout, Crash, Environment, DaemonStarts, DaemonDegrades,
     DaemonStops, Lose, sessionVars

(* Close has set closed before it closes the clients. *)
LEMMA ClosingStep ==
  ASSUME SessionInv, [Next]_vars
  PROVE  Closing'
<1>0. /\ pc \in [Procs -> PCs] /\ Roles /\ Mutex /\ Closing /\ closed \in BOOLEAN
      /\ mine \in [Procs -> Conns \cup {NoConn}]
  BY Zenon DEF SessionInv, TypeOK
<1>1. ASSUME NEW p \in Procs, NEW to \in PCs, Move(p, to) PROVE Closing'
  BY <1>0, <1>1, ClosedStays, Members, Zenon DEF Move, Goto, Closing
<1>2. ASSUME NEW p \in Procs, Send(p) PROVE Closing'
  BY <1>0, <1>2, ClosedStays, Zenon DEF Send, Closing
<1>3. CASE UNCHANGED <<pc, rpcMu, sent, mine>>
  BY <1>0, <1>3, ClosedStays, Zenon DEF Closing
<1> QED
  BY <1>0, <1>1, <1>2, <1>3, Moves, Zenon

(* Two processes with the same client are the same. *)
LEMMA OneBusy ==
  ASSUME Roles, Mutex, NEW p \in Procs, NEW q \in Procs, Of(p) = Of(q),
         pc[p] \notin {"idle", "lock", "stream", "sidecar"},
         pc[q] \notin {"idle", "lock", "stream", "sidecar"}
  PROVE  p = q
BY Members, Zenon DEF Roles, Mutex, Of

(* What a dial does *)
LEMMA DialFact ==
  ASSUME ClientTypes, NEW p \in Procs, Dial(p)
  PROVE  /\ dialed' = dialed + 1 /\ dialed' \in Conns
         /\ cl'[Of(p)].conn = dialed' /\ ~cl'[Of(p)].closed
         /\ \A k \in Clients : k # Of(p) => cl'[k] = cl[k]
         /\ link'[dialed'].st = "open"
         /\ \A n \in Conns : n # dialed' => link'[n] = link[n]
<1>1. dialed' = dialed + 1 /\ dialed' \in Conns
  BY Members DEF ClientTypes, Dial, Conns
<1> QED
  BY <1>1, Members, Zenon DEF ClientTypes, Dial, Fresh

(* Connections are numbered in the order of their dials. *)
LEMMA NumberedStep ==
  ASSUME SessionInv, [Next]_vars
  PROVE  Numbered'
<1>0. ClientTypes /\ Numbered /\ dialed \in Nat
  BY Members DEF SessionInv, TypeOK, ClientTypes, ClientState, LinkState
<1>1. CASE Quiet
  BY <1>0, <1>1, Members DEF Quiet, Numbered, NoConn
<1>2. ASSUME NEW p \in Procs, Dial(p) PROVE Numbered'
  <2>1. \A k \in Clients : cl[k].conn \in Int
    BY <1>0 DEF ClientTypes, ClientState, Conns, NoConn
  <2> QED
    BY <1>0, <1>2, <2>1, DialFact DEF Numbered
<1> QED
  BY <1>1, <1>2, QuietSteps, Zenon

(* Outside Close, a client loses its connection only to the one process that *)
(* works on it, and this one is done with it.                                *)
LEMMA Dropping ==
  ASSUME SessionInv, [Next]_vars, ~closed, NEW k \in Clients,
         cl[k].conn # NoConn, cl'[k].conn = NoConn
  PROVE  \A q \in Procs : Of(q) = k => ~Busy(q)'
<1>0. /\ ClientTypes /\ Numbered /\ Roles /\ Mutex /\ Closing
      /\ cl \in [Clients -> ClientState] /\ pc \in [Procs -> PCs]
  BY Zenon DEF SessionInv, TypeOK, ClientTypes, ClientState, LinkState
<1>1. \A p \in Procs : ~Dial(p)
  BY <1>0, DialFact, Members DEF Dial
<1>2. ASSUME NEW p \in Procs, DialFails(p) \/ HandshakeFails(p), NEW q \in Procs, Of(q) = k
      PROVE  ~Busy(q)'
  <2>1. k = Of(p)
    BY <1>0, <1>2, Members, Zenon DEF DialFails, HandshakeFails, ConnectFailed, CloseClient, Of
  <2>2. pc[p] \in {"dial", "handshake"} /\ sent' = sent /\ (Goto(p, "dial") \/ Goto(p, "idle"))
    BY <1>2, Zenon
    DEF DialFails, HandshakeFails, ConnectFailed, ConnectWithRetries, Retry, Return
  <2>3. pc[q] \in {"idle", "lock", "stream", "sidecar"} \/ q = p
    BY <1>0, <1>2, <2>1, <2>2, OneBusy, Zenon
  <2> QED
    BY <1>0, <2>2, <2>3, Zenon DEF Busy, Roles, Goto, Asks
<1>3. CASE EnsureRedials
  <2>1. k = "rpc"
    BY <1>0, <1>3, Members, Zenon DEF EnsureRedials, Clients
  <2>2. \A q \in Procs : Of(q) = "rpc" => pc'[q] = pc[q] /\ pc[q] \notin Asks \cup {"handshake"}
    BY <1>0, <1>3, Members, ZenonT(30) DEF EnsureRedials, Goto, Of, Roles, Mutex, Asks
  <2>3. sent' = sent
    BY <1>3, Zenon DEF EnsureRedials
  <2> QED
    BY <1>0, <2>1, <2>2, <2>3, Zenon DEF Busy, Roles
<1>4. CASE CloseStream \/ CloseSidecar
  BY <1>0, <1>4, Zenon DEF CloseStream, CloseSidecar, Closing
<1>5. CASE (\E p \in Procs : ReplyFails(p)) \/ StreamGoodbye
  BY <1>0, <1>5 DEF ReplyFails, StreamGoodbye, ClientState
<1>6. CASE UNCHANGED cl
  BY <1>6, Zenon
<1> QED
  BY <1>1, <1>2, <1>3, <1>4, <1>5, <1>6, ZenonT(30)
  DEF Next, Step, Environment, vars, Connect, NewLoop, EnsureConnected, SwitchLoop, Close,
      CallRpc, WriteFails, Crash, Handshake, Send, SendFails, Reply, ReplyTimeout, LockRpc,
      CloseDone, DaemonStarts, DaemonDegrades, DaemonStops, Lose, clientVars

(* A process that works on a connection has worked on it before, has just    *)
(* dialed it, or just sends.                                                 *)
LEMMA BusySteps ==
  ASSUME SessionInv, [Next]_vars, NEW q \in Procs, Busy(q)'
  PROVE  Send(q) \/ Dial(q) \/ (Busy(q) /\ mine'[q] = mine[q])
<1>0. /\ pc \in [Procs -> PCs] /\ Roles /\ Mutex /\ Closing
      /\ mine \in [Procs -> Conns \cup {NoConn}]
  BY Zenon DEF SessionInv, TypeOK
<1>1. ASSUME NEW p \in Procs, NEW to \in PCs, Move(p, to)
      PROVE  Dial(q) \/ (Busy(q) /\ mine'[q] = mine[q])
  BY <1>0, <1>1, Zenon DEF Move, Goto, Busy
<1>2. ASSUME NEW p \in Procs, Send(p), p # q PROVE Busy(q) /\ mine'[q] = mine[q]
  BY <1>0, <1>2, Zenon DEF Send, Busy
<1>3. CASE UNCHANGED <<pc, rpcMu, sent, mine>>
  BY <1>3, Zenon DEF Busy
<1> QED
  BY <1>0, <1>1, <1>2, <1>3, Moves, Zenon

(* A caller works on its client's connection until Close takes that away. *)
LEMMA WorkStep ==
  ASSUME SessionInv, [Next]_vars
  PROVE  Work'
<1>0. /\ ClientTypes /\ Numbered /\ Roles /\ Mutex /\ Work /\ closed \in BOOLEAN
      /\ cl \in [Clients -> ClientState] /\ pc \in [Procs -> PCs]
      /\ mine \in [Procs -> Conns \cup {NoConn}] /\ dialed \in 0 .. MaxConn
      /\ MaxConn \in Nat
  BY Members, Zenon DEF SessionInv, TypeOK, ClientTypes, ClientState, LinkState
<1> SUFFICES ASSUME NEW q \in Procs, Busy(q)'
             PROVE  /\ mine'[q] \in 1 .. dialed'
                    /\ \/ cl'[Of(q)].conn = mine'[q]
                       \/ closed' /\ cl'[Of(q)].conn = NoConn /\ link'[mine'[q]].st = "dead"
  BY Zenon DEF Work, Of
<1>1. CASE Send(q)
  <2>1. /\ cl[Of(q)].conn # NoConn /\ mine'[q] = cl[Of(q)].conn
        /\ UNCHANGED <<cl, dialed>>
    BY <1>0, <1>1, Zenon DEF Send, IsConnected, clientVars
  <2>2. cl[Of(q)].conn \in 1 .. dialed
    BY <1>0, <2>1, Members DEF Numbered, ClientState, Conns
  <2> QED
    BY <2>1, <2>2, Zenon
<1>2. CASE Dial(q)
  <2>1. mine'[q] = dialed' /\ dialed' = dialed + 1
    BY <1>0, <1>2, Zenon DEF Dial
  <2>2. dialed' \in 1 .. dialed'
    BY <1>0, <2>1
  <2> QED
    BY <1>0, <1>2, <2>1, <2>2, DialFact, Zenon
<1>3. CASE Busy(q) /\ mine'[q] = mine[q]
  <2>1. /\ mine[q] \in 1 .. dialed /\ mine[q] \in Conns
        /\ \/ cl[Of(q)].conn = mine[q]
           \/ closed /\ cl[Of(q)].conn = NoConn /\ link[mine[q]].st = "dead"
    BY <1>0, <1>3 DEF Work, Conns
  <2>2. ASSUME NEW p \in Procs, Dial(p), ~Dial(q)
        PROVE  /\ mine[q] \in 1 .. dialed'
               /\ cl'[Of(q)] = cl[Of(q)] /\ link'[mine[q]] = link[mine[q]]
    <3>1. pc[q] \notin {"idle", "lock", "stream", "sidecar"}
      BY <1>0, <1>3, Zenon DEF Busy, Roles, Asks
    <3>2. Of(p) # Of(q)
      BY <1>0, <2>2, <3>1, OneBusy, Zenon DEF Dial
    <3>3. dialed' = dialed + 1 /\ mine[q] # dialed' /\ mine[q] \in 1 .. dialed'
      BY <1>0, <2>1, <2>2, DialFact
    <3> QED
      BY <1>0, <2>1, <2>2, <3>2, <3>3, DialFact, Members, ZenonT(20)
  <2>3. CASE Quiet
    <3>1. /\ mine[q] \in 1 .. dialed'
          /\ link[mine[q]].st = "dead" => link'[mine[q]].st = "dead"
          /\ closed => closed'
      BY <1>0, <2>1, <2>3, ClosedStays, Zenon DEF Quiet
    <3>2. CASE cl[Of(q)].conn = mine[q]
      <4>1. \/ cl'[Of(q)].conn = mine[q]
            \/ cl'[Of(q)].conn = NoConn /\ link'[mine[q]].st = "dead"
        BY <2>1, <2>3, <3>2, Members DEF Quiet
      <4>2. cl'[Of(q)].conn = NoConn => closed'
        BY <1>0, <2>1, <3>1, <3>2, Dropping, Members, Zenon
      <4> QED
        BY <1>3, <3>1, <4>1, <4>2, Zenon
    <3>3. CASE closed /\ cl[Of(q)].conn = NoConn /\ link[mine[q]].st = "dead"
      <4>1. cl'[Of(q)].conn = NoConn
        BY <2>3, <3>3, Members, Zenon DEF Quiet
      <4> QED
        BY <1>3, <3>1, <3>3, <4>1, Zenon
    <3> QED
      BY <2>1, <3>2, <3>3, Zenon
  <2> QED
    BY <1>0, <1>2, <1>3, <2>1, <2>2, <2>3, QuietSteps, ClosedStays, Zenon
<1> QED
  BY <1>1, <1>2, <1>3, BusySteps, Zenon

-----------------------------------------------------------------------------
(* No socket is lost *)

(* Steps other than a dial keep what is not live that way. *)
LEMMA QuietLive ==
  ASSUME ClientTypes, Quiet, NEW k \in Clients, ~Live(cl[k].conn)
  PROVE  ~Live(cl[k].conn)'
BY ZenonT(20) DEF ClientTypes, ClientState, Quiet, Live

(* The dial of the other client does too. *)
LEMMA DialLive ==
  ASSUME ClientTypes, Numbered, NEW p \in Procs, Dial(p),
         NEW k \in Clients, k # Of(p), ~Live(cl[k].conn)
  PROVE  ~Live(cl[k].conn)'
<1>1. dialed \in Int /\ cl[k].conn \in Conns \cup {NoConn} /\ cl[k].conn <= dialed
  BY DEF ClientTypes, ClientState, Numbered
<1>2. cl'[k].conn = cl[k].conn /\ cl[k].conn # dialed'
  BY <1>1, DialFact DEF Conns, NoConn
<1> QED
  BY <1>1, <1>2, DialFact, Zenon DEF Live

(* What is open belongs to a client. *)
LEMMA NoLeakStep ==
  ASSUME SessionInv, [Next]_vars
  PROVE  NoLeakedSocket'
<1>0. /\ ClientTypes /\ Numbered /\ Roles /\ DialsFresh /\ NoLeakedSocket
      /\ closed \in BOOLEAN /\ cl \in [Clients -> ClientState]
  BY Zenon DEF SessionInv, TypeOK, ClientTypes, ClientState, LinkState
<1> SUFFICES ASSUME ~closed', NEW n \in Conns, link'[n].st \in {"open", "poisoned"}
             PROVE  \E k \in Clients : cl'[k].conn = n
  BY Zenon DEF NoLeakedSocket
<1>1. ~closed
  BY <1>0, ClosedStays, Zenon
<1>2. CASE Quiet
  <2>1. PICK k \in Clients : cl[k].conn = n
    BY <1>0, <1>1, <1>2, Zenon DEF NoLeakedSocket, Quiet
  <2> QED
    BY <1>2, <2>1, Members, Zenon DEF Quiet
<1>3. ASSUME NEW p \in Procs, Dial(p) PROVE \E k \in Clients : cl'[k].conn = n
  <2>1. CASE n = dialed'
    BY <1>0, <1>3, <2>1, DialFact, Members, Zenon
  <2>2. CASE n # dialed'
    <3>1. PICK k \in Clients : cl[k].conn = n
      BY <1>0, <1>1, <1>3, <2>2, DialFact, Zenon DEF NoLeakedSocket
    <3>2. k # Of(p)
      <4>1. Live(n)
        BY <1>0, <1>3, <2>2, DialFact, Members, Zenon DEF Live
      <4>2. p = App \/ p \in Rpcs
        BY <1>0, <1>3, Members, Zenon DEF Roles, Dial
      <4>3. ~Live(cl[Of(p)].conn)
        BY <1>0, <1>1, <1>3, <4>2, Members, Zenon DEF DialsFresh, Dial, Of
      <4> QED
        BY <3>1, <4>1, <4>3, Zenon
    <3> QED
      BY <1>0, <1>3, <3>1, <3>2, DialFact, Zenon
  <2> QED
    BY <2>1, <2>2, Zenon
<1> QED
  BY <1>2, <1>3, QuietSteps, Zenon

(* Whoever begins to dial has no live connection. *)
LEMMA EnterDial ==
  ASSUME SessionInv, [Next]_vars, ~closed, NEW q \in Procs,
         pc[q] # "dial", pc'[q] = "dial"
  PROVE  ~Live(cl[Of(q)].conn)'
<1>0. /\ ClientTypes /\ ClientTypes' /\ Numbered /\ Roles /\ Mutex /\ DialsFresh /\ Work
      /\ cl \in [Clients -> ClientState] /\ link \in [Conns -> LinkState]
      /\ pc \in [Procs -> PCs]
  BY ClientTypesStep, Zenon DEF SessionInv, TypeOK, ClientTypes, ClientState, LinkState
<1>1. ASSUME NEW l, Connect(l) PROVE ~Live(cl[Of(q)].conn)'
  <2>1. q = App /\ cl["stream"].conn = NoConn /\ cl' = cl
    BY <1>0, <1>1, Zenon DEF Connect, ConnectWithRetries, Goto, clientVars
  <2> QED
    BY <2>1, Zenon DEF Live, Of
<1>2. CASE EnsureRedials
  <2>1. q = App /\ cl'["stream"] = cl["stream"]
    BY <1>0, <1>2 DEF EnsureRedials, Goto
  <2>2. cl["stream"].conn # NoConn =>
          cl["stream"].conn \in Conns /\ link'[cl["stream"].conn].st = "dead"
    <3>1. cl["stream"].conn \in Conns \cup {NoConn}
      BY <1>0, Members, Zenon DEF ClientState
    <3> DEFINE l == IF rpcConnected /\ IsConnected("rpc")
                    THEN Shut(link, cl["rpc"].conn) ELSE link
    <3>2. l \in [Conns -> LinkState]
      BY <1>0, ShutType, Zenon
    <3>3. cl["stream"].conn # NoConn => link' = Shut(l, cl["stream"].conn)
      BY <1>2, Zenon DEF EnsureRedials
    <3> HIDE DEF l
    <3> QED
      BY <3>1, <3>2, <3>3, ShutFact
  <2> QED
    BY <2>1, <2>2, Zenon DEF Live, Of
<1>3. ASSUME NEW p \in Procs, LockRpc(p) PROVE ~Live(cl[Of(q)].conn)'
  <2>1. /\ q = p /\ Of(q) = "rpc" /\ rpcMu = Nobody
        /\ ~(rpcConnected /\ IsConnected("rpc")) /\ UNCHANGED <<cl, link>>
    BY <1>0, <1>3, Members, Zenon DEF LockRpc, Goto, ConnectWithRetries, clientVars, Of
  <2>2. ~Live(cl["rpc"].conn)
    BY <1>0, <2>1, Members, Zenon DEF DialsFresh, IsConnected, Numbered, Live
  <2> QED
    BY <2>1, <2>2, Zenon DEF Live
<1>4. ASSUME NEW p \in Procs, HandshakeFails(p) PROVE ~Live(cl[Of(q)].conn)'
  <2>1. q = p
    BY <1>0, <1>4, Zenon DEF HandshakeFails, ConnectFailed, ConnectWithRetries, Retry, Return, Goto
  <2>2. cl'[Of(p)].conn = NoConn
    <3> DEFINE c == [cl EXCEPT ![Of(p)] = [conn |-> NoConn, closed |-> TRUE,
                                           dropped |-> @.dropped \/ Leaves(mine[p])]]
    <3>1. c[Of(p)].conn = NoConn
      BY <1>0, Members, Zenon DEF ClientState
    <3>2. cl' = c \/ (p = App /\ c["stream"].conn # NoConn)
      BY <1>4, Zenon DEF HandshakeFails, ConnectFailed, CloseClient
    <3> HIDE DEF c
    <3>3. Of(App) = "stream"
      BY Members, Zenon DEF Of
    <3> QED
      BY <3>1, <3>2, <3>3, Zenon
  <2> QED
    BY <2>1, <2>2, Zenon DEF Live
<1>5. ASSUME NEW p \in Procs, DialFails(p) PROVE FALSE
  BY <1>0, <1>5, Zenon DEF DialFails, ConnectFailed, ConnectWithRetries, Retry, Return, Goto
<1>6. ASSUME NEW p \in Procs, Reply(p) PROVE FALSE
  BY <1>0, <1>6, ReplyCases, Zenon
  DEF LoopCreated, Reattached, Resubscribed, LoopSubscribed, Probed, CallAnswered, Return, Goto
<1>7. ASSUME NEW p \in Procs, SendFails(p) \/ ReplyFails(p) \/ ReplyTimeout(p) PROVE FALSE
  BY <1>0, <1>7, Zenon DEF SendFails, ReplyFails, ReplyTimeout, AskFailed, Return, Goto
<1>8. ASSUME NEW p \in Procs, Dial(p) \/ Handshake(p) \/ WriteFails(p) \/ CallRpc(p) PROVE FALSE
  BY <1>0, <1>8, Zenon DEF Dial, Handshake, WriteFails, CallRpc, AfterConnect, Goto
<1>9. ASSUME NEW l, NewLoop \/ SwitchLoop(l) \/ EnsureConnected \/ Close \/ CloseStream
                    \/ CloseSidecar \/ CloseDone
      PROVE FALSE
  BY <1>0, <1>9, Zenon
  DEF NewLoop, SwitchLoop, EnsureConnected, Close, CloseStream, CloseSidecar, CloseDone, Goto
<1> QED
  BY <1>1, <1>2, <1>3, <1>4, <1>5, <1>6, <1>7, <1>8, <1>9, ZenonT(20)
  DEF Next, Step, Environment, vars, StreamGoodbye, Send, Crash, DaemonStarts, DaemonDegrades,
      DaemonStops, Lose

(* rpcMu is let go, and rpcConnected reset, without a live connection that   *)
(* is not known to be connected.                                             *)
LEMMA Released ==
  ASSUME SessionInv, [Next]_vars, ~closed, ~rpcConnected', rpcMu' = Nobody,
         rpcConnected \/ rpcMu # Nobody
  PROVE  ~Live(cl["rpc"].conn)'
<1>0. /\ ClientTypes /\ Numbered /\ Roles /\ Mutex /\ Closing /\ DialsFresh
      /\ cl \in [Clients -> ClientState] /\ pc \in [Procs -> PCs]
      /\ rpcConnected \in BOOLEAN
  BY Zenon DEF SessionInv, TypeOK, ClientTypes, ClientState, LinkState
<1>1. CASE EnsureRedials
  <2>1. cl'["rpc"].conn = NoConn
    BY <1>0, <1>1, Members, Zenon DEF EnsureRedials, IsConnected, Numbered, Mutex
  <2> QED
    BY <2>1, Zenon DEF Live
<1>2. CASE CloseDone
  BY <1>0, <1>2, Zenon DEF CloseDone, Closing
<1>3. ASSUME NEW p \in Procs, HandshakeFails(p) PROVE ~Live(cl[ "rpc"].conn)'
  <2>1. p # App
    BY <1>0, <1>3, ZenonT(30)
    DEF HandshakeFails, ConnectFailed, ConnectWithRetries, Retry, Return, Mutex
  <2>2. cl'["rpc"].conn = NoConn
    BY <1>0, <1>3, <2>1, Members DEF HandshakeFails, ConnectFailed, Of
  <2> QED
    BY <2>2, Zenon DEF Live
<1>4. ASSUME NEW p \in Procs, DialFails(p) PROVE ~Live(cl["rpc"].conn)'
  <2>1. p \in Rpcs /\ UNCHANGED <<cl, link>>
    BY <1>0, <1>4, Members, Zenon
    DEF DialFails, ConnectFailed, ConnectWithRetries, Retry, Return, Mutex, Roles
  <2> QED
    BY <1>0, <1>4, <2>1, Zenon DEF DialFails, DialsFresh, Live
<1>5. ASSUME NEW p \in Procs,
             Reply(p) \/ SendFails(p) \/ ReplyFails(p) \/ ReplyTimeout(p)
      PROVE  FALSE
  <2>1. pc[p] \in Asks /\ rpcConnected' = rpcConnected
    BY <1>0, <1>5, ReplyCases, Zenon DEF SendFails, ReplyFails, ReplyTimeout, Answered, Roles
  <2>2. CASE p \in Rpcs
    BY <1>0, <2>1, <2>2, Zenon DEF DialsFresh, Roles, Asks
  <2>3. CASE p = App
    <3>1. rpcMu' = rpcMu
      BY <1>0, <1>5, <2>3, Members, ReplyCases, Zenon
      DEF SendFails, ReplyFails, ReplyTimeout, AskFailed, Return,
          LoopCreated, Reattached, Resubscribed, LoopSubscribed, Probed
    <3> QED
      BY <1>0, <2>1, <3>1, Zenon
  <2> QED
    BY <1>0, <2>1, <2>2, <2>3, Members, Zenon DEF Roles, Asks
<1>6. ASSUME NEW p \in Procs, LockRpc(p) PROVE FALSE
  BY <1>0, <1>6, Members, Zenon DEF LockRpc
<1>7. CASE UNCHANGED <<rpcMu, rpcConnected>>
  BY <1>0, <1>7, Zenon
<1>8. ASSUME NEW p \in Procs, Handshake(p) PROVE FALSE
  BY <1>0, <1>8, Zenon DEF Handshake
<1> QED
  BY <1>1, <1>2, <1>3, <1>4, <1>5, <1>6, <1>7, <1>8, ZenonT(20)
  DEF Next, Step, Environment, vars, sessionVars, Connect, NewLoop, EnsureConnected, SwitchLoop,
      StreamGoodbye, Close, CallRpc, Dial, Send, WriteFails, Crash, CloseStream, CloseSidecar,
      DaemonStarts, DaemonDegrades, DaemonStops, Lose

(* A call is made on a sidecar that is known to be connected. *)
LEMMA CallsConnected ==
  ASSUME SessionInv, [Next]_vars, ~closed, NEW p \in Rpcs, pc'[p] = "call"
  PROVE  rpcConnected'
<1>0. /\ Roles /\ Mutex /\ Closing /\ DialsFresh /\ pc \in [Procs -> PCs]
      /\ rpcConnected \in BOOLEAN
      /\ mine \in [Procs -> Conns \cup {NoConn}]
  BY Zenon DEF SessionInv, TypeOK
<1>1. CASE pc[p] = "call"
  <2>1. rpcConnected /\ rpcMu # Nobody
    BY <1>0, <1>1, Members, Zenon DEF DialsFresh, Mutex
  <2>2. ~EnsureRedials /\ ~CloseDone
    BY <2>1, Zenon DEF EnsureRedials, CloseDone
  <2> QED
    BY <2>1, <2>2, ZenonT(30)
    DEF Next, Step, Environment, vars, sessionVars, Connect, NewLoop, EnsureConnected,
        SwitchLoop, StreamGoodbye, Close, CallRpc, Dial, DialFails, Handshake, HandshakeFails,
        Send, SendFails, Reply, ReplyFails, ReplyTimeout, LockRpc, WriteFails, Crash,
        CloseStream, CloseSidecar, DaemonStarts, DaemonDegrades, DaemonStops, Lose
<1>2. CASE pc[p] # "call"
  BY <1>0, <1>2, Moves, Members DEF Move, Goto, Send
<1> QED
  BY <1>1, <1>2, Zenon

(* Who is about to dial has given up the connection before. *)
LEMMA DialsFreshStep ==
  ASSUME SessionInv, [Next]_vars
  PROVE  DialsFresh'
<1>0. /\ ClientTypes /\ Numbered /\ Roles /\ Mutex /\ DialsFresh
      /\ closed \in BOOLEAN /\ cl \in [Clients -> ClientState]
      /\ rpcConnected \in BOOLEAN /\ pc \in [Procs -> PCs]
  BY Zenon DEF SessionInv, TypeOK, ClientTypes, ClientState, LinkState
<1> SUFFICES ASSUME ~closed' PROVE DialsFresh'
  BY Zenon DEF DialsFresh
<1>1. ~closed
  BY <1>0, ClosedStays, Zenon
<1>2. ASSUME NEW q \in Procs, q = App \/ q \in Rpcs, pc'[q] = "dial"
      PROVE  ~Live(cl[Of(q)].conn)'
  <2>1. CASE pc[q] # "dial"
    BY <1>1, <1>2, <2>1, EnterDial, Zenon
  <2>2. CASE pc[q] = "dial"
    <3>1. ~Live(cl[Of(q)].conn) /\ Of(q) \in Clients
      BY <1>0, <1>1, <1>2, <2>2, Members, Zenon DEF DialsFresh, Of
    <3>2. ASSUME NEW p \in Procs, Dial(p) PROVE Of(p) # Of(q)
      <4>1. p # q
        BY <1>0, <1>2, <3>2, Zenon DEF Dial, Goto
      <4> QED
        BY <1>0, <2>2, <3>2, <4>1, OneBusy, Zenon DEF Dial
    <3> QED
      BY <1>0, <3>1, <3>2, QuietSteps, QuietLive, DialLive, Zenon
  <2> QED
    BY <2>1, <2>2, Zenon
<1>3. ASSUME ~rpcConnected', rpcMu' = Nobody PROVE ~Live(cl["rpc"].conn)'
  <2>1. CASE rpcConnected \/ rpcMu # Nobody
    BY <1>1, <1>3, <2>1, Released, Zenon
  <2>2. CASE ~rpcConnected /\ rpcMu = Nobody
    <3>1. ~Live(cl["rpc"].conn)
      BY <1>0, <1>1, <2>2, Zenon DEF DialsFresh
    <3>2. ASSUME NEW p \in Procs, Dial(p) PROVE Of(p) # "rpc"
      BY <1>0, <2>2, <3>2, Members, Zenon DEF Dial, Roles, Mutex, Of
    <3> QED
      BY <1>0, <3>1, <3>2, QuietSteps, QuietLive, DialLive, Members, Zenon
  <2> QED
    BY <2>1, <2>2, Zenon
<1>4. \A p \in Rpcs : pc'[p] = "call" => rpcConnected'
  BY <1>1, CallsConnected, Zenon
<1>5. Of(App) = "stream" /\ \A p \in Rpcs : Of(p) = "rpc" /\ p \in Procs
  BY Members, Zenon DEF Of
<1>6. pc'[App] = "dial" => ~Live(cl["stream"].conn)'
  BY <1>2, <1>5, Members, Zenon
<1>7. (\E p \in Rpcs : pc'[p] = "dial") => ~Live(cl["rpc"].conn)'
  BY <1>2, <1>5, ZenonT(30)
<1> QED
  BY <1>3, <1>4, <1>6, <1>7, Zenon DEF DialsFresh

-----------------------------------------------------------------------------
(* The loop *)

(* App alone touches loopID, resume and ret.  It finds, subscribes and       *)
(* probes a loop; what it has subscribed stays so while the socket is open.  *)
LoopSteps ==
  \/ /\ UNCHANGED <<loopID, resume, ret>> /\ pc'[App] = pc[App]
  \/ /\ pc'[App] \in {"idle", "stuck", "dial", "handshake", "lock", "new"}
     /\ loopID' = loopID /\ (ret' = "ok" => pc'[App] = "stuck" /\ pc[App] = "idle" /\ ret = "ok")
  \/ /\ pc'[App] \in {"subscribe", "reattach"} /\ resume' # NoLoop
     /\ loopID' = loopID /\ ret' # "ok"
  \/ App \in sent /\ Reattached(App)
  \/ App \in sent /\ IsOpen(mine[App]) /\ (Resubscribed(App) \/ LoopSubscribed(App))
  \/ App \in sent /\ Probed(App) /\ link' = link

(* The steps that matter to the session's loop *)
LEMMA LoopStepCases ==
  ASSUME SessionInv, [Next]_vars
  PROVE  LoopSteps
<1>0. /\ Roles /\ Mutex /\ LoopKnown /\ pc \in [Procs -> PCs] /\ created \in 0 .. MaxLoops
      /\ MaxLoops \in Nat /\ App \in Procs
      /\ ret = "ok" => pc[App] \in {"idle", "stuck"}
  BY Members, Zenon DEF SessionInv, TypeOK, LoopKnown
<1>1. ASSUME NEW p \in Procs, p # App,
             Dial(p) \/ DialFails(p) \/ Handshake(p) \/ HandshakeFails(p) \/ SendFails(p)
               \/ ReplyFails(p) \/ ReplyTimeout(p) \/ WriteFails(p) \/ CallRpc(p) \/ LockRpc(p)
      PROVE  LoopSteps
  <2>1. p \in Rpcs
    BY <1>0, <1>1, Members, Zenon
    DEF Roles, Asks, Dial, DialFails, Handshake, HandshakeFails, SendFails, ReplyFails,
        ReplyTimeout, WriteFails, CallRpc, LockRpc, Answered
  <2>2. pc[p] # "probe"
    BY <1>0, <2>1, Zenon DEF Roles
  <2> QED
    BY <1>0, <1>1, <2>2, ZenonT(20)
    DEF LoopSteps, Dial, DialFails, Handshake, HandshakeFails, SendFails, ReplyFails,
        ReplyTimeout, WriteFails, CallRpc, LockRpc, ConnectFailed, ConnectWithRetries, Retry,
        AskFailed, Return, Goto, sessionVars, callVars
<1>2. ASSUME NEW p \in Procs, p # App, Reply(p) PROVE LoopSteps
  BY <1>0, <1>2, ReplyCases, Zenon DEF LoopSteps, CallAnswered, Return, Goto
<1>3. CASE Dial(App) \/ DialFails(App) \/ HandshakeFails(App)
  BY <1>0, <1>3, Zenon
  DEF LoopSteps, Dial, DialFails, HandshakeFails, ConnectFailed, ConnectWithRetries, Retry,
      Return, Goto, sessionVars, callVars
<1>4. CASE Handshake(App)
  BY <1>0, <1>4, Zenon DEF LoopSteps, Handshake, AfterConnect, Goto
<1>5. CASE SendFails(App) \/ ReplyFails(App) \/ ReplyTimeout(App)
  <2>1. pc[App] # "idle" /\ pc[App] # "stuck"
    BY <1>0, <1>5, Zenon DEF Roles, Asks, SendFails, ReplyFails, ReplyTimeout, Answered
  <2> QED
    BY <1>0, <1>5, <2>1, Zenon
    DEF LoopSteps, SendFails, ReplyFails, ReplyTimeout, AskFailed, Return, Goto
<1>6. CASE Reply(App)
  <2>1. CASE LoopCreated(App)
    BY <1>0, <1>6, <2>1 DEF LoopSteps, LoopCreated, Goto, NoLoop
  <2>2. CASE ~LoopCreated(App)
    BY <1>0, <1>6, <2>2, ReplyCases, Members, Zenon DEF LoopSteps, Probed
  <2> QED
    BY <2>1, <2>2, Zenon
<1>7. CASE WriteFails(App)
  BY <1>0, <1>7, Zenon DEF LoopSteps, WriteFails, Goto, sessionVars, callVars, Asks
<1>8. ASSUME NEW l \in 1 .. created, SwitchLoop(l) PROVE LoopSteps
  BY <1>0, <1>8 DEF LoopSteps, SwitchLoop, Begin, Goto, sessionVars, NoLoop
<1>9. ASSUME NEW l, Connect(l) \/ NewLoop \/ EnsureConnected \/ EnsureRedials PROVE LoopSteps
  BY <1>0, <1>9, Zenon
  DEF LoopSteps, Connect, NewLoop, EnsureConnected, EnsureRedials, Begin, ConnectWithRetries,
      Goto, sessionVars, callVars
<1>10. CASE Close \/ CloseStream \/ CloseSidecar \/ CloseDone
  BY <1>0, <1>10, Members, Zenon
  DEF LoopSteps, Close, CloseStream, CloseSidecar, CloseDone, Goto, sessionVars, callVars
<1>11. CASE StreamGoodbye \/ Environment \/ (\E p \in Procs : Crash(p) \/ Send(p))
            \/ UNCHANGED vars
  BY <1>11, Zenon
  DEF LoopSteps, StreamGoodbye, Environment, DaemonStarts, DaemonDegrades, DaemonStops, Lose,
      Crash, Send, vars, sessionVars, callVars
<1> QED
  BY <1>1, <1>2, <1>3, <1>4, <1>5, <1>6, <1>7, <1>8, <1>9, <1>10, <1>11, Members, SMTT(30)
  DEF Next, Step, CallRpc, LockRpc

(* The stream's socket, when it is open after a step, was so before, with    *)
(* the loops it had, unless App has dialed it.                               *)
LEMMA StreamKept ==
  ASSUME SessionInv, [Next]_vars, ~Dial(App), IsOpen(cl["stream"].conn)'
  PROVE  /\ cl'["stream"].conn = cl["stream"].conn /\ IsOpen(cl["stream"].conn)
         /\ link[cl["stream"].conn].loops \subseteq link'[cl["stream"].conn].loops
<1> DEFINE n == cl["stream"].conn
<1>0. /\ ClientTypes /\ Numbered /\ Roles /\ n \in Conns \cup {NoConn}
      /\ dialed \in Int /\ n <= dialed
  BY Members DEF SessionInv, TypeOK, ClientTypes, ClientState, LinkState, Numbered
<1>1. CASE Quiet
  BY <1>0, <1>1, Members, Zenon DEF Quiet, IsOpen
<1>2. ASSUME NEW p \in Procs, Dial(p)
      PROVE  cl'["stream"].conn = n /\ (n \in Conns => link'[n] = link[n])
  <2>1. Of(p) = "rpc"
    BY <1>2, Zenon DEF Of
  <2>2. n # dialed'
    BY <1>0, <1>2, DialFact DEF Conns, NoConn
  <2> QED
    BY <1>0, <1>2, <2>1, <2>2, DialFact, Members, Zenon
<1> QED
  BY <1>0, <1>1, <1>2, QuietSteps, Members, ZenonT(30) DEF IsOpen

(* A call that returns nil has its loop subscribed. *)
LEMMA LoopStep ==
  ASSUME SessionInv, [Next]_vars
  PROVE  LoopKnown' /\ OkIsSubscribed'
<1> DEFINE n == cl["stream"].conn
<1>0. /\ LoopKnown /\ OkIsSubscribed /\ Work /\ Roles /\ pc \in [Procs -> PCs] /\ App \in Procs
      /\ link \in [Conns -> LinkState] /\ mine \in [Procs -> Conns \cup {NoConn}]
  BY Members, Zenon DEF SessionInv, TypeOK, LinkState
<1>1. ~Dial(App) /\ IsOpen(n)' => /\ n' = n /\ IsOpen(n)
                                  /\ link[n].loops \subseteq link'[n].loops
  BY StreamKept, Zenon
<1>2. Dial(App) => pc[App] = "dial" /\ pc'[App] = "handshake" /\ ret' = ret
  BY <1>0, Zenon DEF Dial, Goto, callVars
<1>3. App \in sent /\ IsOpen(n) => n = mine[App]
  BY <1>0, Zenon DEF Work, Busy, Of, IsOpen
<1>4. CASE UNCHANGED <<loopID, resume, ret>> /\ pc'[App] = pc[App]
  BY <1>0, <1>1, <1>2, <1>4, Zenon DEF LoopKnown, OkIsSubscribed
<1>5. CASE /\ pc'[App] \in {"idle", "stuck", "dial", "handshake", "lock", "new"}
           /\ loopID' = loopID
           /\ ret' = "ok" => pc'[App] = "stuck" /\ pc[App] = "idle" /\ ret = "ok"
  BY <1>0, <1>1, <1>2, <1>5, Zenon DEF LoopKnown, OkIsSubscribed
<1>6. CASE /\ pc'[App] \in {"subscribe", "reattach"} /\ resume' # NoLoop
           /\ loopID' = loopID /\ ret' # "ok"
  BY <1>0, <1>6, Zenon DEF LoopKnown, OkIsSubscribed
<1>7. CASE App \in sent /\ Reattached(App)
  BY <1>0, <1>7, Zenon DEF Reattached, Goto, LoopKnown, OkIsSubscribed
<1>8. CASE App \in sent /\ IsOpen(mine[App]) /\ (Resubscribed(App) \/ LoopSubscribed(App))
  <2>1. /\ mine[App] \in Conns /\ resume # NoLoop /\ resume \in link'[mine[App]].loops
        /\ resume' = resume
        /\ \/ pc'[App] = "probe" /\ ret' = ret /\ loopID' = loopID /\ ret # "ok"
           \/ pc'[App] = "idle" /\ loopID' = resume
    <3>1. /\ mine[App] \in Conns /\ pc[App] \in {"resubscribe", "subscribe"}
          /\ resume # NoLoop /\ ret # "ok"
      BY <1>0, <1>8, Zenon DEF IsOpen, Resubscribed, LoopSubscribed, LoopKnown
    <3>2. resume \in link'[mine[App]].loops
      BY <1>0, <1>8, <3>1 DEF Resubscribed, LoopSubscribed, Subscribed, LinkState
    <3> QED
      BY <1>0, <1>8, <3>1, <3>2, Zenon DEF Resubscribed, LoopSubscribed, Return, Goto
  <2>2. ~Dial(App)
    BY <1>2, <1>8, Zenon DEF Resubscribed, LoopSubscribed
  <2>3. IsOpen(n)' => n' = mine[App]
    BY <1>1, <1>3, <1>8, <2>2, Zenon
  <2> QED
    BY <2>1, <2>3, Zenon DEF LoopKnown, OkIsSubscribed
<1>9. CASE App \in sent /\ Probed(App) /\ link' = link
  <2>1. /\ pc[App] = "probe" /\ pc'[App] = "idle" /\ loopID' = resume /\ resume' = resume
        /\ resume # NoLoop
    BY <1>0, <1>9, Zenon DEF Probed, Return, Goto, LoopKnown
  <2>2. IsOpen(n)' => n' = n /\ resume \in link'[n].loops
    BY <1>0, <1>1, <1>2, <1>9, <2>1, Zenon DEF LoopKnown
  <2> QED
    BY <2>1, <2>2, Zenon DEF LoopKnown, OkIsSubscribed
<1> QED
  BY <1>4, <1>5, <1>6, <1>7, <1>8, <1>9, LoopStepCases, Zenon DEF LoopSteps

-----------------------------------------------------------------------------
(* Nil *)

(* Only Close can leave a call without a connection. *)
LEMMA CrashStep ==
  ASSUME SessionInv, [Next]_vars
  PROVE  CrashOnlyByClose'
<1>0. /\ Work /\ CrashOnlyByClose /\ crashed \in BOOLEAN /\ closed \in BOOLEAN
      /\ dialed \in 0 .. MaxConn
  BY Zenon DEF SessionInv, TypeOK
<1>1. ASSUME NEW p \in Procs, Crash(p) PROVE closed'
  <2>1. closed
    BY <1>0, <1>1 DEF Crash, Work, Busy, NoConn
  <2> QED
    BY <2>1, ClosedStays, ZenonT(30)
<1>3. crashed' => closed'
  <2>1. ASSUME NEW p \in Procs, Step(p) PROVE crashed' = crashed
    BY <2>1, ZenonT(20) DEF Step, Dial, DialFails, Handshake, HandshakeFails, Send, SendFails, Reply,
       ReplyFails, EnsureRedials, LockRpc, CloseStream, CloseSidecar, CloseDone
  <2>2. (\E p \in Procs : Crash(p)) \/ crashed' = crashed
    BY <2>1, ZenonT(20)
    DEF Next, vars, Environment, Connect, NewLoop, EnsureConnected, SwitchLoop,
        StreamGoodbye, Close, CallRpc, WriteFails, ReplyTimeout, DaemonStarts, DaemonDegrades,
        DaemonStops, Lose
  <2>3. crashed' = crashed => (crashed' => closed')
    BY <1>0, ClosedStays, Zenon DEF CrashOnlyByClose
  <2> QED
    BY <1>1, <2>2, <2>3, Zenon
<1>4. ASSUME NEW p \in Rpcs, NEW q \in Rpcs, {pc'[p], pc'[q]} \cap {"idle", "lock"} = {}
      PROVE  p = q
  BY <1>4, PlacesStep, Zenon DEF Mutex
<1> QED
  BY <1>3, <1>4, Zenon DEF CrashOnlyByClose

-----------------------------------------------------------------------------
(* The other types *)

CallTypes ==
  /\ loopID \in Loops \cup {NoLoop} /\ resume \in Loops \cup {NoLoop}
  /\ op \in {"none", "Connect", "NewLoop", "SwitchLoop", "EnsureConnected"}
  /\ ret \in {"none", "ok", "alive", "err"}
  /\ loops \subseteq Loops /\ created \in 0 .. MaxLoops

FlagTypes ==
  /\ closed \in BOOLEAN /\ rpcConnected \in BOOLEAN /\ crashed \in BOOLEAN
  /\ reconnects \in BOOLEAN
  /\ daemon \in {"down", "starting", "ready", "degraded"}
  /\ faults \in 0 .. MaxFaults

ProcTypes ==
  /\ tries \in [Procs -> 0 .. MaxRetries]
  /\ mine \in [Procs -> Conns \cup {NoConn}]
  /\ sent \subseteq Procs
  /\ calls \in [Procs -> Nat]

(* What belongs to the calls keeps its type. *)
LEMMA CallTypesStep ==
  ASSUME SessionInv, [Next]_vars
  PROVE  CallTypes'
<1>0. CallTypes /\ MaxLoops \in Nat /\ App \in Procs /\ Roles
  BY Members, Zenon DEF SessionInv, TypeOK, CallTypes
<1>1. ASSUME NEW p \in Procs, LoopCreated(p), UNCHANGED op, Reply(p) PROVE CallTypes'
  <2>1. created' = created + 1 /\ created < MaxLoops
    BY <1>1, Zenon DEF LoopCreated, Reply, Grants
  <2>2. created' \in Loops /\ created' \in 0 .. MaxLoops
    BY <1>0, <2>1 DEF CallTypes, Loops
  <2> QED
    BY <1>0, <1>1, <2>2, Zenon DEF CallTypes, LoopCreated
<1>2. ASSUME NEW p \in Procs, Reply(p), ~LoopCreated(p) PROVE CallTypes'
  BY <1>0, <1>2, ReplyCases, Zenon
  DEF CallTypes, Reattached, Resubscribed, LoopSubscribed, Probed, CallAnswered, Return
<1>3. ASSUME NEW p \in Procs, DialFails(p) \/ HandshakeFails(p) PROVE CallTypes'
  BY <1>0, <1>3, Zenon
  DEF CallTypes, DialFails, HandshakeFails, ConnectFailed, Retry, Return, daemonVars
<1>4. ASSUME NEW p \in Procs, SendFails(p) \/ ReplyFails(p) \/ ReplyTimeout(p) PROVE CallTypes'
  BY <1>0, <1>4, ZenonT(20)
  DEF CallTypes, SendFails, ReplyFails, ReplyTimeout, AskFailed, Return, daemonVars
<1>5. ASSUME NEW l \in Loops \cup {NoLoop}, Connect(l) \/ NewLoop \/ SwitchLoop(l)
      PROVE  CallTypes'
  BY <1>0, <1>5, Zenon DEF CallTypes, Connect, NewLoop, SwitchLoop, Begin, daemonVars, sessionVars
<1>6. CASE EnsureConnected
  BY <1>0, <1>6, Zenon DEF CallTypes, EnsureConnected, daemonVars, sessionVars
<1>7. CASE DaemonStops
  BY <1>0, <1>7, Zenon DEF CallTypes, DaemonStops, sessionVars, callVars
<1>8. CASE UNCHANGED <<loopID, resume, op, ret, loops, created>>
  BY <1>0, <1>8, Zenon DEF CallTypes
<1>9. /\ \A l \in {NoLoop, loopID} : l \in Loops \cup {NoLoop}
      /\ \A l \in 1 .. created : l \in Loops \cup {NoLoop}
  BY <1>0 DEF CallTypes, Loops
<1>10. ASSUME NEW p \in Procs, Step(p) PROVE CallTypes'
  BY <1>1, <1>2, <1>3, <1>4, <1>8, <1>10, Zenon
  DEF Step, Reply, Dial, Handshake, Send, EnsureRedials, LockRpc, CloseStream, CloseSidecar,
      CloseDone, sessionVars, callVars, daemonVars
<1> QED
  BY <1>4, <1>5, <1>6, <1>7, <1>8, <1>9, <1>10, ZenonT(20)
  DEF Next, Environment, vars, StreamGoodbye, Close, CallRpc, WriteFails, Crash, DaemonStarts,
      DaemonDegrades, Lose, sessionVars, callVars, daemonVars

(* So do the flags of the session and of the daemon, *)
LEMMA FlagTypesStep ==
  ASSUME SessionInv, [Next]_vars
  PROVE  FlagTypes'
<1>0. FlagTypes /\ MaxFaults \in Nat
  BY Members, Zenon DEF SessionInv, TypeOK, FlagTypes
<1>1. (Fault \/ (faults < MaxFaults /\ faults' = faults + 1)) => faults' \in 0 .. MaxFaults
  BY <1>0 DEF FlagTypes, Fault
<1>2. ASSUME NEW p \in Procs, Step(p) PROVE FlagTypes'
  BY <1>0, <1>2, ZenonT(30)
  DEF FlagTypes, Step, Dial, DialFails, Handshake, HandshakeFails, ConnectFailed, Send,
      SendFails, Reply, ReplyFails, EnsureRedials, LockRpc, CloseStream, CloseSidecar,
      CloseDone, sessionVars, callVars, daemonVars
<1>3. ASSUME NEW p \in Procs, CallRpc(p) \/ WriteFails(p) \/ ReplyTimeout(p) \/ Crash(p)
      PROVE  FlagTypes'
  BY <1>0, <1>1, <1>3, ZenonT(30)
  DEF FlagTypes, CallRpc, WriteFails, ReplyTimeout, Crash, sessionVars, callVars, daemonVars
<1>4. CASE Environment
  BY <1>0, <1>1, <1>4
  DEF FlagTypes, Environment, DaemonStarts, DaemonDegrades, DaemonStops, Lose, sessionVars,
      callVars
<1>5. ASSUME NEW l, Connect(l) \/ NewLoop \/ SwitchLoop(l) \/ EnsureConnected
                    \/ StreamGoodbye \/ Close \/ UNCHANGED vars
      PROVE  FlagTypes'
  BY <1>0, <1>5, ZenonT(30)
  DEF FlagTypes, Connect, NewLoop, SwitchLoop, EnsureConnected, StreamGoodbye, Close, Begin,
      vars, sessionVars, callVars, daemonVars
<1> QED
  BY <1>2, <1>3, <1>4, <1>5, Zenon DEF Next

(* What a failed connect leaves of the attempts *)
LEMMA FailedTries ==
  ASSUME tries \in [Procs -> 0 .. MaxRetries], Attempts, reconnects \in BOOLEAN,
         pc \in [Procs -> PCs], NEW p \in Procs, DialFails(p) \/ HandshakeFails(p)
  PROVE  /\ tries' \in [Procs -> 0 .. MaxRetries]
         /\ \A q \in Procs \ {p} : tries'[q] = tries[q] /\ pc'[q] = pc[q]
         /\ pc'[p] = "idle" \/ (pc'[p] = "dial" /\ tries'[p] > 0)
         /\ p # App => reconnects' = reconnects
<1>0. /\ MaxRetries \in 0 .. MaxRetries /\ MaxRetries > 0 /\ tries[p] \in 0 .. MaxRetries
      /\ tries[p] > 0 \/ (p = App /\ reconnects)
  BY Members DEF Attempts, DialFails, HandshakeFails
<1>1. CASE p = App /\ reconnects
  BY <1>0, <1>1, ZenonT(20)
  DEF DialFails, HandshakeFails, ConnectFailed, ConnectWithRetries, Goto
<1>2. CASE ~(p = App /\ reconnects)
  <2>1. tries[p] - 1 \in 0 .. MaxRetries /\ (tries[p] > 1 => tries[p] - 1 > 0)
    BY <1>0, <1>2, Members
  <2>2. /\ tries' = [tries EXCEPT ![p] = tries[p] - 1] /\ reconnects' = reconnects
        /\ \/ tries[p] > 1 /\ Goto(p, "dial")
           \/ Goto(p, "idle")
    BY <1>2, Zenon DEF DialFails, HandshakeFails, ConnectFailed, Retry, Return
  <2> QED
    BY <2>1, <2>2, Zenon DEF Goto
<1> QED
  BY <1>1, <1>2, Zenon

(* and what belongs to the callers. *)
LEMMA ProcTypesStep ==
  ASSUME SessionInv, [Next]_vars
  PROVE  ProcTypes'
<1>0. /\ ProcTypes /\ ClientTypes /\ MaxRetries \in 0 .. MaxRetries /\ 0 \in 0 .. MaxRetries
      /\ App \in Procs /\ Closer \in Procs /\ Roles
      /\ cl \in [Clients -> ClientState] /\ NoConn \in Conns \cup {NoConn}
      /\ \A p \in Procs : Of(p) \in Clients
      /\ tries \in [Procs -> 0 .. MaxRetries] /\ Attempts /\ reconnects \in BOOLEAN
      /\ pc \in [Procs -> PCs]
  BY Members DEF SessionInv, TypeOK, ProcTypes, ClientTypes, ClientState, LinkState
<1>1. ASSUME NEW p \in Procs, Called(p) PROVE calls' \in [Procs -> Nat]
  <2>1. calls[p] \in Nat /\ calls[p] > 0
    BY <1>0, <1>1, Zenon DEF ProcTypes, Called
  <2>2. calls[p] - 1 \in Nat
    BY <2>1
  <2> QED
    BY <1>0, <1>1, <2>2, Zenon DEF ProcTypes, Called
<1>2. ASSUME NEW p \in Procs, Dial(p) PROVE ProcTypes'
  BY <1>0, <1>2, DialFact, Zenon DEF ProcTypes, Dial, callVars
<1>3. ASSUME NEW p \in Procs, DialFails(p) \/ HandshakeFails(p) PROVE ProcTypes'
  BY <1>0, <1>3, FailedTries, Zenon DEF ProcTypes, DialFails, HandshakeFails
<1>4. ASSUME NEW p \in Procs, Handshake(p) PROVE ProcTypes'
  BY <1>0, <1>4, Zenon DEF ProcTypes, Handshake
<1>5. ASSUME NEW p \in Procs, Send(p) PROVE ProcTypes'
  BY <1>0, <1>5, Zenon DEF ProcTypes, Send, callVars, ClientState
<1>6. ASSUME NEW p \in Procs, SendFails(p) \/ ReplyFails(p) \/ ReplyTimeout(p) PROVE ProcTypes'
  BY <1>0, <1>6, Zenon DEF ProcTypes, SendFails, ReplyFails, ReplyTimeout, Answered
<1>7. ASSUME NEW p \in Procs, Reply(p) PROVE ProcTypes'
  BY <1>0, <1>7, ReplyCases, Zenon DEF ProcTypes
<1>8. ASSUME NEW p \in Procs, LockRpc(p) PROVE ProcTypes'
  BY <1>0, <1>8, Zenon DEF ProcTypes, LockRpc, ConnectWithRetries, callVars
<1>9. ASSUME NEW l, Connect(l) \/ NewLoop \/ SwitchLoop(l) \/ EnsureConnected PROVE ProcTypes'
  BY <1>0, <1>1, <1>9, ZenonT(20)
  DEF ProcTypes, Connect, NewLoop, SwitchLoop, EnsureConnected, Begin, ConnectWithRetries
<1>10. ASSUME NEW p \in Procs, CallRpc(p) \/ Close PROVE ProcTypes'
  BY <1>0, <1>1, <1>10, Zenon DEF ProcTypes, CallRpc, Close
<1>11. CASE UNCHANGED <<tries, mine, sent, calls>>
  BY <1>0, <1>11, Zenon DEF ProcTypes
<1>12. ASSUME NEW p \in Procs, Step(p) PROVE ProcTypes'
  BY <1>2, <1>3, <1>4, <1>5, <1>6, <1>7, <1>8, <1>11, <1>12, ZenonT(20)
  DEF Step, EnsureRedials, CloseStream, CloseSidecar, CloseDone, callVars
<1> QED
  BY <1>0, <1>6, <1>9, <1>10, <1>11, <1>12, ZenonT(30)
  DEF Next, Environment, vars, StreamGoodbye, WriteFails, Crash, DaemonStarts, DaemonDegrades,
      DaemonStops, Lose, callVars

(* Who connects has an attempt left, or is Reconnect. *)
LEMMA AttemptsStep ==
  ASSUME SessionInv, [Next]_vars
  PROVE  Attempts'
<1>0. /\ tries \in [Procs -> 0 .. MaxRetries] /\ Attempts /\ reconnects \in BOOLEAN
      /\ pc \in [Procs -> PCs] /\ Roles /\ Mutex
      /\ App \in Procs /\ Closer \in Procs /\ App # Closer /\ App \notin Rpcs
      /\ MaxRetries \in Nat /\ MaxRetries > 0
  BY Members, Zenon DEF SessionInv, TypeOK
<1>1. ASSUME NEW p \in Procs, DialFails(p) \/ HandshakeFails(p) PROVE Attempts'
  BY <1>0, <1>1, FailedTries, Zenon DEF Attempts
<1>2. ASSUME NEW p \in Procs, Dial(p) \/ Handshake(p) PROVE Attempts'
  BY <1>0, <1>2, ZenonT(20) DEF Attempts, Dial, Handshake, AfterConnect, Goto, callVars
<1>3. ASSUME NEW p \in Procs, SendFails(p) \/ ReplyFails(p) \/ ReplyTimeout(p) PROVE Attempts'
  BY <1>0, <1>3, Zenon DEF Attempts, SendFails, ReplyFails, ReplyTimeout, AskFailed, Return, Goto
<1>4. ASSUME NEW p \in Procs, Reply(p) PROVE Attempts'
  BY <1>0, <1>4, ReplyCases, ZenonT(20)
  DEF Attempts, LoopCreated, Reattached, Resubscribed, LoopSubscribed, Probed, CallAnswered,
      Return, Goto
<1>5. ASSUME NEW p \in Procs, LockRpc(p) \/ CallRpc(p) \/ WriteFails(p) PROVE Attempts'
  BY <1>0, <1>5, Zenon
  DEF Attempts, LockRpc, CallRpc, WriteFails, ConnectWithRetries, Goto, callVars
<1>6. ASSUME NEW l, Connect(l) \/ NewLoop \/ SwitchLoop(l) \/ EnsureConnected \/ EnsureRedials
      PROVE  Attempts'
  BY <1>0, <1>6, Zenon
  DEF Attempts, Connect, NewLoop, SwitchLoop, EnsureConnected, EnsureRedials, Begin,
      ConnectWithRetries, Goto, callVars
<1>7. CASE Close \/ CloseStream \/ CloseSidecar \/ CloseDone
  BY <1>0, <1>7, Zenon DEF Attempts, Close, CloseStream, CloseSidecar, CloseDone, Goto, callVars
<1>8. CASE UNCHANGED <<pc, tries, reconnects>>
  BY <1>0, <1>8, Zenon DEF Attempts
<1> QED
  BY <1>1, <1>2, <1>3, <1>4, <1>5, <1>6, <1>7, <1>8, ZenonT(20)
  DEF Next, Step, Environment, vars, StreamGoodbye, Send, Crash, DaemonStarts, DaemonDegrades,
      DaemonStops, Lose, callVars

-----------------------------------------------------------------------------
(* The invariant *)

(* The invariant holds at first, *)
LEMMA SessionInit == Init => SessionInv
<1> SUFFICES ASSUME Init PROVE SessionInv
  BY Zenon
<1>1. /\ cl = [k \in Clients |-> [conn |-> NoConn, closed |-> FALSE, dropped |-> FALSE]]
      /\ link = [n \in Conns |-> Fresh("none")] /\ dialed = 0
      /\ pc = [p \in Procs |-> "idle"] /\ rpcMu = Nobody /\ sent = {} /\ ret = "none"
      /\ closed = FALSE /\ crashed = FALSE
  BY Zenon DEF Init
<1>2. TypeOK
  <2>1. /\ cl \in [Clients -> ClientState] /\ link \in [Conns -> LinkState]
    BY <1>1, FreshType, Zenon DEF ClientState
  <2>2. /\ pc \in [Procs -> PCs] /\ tries \in [Procs -> 0 .. MaxRetries]
        /\ mine \in [Procs -> Conns \cup {NoConn}]
    BY Members DEF Init, PCs
  <2>3. /\ dialed \in 0 .. MaxConn /\ faults \in 0 .. MaxFaults /\ created \in 0 .. MaxLoops
    BY Members DEF Init
  <2>4. calls \in [Procs -> Nat]
    BY SessionAssumption, Zenon DEF Init
  <2> QED
    BY <2>1, <2>2, <2>3, <2>4, Zenon DEF Init, TypeOK, ClientState, LinkState
<1>3. Roles /\ Mutex /\ Closing /\ Attempts
  BY <1>1, Members, Zenon DEF Roles, Mutex, Closing, Attempts, PCs
<1>4. Numbered /\ Work
  BY <1>1, Members DEF Numbered, Work, Busy, NoConn
<1>5. DialsFresh /\ NoLeakedSocket
  BY <1>1, Members, Zenon DEF DialsFresh, NoLeakedSocket, Live, Fresh
<1>6. LoopKnown /\ OkIsSubscribed /\ CrashOnlyByClose
  BY <1>1, Members, Zenon DEF LoopKnown, OkIsSubscribed, CrashOnlyByClose
<1> QED
  BY <1>2, <1>3, <1>4, <1>5, <1>6, Zenon DEF SessionInv

(* and every step keeps it. *)
LEMMA SessionStep == SessionInv /\ [Next]_vars => SessionInv'
<1> SUFFICES ASSUME SessionInv, [Next]_vars PROVE SessionInv'
  BY Zenon
<1>1. /\ ClientTypes' /\ CallTypes' /\ FlagTypes' /\ ProcTypes' /\ pc' \in [Procs -> PCs]
      /\ Roles' /\ Mutex'
  BY ClientTypesStep, CallTypesStep, FlagTypesStep, ProcTypesStep, PlacesStep, Zenon
<1>2. TypeOK'
  <2>1. rpcMu' \in Procs \cup {Nobody}
    BY <1>1, Members, Zenon DEF Mutex
  <2> QED
    BY <1>1, <2>1, Zenon
    DEF ClientTypes, CallTypes, FlagTypes, ProcTypes, TypeOK, ClientState, LinkState
<1> QED
  BY <1>1, <1>2, ClosingStep, NumberedStep, WorkStep, DialsFreshStep, LoopStep, AttemptsStep,
     NoLeakStep, CrashStep, Zenon
  DEF SessionInv

(* SessionInv is inductive. *)
THEOREM SessionInvariant == Spec => []SessionInv
BY SessionInit, SessionStep, PTL DEF Spec

(* rpcMu keeps the calls over the sidecar apart, and EnsureConnected from    *)
(* closing it under one of them; only Close, which takes no rpcMu before it  *)
(* closes the clients, leaves a call with a nil connection.                  *)
THEOREM OnlyCloseCrashes == Spec => []CrashOnlyByClose
<1>1. SessionInv => CrashOnlyByClose
  BY Zenon DEF SessionInv
<1> QED
  BY <1>1, SessionInvariant, PTL

(* Until Close, every open connection belongs to a client: failed            *)
(* handshakes, Reconnect, retries and EnsureConnected shut what they replace.*)
THEOREM SocketsKept == Spec => []NoLeakedSocket
<1>1. SessionInv => NoLeakedSocket
  BY Zenon DEF SessionInv
<1> QED
  BY <1>1, SessionInvariant, PTL

(* Connect, NewLoop, SwitchLoop and an EnsureConnected that reconnects       *)
(* return nil only with the session's loop subscribed on the open socket.    *)
THEOREM OkMeansSubscribed == Spec => []OkIsSubscribed
<1>1. SessionInv => OkIsSubscribed
  BY Zenon DEF SessionInv
<1> QED
  BY <1>1, SessionInvariant, PTL

=============================================================================
