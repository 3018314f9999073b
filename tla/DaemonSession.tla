--------------------------- MODULE DaemonSession ----------------------------
(***************************************************************************)
(* The connections of an appkit.DaemonSession (src/appkit/                 *)
(* daemon_session.go): a stream client with the session's loop, and a      *)
(* sidecar client for RPCs under rpcMu.  One goroutine, App, connects,     *)
(* bootstraps, switches loops and calls EnsureConnected; Rpcs call         *)
(* ListLoops, FetchLoopHistory and SetClarificationMode; Closer calls      *)
(* Close at any time.  Below them are Client.Connect with its handshake,   *)
(* Reconnect, ReattachAndProbe and Close (src/client.go), and              *)
(* ConnectWithRetries and BootstrapLoopSession (src/session.go).           *)
(*                                                                         *)
(* A request is two steps, the send and the return of RequestResponse (see *)
(* module Rpc for what is between).  Turns are in module DaemonTurn.  A    *)
(* write that fails is the end of its goroutine: SendMessage waits for the *)
(* lock it holds (module Client).                                          *)
(***************************************************************************)
EXTENDS Integers, FiniteSets

CONSTANTS
  Rpcs,        \* goroutines calling over the sidecar
  MaxRetries,  \* attempts of ConnectWithRetries
  MaxConn,     \* bound: connections dialed
  MaxLoops,    \* bound: loops the daemon creates
  Budgets,     \* bound: functions that say how often each process calls
  MaxFaults    \* bound: losses, restarts, timeouts

App == "app"
Closer == "closer"
Procs == {App, Closer} \cup Rpcs
Clients == {"stream", "rpc"}
Conns == 1 .. MaxConn
Loops == 1 .. MaxLoops
NoConn == 0
NoLoop == 0
Nobody == "nobody"

ASSUME SessionAssumption ==
  /\ {App, Closer, Nobody} \cap Rpcs = {}
  /\ MaxRetries \in Nat \ {0}
  /\ {MaxConn, MaxLoops, MaxFaults} \subseteq Nat
  /\ Budgets \subseteq [Procs -> Nat]

VARIABLES
  cl,           \* per client: conn, closed, and disconnected (dropped)
  link,         \* per connection: its state, and the loops subscribed on it
  dialed,       \* connections dialed so far
  loopID,       \* s.loopID
  closed,       \* s.closed
  rpcMu,        \* who holds s.rpcMu
  rpcConnected, \* s.rpcConnected
  pc,           \* per process: where it is
  op,           \* App: the call it is in
  ret,          \* App: what its last call returned
  resume,       \* App: the loop it resumes, or the one it has created
  reconnects,   \* App: the connect is Reconnect's, not ConnectWithRetries'
  tries,        \* per process: attempts left to ConnectWithRetries
  mine,         \* per process: the connection it works on
  sent,         \* processes inside RequestResponse, the request sent
  calls,        \* per process: calls left to make
  crashed,      \* a nil connection was dereferenced: the program is gone
  daemon,       \* "down", "starting", "ready" or "degraded"
  loops,        \* loops the daemon knows
  created,      \* loops it has created
  faults        \* faults so far

clientVars == <<cl, link, dialed>>
sessionVars == <<loopID, closed, rpcMu, rpcConnected>>
callVars == <<op, ret, resume, reconnects, calls>>
daemonVars == <<daemon, loops, created>>
vars == <<clientVars, sessionVars, pc, callVars, tries, mine, sent, crashed,
          daemonVars, faults>>

Asks == {"new", "subscribe", "reattach", "resubscribe", "probe", "call"}
PCs == {"idle", "lock", "dial", "handshake", "stream", "sidecar", "stuck"} \cup Asks

TypeOK ==
  /\ cl \in [Clients -> [conn : Conns \cup {NoConn}, closed : BOOLEAN, dropped : BOOLEAN]]
  /\ link \in [Conns -> [st : {"none", "open", "poisoned", "leaving", "dead"}, loops : SUBSET Loops]]
  /\ dialed \in 0 .. MaxConn
  /\ loopID \in Loops \cup {NoLoop} /\ resume \in Loops \cup {NoLoop}
  /\ closed \in BOOLEAN /\ rpcConnected \in BOOLEAN /\ crashed \in BOOLEAN
  /\ reconnects \in BOOLEAN
  /\ rpcMu \in Procs \cup {Nobody}
  /\ pc \in [Procs -> PCs]
  /\ op \in {"none", "Connect", "NewLoop", "SwitchLoop", "EnsureConnected"}
  /\ ret \in {"none", "ok", "alive", "err"}
  /\ tries \in [Procs -> 0 .. MaxRetries]
  /\ mine \in [Procs -> Conns \cup {NoConn}]
  /\ sent \subseteq Procs
  /\ calls \in [Procs -> Nat]
  /\ daemon \in {"down", "starting", "ready", "degraded"}
  /\ loops \subseteq Loops /\ created \in 0 .. MaxLoops
  /\ faults \in 0 .. MaxFaults

Fresh(st) == [st |-> st, loops |-> {}]

(* NewDaemonSession: two clients, neither connected *)
Init ==
  /\ cl = [k \in Clients |-> [conn |-> NoConn, closed |-> FALSE, dropped |-> FALSE]]
  /\ link = [n \in Conns |-> Fresh("none")] /\ dialed = 0
  /\ loopID = NoLoop /\ closed = FALSE /\ rpcMu = Nobody /\ rpcConnected = FALSE
  /\ pc = [p \in Procs |-> "idle"]
  /\ op = "none" /\ ret = "none" /\ resume = NoLoop /\ reconnects = FALSE
  /\ tries = [p \in Procs |-> 0]
  /\ mine = [p \in Procs |-> NoConn]
  /\ sent = {}
  /\ calls \in Budgets
  /\ crashed = FALSE
  /\ daemon = "down" /\ loops = {} /\ created = 0
  /\ faults = 0

-----------------------------------------------------------------------------
(* Client *)

Of(p) == IF p = App THEN "stream" ELSE "rpc"

IsConnected(k) == cl[k].conn # NoConn /\ ~cl[k].closed
IsConnectionAlive(k) == IsConnected(k) /\ ~cl[k].dropped

IsOpen(n) == n # NoConn /\ link[n].st = "open"

(* The next frame is a disconnect: whoever reads it fires the drop signal. *)
Leaves(n) == n # NoConn /\ link[n].st = "leaving"

Shut(l, n) == [l EXCEPT ![n] = Fresh("dead")]

(* Client.Close: nothing when it is closed; else the socket goes, and the    *)
(* drop signal fires.                                                        *)
CloseClient(k, c, l) ==
  IF c[k].conn # NoConn /\ ~c[k].closed
    THEN /\ cl' = [c EXCEPT ![k] = [conn |-> NoConn, closed |-> TRUE, dropped |-> TRUE]]
         /\ link' = Shut(l, c[k].conn)
    ELSE cl' = c /\ link' = l

Goto(p, to) == pc' = [pc EXCEPT ![p] = to]

(* Mutant of Return: an error leaves rpcMu locked. *)
ReturnLocked(p, r) ==
  /\ Goto(p, "idle")
  /\ IF p = App THEN ret' = r /\ UNCHANGED rpcMu
                ELSE rpcMu' = (IF r = "err" THEN rpcMu ELSE Nobody) /\ UNCHANGED ret

(* A call returns: App has its result, one of Rpcs unlocks rpcMu. *)
Return(p, r) ==
  /\ Goto(p, "idle")
  /\ IF p = App THEN ret' = r /\ UNCHANGED rpcMu
                ELSE rpcMu' = Nobody /\ UNCHANGED ret

(* ConnectWithRetries *)
ConnectWithRetries(p) ==
  /\ Goto(p, "dial")
  /\ tries' = [tries EXCEPT ![p] = MaxRetries]

(* Another attempt, or none: they are used up, or ctx is done. *)
Retry(p) ==
  /\ tries' = [tries EXCEPT ![p] = @ - 1]
  /\ \/ tries[p] > 1 /\ Goto(p, "dial") /\ UNCHANGED <<ret, rpcMu>>
     \/ Return(p, "err")

(* Connect has failed, and leaves the clients c and the links l: a failed    *)
(* Reconnect is followed by Close and ConnectWithRetries.                    *)
ConnectFailed(p, c, l) ==
  IF p = App /\ reconnects
    THEN /\ CloseClient("stream", c, l)
         /\ reconnects' = FALSE
         /\ ConnectWithRetries(p)
         /\ UNCHANGED <<ret, rpcMu>>
    ELSE /\ cl' = c /\ link' = l
         /\ Retry(p)
         /\ UNCHANGED reconnects

(* Connect: the dial and, in one block under c.mu, the new connection. *)
Dial(p) ==
  /\ pc[p] = "dial" /\ daemon # "down" /\ dialed < MaxConn
  /\ dialed' = dialed + 1
  /\ link' = [link EXCEPT ![dialed'] = Fresh("open")]
  /\ cl' = [cl EXCEPT ![Of(p)] = [conn |-> dialed', closed |-> FALSE, dropped |-> FALSE]]
  /\ mine' = [mine EXCEPT ![p] = dialed']
  /\ Goto(p, "handshake")
  /\ UNCHANGED <<sessionVars, callVars, tries, sent, crashed, daemonVars, faults>>

DialFails(p) ==
  /\ pc[p] = "dial" /\ (daemon = "down" \/ dialed = MaxConn)
  /\ ConnectFailed(p, cl, link)
  /\ UNCHANGED <<dialed, loopID, closed, rpcConnected, op, resume, calls, mine, sent,
                 crashed, daemonVars, faults>>

(* Mutant of AfterConnect: the reattached loop is not subscribed again. *)
AfterConnectProbe(p) ==
  IF p # App THEN "call"
  ELSE IF resume = NoLoop THEN "new"
  ELSE IF op = "EnsureConnected" THEN "probe" ELSE "subscribe"

(* Where a connected client goes on: the sidecar to its call, the stream to  *)
(* ReattachAndProbe or to BootstrapLoopSession.                              *)
AfterConnect(p) ==
  IF p # App THEN "call"
  ELSE IF resume = NoLoop THEN "new"
  ELSE IF op = "EnsureConnected" THEN "reattach" ELSE "subscribe"

(* handshake: frames before a connection_ack, acks that say starting or      *)
(* warming, and errors -32001..-32003 are waited out; ready ends it.         *)
Handshake(p) ==
  /\ pc[p] = "handshake" /\ daemon = "ready" /\ IsOpen(mine[p])
  /\ cl[Of(p)].conn # NoConn
  /\ Goto(p, AfterConnect(p))
  /\ rpcConnected' = (rpcConnected \/ p # App)
  /\ tries' = [tries EXCEPT ![p] = 0]
  /\ mine' = [mine EXCEPT ![p] = NoConn]
  /\ reconnects' = (reconnects /\ p # App)
  /\ UNCHANGED <<clientVars, loopID, closed, rpcMu, op, ret, resume, calls, sent, crashed,
                 daemonVars, faults>>

(* Mutant of HandshakeFails: the socket is forgotten, not closed. *)
HandshakeFailsOpen(p) ==
  /\ pc[p] = "handshake"
  /\ daemon # "ready" \/ ~IsOpen(mine[p]) \/ cl[Of(p)].conn = NoConn
  /\ ConnectFailed(p, [cl EXCEPT ![Of(p)] = [conn |-> NoConn, closed |-> TRUE,
                                             dropped |-> @.dropped \/ Leaves(mine[p])]],
                      link)
  /\ mine' = [mine EXCEPT ![p] = NoConn]
  /\ UNCHANGED <<dialed, loopID, closed, rpcConnected, op, resume, calls, sent,
                 crashed, daemonVars, faults>>

(* The daemon is degraded, the deadline has passed, or the socket is gone:   *)
(* Connect takes the connection down.                                        *)
HandshakeFails(p) ==
  /\ pc[p] = "handshake"
  /\ daemon # "ready" \/ ~IsOpen(mine[p]) \/ cl[Of(p)].conn = NoConn
  /\ ConnectFailed(p, [cl EXCEPT ![Of(p)] = [conn |-> NoConn, closed |-> TRUE,
                                             dropped |-> @.dropped \/ Leaves(mine[p])]],
                      Shut(link, mine[p]))
  /\ mine' = [mine EXCEPT ![p] = NoConn]
  /\ UNCHANGED <<dialed, loopID, closed, rpcConnected, op, resume, calls, sent,
                 crashed, daemonVars, faults>>

-----------------------------------------------------------------------------
(* RequestResponse and LoopSubscribe *)

(* A request fails.  ReattachAndProbe takes the failure of loop_get for a    *)
(* stale loop, and EnsureConnected then starts a fresh one.                  *)
AskFailed(p) ==
  IF pc[p] = "probe"
    THEN Goto(p, "new") /\ resume' = NoLoop /\ UNCHANGED <<ret, rpcMu>>
    ELSE Return(p, "err") /\ UNCHANGED resume

Send(p) ==
  /\ pc[p] \in Asks /\ p \notin sent
  /\ IsConnected(Of(p))
  /\ sent' = sent \cup {p}
  /\ mine' = [mine EXCEPT ![p] = cl[Of(p)].conn]
  /\ UNCHANGED <<clientVars, sessionVars, pc, callVars, tries, crashed, daemonVars,
                 faults>>

(* The client is not connected; or the write fails, and the drop signal has  *)
(* fired before.                                                             *)
SendFails(p) ==
  /\ pc[p] \in Asks /\ p \notin sent
  /\ IsConnected(Of(p)) => cl[Of(p)].dropped /\ link[cl[Of(p)].conn].st = "dead"
  /\ AskFailed(p)
  /\ UNCHANGED <<clientVars, loopID, closed, rpcConnected, op, reconnects, calls,
                 tries, mine, sent, crashed, daemonVars, faults>>

(* A write to a socket whose peer is gone may fail: a request, the           *)
(* connection_init, or SendTurn, CancelActiveTurn and Detach of App.         *)
WriteFails(p) ==
  /\ pc[p] \in Asks \cup {"handshake"} \/ (p = App /\ pc[p] = "idle")
  /\ p \notin sent
  /\ IsConnectionAlive(Of(p)) /\ link[cl[Of(p)].conn].st = "dead"
  /\ Goto(p, "stuck")
  /\ UNCHANGED <<clientVars, sessionVars, callVars, tries, mine, sent, crashed,
                 daemonVars, faults>>

(* The daemon grants the request. *)
Grants(a) ==
  /\ a = "new" => created < MaxLoops
  /\ a \notin {"new", "call"} => resume \in loops

(* The request is over. *)
Answered(p) ==
  /\ p \in sent
  /\ sent' = sent \ {p}
  /\ mine' = [mine EXCEPT ![p] = NoConn]

Subscribed(p) == link' = [link EXCEPT ![mine[p]].loops = @ \cup {resume}]

(* The answer of each request, and what the caller does next *)
LoopCreated(p) ==
  /\ pc[p] = "new"
  /\ created' = created + 1 /\ resume' = created'
  /\ loops' = loops \cup {created'}
  /\ Goto(p, "subscribe")
  /\ UNCHANGED <<link, loopID, ret, rpcMu>>

Reattached(p) ==
  /\ pc[p] = "reattach"
  /\ Goto(p, "resubscribe")
  /\ UNCHANGED <<link, created, loops, resume, loopID, ret, rpcMu>>

Resubscribed(p) ==
  /\ pc[p] = "resubscribe"
  /\ Subscribed(p)
  /\ Goto(p, "probe")
  /\ UNCHANGED <<created, loops, resume, loopID, ret, rpcMu>>

LoopSubscribed(p) ==
  /\ pc[p] = "subscribe"
  /\ Subscribed(p)
  /\ loopID' = resume
  /\ Return(p, "ok")
  /\ UNCHANGED <<created, loops, resume>>

Probed(p) ==
  /\ pc[p] = "probe"
  /\ loopID' = resume
  /\ Return(p, "ok")
  /\ UNCHANGED <<link, created, loops, resume>>

CallAnswered(p) ==
  /\ pc[p] = "call"
  /\ Return(p, "ok")
  /\ UNCHANGED <<link, created, loops, resume, loopID>>

Reply(p) ==
  /\ daemon = "ready" /\ IsOpen(mine[p]) /\ Grants(pc[p])
  /\ Answered(p)
  /\ \/ LoopCreated(p) \/ Reattached(p) \/ Resubscribed(p)
     \/ LoopSubscribed(p) \/ Probed(p) \/ CallAnswered(p)
  /\ UNCHANGED <<cl, dialed, closed, rpcConnected, op, reconnects, calls, tries,
                 crashed, daemon, faults>>

(* The daemon refuses, or the read fails, or finds a disconnect. *)
ReplyFails(p) ==
  /\ daemon # "ready" \/ ~IsOpen(mine[p]) \/ ~Grants(pc[p])
  /\ Answered(p)
  /\ AskFailed(p)
  /\ cl' = [cl EXCEPT ![Of(p)].dropped = @ \/ Leaves(mine[p])]
  /\ link' = IF Leaves(mine[p]) THEN Shut(link, mine[p]) ELSE link
  /\ UNCHANGED <<dialed, loopID, closed, rpcConnected, op, reconnects, calls, tries,
                 crashed, daemonVars, faults>>

(* The deadline of the read passes: no later read of the socket succeeds. *)
ReplyTimeout(p) ==
  /\ faults < MaxFaults /\ faults' = faults + 1
  /\ IsOpen(mine[p])
  /\ Answered(p)
  /\ link' = [link EXCEPT ![mine[p]].st = "poisoned"]
  /\ AskFailed(p)
  /\ UNCHANGED <<cl, dialed, loopID, closed, rpcConnected, op, reconnects, calls, tries,
                 crashed, daemonVars>>

(* handshake and RequestResponse clear the deadline of c.conn when they      *)
(* return; when c.conn has become nil that is a nil dereference.             *)
Crash(p) ==
  /\ p \in sent \/ pc[p] = "handshake"
  /\ cl[Of(p)].conn = NoConn
  /\ crashed' = TRUE
  /\ UNCHANGED <<clientVars, sessionVars, pc, callVars, tries, mine, sent, daemonVars,
                 faults>>

-----------------------------------------------------------------------------
(* The calls of App *)

Called(p) == calls[p] > 0 /\ calls' = [calls EXCEPT ![p] = @ - 1]

Begin(o, l) ==
  /\ pc[App] = "idle" /\ Called(App)
  /\ op' = o /\ ret' = "none" /\ resume' = l /\ reconnects' = FALSE

(* Connect, with a loop to resume or not.  An application connects a session *)
(* that has no connection.                                                   *)
Connect(l) ==
  /\ cl["stream"].conn = NoConn
  /\ Begin("Connect", l)
  /\ ConnectWithRetries(App)
  /\ UNCHANGED <<clientVars, sessionVars, mine, sent, crashed, daemonVars, faults>>

NewLoop ==
  /\ Begin("NewLoop", NoLoop)
  /\ Goto(App, "new")
  /\ UNCHANGED <<clientVars, sessionVars, tries, mine, sent, crashed, daemonVars, faults>>

SwitchLoop(l) ==
  /\ Begin("SwitchLoop", l)
  /\ Goto(App, "subscribe")
  /\ UNCHANGED <<clientVars, sessionVars, tries, mine, sent, crashed, daemonVars, faults>>

EnsureConnected ==
  /\ pc[App] = "idle" /\ Called(App)
  /\ op' = "EnsureConnected" /\ resume' = loopID /\ reconnects' = TRUE
  /\ IF IsConnectionAlive("stream") THEN ret' = "alive" /\ UNCHANGED pc
                                    ELSE ret' = "none" /\ Goto(App, "lock")
  /\ UNCHANGED <<clientVars, sessionVars, tries, mine, sent, crashed, daemonVars, faults>>

(* Mutant of EnsureRedials: the sidecar is closed without rpcMu. *)
EnsureRedialsUnlocked ==
  /\ pc[App] = "lock"
  /\ rpcConnected' = FALSE
  /\ IF rpcConnected /\ IsConnected("rpc")
       THEN /\ cl' = [cl EXCEPT !["rpc"].conn = NoConn, !["rpc"].closed = TRUE]
            /\ link' = Shut(link, cl["rpc"].conn)
       ELSE UNCHANGED <<cl, link>>
  /\ Goto(App, "dial")
  /\ UNCHANGED <<dialed, loopID, closed, rpcMu, callVars, tries, mine, sent, crashed,
                 daemonVars, faults>>

(* Under rpcMu: a connected sidecar is closed.  Then Reconnect closes the    *)
(* stream socket and dials.                                                  *)
EnsureRedials ==
  /\ pc[App] = "lock" /\ rpcMu = Nobody
  /\ rpcConnected' = FALSE
  /\ LET drop == rpcConnected /\ IsConnected("rpc")
         l == IF drop THEN Shut(link, cl["rpc"].conn) ELSE link
     IN  /\ cl' = IF drop
                    THEN [cl EXCEPT !["rpc"] = [conn |-> NoConn, closed |-> TRUE, dropped |-> TRUE]]
                    ELSE cl
         /\ link' = IF cl["stream"].conn = NoConn THEN l ELSE Shut(l, cl["stream"].conn)
  /\ Goto(App, "dial")
  /\ UNCHANGED <<dialed, loopID, closed, rpcMu, callVars, tries, mine, sent, crashed,
                 daemonVars, faults>>

(* IterTurnChunks reads the daemon's disconnect. *)
StreamGoodbye ==
  /\ pc[App] = "idle" /\ IsConnected("stream") /\ Leaves(cl["stream"].conn)
  /\ cl' = [cl EXCEPT !["stream"].dropped = TRUE]
  /\ link' = Shut(link, cl["stream"].conn)
  /\ UNCHANGED <<dialed, sessionVars, pc, callVars, tries, mine, sent, crashed,
                 daemonVars, faults>>

-----------------------------------------------------------------------------
(* The calls of Rpcs, and Close *)

(* c.mu is free: no write of the client has failed. *)
Unstuck(k) == \A p \in Procs : pc[p] = "stuck" => Of(p) # k

(* ListLoops, FetchLoopHistory, SetClarificationMode *)
CallRpc(p) ==
  /\ p \in Rpcs /\ pc[p] = "idle" /\ Called(p)
  /\ Goto(p, "lock")
  /\ UNCHANGED <<clientVars, sessionVars, op, ret, resume, reconnects, tries, mine, sent,
                 crashed, daemonVars, faults>>

(* rpcMu, then ensureRPCConnectedLocked *)
LockRpc(p) ==
  /\ p \in Rpcs /\ pc[p] = "lock" /\ rpcMu = Nobody
  /\ rpcMu' = p
  /\ IF rpcConnected /\ IsConnected("rpc") THEN Goto(p, "call") /\ UNCHANGED tries
                                           ELSE ConnectWithRetries(p)
  /\ UNCHANGED <<clientVars, loopID, closed, rpcConnected, callVars, mine, sent, crashed,
                 daemonVars, faults>>

Close ==
  /\ pc[Closer] = "idle" /\ ~closed /\ Called(Closer)
  /\ closed' = TRUE
  /\ Goto(Closer, "stream")
  /\ UNCHANGED <<clientVars, loopID, rpcMu, rpcConnected, op, ret, resume, reconnects,
                 tries, mine, sent, crashed, daemonVars, faults>>

CloseStream ==
  /\ pc[Closer] = "stream" /\ Unstuck("stream")
  /\ CloseClient("stream", cl, link)
  /\ Goto(Closer, "sidecar")
  /\ UNCHANGED <<dialed, sessionVars, callVars, tries, mine, sent, crashed, daemonVars,
                 faults>>

CloseSidecar ==
  /\ pc[Closer] = "sidecar" /\ Unstuck("rpc")
  /\ CloseClient("rpc", cl, link)
  /\ Goto(Closer, "lock")
  /\ UNCHANGED <<dialed, sessionVars, callVars, tries, mine, sent, crashed, daemonVars,
                 faults>>

CloseDone ==
  /\ pc[Closer] = "lock" /\ rpcMu = Nobody
  /\ rpcConnected' = FALSE
  /\ Goto(Closer, "idle")
  /\ UNCHANGED <<clientVars, loopID, closed, rpcMu, callVars, tries, mine, sent, crashed,
                 daemonVars, faults>>

-----------------------------------------------------------------------------
(* The daemon and the network *)

Fault == faults < MaxFaults /\ faults' = faults + 1

DaemonStarts ==
  /\ daemon \in {"down", "starting"}
  /\ daemon' = IF daemon = "down" THEN "starting" ELSE "ready"
  /\ UNCHANGED <<clientVars, sessionVars, pc, callVars, tries, mine, sent, crashed, loops,
                 created, faults>>

DaemonDegrades ==
  /\ Fault /\ daemon = "ready"
  /\ daemon' = "degraded"
  /\ UNCHANGED <<clientVars, sessionVars, pc, callVars, tries, mine, sent, crashed, loops,
                 created>>

(* A restart ends every connection; the loops may be forgotten. *)
DaemonStops ==
  /\ Fault /\ daemon # "down"
  /\ daemon' = "down"
  /\ loops' \in {loops, {}}
  /\ link' = [n \in Conns |-> Fresh(IF link[n].st = "none" THEN "none" ELSE "dead")]
  /\ UNCHANGED <<cl, dialed, sessionVars, pc, callVars, tries, mine, sent, crashed, created>>

(* A connection is lost, or the daemon says goodbye. *)
Lose(n) ==
  /\ Fault /\ IsOpen(n)
  /\ \E st \in {"dead", "leaving"} : link' = [link EXCEPT ![n] = Fresh(st)]
  /\ UNCHANGED <<cl, dialed, sessionVars, pc, callVars, tries, mine, sent, crashed, daemon,
                 loops, created>>

-----------------------------------------------------------------------------
Step(p) ==
  \/ Dial(p) \/ DialFails(p) \/ Handshake(p) \/ HandshakeFails(p)
  \/ Send(p) \/ SendFails(p) \/ Reply(p) \/ ReplyFails(p)
  \/ p = App /\ EnsureRedials
  \/ LockRpc(p)
  \/ p = Closer /\ (CloseStream \/ CloseSidecar \/ CloseDone)

Environment ==
  \/ DaemonStarts \/ DaemonDegrades \/ DaemonStops
  \/ \E n \in Conns : Lose(n)

Next ==
  /\ ~crashed
  /\ \/ \E l \in {NoLoop, loopID} : Connect(l)
     \/ NewLoop \/ EnsureConnected \/ StreamGoodbye
     \/ \E l \in 1 .. created : SwitchLoop(l)
     \/ Close
     \/ \E p \in Procs : CallRpc(p) \/ Step(p) \/ WriteFails(p) \/ ReplyTimeout(p) \/ Crash(p)
     \/ Environment

(* A goroutine keeps running; a request is answered, refused, or its read    *)
(* fails.                                                                    *)
Fairness == \A p \in Procs : WF_vars(~crashed /\ Step(p))

Spec == Init /\ [][Next]_vars
LiveSpec == Spec /\ Fairness

-----------------------------------------------------------------------------
(* Properties *)

(* A session that has not been closed loses no socket: every open connection *)
(* is the current one of a client, through failed handshakes, Reconnect and  *)
(* retries.                                                                  *)
NoLeakedSocket ==
  ~closed => \A n \in Conns : link[n].st \in {"open", "poisoned"} => \E k \in Clients : cl[k].conn = n

(* Connect, NewLoop, SwitchLoop and an EnsureConnected that had to reconnect *)
(* return nil with the session's loop subscribed on the stream socket,       *)
(* though the daemon may have been restarted, or a loop been stale, on the   *)
(* way; as long as the socket stays open.                                    *)
OkIsSubscribed ==
  ret = "ok" /\ IsOpen(cl["stream"].conn)
    => loopID # NoLoop /\ loopID \in link[cl["stream"].conn].loops

(* Two calls never share the sidecar's socket, and EnsureConnected does not  *)
(* take it away under a call: rpcMu covers connect and call.  Nil is         *)
(* dereferenced only when Close has come between.                            *)
CrashOnlyByClose ==
  /\ crashed => closed
  /\ \A p, q \in Rpcs : {pc[p], pc[q]} \cap {"idle", "lock"} = {} => p = q

(* Every call returns, or the program is gone, or a write has failed:        *)
(* waiting for rpcMu ends, as no call keeps it, and connecting ends after    *)
(* MaxRetries attempts.                                                      *)
CallsReturn ==
  \A p \in Procs : []<>(pc[p] = "idle" \/ crashed \/ \E q \in Procs : pc[q] = "stuck")

(* "EnsureConnected reconnects and re-subscribes when the stream socket      *)
(* died": it returns nil only with the session's loop subscribed, as long as *)
(* the socket is open.                                                       *)
EnsureSubscribes ==
  op = "EnsureConnected" /\ ret \in {"ok", "alive"} /\ loopID # NoLoop
    /\ IsOpen(cl["stream"].conn)
    => loopID \in link[cl["stream"].conn].loops

=============================================================================
