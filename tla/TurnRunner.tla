----------------------------- MODULE TurnRunner -----------------------------
(***************************************************************************)
(* appkit.QueryGate and appkit.TurnRunner (src/appkit/query_gate.go,       *)
(* src/appkit/turn_runner.go) for one AppKey: several calls of Execute and *)
(* ExecuteReserved, each a turn, race with each other and with Cancel.     *)
(*                                                                         *)
(* The pool is what the runner sees of it: Acquire returns the key's live  *)
(* connection or a new one, Release closes the current one.  A connection  *)
(* carries what the client wrote to it, in order, until the daemon reads   *)
(* it; the daemon runs one query of the loop at a time.  What the runner   *)
(* makes of each event of the stream is the matter of TurnStream; here an  *)
(* event of the daemon may end the turn.                                   *)
(***************************************************************************)
EXTENDS Integers, Sequences, FiniteSets

CONSTANTS
  Turns,       \* calls of Execute and ExecuteReserved
  Reserved,    \* the turns an HTTP handler reserves before ExecuteReserved
  Cancellers,  \* calls of QueryGate.Cancel
  Scenes,      \* the sets of calls (turns and cancellers) an application makes
  NoTurn,      \* no entry in a map of the gate; the daemon is idle
  MaxConns,    \* bound: connections the pool makes
  ConnsIn      \* and how many of them in each scene

Conns == 1 .. MaxConns
NoConn == 0

ASSUME TurnAssumption ==
  /\ Reserved \subseteq Turns
  /\ IsFiniteSet(Turns) /\ IsFiniteSet(Cancellers)
  /\ Scenes \subseteq SUBSET (Turns \cup Cancellers)
  /\ NoTurn \notin Turns
  /\ MaxConns \in Nat /\ ConnsIn \in [Scenes -> 0 .. MaxConns]

VARIABLES
  scene,        \* the calls of this application
  cancels,      \* gate.cancels[key]: the turn whose CancelFunc it is
  sendCancels,  \* gate.sendCancels[key]: the turn that registered the sender
  cancelled,    \* turns whose context a CancelFunc has cancelled
  pc,           \* per turn: where it is
  conn,         \* per turn: its pooledConn
  outcome,      \* per turn: what the call returned
  cpc,          \* per canceller: where it is
  took,         \* per canceller: the cancel and sendCancel it took
  cur,          \* the connection the pool holds for the key
  up,           \* per connection: open
  conns,        \* connections made so far
  wire,         \* per connection: what the daemon has not read yet
  running,      \* the query the daemon runs
  started,      \* history: queries the daemon has begun
  told          \* history: turns whose loop a Cancel told the daemon to stop

gateVars == <<cancels, sendCancels>>
turnVars == <<cancelled, pc, conn, outcome>>
cancelVars == <<scene, cpc, took, told>>
poolVars == <<cur, up, conns>>
daemonVars == <<wire, running, started>>
vars == <<gateVars, turnVars, cancelVars, poolVars, daemonVars>>

PCs == {"idle", "check", "pool", "gate", "busy", "replace", "sender", "send",
        "stream", "timeout", "release", "over"}
Outcomes == {"none", "refused", "completed", "failed", "timeout", "cancelled"}
Input(t) == [kind |-> "input", turn |-> t]
Stop == [kind |-> "cancel", turn |-> NoTurn]
Messages == {Input(t) : t \in Turns} \cup {Stop}

TypeOK ==
  /\ scene \in Scenes
  /\ cancels \in Turns \cup {NoTurn}
  /\ sendCancels \in Turns \cup {NoTurn}
  /\ cancelled \subseteq Turns
  /\ pc \in [Turns -> PCs]
  /\ conn \in [Turns -> Conns \cup {NoConn}]
  /\ outcome \in [Turns -> Outcomes]
  /\ cpc \in [Cancellers -> {"idle", "tell", "local", "over"}]
  /\ took \in [Cancellers -> [cancel : Turns \cup {NoTurn},
                              sendCancel : Turns \cup {NoTurn}]]
  /\ cur \in Conns \cup {NoConn}
  /\ up \in [Conns -> BOOLEAN]
  /\ conns \in 0 .. MaxConns
  /\ wire \in [Conns -> Seq(Messages)]
  /\ running \in Turns \cup {NoTurn}
  /\ started \subseteq Turns
  /\ told \subseteq Turns

(* NewQueryGate, NewTurnRunner *)
Init ==
  /\ scene \in Scenes
  /\ cancels = NoTurn
  /\ sendCancels = NoTurn
  /\ cancelled = {}
  /\ pc = [t \in Turns |-> "idle"]
  /\ conn = [t \in Turns |-> NoConn]
  /\ outcome = [t \in Turns |-> "none"]
  /\ cpc = [x \in Cancellers |-> "idle"]
  /\ took = [x \in Cancellers |-> [cancel |-> NoTurn, sendCancel |-> NoTurn]]
  /\ cur = NoConn
  /\ up = [c \in Conns |-> FALSE]
  /\ conns = 0
  /\ wire = [c \in Conns |-> <<>>]
  /\ running = NoTurn
  /\ started = {}
  /\ told = {}

Goto(t, to) == pc' = [pc EXCEPT ![t] = to]

(* The call's result is known; `to' is what is left of it. *)
Finish(t, what, to) ==
  /\ Goto(t, to)
  /\ outcome' = [outcome EXCEPT ![t] = what]

(* SendMessage succeeds when the connection is open. *)
Send(c, m) ==
  wire' = IF up[c] THEN [wire EXCEPT ![c] = Append(@, m)] ELSE wire

-----------------------------------------------------------------------------
(* QueryGate *)

(* Mutant of GateAcquire: the busy test only looks at the cancel sender. *)
GateAcquireBlind(t) ==
  /\ pc[t] = "gate"
  /\ sendCancels = NoTurn
  /\ cancels' = t
  /\ sendCancels' = t
  /\ Goto(t, "send")
  /\ UNCHANGED <<cancelled, conn, outcome, cancelVars, poolVars, daemonVars>>

(* Acquire, called by Execute *)
GateAcquire(t) ==
  /\ pc[t] = "gate"
  /\ cancels = NoTurn
  /\ cancels' = t
  /\ sendCancels' = t
  /\ Goto(t, "send")
  /\ UNCHANGED <<cancelled, conn, outcome, cancelVars, poolVars, daemonVars>>

(* Acquire returns ErrQueryBusy to Execute. *)
GateBusy(t) ==
  /\ pc[t] = "gate"
  /\ cancels # NoTurn
  /\ Goto(t, "busy")
  /\ UNCHANGED <<gateVars, cancelled, conn, outcome, cancelVars, poolVars,
                 daemonVars>>

(* Acquire by the handler, which has no cancel sender yet *)
Reserve(t) ==
  /\ pc[t] = "idle" /\ t \in Reserved \cap scene
  /\ cancels = NoTurn
  /\ cancels' = t
  /\ Goto(t, "check")
  /\ UNCHANGED <<sendCancels, cancelled, conn, outcome, cancelVars, poolVars,
                 daemonVars>>

(* Acquire returns ErrQueryBusy to the handler, which answers 409. *)
ReserveBusy(t) ==
  /\ pc[t] = "idle" /\ t \in Reserved \cap scene
  /\ cancels # NoTurn
  /\ Finish(t, "refused", "over")
  /\ UNCHANGED <<gateVars, cancelled, conn, cancelVars, poolVars, daemonVars>>

(* ReplaceCancel *)
ReplaceCancel(t) ==
  /\ pc[t] = "replace"
  /\ cancels' = IF cancels = NoTurn THEN cancels ELSE t
  /\ Goto(t, "sender")
  /\ UNCHANGED <<sendCancels, cancelled, conn, outcome, cancelVars, poolVars,
                 daemonVars>>

(* SetSendCancel *)
SetSendCancel(t) ==
  /\ pc[t] = "sender"
  /\ sendCancels' = IF cancels = NoTurn THEN sendCancels ELSE t
  /\ Goto(t, "send")
  /\ UNCHANGED <<cancels, cancelled, conn, outcome, cancelVars, poolVars,
                 daemonVars>>

(* Release, deferred by Execute and ExecuteReserved: it deletes the key's *)
(* entry, whoever's it is.                                                *)
Release(t) ==
  /\ pc[t] = "release"
  /\ cancels' = NoTurn
  /\ sendCancels' = NoTurn
  /\ Goto(t, "over")
  /\ UNCHANGED <<cancelled, conn, outcome, cancelVars, poolVars, daemonVars>>

(* Cancel: the critical section; nothing in flight is a return at once. *)
CancelTake(x) ==
  /\ cpc[x] = "idle" /\ x \in scene
  /\ took' = [took EXCEPT ![x] = [cancel |-> cancels, sendCancel |-> sendCancels]]
  /\ cancels' = NoTurn
  /\ sendCancels' = NoTurn
  /\ cpc' = [cpc EXCEPT ![x] = IF cancels = NoTurn /\ sendCancels = NoTurn
                               THEN "over" ELSE "tell"]
  /\ UNCHANGED <<turnVars, scene, told, poolVars, daemonVars>>

(* Mutant of CancelTell: a cancel sender that is not called. *)
CancelTellSkips(x) ==
  /\ cpc[x] = "tell"
  /\ cpc' = [cpc EXCEPT ![x] = "local"]
  /\ UNCHANGED <<gateVars, turnVars, scene, took, told, poolVars, daemonVars>>

(* Cancel: sendCancel, which is sendLoopCancel on the turn's connection. *)
CancelTell(x) ==
  LET t == took[x].sendCancel IN
  /\ cpc[x] = "tell"
  /\ cpc' = [cpc EXCEPT ![x] = "local"]
  /\ IF t = NoTurn THEN UNCHANGED <<wire, told>>
                   ELSE /\ Send(conn[t], Stop)
                        /\ told' = told \cup ({t, took[x].cancel} \ {NoTurn})
  /\ UNCHANGED <<gateVars, turnVars, scene, took, poolVars, running, started>>

(* Cancel: cancel(), after the daemon has been told *)
CancelLocal(x) ==
  /\ cpc[x] = "local"
  /\ cpc' = [cpc EXCEPT ![x] = "over"]
  /\ cancelled' = cancelled \cup ({took[x].cancel} \ {NoTurn})
  /\ UNCHANGED <<gateVars, pc, conn, outcome, scene, took, told, poolVars, daemonVars>>

-----------------------------------------------------------------------------
(* Execute, ExecuteReserved, runTurn *)

(* Execute is called. *)
Execute(t) ==
  /\ pc[t] = "idle" /\ t \in scene \ Reserved
  /\ Goto(t, "pool")
  /\ UNCHANGED <<gateVars, cancelled, conn, outcome, cancelVars, poolVars,
                 daemonVars>>

(* ExecuteReserved is called and finds a reservation of the key. *)
ExecuteReserved(t) ==
  /\ pc[t] = "check"
  /\ cancels # NoTurn
  /\ Goto(t, "pool")
  /\ UNCHANGED <<gateVars, cancelled, conn, outcome, cancelVars, poolVars,
                 daemonVars>>

(* ExecuteReserved is called and finds no reservation: an error. *)
NotReserved(t) ==
  /\ pc[t] = "check"
  /\ cancels = NoTurn
  /\ Finish(t, "failed", "over")
  /\ UNCHANGED <<gateVars, cancelled, conn, cancelVars, poolVars, daemonVars>>

(* After pool.Acquire: Execute goes to the gate, ExecuteReserved updates it. *)
AfterPool(t) == IF t \in Reserved THEN "replace" ELSE "gate"

(* The key has a connection that is open. *)
Live == cur # NoConn /\ up[cur]

(* pool.Acquire returns the key's live connection. *)
PoolReuse(t) ==
  /\ pc[t] = "pool" /\ t \notin cancelled
  /\ Live
  /\ conn' = [conn EXCEPT ![t] = cur]
  /\ Goto(t, AfterPool(t))
  /\ UNCHANGED <<gateVars, cancelled, outcome, cancelVars, poolVars, daemonVars>>

(* pool.Acquire makes a connection. *)
PoolConnect(t) ==
  /\ pc[t] = "pool" /\ t \notin cancelled
  /\ ~Live
  /\ conns < ConnsIn[scene]
  /\ conns' = conns + 1
  /\ cur' = conns'
  /\ up' = [up EXCEPT ![conns'] = TRUE]
  /\ conn' = [conn EXCEPT ![t] = conns']
  /\ Goto(t, AfterPool(t))
  /\ UNCHANGED <<gateVars, cancelled, outcome, cancelVars, daemonVars>>

(* Mutant of PoolFails: ExecuteReserved returns and leaves its reservation. *)
PoolFailsReserved(t) ==
  /\ pc[t] = "pool"
  /\ t \in cancelled \/ ~Live
  /\ Finish(t, "failed", "over")
  /\ UNCHANGED <<gateVars, cancelled, conn, cancelVars, poolVars, daemonVars>>

(* pool.Acquire fails (no slot, no daemon, or the handler's context is      *)
(* cancelled).  ExecuteReserved gives its reservation up.                   *)
PoolFails(t) ==
  /\ pc[t] = "pool"
  /\ t \in cancelled \/ ~Live
  /\ Finish(t, "failed", IF t \in Reserved THEN "release" ELSE "over")
  /\ UNCHANGED <<gateVars, cancelled, conn, cancelVars, poolVars, daemonVars>>

(* Connection c closes, as the daemon sees it: what it has not read is lost, *)
(* and it stops the query that c brought.                                    *)
Closes(c) ==
  /\ up' = [up EXCEPT ![c] = FALSE]
  /\ wire' = [wire EXCEPT ![c] = <<>>]
  /\ running' = IF running # NoTurn /\ conn[running] = c THEN NoTurn ELSE running
  /\ UNCHANGED started

(* The gate was busy: Execute calls pool.Release(key) and returns. *)
BusyRelease(t) ==
  /\ pc[t] = "busy"
  /\ IF cur = NoConn THEN UNCHANGED <<up, daemonVars>> ELSE Closes(cur)
  /\ cur' = NoConn
  /\ Finish(t, "refused", "over")
  /\ UNCHANGED <<gateVars, cancelled, conn, cancelVars, conns>>

(* runTurn: drain the leftovers, then SendMessage(timeoutCtx, input) *)
SendInput(t) ==
  /\ pc[t] = "send"
  /\ up[conn[t]] /\ t \notin cancelled
  /\ Send(conn[t], Input(t))
  /\ Goto(t, "stream")
  /\ UNCHANGED <<gateVars, cancelled, conn, outcome, cancelVars, poolVars,
                 running, started>>

(* runTurn: SendMessage fails. *)
SendFails(t) ==
  /\ pc[t] = "send"
  /\ ~up[conn[t]] \/ t \in cancelled
  /\ Finish(t, "failed", "release")
  /\ UNCHANGED <<gateVars, cancelled, conn, cancelVars, poolVars, daemonVars>>

(* runTurn: an event of the daemon ends the turn, well or badly. *)
TurnEnds(t) ==
  /\ pc[t] = "stream" /\ t \in started
  /\ \E what \in {"completed", "failed"} : Finish(t, what, "release")
  /\ UNCHANGED <<gateVars, cancelled, conn, cancelVars, poolVars, daemonVars>>

(* runTurn: the event channel is closed. *)
StreamClosed(t) ==
  /\ pc[t] = "stream" /\ ~up[conn[t]]
  /\ \E what \in {"completed", "failed"} : Finish(t, what, "release")
  /\ UNCHANGED <<gateVars, cancelled, conn, cancelVars, poolVars, daemonVars>>

(* runTurn: timeoutCtx is done because a CancelFunc was called. *)
TurnCancelled(t) ==
  /\ pc[t] = "stream" /\ t \in cancelled
  /\ Finish(t, "cancelled", "release")
  /\ UNCHANGED <<gateVars, cancelled, conn, cancelVars, poolVars, daemonVars>>

(* Mutant of Timeout: the turn gives up without telling the daemon. *)
TimeoutSilent(t) ==
  /\ pc[t] = "stream" /\ t \notin cancelled
  /\ Finish(t, "timeout", "release")
  /\ UNCHANGED <<gateVars, cancelled, conn, cancelVars, poolVars, daemonVars>>

(* Mutant of Timeout: the timer is only armed by the first event. *)
TimeoutAfterEvent(t) ==
  /\ pc[t] = "stream" /\ t \notin cancelled /\ t \in started
  /\ Send(conn[t], Stop)
  /\ Finish(t, "timeout", "release")
  /\ UNCHANGED <<gateVars, cancelled, conn, cancelVars, poolVars, running,
                 started>>

(* runTurn: QueryTimeout or IdleTimeout; sendLoopCancel, then finishTimeout *)
Timeout(t) ==
  /\ pc[t] = "stream" /\ t \notin cancelled
  /\ Send(conn[t], Stop)
  /\ Finish(t, "timeout", "release")
  /\ UNCHANGED <<gateVars, cancelled, conn, cancelVars, poolVars, running,
                 started>>

-----------------------------------------------------------------------------
(* The daemon and the network *)

(* The daemon reads the next message of a connection: it starts a query when *)
(* it runs none, and a cancel stops the query of the loop.                    *)
DaemonRead(c) ==
  /\ wire[c] # <<>>
  /\ wire' = [wire EXCEPT ![c] = Tail(@)]
  /\ LET m == Head(wire[c]) IN
       \/ /\ m.kind = "input"
          /\ running = NoTurn
          /\ running' = m.turn
          /\ started' = started \cup {m.turn}
       \/ /\ m.kind = "cancel"
          /\ running' = NoTurn
          /\ UNCHANGED started
  /\ UNCHANGED <<gateVars, turnVars, cancelVars, poolVars>>

(* The daemon's query comes to its end. *)
DaemonFinish ==
  /\ running # NoTurn
  /\ running' = NoTurn
  /\ UNCHANGED <<gateVars, turnVars, cancelVars, poolVars, wire, started>>

(* The network drops the connection. *)
Drop(c) ==
  /\ up[c]
  /\ Closes(c)
  /\ UNCHANGED <<gateVars, turnVars, cancelVars, cur, conns>>

-----------------------------------------------------------------------------
RunnerStep(t) ==
  \/ ExecuteReserved(t) \/ NotReserved(t)
  \/ PoolReuse(t) \/ PoolConnect(t) \/ PoolFails(t)
  \/ GateAcquire(t) \/ GateBusy(t) \/ BusyRelease(t)
  \/ ReplaceCancel(t) \/ SetSendCancel(t)
  \/ SendInput(t) \/ SendFails(t)
  \/ TurnEnds(t) \/ StreamClosed(t) \/ TurnCancelled(t)
  \/ Release(t)

TurnStep(t) == RunnerStep(t) \/ Timeout(t)

CancelStep(x) == CancelTell(x) \/ CancelLocal(x)

Next ==
  \/ \E t \in Turns : Execute(t) \/ Reserve(t) \/ ReserveBusy(t) \/ TurnStep(t)
  \/ \E x \in Cancellers : CancelTake(x) \/ CancelStep(x)
  \/ \E c \in Conns : DaemonRead(c) \/ Drop(c)
  \/ DaemonFinish

(* A call that has begun goes on: the runner's steps end by themselves.  The *)
(* timer of timeoutCtx fires; it is not counted on where there are           *)
(* cancellers, for a cancelled turn has to end without it.  The daemon and   *)
(* the network owe nothing.                                                  *)
TimersFire == scene \cap Cancellers = {}
FairStep(t) == RunnerStep(t) \/ (TimersFire /\ Timeout(t))

Fairness ==
  /\ \A t \in Turns : WF_vars(FairStep(t))
  /\ \A x \in Cancellers : WF_vars(CancelStep(x))

Spec == Init /\ [][Next]_vars
LiveSpec == Spec /\ Fairness

-----------------------------------------------------------------------------
(* A turn holds the key from the gate's yes until its deferred Release. *)
InFlight(t) ==
  \/ pc[t] \in {"check", "replace", "sender", "send", "stream", "release"}
  \/ pc[t] = "pool" /\ t \in Reserved

(* Cancels that took a reservation *)
Taken == {x \in Cancellers : took[x].cancel # NoTurn}

(* "QueryGate enforces single-flight query execution per AppKey": one turn  *)
(* of the key is between the gate's yes and its Release, and one more for   *)
(* each Cancel that took a reservation at most, although a cancelled turn's *)
(* Release may delete the reservation of the turn admitted after it.        *)
SingleFlight ==
  Cardinality({t \in Turns : InFlight(t)}) <= 1 + Cardinality(Taken)

(* The gate never keeps the key for a turn that is over: every way out of   *)
(* Execute and ExecuteReserved after the reservation gives it back, so no   *)
(* turn is refused with ErrQueryBusy for ever.                              *)
NoStaleReservation ==
  /\ cancels # NoTurn => InFlight(cancels)
  /\ sendCancels # NoTurn => cancels # NoTurn

(* A turn that timed out has stopped its query: once the daemon has read    *)
(* what runTurn wrote, it does not run that turn's query.                   *)
TimeoutStops ==
  \A t \in Turns :
    outcome[t] = "timeout" /\ wire[conn[t]] = <<>> => running # t

(* Cancel-before-context ordering: when Cancel cancels the context of a     *)
(* turn of Execute, the daemon has been told to stop the loop.  (A handler  *)
(* reserves without a sender, so Cancel may find none for its turn.)        *)
ToldFirst == cancelled \ Reserved \subseteq told

(* Cancel "cooperatively stops a running query": a turn that returned       *)
(* context.Canceled leaves no query of its own at the daemon, once the      *)
(* daemon has read what was written to it.                                  *)
CancelStops ==
  \A t \in Turns :
    outcome[t] = "cancelled" /\ wire[conn[t]] = <<>> => running # t

(* "wait for in-flight Execute -> ConnectionPool.Release": no step of the   *)
(* runner closes the connection of another turn that is streaming on it.    *)
StreamUndisturbed ==
  [][\A s, t \in Turns :
       /\ BusyRelease(s) /\ pc[t] = "stream" /\ up[conn[t]]
       => up'[conn[t]]]_vars

(* Every call of Execute and ExecuteReserved returns, even when the daemon  *)
(* never answers: in the stream the timers end the turn, and a turn whose   *)
(* reservation Cancel took ends without waiting for its timer.              *)
TurnsReturn ==
  \A t \in Turns :
    ~<>[](/\ pc[t] \notin {"idle", "over"}
          /\ TimersFire \/ \E x \in Cancellers : took[x].cancel = t)

=============================================================================
