-------------------------------- MODULE Rpc --------------------------------
(***************************************************************************)
(* Calls that wait for an answer on a soothe.Client (src/request.go:       *)
(* RequestResponse, LoopSubscribe, LoopDetach), the multiplexer            *)
(* (src/multiplexer.go) that hands each answer to its caller, and the two  *)
(* ways a frame leaves the socket: the ReceiveMessages goroutine and, when *)
(* there is none, ReadEvent in the caller itself (src/client.go).          *)
(*                                                                         *)
(* A call is identified with its envelope id.  The wire carries payloads,  *)
(* each one or more frames (NDJSON or an event_batch).  The frames are     *)
(* answers (response, error, next: the confirmation of a subscription),    *)
(* events for the application, and pings.                                  *)
(***************************************************************************)
EXTENDS Integers, Sequences, FiniteSets

CONSTANTS
  Calls,      \* calls of RequestResponse, LoopDetach and LoopSubscribe
  Subs,       \* the ones that are LoopSubscribe
  Detaches,   \* the ones that are LoopDetach
  Beside,     \* the ones an application makes beside its reader
  NoCall,     \* no call; a frame without id
  Pings,      \* the modes in which the daemon pings
  Coalesce,   \* the modes in which it puts two frames in one payload
  MaxEvents   \* bound: events and pings

(* An application starts ReceiveMessages first, or has no reader. *)
Modes == {"reader", "sync"}

ASSUME RpcAssumption ==
  /\ Subs \subseteq Calls /\ Detaches \subseteq Calls \ Subs /\ Beside \subseteq Calls
  /\ NoCall \notin Calls
  /\ Pings \subseteq Modes /\ Coalesce \subseteq Modes
  /\ MaxEvents \in Nat

VARIABLES
  mode,          \* how the application reads
  sock,          \* "open", "closed"; "poisoned" after a read that timed out
  wire,          \* payloads the client has not read
  requests,      \* calls the daemon has to answer
  events,        \* events and pings so far
  reader,        \* the ReceiveMessages goroutine: "none", "read", "done"
  readerActive,  \* c.readerActive
  waiters,       \* mux.rpcs and mux.subs: the registered calls
  box,           \* per call: replyCh, errCh or streamCh, "" when empty
  pc,            \* per call: where it is
  result,        \* per call: what it returned
  expired,       \* calls whose timeout has passed
  deadline,      \* the socket's read deadline: the call that set it
  lost           \* history: calls whose answer was read and thrown away

sockVars == <<mode, sock, wire, requests, events>>
readVars == <<reader, readerActive>>
callVars == <<waiters, box, pc, result, expired, deadline, lost>>
vars == <<sockVars, readVars, callVars>>

Answers == {"response", "error", "next"}
Frame == [kind : Answers \cup {"event", "ping"}, id : Calls \cup {NoCall}]
PCs == {"idle", "register", "loop", "wait", "poll", "read", "nil", "done"}
Results == {"none", "response", "error", "next", "timeout", "cancelled", "closed",
            "failed"}

TypeOK ==
  /\ mode \in Modes
  /\ sock \in {"open", "closed", "poisoned"}
  /\ wire \in Seq(Seq(Frame))
  /\ requests \subseteq Calls
  /\ events \in 0 .. MaxEvents
  /\ reader \in {"none", "read", "done"}
  /\ readerActive \in BOOLEAN
  /\ waiters \subseteq Calls
  /\ box \in [Calls -> Answers \cup {""}]
  /\ pc \in [Calls -> PCs]
  /\ result \in [Calls -> Results]
  /\ expired \subseteq Calls
  /\ deadline \in Calls \cup {NoCall}
  /\ lost \subseteq Calls

(* A connected client with a fresh mux *)
Init ==
  /\ mode \in Modes
  /\ sock = "open"
  /\ wire = <<>>
  /\ requests = {}
  /\ events = 0
  /\ reader = "none"
  /\ readerActive = FALSE
  /\ waiters = {}
  /\ box = [p \in Calls |-> ""]
  /\ pc = [p \in Calls |-> "idle"]
  /\ result = [p \in Calls |-> "none"]
  /\ expired = {}
  /\ deadline = NoCall
  /\ lost = {}

Goto(p, to) == pc' = [pc EXCEPT ![p] = to]
InCall(p) == pc[p] \notin {"idle", "done"}

(* A read blocks past the socket's deadline. *)
DeadlinePassed == deadline \in expired

-----------------------------------------------------------------------------
(* mux.route *)

(* The frame has a waiter: a response or error an RPC, a next a subscription. *)
Matches(f) ==
  \/ f.kind \in {"response", "error"} /\ f.id \in waiters \ Subs
  \/ f.kind = "next" /\ f.id \in waiters \cap Subs

(* Deliver f to its waiter, whose channel has room for one answer. *)
Deliver(b, f) == IF b[f.id] = "" THEN [b EXCEPT ![f.id] = f.kind] ELSE b

(* Frame f is dropped: an answer among them is lost to its call. *)
Losers(fs) == {p \in Calls : InCall(p) /\ \E f \in fs : f.kind \in Answers /\ f.id = p}

-----------------------------------------------------------------------------
(* ReceiveMessages *)

StartReader ==
  /\ mode = "reader" /\ reader = "none" /\ sock = "open"
  /\ reader' = "read"
  /\ readerActive' = TRUE
  /\ UNCHANGED <<sockVars, callVars>>

(* The payload at the head of the wire loses its first frame. *)
NextFrame == Head(Head(wire))
PopFrame ==
  wire' = IF Len(Head(wire)) = 1 THEN Tail(wire)
                                 ELSE <<Tail(Head(wire))>> \o Tail(wire)
Readable == wire # <<>> /\ sock # "poisoned"

(* The reader routes a frame to its waiter. *)
ReaderRoute ==
  /\ reader = "read" /\ Readable
  /\ Matches(NextFrame)
  /\ PopFrame
  /\ box' = Deliver(box, NextFrame)
  /\ UNCHANGED <<mode, sock, requests, events, readVars, waiters, pc, result, expired,
                 deadline, lost>>

(* A frame that is nobody's: a ping is answered, the rest forwarded. *)
ReaderForward ==
  /\ reader = "read" /\ Readable
  /\ ~Matches(NextFrame)
  /\ PopFrame
  /\ lost' = lost \cup Losers({NextFrame})
  /\ UNCHANGED <<mode, sock, requests, events, readVars, waiters, box, pc, result,
                 expired, deadline>>

(* ReadMessage fails: the peer is gone, or a call's read deadline passed. *)
ReaderFails ==
  /\ reader = "read"
  /\ (sock = "closed" /\ wire = <<>>) \/ DeadlinePassed
  /\ sock' = IF sock = "open" THEN "poisoned" ELSE sock
  /\ reader' = "done"
  /\ readerActive' = FALSE
  /\ UNCHANGED <<mode, wire, requests, events, callVars>>

-----------------------------------------------------------------------------
(* RequestResponse, LoopSubscribe, LoopDetach *)

(* SendMessage.  Without a reader a connection takes one call at a time. *)
Call(p) ==
  /\ pc[p] = "idle"
  /\ mode = "sync" => \A q \in Calls : ~InCall(q)
  /\ mode = "reader" => p \in Beside /\ reader # "none"
  /\ sock # "closed"
  /\ requests' = requests \cup {p}
  /\ Goto(p, "register")
  /\ UNCHANGED <<mode, sock, wire, events, readVars, waiters, box, result, expired,
                 deadline, lost>>

(* registerRPC or registerSubscription; SetReadDeadline *)
Register(p) ==
  /\ pc[p] = "register"
  /\ waiters' = waiters \cup {p}
  /\ deadline' = p
  /\ Goto(p, "loop")
  /\ UNCHANGED <<sockVars, readVars, box, result, expired, lost>>

(* Mutant of Return: the call does not unregister. *)
ReturnRegistered(p, what) ==
  /\ result' = [result EXCEPT ![p] = what]
  /\ Goto(p, "done")
  /\ deadline' = NoCall
  /\ UNCHANGED waiters

(* The call returns: the deferred functions clear the deadline, whoever set *)
(* it, and unregister.                                                      *)
Return(p, what) ==
  /\ result' = [result EXCEPT ![p] = what]
  /\ Goto(p, "done")
  /\ deadline' = NoCall
  /\ waiters' = waiters \ {p}

(* The loop's test of readerActive *)
CheckReader(p) ==
  /\ pc[p] = "loop"
  /\ Goto(p, IF readerActive THEN "wait" ELSE "poll")
  /\ UNCHANGED <<sockVars, readVars, waiters, box, result, expired, deadline, lost>>

(* A select finds the answer. *)
TakeAnswer(p) ==
  /\ pc[p] \in {"wait", "poll", "nil"}
  /\ box[p] # ""
  /\ Return(p, box[p])
  /\ UNCHANGED <<sockVars, readVars, box, expired, lost>>

(* Mutant of TakeTimeout: no select on the timer while a reader is active. *)
TakeTimeoutPoll(p) ==
  /\ pc[p] = "poll"
  /\ p \in expired
  /\ Return(p, "timeout")
  /\ UNCHANGED <<sockVars, readVars, box, expired, lost>>

(* A select finds the timer. *)
TakeTimeout(p) ==
  /\ pc[p] \in {"wait", "poll"}
  /\ p \in expired
  /\ Return(p, "timeout")
  /\ UNCHANGED <<sockVars, readVars, box, expired, lost>>

(* A select finds the context done. *)
TakeCancel(p) ==
  /\ pc[p] \in {"wait", "poll"}
  /\ Return(p, "cancelled")
  /\ UNCHANGED <<sockVars, readVars, box, expired, lost>>

(* The select's default: go on to ReadEvent. *)
PollNothing(p) ==
  /\ pc[p] = "poll"
  /\ box[p] = "" /\ p \notin expired
  /\ Goto(p, "read")
  /\ UNCHANGED <<sockVars, readVars, waiters, box, result, expired, deadline, lost>>

(* ReadEvent looks for the first frame of the payload that is no ping and    *)
(* has no waiter; the frames before it are routed, those after it dropped.   *)
Unrouted(pl) == {i \in DOMAIN pl : pl[i].kind # "ping" /\ ~Matches(pl[i])}
First(pl) == CHOOSE i \in Unrouted(pl) : \A j \in Unrouted(pl) : i <= j
Routed(pl) ==
  {pl[i] : i \in {j \in DOMAIN pl : Matches(pl[j])
                                     /\ (Unrouted(pl) # {} => j < First(pl))}}
Filled(fs) ==
  [p \in Calls |-> IF box[p] = "" /\ \E f \in fs : f.id = p
                   THEN (CHOOSE f \in fs : f.id = p).kind ELSE box[p]]
Dropped(pl) == {pl[i] : i \in {j \in DOMAIN pl : j > First(pl)}}

(* Mutant of ReadEventNil: a routed frame is skipped and not delivered. *)
ReadEventSkips(p) ==
  /\ pc[p] = "read" /\ Readable
  /\ Unrouted(Head(wire)) = {}
  /\ wire' = Tail(wire)
  /\ lost' = lost \cup Losers(Routed(Head(wire)))
  /\ Goto(p, "nil")
  /\ UNCHANGED <<mode, sock, requests, events, readVars, waiters, box, result, expired,
                 deadline>>

(* ReadEvent returns nil, nil: nothing of the payload was left for the caller. *)
ReadEventNil(p) ==
  /\ pc[p] = "read" /\ Readable
  /\ Unrouted(Head(wire)) = {}
  /\ wire' = Tail(wire)
  /\ box' = Filled(Routed(Head(wire)))
  /\ Goto(p, "nil")
  /\ UNCHANGED <<mode, sock, requests, events, readVars, waiters, result, expired,
                 deadline, lost>>

(* ReadEvent returns a frame that is not the call's: it goes round again. *)
ReadEventOther(p) ==
  LET pl == Head(wire) IN
  /\ pc[p] = "read" /\ Readable
  /\ Unrouted(pl) # {}
  /\ pl[First(pl)].id # p
  /\ wire' = Tail(wire)
  /\ box' = Filled(Routed(pl))
  /\ lost' = lost \cup Losers({pl[First(pl)]} \cup Dropped(pl))
  /\ Goto(p, "loop")
  /\ UNCHANGED <<mode, sock, requests, events, readVars, waiters, result, expired, deadline>>

(* ReadEvent returns the daemon's error to a subscription, which the mux does *)
(* not route.                                                                 *)
ReadEventError(p) ==
  LET pl == Head(wire) IN
  /\ pc[p] = "read" /\ Readable
  /\ Unrouted(pl) # {}
  /\ p \in Subs /\ pl[First(pl)] = [kind |-> "error", id |-> p]
  /\ wire' = Tail(wire)
  /\ box' = Filled(Routed(pl))
  /\ lost' = lost \cup Losers(Dropped(pl))
  /\ Return(p, "error")
  /\ UNCHANGED <<mode, sock, requests, events, readVars, expired>>

(* ReadEvent fails: nil, nil when the peer is gone. *)
ReadEventClosed(p) ==
  /\ pc[p] = "read" /\ wire = <<>> /\ sock = "closed"
  /\ Goto(p, "nil")
  /\ UNCHANGED <<sockVars, readVars, waiters, box, result, expired, deadline, lost>>

(* ReadEvent fails with a timeout; so does every later read. *)
ReadEventTimeout(p) ==
  /\ pc[p] = "read"
  /\ DeadlinePassed \/ sock = "poisoned"
  /\ sock' = IF sock = "open" THEN "poisoned" ELSE sock
  /\ Return(p, "failed")
  /\ UNCHANGED <<mode, wire, requests, events, readVars, box, expired, lost>>

(* Mutant of NilEvent: it does not look whether the answer was routed. *)
NilEventBlind(p) ==
  /\ pc[p] = "nil"
  /\ Return(p, "closed")
  /\ UNCHANGED <<sockVars, readVars, box, expired, lost>>

(* After a nil event and no answer: "connection closed waiting" *)
NilEvent(p) ==
  /\ pc[p] = "nil"
  /\ box[p] = ""
  /\ Return(p, "closed")
  /\ UNCHANGED <<sockVars, readVars, box, expired, lost>>

-----------------------------------------------------------------------------
(* The daemon, the network and time *)

Answer(p) ==
  IF p \in Subs THEN {[kind |-> k, id |-> p] : k \in {"next", "error"}}
                ELSE {[kind |-> k, id |-> p] : k \in {"response", "error"}}
Event == [kind |-> "event", id |-> NoCall]
Ping == [kind |-> "ping", id |-> NoCall]

DaemonAnswers(p) ==
  /\ sock # "closed" /\ p \in requests
  /\ requests' = requests \ {p}
  /\ \E f \in Answer(p) : wire' = Append(wire, <<f>>)
  /\ UNCHANGED <<mode, sock, events, readVars, callVars>>

(* An event and an answer in one payload *)
DaemonCoalesces(p) ==
  /\ mode \in Coalesce
  /\ sock # "closed" /\ p \in requests /\ events < MaxEvents
  /\ requests' = requests \ {p}
  /\ events' = events + 1
  /\ \E f \in Answer(p) : wire' = Append(wire, <<Event, f>>)
  /\ UNCHANGED <<mode, sock, readVars, callVars>>

DaemonSpeaks ==
  /\ sock # "closed" /\ events < MaxEvents
  /\ events' = events + 1
  /\ \E f \in {Event} \cup (IF mode \in Pings THEN {Ping} ELSE {}) :
       wire' = Append(wire, <<f>>)
  /\ UNCHANGED <<mode, sock, requests, readVars, callVars>>

Break ==
  /\ sock = "open"
  /\ sock' = "closed"
  /\ UNCHANGED <<mode, wire, requests, events, readVars, callVars>>

(* The timeout of a call passes. *)
Expire(p) ==
  /\ pc[p] \in {"loop", "wait", "poll", "read"}
  /\ expired' = expired \cup {p}
  /\ UNCHANGED <<sockVars, readVars, waiters, box, pc, result, deadline, lost>>

-----------------------------------------------------------------------------
(* What the three kinds of calls have in common, and what is their own: only *)
(* a subscription looks for its error itself.                                *)
WaitStep(p) ==
  \/ Register(p) \/ CheckReader(p)
  \/ TakeAnswer(p) \/ TakeTimeout(p) \/ PollNothing(p)
  \/ ReadEventNil(p) \/ ReadEventOther(p)
  \/ ReadEventClosed(p) \/ ReadEventTimeout(p) \/ NilEvent(p)

RequestResponse(p) == p \notin Subs \cup Detaches /\ WaitStep(p)

LoopSubscribe(p) == p \in Subs /\ (WaitStep(p) \/ ReadEventError(p))

LoopDetach(p) == p \in Detaches /\ WaitStep(p)

CallStep(p) == RequestResponse(p) \/ LoopSubscribe(p) \/ LoopDetach(p)

ReaderStep == ReaderRoute \/ ReaderForward \/ ReaderFails

Next ==
  \/ StartReader \/ ReaderStep
  \/ \E p \in Calls : Call(p) \/ CallStep(p) \/ TakeCancel(p) \/ Expire(p)
                      \/ DaemonAnswers(p) \/ DaemonCoalesces(p)
  \/ DaemonSpeaks \/ Break

(* A call goes on and its timer fires; the reader reads.  Nothing is owed by *)
(* the daemon.                                                               *)
Fairness ==
  /\ \A p \in Calls : WF_vars(CallStep(p)) /\ WF_vars(Expire(p))
  /\ WF_vars(ReaderStep)

Spec == Init /\ [][Next]_vars
LiveSpec == Spec /\ Fairness

-----------------------------------------------------------------------------
(* "an unregister func that must be called when the wait ends ... to avoid  *)
(* leaks": the mux holds exactly the calls that are waiting, so it is empty *)
(* when no call is in progress.                                             *)
NoLeak == waiters = {p \in Calls : InCall(p) /\ pc[p] # "register"}

(* A call whose answer the mux has received while it was registered returns *)
(* it, unless it timed out or was cancelled first: without a reader it      *)
(* never reports a closed connection or a failed read instead.              *)
RoutedIsReturned ==
  mode = "sync" => \A p \in Calls :
    pc[p] = "done" /\ box[p] # ""
      => result[p] \in {box[p], "timeout", "cancelled"}

(* An answer reaches a waiter of its own kind: no RPC is answered with the  *)
(* confirmation of a subscription, and no subscription is confirmed by a    *)
(* response or by an error.                                                 *)
AnswerFits ==
  \A p \in Calls :
    box[p] # "" => (box[p] = "next") = (p \in Subs)

(* "Returns nil, nil on normal close": a call that reports a closed         *)
(* connection has lost its connection, where the caller reads, no pings are *)
(* sent and payloads hold one frame.                                        *)
ClosedMeansClosed ==
  mode = "sync" /\ mode \notin Pings \cup Coalesce
    => \A p \in Calls : result[p] = "closed" => sock = "closed"

(* "the response is routed to this caller instead of being discarded": no   *)
(* answer is read off the socket and thrown away while its call waits,      *)
(* where the caller reads and payloads hold one frame.                      *)
NoLostAnswer == mode = "sync" /\ mode \notin Coalesce => lost = {}

(* The reader ends only when the connection does: a call that is not        *)
(* answered in time does not end the stream of the application.             *)
ReaderOutlivesCalls == reader = "done" => sock = "closed"

(* Every call returns: by its answer, by its timer, or with the connection. *)
CallsReturn == \A p \in Calls : []<>~InCall(p)

=============================================================================
