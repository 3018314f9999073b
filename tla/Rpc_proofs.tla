----------------------------- MODULE Rpc_proofs -----------------------------
(***************************************************************************)
(* Proofs about the calls of Rpc, for every set of calls and every daemon: *)
(* the multiplexer holds exactly the waiting calls, answers reach waiters  *)
(* of their kind, and a caller that reads the socket itself loses no       *)
(* answer, returns the one it was routed, and does not report a close that *)
(* did not happen.                                                         *)
(***************************************************************************)
EXTENDS Rpc, SequenceTheorems, TLAPS

(* What the daemon puts in a payload: one frame, or an event and an answer. *)
PayloadOK(pl) ==
  /\ pl \in Seq(Frame) /\ Len(pl) \in {1, 2}
  /\ Len(pl) = 2 => pl[1] = Event /\ mode \in Coalesce
  /\ \A i \in 1 .. Len(pl) : pl[i].kind = "ping" => mode \in Pings

WireOK ==
  /\ wire \in Seq(Seq(Frame))
  /\ \A n \in 1 .. Len(wire) : PayloadOK(wire[n])

(* Without a reader one call at a time is in progress, and it reads. *)
SyncAlone ==
  mode = "sync" =>
    /\ reader = "none" /\ ~readerActive
    /\ \A p, q \in Calls : InCall(p) /\ InCall(q) => p = q

(* The one call that reads has its answer only right after the read that     *)
(* routed it.                                                                *)
SyncBox ==
  mode = "sync" => \A p \in Calls : pc[p] \notin {"nil", "done"} => box[p] = ""

(* A nil event without an answer is a lost connection. *)
NilIsClosed ==
  mode = "sync" /\ mode \notin Pings \cup Coalesce =>
    \A p \in Calls : pc[p] = "nil" /\ box[p] = "" => sock = "closed"

RpcInv ==
  /\ TypeOK /\ WireOK
  /\ NoLeak /\ AnswerFits
  /\ SyncAlone /\ SyncBox /\ NilIsClosed
  /\ RoutedIsReturned /\ NoLostAnswer /\ ClosedMeansClosed

-----------------------------------------------------------------------------
(* The wire *)

(* A payload has a first frame. *)
LEMMA FirstFrame ==
  ASSUME WireOK, wire # <<>>
  PROVE  /\ Head(wire) = wire[1] /\ PayloadOK(Head(wire))
         /\ NextFrame = Head(wire)[1] /\ NextFrame \in Frame
         /\ Tail(wire) \in Seq(Seq(Frame)) /\ Len(wire) \in Nat \ {0}
         /\ \A n \in 1 .. Len(Tail(wire)) : PayloadOK(Tail(wire)[n])
<1>1. Len(wire) \in Nat /\ Len(wire) >= 1
  BY DEF WireOK
<1>2. Head(wire) = wire[1] /\ PayloadOK(Head(wire)) /\ Tail(wire) \in Seq(Seq(Frame))
  BY <1>1 DEF WireOK
<1>3. NextFrame = Head(wire)[1] /\ NextFrame \in Frame
  BY <1>2 DEF NextFrame, PayloadOK
<1>4. /\ Len(Tail(wire)) = Len(wire) - 1
      /\ \A n \in 1 .. Len(Tail(wire)) : Tail(wire)[n] = wire[n + 1]
  BY <1>1 DEF WireOK
<1>5. ASSUME NEW n \in 1 .. Len(Tail(wire)) PROVE PayloadOK(Tail(wire)[n])
  <2>1. n + 1 \in 1 .. Len(wire) /\ Tail(wire)[n] = wire[n + 1]
    BY <1>1, <1>4
  <2> QED
    BY <2>1, Zenon DEF WireOK
<1> QED
  BY <1>1, <1>2, <1>3, <1>5

(* A payload is taken off the wire. *)
LEMMA TailKeepsWire ==
  ASSUME WireOK, wire # <<>>, wire' = Tail(wire), mode' = mode
  PROVE  WireOK'
BY FirstFrame, Zenon DEF WireOK, PayloadOK

(* The reader takes one frame off the wire. *)
LEMMA PopKeepsWire ==
  ASSUME WireOK, wire # <<>>, PopFrame, mode' = mode
  PROVE  WireOK'
<1> DEFINE pl == Head(wire)
<1>1. /\ PayloadOK(pl) /\ Tail(wire) \in Seq(Seq(Frame))
      /\ \A n \in 1 .. Len(Tail(wire)) : PayloadOK(Tail(wire)[n])
  BY FirstFrame, Zenon
<1>4. /\ Len(pl) = 1 => wire' = Tail(wire)
      /\ Len(pl) # 1 => wire' = <<Tail(pl)>> \o Tail(wire)
  BY Zenon DEF PopFrame
<1> HIDE DEF pl
<1>2. CASE Len(pl) = 1
  BY <1>2, <1>4, TailKeepsWire, Zenon
<1>3. CASE Len(pl) # 1
  <2> DEFINE rest == Tail(pl)
  <2>1. Len(pl) = 2 /\ pl \in Seq(Frame)
    BY <1>1, <1>3, Zenon DEF PayloadOK
  <2>2. rest \in Seq(Frame) /\ Len(rest) = 1 /\ rest[1] = pl[2]
    <3>1. pl # <<>>
      BY <2>1, SMTT(30)
    <3>2. /\ rest \in Seq(Frame) /\ Len(rest) = Len(pl) - 1
          /\ \A i \in 1 .. Len(rest) : rest[i] = pl[i + 1]
      BY <2>1, <3>1, HeadTailProperties, Zenon
    <3> QED
      BY <2>1, <3>2, SMTT(30)
  <2> HIDE DEF rest
  <2>3. PayloadOK(rest)
    <3>1. pl[2].kind = "ping" => mode \in Pings
      BY <1>1, <2>1 DEF PayloadOK
    <3> QED
      BY <2>2, <3>1 DEF PayloadOK
  <2>4. wire' = <<rest>> \o Tail(wire)
    BY <1>3, <1>4, Zenon DEF rest
  <2>5. <<rest>> \in Seq(Seq(Frame)) /\ Len(<<rest>>) = 1 /\ <<rest>>[1] = rest
    BY <2>2
  <2>6. /\ wire' \in Seq(Seq(Frame)) /\ Len(wire') = 1 + Len(Tail(wire))
        /\ \A n \in 1 .. Len(wire') :
             wire'[n] = IF n <= 1 THEN <<rest>>[n] ELSE Tail(wire)[n - 1]
    BY <1>1, <2>4, <2>5, ConcatProperties
  <2>7. ASSUME NEW n \in 1 .. Len(wire') PROVE PayloadOK(wire'[n])
    <3>1. CASE n = 1
      <4>1. wire'[1] = rest
        BY <2>5, <2>6, <3>1
      <4> QED
        BY <2>3, <3>1, <4>1, Zenon
    <3>2. CASE n # 1
      <4>1. n - 1 \in 1 .. Len(Tail(wire)) /\ wire'[n] = Tail(wire)[n - 1]
        BY <1>1, <2>6, <3>2
      <4> QED
        BY <1>1, <4>1, Zenon
    <3> QED
      BY <3>1, <3>2, Zenon
  <2> QED
    BY <2>6, <2>7, Zenon DEF WireOK, PayloadOK
<1> QED
  BY <1>2, <1>3, Zenon

(* The daemon adds a payload. *)
LEMMA AppendKeepsWire ==
  ASSUME WireOK, NEW pl, PayloadOK(pl), wire' = Append(wire, pl), mode' = mode
  PROVE  WireOK'
<1>1. pl \in Seq(Frame) /\ wire \in Seq(Seq(Frame))
  BY Zenon DEF WireOK, PayloadOK
<1>2. /\ wire' \in Seq(Seq(Frame)) /\ Len(wire') = Len(wire) + 1 /\ Len(wire) \in Nat
      /\ \A n \in 1 .. Len(wire) : wire'[n] = wire[n]
      /\ wire'[Len(wire) + 1] = pl
  BY <1>1
<1>3. ASSUME NEW n \in 1 .. Len(wire') PROVE PayloadOK(wire'[n])
  <2>1. CASE n = Len(wire) + 1
    BY <1>2, <2>1, Zenon
  <2>2. CASE n # Len(wire) + 1
    BY <1>2, <2>2 DEF WireOK
  <2> QED
    BY <2>1, <2>2, Zenon
<1> QED
  BY <1>2, <1>3, Zenon DEF WireOK, PayloadOK

(* Every payload of the daemon is one of those. *)
LEMMA SpokenPayloads ==
  PayloadOK(<<Event>>) /\ (mode \in Pings => PayloadOK(<<Ping>>))
<1>1. Event \in Frame /\ Ping \in Frame /\ Event.kind = "event" /\ Ping.kind = "ping"
  BY Zenon DEF Event, Ping, Frame
<1>2. PayloadOK(<<Event>>)
  BY <1>1 DEF PayloadOK
<1>3. ASSUME mode \in Pings PROVE PayloadOK(<<Ping>>)
  BY <1>1, <1>3 DEF PayloadOK
<1> QED
  BY <1>2, <1>3, Zenon

(* An answer makes a well-formed payload, alone or behind an event. *)
LEMMA AnswerPayloads ==
  ASSUME NEW p \in Calls, NEW f \in Answer(p)
  PROVE  PayloadOK(<<f>>) /\ (mode \in Coalesce => PayloadOK(<<Event, f>>))
<1>1. f \in Frame /\ f.kind \in Answers
  BY DEF Answer, Frame, Answers
<1>2. Event \in Frame /\ Event.kind = "event"
  BY Zenon DEF Event, Frame
<1>3. f.kind # "ping"
  BY <1>1, Zenon DEF Answers
<1>4. PayloadOK(<<f>>)
  BY <1>1, <1>3 DEF PayloadOK
<1>7. mode \in Coalesce => PayloadOK(<<Event, f>>)
  <2>1. /\ <<Event, f>> \in Seq(Frame) /\ Len(<<Event, f>>) = 2
        /\ <<Event, f>>[1] = Event /\ <<Event, f>>[2] = f
    BY <1>1, <1>2
  <2> QED
    BY <1>2, <1>3, <2>1 DEF PayloadOK
<1> QED
  BY <1>4, <1>7, Zenon

(* ReadEvent on a payload of the daemon: either its first frame is returned  *)
(* and nothing is routed, or it has one frame, which is routed or a ping.    *)
LEMMA PayloadParts ==
  ASSUME NEW pl, PayloadOK(pl)
  PROVE  /\ Unrouted(pl) # {} => First(pl) = 1 /\ Routed(pl) = {}
         /\ Unrouted(pl) = {} => /\ Len(pl) = 1
                                 /\ pl[1].kind = "ping" \/ Matches(pl[1])
                                 /\ Routed(pl) = {f \in {pl[1]} : Matches(f)}
         /\ Unrouted(pl) # {} /\ mode \notin Coalesce => Dropped(pl) = {}
<1>1. /\ DOMAIN pl = 1 .. Len(pl) /\ Len(pl) \in {1, 2} /\ 1 \in DOMAIN pl
      /\ Len(pl) = 2 => pl[1] = Event /\ mode \in Coalesce
  BY DEF PayloadOK
<1>2. Len(pl) = 2 => 1 \in Unrouted(pl)
  BY <1>1 DEF Unrouted, Matches, Event
<1>3. Unrouted(pl) # {} => 1 \in Unrouted(pl)
  BY <1>1, <1>2 DEF Unrouted
<1>4. Unrouted(pl) \subseteq {1, 2}
  BY <1>1 DEF Unrouted
<1>5. Unrouted(pl) # {} => First(pl) = 1
  BY <1>3, <1>4 DEF First
<1>6. Unrouted(pl) # {} => Routed(pl) = {}
  BY <1>1, <1>5 DEF Routed
<1>7. Unrouted(pl) = {} => Len(pl) = 1 /\ (pl[1].kind = "ping" \/ Matches(pl[1]))
  BY <1>1, <1>2, Zenon DEF Unrouted
<1>8. Unrouted(pl) = {} => Routed(pl) = {f \in {pl[1]} : Matches(f)}
  <2> SUFFICES ASSUME Unrouted(pl) = {} PROVE Routed(pl) = {f \in {pl[1]} : Matches(f)}
    BY Zenon
  <2>1. DOMAIN pl = {1}
    <3>1. Len(pl) = 1 /\ DOMAIN pl = 1 .. Len(pl)
      BY <1>1, <1>7, Zenon
    <3>2. 1 .. 1 = {1}
      OBVIOUS
    <3> QED
      BY <3>1, <3>2, Zenon
  <2>2. \A f : f \in Routed(pl) <=> f = pl[1] /\ Matches(pl[1])
    BY <2>1, Zenon DEF Routed
  <2> QED
    BY <2>2
<1>9. Unrouted(pl) # {} /\ mode \notin Coalesce => Dropped(pl) = {}
  BY <1>1, <1>5 DEF Dropped
<1> QED
  BY <1>5, <1>6, <1>7, <1>8, <1>9, Zenon

(* What the read off the socket makes of the boxes. *)
LEMMA FilledBox ==
  ASSUME box \in [Calls -> Answers \cup {""}],
         NEW pl, PayloadOK(pl), box' = Filled(Routed(pl))
  PROVE  /\ Unrouted(pl) # {} => box' = box
         /\ Unrouted(pl) = {} =>
              box' = [p \in Calls |-> IF box[p] = "" /\ Matches(pl[1]) /\ pl[1].id = p
                                      THEN pl[1].kind ELSE box[p]]
<1>2. CASE Unrouted(pl) # {}
  <2>1. Routed(pl) = {}
    BY <1>2, PayloadParts, Zenon
  <2> QED
    BY <1>2, <2>1, Zenon DEF Filled
<1>3. CASE Unrouted(pl) = {}
  <2>1. \A f : f \in Routed(pl) <=> f = pl[1] /\ Matches(pl[1])
    BY <1>3, PayloadParts, Zenon
  <2>2. CASE Matches(pl[1])
    <3>1. Routed(pl) = {pl[1]}
      BY <2>1, <2>2, Zenon
    <3> QED
      BY <1>3, <2>2, <3>1, Zenon DEF Filled
  <2>3. CASE ~Matches(pl[1])
    <3>1. Routed(pl) = {}
      BY <2>1, <2>3, Zenon
    <3> QED
      BY <1>3, <2>3, <3>1, Zenon DEF Filled
  <2> QED
    BY <2>2, <2>3, Zenon
<1> QED
  BY <1>2, <1>3, Zenon

-----------------------------------------------------------------------------
(* The steps *)

(* Everything but the wire *)
Core ==
  /\ mode \in Modes /\ sock \in {"open", "closed", "poisoned"}
  /\ requests \subseteq Calls /\ events \in 0 .. MaxEvents
  /\ reader \in {"none", "read", "done"} /\ readerActive \in BOOLEAN
  /\ waiters \subseteq Calls
  /\ box \in [Calls -> Answers \cup {""}]
  /\ pc \in [Calls -> PCs]
  /\ result \in [Calls -> Results]
  /\ expired \subseteq Calls /\ deadline \in Calls \cup {NoCall} /\ lost \subseteq Calls
  /\ NoLeak /\ AnswerFits
  /\ SyncAlone /\ SyncBox /\ NilIsClosed
  /\ RoutedIsReturned /\ NoLostAnswer /\ ClosedMeansClosed

(* The invariant in two parts *)
LEMMA CoreInv == RpcInv <=> Core /\ WireOK
BY Zenon DEF RpcInv, Core, TypeOK, WireOK

(* SendMessage *)
LEMMA CallKeeps ==
  ASSUME Core, NEW p \in Calls, Call(p)
  PROVE  Core'
BY ZenonT(30) DEF Core, Call, Goto, InCall, readVars, sockVars, PCs, NoLeak, AnswerFits, SyncAlone,
       SyncBox, NilIsClosed, RoutedIsReturned, NoLostAnswer, ClosedMeansClosed

(* registerRPC, registerSubscription *)
LEMMA RegisterKeeps ==
  ASSUME Core, NEW p \in Calls, Register(p)
  PROVE  Core'
BY ZenonT(30) DEF Core, Register, Goto, InCall, readVars, sockVars, PCs, NoLeak, AnswerFits, SyncAlone,
       SyncBox, NilIsClosed, RoutedIsReturned, NoLostAnswer, ClosedMeansClosed

(* A call that is registered returns, with its answer when it has one. *)
LEMMA ReturnKeeps ==
  ASSUME Core, NEW p \in Calls, NEW what \in Results, Return(p, what),
         pc[p] \notin {"idle", "register", "done"},
         UNCHANGED <<mode, requests, events, readVars, box, expired>>,
         lost' \subseteq Calls, mode = "sync" /\ mode \notin Coalesce => lost' = lost,
         sock' \in {sock, "poisoned"}, sock = "closed" => sock' = sock,
         mode = "sync" => box[p] = "" \/ what \in {box[p], "timeout", "cancelled"},
         mode = "sync" /\ mode \notin Pings \cup Coalesce /\ what = "closed"
           => sock = "closed"
  PROVE  Core'
<1> DEFINE Types ==
      /\ waiters \subseteq Calls
      /\ pc \in [Calls -> PCs]
      /\ result \in [Calls -> Results]
      /\ box \in [Calls -> Answers \cup {""}]
<1>0. Types
  BY Zenon DEF Core
<1>1. /\ pc' = [pc EXCEPT ![p] = "done"] /\ result' = [result EXCEPT ![p] = what]
      /\ waiters' = waiters \ {p} /\ deadline' = NoCall
      /\ mode' = mode /\ box' = box /\ reader' = reader /\ readerActive' = readerActive
  BY Zenon DEF Return, Goto, readVars
<1>2. Types'
  BY <1>0, <1>1, Zenon DEF PCs
<1>3. NoLeak' /\ SyncAlone' /\ SyncBox'
  BY <1>0, <1>1, ZenonT(30) DEF Core, NoLeak, SyncAlone, SyncBox, InCall
<1>4. RoutedIsReturned'
  BY <1>0, <1>1, Zenon DEF Core, RoutedIsReturned
<1>5. NilIsClosed' /\ ClosedMeansClosed'
  BY <1>0, <1>1, Zenon DEF Core, NilIsClosed, ClosedMeansClosed
<1> QED
  BY <1>1, <1>2, <1>3, <1>4, <1>5, ZenonT(60) DEF Core, AnswerFits, NoLostAnswer, readVars

(* The ways a call ends *)
LEMMA EndsKeep ==
  ASSUME Core, NEW p \in Calls,
         TakeAnswer(p) \/ TakeTimeout(p) \/ TakeCancel(p) \/ NilEvent(p) \/ ReadEventTimeout(p)
  PROVE  Core'
<1>0. box[p] \in Answers \cup {""} /\ SyncBox /\ NilIsClosed /\ lost \subseteq Calls
  BY Zenon DEF Core
<1>1. CASE TakeAnswer(p)
  <2>1. box[p] \in Results /\ box[p] # "closed"
    BY <1>0, <1>1, Zenon DEF TakeAnswer, Answers, Results
  <2> QED
    BY <1>0, <1>1, <2>1, ReturnKeeps, Zenon DEF TakeAnswer, sockVars
<1>2. CASE TakeTimeout(p)
  BY <1>0, <1>2, ReturnKeeps, Zenon DEF TakeTimeout, sockVars, Results
<1>3. CASE TakeCancel(p)
  BY <1>0, <1>3, ReturnKeeps, Zenon DEF TakeCancel, sockVars, Results
<1>4. CASE NilEvent(p)
  BY <1>0, <1>4, ReturnKeeps, Zenon DEF NilEvent, sockVars, Results, NilIsClosed
<1>5. CASE ReadEventTimeout(p)
  BY <1>0, <1>5, ReturnKeeps, Zenon DEF ReadEventTimeout, Results, SyncBox
<1> QED
  BY <1>1, <1>2, <1>3, <1>4, <1>5, Zenon

(* The steps between, which move the call and nothing else *)
LEMMA MoveKeeps ==
  ASSUME Core, NEW p \in Calls, NEW to \in PCs, Goto(p, to),
         pc[p] \notin {"idle", "register", "nil", "done"},
         to \notin {"idle", "register", "done"},
         to = "nil" => sock = "closed",
         UNCHANGED <<sockVars, readVars, waiters, box, result, expired, deadline, lost>>
  PROVE  Core'
BY ZenonT(30) DEF Core, Goto,
       InCall, readVars, sockVars, PCs, NoLeak, AnswerFits, SyncAlone, SyncBox,
       NilIsClosed, RoutedIsReturned, NoLostAnswer, ClosedMeansClosed

(* Going round the loop of a call changes nothing that matters. *)
LEMMA LoopKeeps ==
  ASSUME Core, NEW p \in Calls, CheckReader(p) \/ PollNothing(p) \/ ReadEventClosed(p)
  PROVE  Core'
BY MoveKeeps, Zenon DEF CheckReader, PollNothing, ReadEventClosed, PCs

(* The timer of a call *)
LEMMA ExpireKeeps ==
  ASSUME Core, NEW p \in Calls, Expire(p)
  PROVE  Core'
BY ZenonT(30) DEF Core, Expire,
       InCall, readVars, sockVars, PCs, NoLeak, AnswerFits, SyncAlone, SyncBox,
       NilIsClosed, RoutedIsReturned, NoLostAnswer, ClosedMeansClosed

(* ReceiveMessages starts. *)
LEMMA StartKeeps ==
  ASSUME Core, StartReader
  PROVE  Core'
BY Zenon DEF Core, StartReader, callVars,
       InCall, readVars, sockVars, PCs, NoLeak, AnswerFits, SyncAlone, SyncBox,
       NilIsClosed, RoutedIsReturned, NoLostAnswer, ClosedMeansClosed

(* ReceiveMessages fails. *)
LEMMA ReaderFailsKeeps ==
  ASSUME Core, ReaderFails
  PROVE  Core'
BY Zenon DEF Core, ReaderFails, callVars,
       InCall, readVars, sockVars, PCs, NoLeak, AnswerFits, SyncAlone, SyncBox,
       NilIsClosed, RoutedIsReturned, NoLostAnswer, ClosedMeansClosed

(* The network *)
LEMMA BreakKeeps ==
  ASSUME Core, Break
  PROVE  Core'
BY Zenon DEF Core, Break, callVars,
       InCall, readVars, sockVars, PCs, NoLeak, AnswerFits, SyncAlone, SyncBox,
       NilIsClosed, RoutedIsReturned, NoLostAnswer, ClosedMeansClosed

(* The daemon *)
LEMMA DaemonKeeps ==
  ASSUME Core,
         DaemonSpeaks \/ \E p \in Calls : DaemonAnswers(p) \/ DaemonCoalesces(p)
  PROVE  Core'
<1>1. requests' \subseteq Calls /\ UNCHANGED <<mode, sock, readVars, callVars>>
  BY Zenon DEF Core, DaemonAnswers, DaemonCoalesces, DaemonSpeaks
<1>2. events' = events \/ (events < MaxEvents /\ events' = events + 1)
  BY Zenon DEF DaemonAnswers, DaemonCoalesces, DaemonSpeaks
<1>3. events' \in 0 .. MaxEvents
  <2>1. MaxEvents \in Nat /\ events \in 0 .. MaxEvents
    BY RpcAssumption, Zenon DEF Core
  <2> QED
    BY <1>2, <2>1
<1> QED
  BY <1>1, <1>3, Zenon DEF Core, callVars,
     InCall, readVars, sockVars, PCs, NoLeak, AnswerFits, SyncAlone, SyncBox,
     NilIsClosed, RoutedIsReturned, NoLostAnswer, ClosedMeansClosed

(* The reader forwards a frame. *)
LEMMA ForwardKeeps ==
  ASSUME Core, ReaderForward
  PROVE  Core'
BY Zenon DEF Core, ReaderForward, Losers,
       InCall, readVars, sockVars, PCs, NoLeak, AnswerFits, SyncAlone, SyncBox,
       NilIsClosed, RoutedIsReturned, NoLostAnswer, ClosedMeansClosed

(* The reader routes a frame, to a call that waits for its kind. *)
LEMMA RouteKeeps ==
  ASSUME Core, ReaderRoute, NextFrame \in Frame
  PROVE  Core'
<1> DEFINE f == NextFrame
<1>1. /\ f \in Frame /\ f.id \in waiters /\ f.kind \in Answers
      /\ (f.kind = "next") = (f.id \in Subs)
      /\ box' = Deliver(box, f)
  BY DEF ReaderRoute, Matches, Answers
<1> HIDE DEF f
<1>2. f.id \in Calls /\ f.kind # ""
  BY <1>1, Zenon DEF Core, Answers
<1>3. /\ box' \in [Calls -> Answers \cup {""}]
      /\ \A q \in Calls : box'[q] = box[q] \/ (q = f.id /\ box'[q] = f.kind)
  BY <1>1, <1>2, Zenon DEF Core, Deliver
<1>4. mode # "sync"
  BY Zenon DEF Core, SyncAlone, ReaderRoute
<1>5. AnswerFits'
  BY <1>1, <1>3, ZenonT(30) DEF Core, AnswerFits
<1> QED
  BY <1>3, <1>4, <1>5, Zenon
  DEF Core, ReaderRoute,
      InCall, readVars, PCs, NoLeak, SyncAlone, SyncBox,
      NilIsClosed, RoutedIsReturned, NoLostAnswer, ClosedMeansClosed

(* A call reads a payload of which nothing is left for it: the frame was     *)
(* routed, without a reader to the call itself, or it was a ping.            *)
LEMMA ReadNilKeeps ==
  ASSUME Core, NEW p \in Calls, ReadEventNil(p), PayloadOK(Head(wire))
  PROVE  Core'
<1> DEFINE f == Head(wire)[1]
<1>1. /\ pc[p] = "read" /\ Unrouted(Head(wire)) = {} /\ box' = Filled(Routed(Head(wire)))
      /\ box \in [Calls -> Answers \cup {""}]
  BY Zenon DEF Core, ReadEventNil
<1>2. /\ box' = [q \in Calls |-> IF box[q] = "" /\ Matches(f) /\ f.id = q
                                 THEN f.kind ELSE box[q]]
      /\ f.kind = "ping" \/ Matches(f)
      /\ f.kind = "ping" => mode \in Pings
  <2>1. Len(Head(wire)) = 1 /\ (f.kind = "ping" \/ Matches(f))
    BY <1>1, PayloadParts, Zenon
  <2>2. f.kind = "ping" => mode \in Pings
    BY <2>1 DEF PayloadOK
  <2> QED
    BY <1>1, <2>1, <2>2, FilledBox, Zenon
<1> HIDE DEF f
<1>3. Matches(f) => /\ f.id \in waiters /\ f.kind \in Answers
                    /\ (f.kind = "next") = (f.id \in Subs)
  BY DEF Matches, Answers
<1>4. box' \in [Calls -> Answers \cup {""}] /\ AnswerFits'
  BY <1>1, <1>2, <1>3, ZenonT(60) DEF Core, AnswerFits
<1>5. ASSUME mode = "sync"
      PROVE  /\ \A q \in Calls : q # p => box'[q] = box[q]
             /\ mode \notin Pings => box'[p] # ""
  <2>1. box[p] = ""
    BY <1>1, <1>5, Zenon DEF Core, SyncBox
  <2>2. Matches(f) => f.id = p
    BY <1>1, <1>3, <1>5, Zenon DEF Core, SyncAlone, NoLeak, InCall
  <2>3. Matches(f) => f.kind # ""
    BY <1>3, Zenon DEF Answers
  <2> QED
    BY <1>2, <2>1, <2>2, <2>3, Zenon
<1> QED
  BY <1>1, <1>4, <1>5, ZenonT(30)
  DEF Core, ReadEventNil, Goto,
      InCall, readVars, PCs, NoLeak, SyncAlone, SyncBox,
      NilIsClosed, RoutedIsReturned, NoLostAnswer, ClosedMeansClosed

(* A call reads a payload and is given its first frame, which is not its     *)
(* own: without a reader nobody else waits for it.                           *)
LEMMA ReadOtherKeeps ==
  ASSUME Core, NEW p \in Calls, ReadEventOther(p), PayloadOK(Head(wire))
  PROVE  Core'
<1> DEFINE pl == Head(wire)
<1>1. /\ pc[p] = "read" /\ Unrouted(pl) # {} /\ box' = Filled(Routed(pl))
      /\ pl[First(pl)].id # p
      /\ lost' = lost \cup Losers({pl[First(pl)]} \cup Dropped(pl))
      /\ box \in [Calls -> Answers \cup {""}]
  BY Zenon DEF Core, ReadEventOther
<1>2. box' = box /\ (mode \notin Coalesce => Dropped(pl) = {})
  BY <1>1, PayloadParts, FilledBox, Zenon
<1> HIDE DEF pl
<1>3. lost' \subseteq Calls
  BY <1>1, Zenon DEF Core, Losers
<1>4. ASSUME mode = "sync", mode \notin Coalesce PROVE lost' = lost
  <2>1. \A q \in Calls : InCall(q) => q = p
    BY <1>1, <1>4, Zenon DEF Core, SyncAlone, InCall
  <2>2. Losers({pl[First(pl)]} \cup Dropped(pl)) = {}
    BY <1>1, <1>2, <1>4, <2>1, Zenon DEF Losers
  <2> QED
    BY <1>1, <2>2, Zenon
<1> QED
  BY <1>1, <1>2, <1>3, <1>4, ZenonT(30)
  DEF Core, ReadEventOther, Goto,
      InCall, readVars, sockVars, PCs, NoLeak, AnswerFits, SyncAlone, SyncBox,
      NilIsClosed, RoutedIsReturned, NoLostAnswer, ClosedMeansClosed

(* A subscription is given its error. *)
LEMMA ReadErrorKeeps ==
  ASSUME Core, NEW p \in Calls, ReadEventError(p), PayloadOK(Head(wire))
  PROVE  Core'
<1> DEFINE pl == Head(wire)
<1>1. /\ pc[p] = "read" /\ Unrouted(pl) # {} /\ box' = Filled(Routed(pl))
      /\ lost' = lost \cup Losers(Dropped(pl))
      /\ Return(p, "error") /\ UNCHANGED <<mode, sock, requests, events, readVars, expired>>
      /\ box \in [Calls -> Answers \cup {""}]
  BY Zenon DEF Core, ReadEventError
<1>2. box' = box /\ (mode \notin Coalesce => Dropped(pl) = {})
  BY <1>1, PayloadParts, FilledBox, Zenon
<1> HIDE DEF pl
<1>3. lost' \subseteq Calls /\ (mode \notin Coalesce => lost' = lost)
  BY <1>1, <1>2, Zenon DEF Core, Losers
<1>4. mode = "sync" => box[p] = ""
  BY <1>1, Zenon DEF Core, SyncBox
<1>5. UNCHANGED <<mode, requests, events, readVars, box, expired>>
  BY <1>1, <1>2, Zenon
<1> QED
  BY <1>1, <1>3, <1>4, <1>5, ReturnKeeps, Zenon DEF Results

-----------------------------------------------------------------------------
(* The invariant *)

(* A step of the readers takes what is at the head of the wire; the daemon   *)
(* adds what it may send; the others leave the wire alone.                   *)
LEMMA WireStep ==
  ASSUME RpcInv, [Next]_vars
  PROVE  WireOK'
<1>0. WireOK
  BY Zenon DEF RpcInv
<1>1. CASE UNCHANGED <<mode, wire>>
  BY <1>0, <1>1, Zenon DEF WireOK, PayloadOK
<1>2. CASE ReaderRoute \/ ReaderForward
  BY <1>0, <1>2, PopKeepsWire, Zenon DEF ReaderRoute, ReaderForward, Readable
<1>3. ASSUME NEW p \in Calls, ReadEventNil(p) \/ ReadEventOther(p) \/ ReadEventError(p)
      PROVE  WireOK'
  BY <1>0, <1>3, TailKeepsWire, Zenon DEF ReadEventNil, ReadEventOther, ReadEventError, Readable
<1>4. ASSUME NEW p \in Calls, DaemonAnswers(p) \/ DaemonCoalesces(p)
      PROVE  WireOK'
  <2>1. PICK f \in Answer(p) : \/ wire' = Append(wire, <<f>>)
                               \/ wire' = Append(wire, <<Event, f>>) /\ mode \in Coalesce
    BY <1>4, Zenon DEF DaemonAnswers, DaemonCoalesces
  <2>2. mode' = mode
    BY <1>4, Zenon DEF DaemonAnswers, DaemonCoalesces
  <2> QED
    BY <1>0, <2>1, <2>2, AnswerPayloads, AppendKeepsWire, Zenon
<1>5. CASE DaemonSpeaks
  <2>1. PICK f \in {Event} \cup (IF mode \in Pings THEN {Ping} ELSE {}) :
          wire' = Append(wire, <<f>>)
    BY <1>5, Zenon DEF DaemonSpeaks
  <2>2. PayloadOK(<<f>>) /\ mode' = mode
    BY <1>5, <2>1, SpokenPayloads, Zenon DEF DaemonSpeaks
  <2> QED
    BY <1>0, <2>1, <2>2, AppendKeepsWire, Zenon
<1>6. CASE StartReader \/ ReaderFails \/ Break
  BY <1>1, <1>6, Zenon DEF StartReader, ReaderFails, Break, sockVars
<1>7. ASSUME NEW p \in Calls,
             Call(p) \/ Register(p) \/ CheckReader(p) \/ TakeAnswer(p) \/ TakeTimeout(p)
               \/ TakeCancel(p) \/ PollNothing(p) \/ ReadEventClosed(p)
               \/ ReadEventTimeout(p) \/ NilEvent(p) \/ Expire(p)
      PROVE  WireOK'
  BY <1>1, <1>7, Zenon DEF Call, Register, CheckReader, TakeAnswer, TakeTimeout, TakeCancel,
     PollNothing, ReadEventClosed, ReadEventTimeout, NilEvent, Expire, sockVars
<1>8. CASE UNCHANGED vars
  BY <1>1, <1>8, Zenon DEF vars, sockVars
<1> QED
  BY <1>2, <1>3, <1>4, <1>5, <1>6, <1>7, <1>8, Zenon
  DEF Next, ReaderStep, CallStep, RequestResponse, LoopSubscribe, LoopDetach, WaitStep

(* Every step keeps the part about the calls. *)
LEMMA CoreStep ==
  ASSUME RpcInv, [Next]_vars
  PROVE  Core'
<1>0. Core /\ WireOK
  BY CoreInv, Zenon
<1>1. CASE StartReader \/ ReaderFails \/ ReaderForward \/ Break
  BY <1>0, <1>1, StartKeeps, ReaderFailsKeeps, ForwardKeeps, BreakKeeps, Zenon
<1>2. CASE ReaderRoute
  BY <1>0, <1>2, FirstFrame, RouteKeeps, Zenon DEF ReaderRoute, Readable
<1>3. CASE DaemonSpeaks
  BY <1>0, <1>3, DaemonKeeps, Zenon
<1>4. ASSUME NEW p \in Calls, ReadEventNil(p) \/ ReadEventOther(p) \/ ReadEventError(p)
      PROVE  Core'
  <2>1. PayloadOK(Head(wire))
    BY <1>0, <1>4, FirstFrame, Zenon DEF ReadEventNil, ReadEventOther, ReadEventError, Readable
  <2> QED
    BY <1>0, <1>4, <2>1, ReadNilKeeps, ReadOtherKeeps, ReadErrorKeeps, Zenon
<1>5. ASSUME NEW p \in Calls,
             Call(p) \/ Register(p) \/ CheckReader(p) \/ TakeAnswer(p) \/ TakeTimeout(p)
               \/ TakeCancel(p) \/ PollNothing(p) \/ ReadEventClosed(p)
               \/ ReadEventTimeout(p) \/ NilEvent(p) \/ Expire(p)
               \/ DaemonAnswers(p) \/ DaemonCoalesces(p)
      PROVE  Core'
  BY <1>0, <1>5, CallKeeps, RegisterKeeps, LoopKeeps, EndsKeep, ExpireKeeps, DaemonKeeps, Zenon
<1>6. CASE UNCHANGED vars
  BY <1>0, <1>6, Zenon DEF vars, callVars, Core,
     InCall, readVars, sockVars, PCs, NoLeak, AnswerFits, SyncAlone, SyncBox,
       NilIsClosed, RoutedIsReturned, NoLostAnswer, ClosedMeansClosed
<1> QED
  BY <1>1, <1>2, <1>3, <1>4, <1>5, <1>6, Zenon
  DEF Next, ReaderStep, CallStep, RequestResponse, LoopSubscribe, LoopDetach, WaitStep

(* The invariant holds at first. *)
LEMMA RpcInit == Init => RpcInv
<1> SUFFICES ASSUME Init PROVE Core /\ WireOK
  BY CoreInv, Zenon
<1>1. WireOK
  <2>1. wire = <<>>
    BY Zenon DEF Init
  <2>2. wire \in Seq(Seq(Frame)) /\ Len(wire) = 0
    BY <2>1
  <2> QED
    BY <2>2 DEF WireOK
<1>2. events \in 0 .. MaxEvents
  <2>1. MaxEvents \in Nat /\ events = 0
    BY RpcAssumption, Zenon DEF Init
  <2> QED
    BY <2>1
<1>3. /\ box \in [Calls -> Answers \cup {""}] /\ pc \in [Calls -> PCs]
      /\ result \in [Calls -> Results]
  BY Zenon DEF Init, Results, PCs
<1>4. Core
  BY <1>2, <1>3, Zenon DEF Init, Core, InCall, NoLeak, AnswerFits, SyncAlone, SyncBox,
     NilIsClosed, RoutedIsReturned, NoLostAnswer, ClosedMeansClosed
<1> QED
  BY <1>1, <1>4, Zenon

(* RpcInv is inductive. *)
THEOREM RpcInvariant == Spec => []RpcInv
<1>1. RpcInv /\ [Next]_vars => RpcInv'
  <2> SUFFICES ASSUME RpcInv, [Next]_vars PROVE RpcInv'
    BY Zenon
  <2>1. Core' /\ WireOK'
    BY CoreStep, WireStep, Zenon
  <2> QED
    BY <2>1, Zenon DEF RpcInv, Core, TypeOK, WireOK
<1> QED
  BY RpcInit, <1>1, PTL DEF Spec

(* The mux holds exactly the calls that wait, so a call that has returned    *)
(* has unregistered, however it ended.                                       *)
THEOREM MuxExact == Spec => []NoLeak
<1>1. RpcInv => NoLeak
  BY Zenon DEF RpcInv
<1> QED
  BY <1>1, RpcInvariant, PTL

(* An RPC is answered by a response or an error, a subscription confirmed by *)
(* a next, whatever the daemon sends.                                        *)
THEOREM AnswersFit == Spec => []AnswerFits
<1>1. RpcInv => AnswerFits
  BY Zenon DEF RpcInv
<1> QED
  BY <1>1, RpcInvariant, PTL

(* Without a reader, a call returns the answer that was routed to it unless  *)
(* it timed out or was cancelled.                                            *)
THEOREM RoutedReturned == Spec => []RoutedIsReturned
<1>1. RpcInv => RoutedIsReturned
  BY Zenon DEF RpcInv
<1> QED
  BY <1>1, RpcInvariant, PTL

(* Without a reader, and with one frame in a payload, no answer is read and  *)
(* thrown away while its call waits.                                         *)
THEOREM NoAnswerLost == Spec => []NoLostAnswer
<1>1. RpcInv => NoLostAnswer
  BY Zenon DEF RpcInv
<1> QED
  BY <1>1, RpcInvariant, PTL

(* Without a reader, pings and coalesced payloads, a call that reports a     *)
(* closed connection has lost it.                                            *)
THEOREM ClosedIsClosed == Spec => []ClosedMeansClosed
<1>1. RpcInv => ClosedMeansClosed
  BY Zenon DEF RpcInv
<1> QED
  BY <1>1, RpcInvariant, PTL

=============================================================================
