------------------------------ MODULE Inbound ------------------------------
(***************************************************************************)
(* The inbound side of a soothe.Client that is read with ReadEvent         *)
(* (src/client.go): the pending queue with its priority-aware drop, the    *)
(* peeling of leftovers before a turn, and the delivery acknowledgements   *)
(* that goroutines send to the daemon.                                     *)
(*                                                                         *)
(* One application goroutine calls the client; each sendDeliveryAck is a   *)
(* goroutine of its own.  Frames are numbered in the order in which the    *)
(* daemon sends them, one frame per payload.                               *)
(***************************************************************************)
EXTENDS WireFrames, Sequences, FiniteSets

CONSTANTS
  Loops,       \* loop ids
  Kinds,       \* the frames the daemon sends: type, mode and data
  MaxPending,  \* inboundMaxSize
  PeelReads,   \* how many frames a peel reads off the socket at most
  MaxFrames,   \* bound: frames the daemon sends
  MaxCalls     \* bound: calls of PushPendingEvent and of Peeling

ASSUME InboundAssumption ==
  /\ NoLoop \notin Loops
  /\ MaxPending \in Nat \ {0} /\ PeelReads \in Nat
  /\ MaxFrames \in Nat /\ MaxCalls \in Nat

VARIABLES
  sock,      \* "open", or "poisoned" by a read that timed out
  wire,      \* frames the client has not read
  sent,      \* how many the daemon has sent
  pending,   \* c.pendingEvents
  dropped,   \* c.inboundDropped
  peeling,   \* what is left to PeelStalePendingControlEvents, or NotPeeling
  got,       \* the frames the application has got and not pushed back
  calls,     \* such calls so far
  pushed,    \* history: PushPendingEvent was called
  recvSeq,   \* c.deliveryRecvSeq
  ackedSeq,  \* c.deliveryAckedSeq
  ackers,    \* the goroutines of sendDeliveryAck
  heard,     \* per loop: the highest ack the daemon has got
  gone,      \* history: frames by how they left: "peeled", "lost"
  terminals, \* history: per loop, terminal frames read off the socket
  requeued   \* history: a frame that wants an ack was put back

queueVars == <<pending, dropped, peeling, got, calls, pushed, gone>>
histVars == <<terminals, requeued>>
ackVars == <<recvSeq, ackedSeq, ackers, heard>>
vars == <<sock, wire, sent, queueVars, ackVars, histVars>>

NotPeeling == -1
Ids == 1 .. MaxFrames
Seqs == 0 .. MaxFrames + MaxCalls

TypeOK ==
  /\ sock \in {"open", "poisoned"}
  /\ \A s \in {wire, pending, got} : \A i \in DOMAIN s : s[i].id \in Ids
  /\ sent \in 0 .. MaxFrames
  /\ dropped \in Nat
  /\ peeling \in NotPeeling .. PeelReads
  /\ Len(pending) <= MaxPending
  /\ calls \in 0 .. MaxCalls
  /\ pushed \in BOOLEAN
  /\ recvSeq \in [Loops -> Nat] /\ ackedSeq \in [Loops -> Nat]
  /\ ackers \subseteq [loop : Loops, seq : Seqs, at : {"check", "notify"}]
  /\ heard \in [Loops -> Nat]
  /\ gone \in [{"peeled", "lost"} -> SUBSET Ids]
  /\ terminals \in [Loops -> [event : Nat, complete : Nat]]
  /\ requeued \in BOOLEAN

(* A connected client *)
Init ==
  /\ sock = "open"
  /\ wire = <<>>
  /\ sent = 0
  /\ pending = <<>>
  /\ dropped = 0
  /\ peeling = NotPeeling
  /\ got = <<>>
  /\ calls = 0
  /\ pushed = FALSE
  /\ recvSeq = [l \in Loops |-> 0]
  /\ ackedSeq = [l \in Loops |-> 0]
  /\ ackers = {}
  /\ heard = [l \in Loops |-> 0]
  /\ gone = [how \in {"peeled", "lost"} |-> {}]
  /\ terminals = [l \in Loops |-> [event |-> 0, complete |-> 0]]
  /\ requeued = FALSE

Idle == peeling = NotPeeling
IdsOf(s) == {s[i].id : i \in DOMAIN s}

-----------------------------------------------------------------------------
(* enqueuePendingLocked *)

IsNormal(f) == InboundFrameDropPriority(f) >= Normal

(* The oldest of the frames of queue q that may be dropped; none: 0 *)
DropIdx(q) ==
  LET normal == {i \in DOMAIN q : IsNormal(q[i])}
  IN  IF normal = {} THEN 0 ELSE CHOOSE i \in normal : \A j \in normal : i <= j

(* append(q[:i], q[i+1:]...): the queue without its i-th frame. *)
RemoveAt(q, i) == SubSeq(q, 1, i - 1) \o SubSeq(q, i + 1, Len(q))

(* Mutant of Enqueued: a full queue drops its oldest frame. *)
EnqueuedOldest(q, f) ==
  IF Len(q) < MaxPending THEN Append(q, f) ELSE Append(Tail(q), f)

(* The queue after f has come: a full queue drops its first NORMAL frame,    *)
(* else f when it is NORMAL, else its oldest frame whatever it is.           *)
Enqueued(q, f) ==
  CASE Len(q) < MaxPending -> Append(q, f)
    [] Len(q) >= MaxPending /\ DropIdx(q) # 0 -> Append(RemoveAt(q, DropIdx(q)), f)
    [] Len(q) >= MaxPending /\ DropIdx(q) = 0 /\ IsNormal(f) -> q
    [] OTHER -> Append(Tail(q), f)

(* The frames that gives up *)
Victims(q, f) == (IdsOf(q) \cup {f.id}) \ IdsOf(Enqueued(q, f))

(* Mutant of Enqueue: an incoming frame that is dropped is not counted. *)
EnqueueUncounted(q, f) ==
  /\ pending' = Enqueued(q, f)
  /\ dropped' = dropped + Cardinality(Victims(q, f) \ {f.id})

(* enqueuePendingLocked with noteInboundDropLocked *)
Enqueue(q, f) ==
  /\ pending' = Enqueued(q, f)
  /\ dropped' = dropped + Cardinality(Victims(q, f))

-----------------------------------------------------------------------------
(* A frame is read off the socket: what the daemon counts. *)
OffSocket(f) ==
  LET kind == IF f.type = "complete" THEN "complete" ELSE "event" IN
  terminals' = IF f.type = "complete" \/ InboundNeedsDeliveryAck(DecodeMessage(f))
               THEN [terminals EXCEPT ![f.loop][kind] = @ + 1] ELSE terminals

PutBack(f) == requeued' = (requeued \/ InboundNeedsDeliveryAck(f))

-----------------------------------------------------------------------------
(* trackInboundDeliveryAck, sendDeliveryAck *)

(* A frame that wants an ack bumps the loop's recv seq and starts a sender. *)
Track(f) ==
  IF InboundNeedsDeliveryAck(f)
  THEN /\ recvSeq' = [recvSeq EXCEPT ![f.loop] = @ + 1]
       /\ ackers' =
            ackers \cup
              IF recvSeq'[f.loop] <= ackedSeq[f.loop] THEN {}
              ELSE {[loop |-> f.loop, seq |-> recvSeq'[f.loop], at |-> "check"]}
       /\ UNCHANGED <<ackedSeq, heard>>
  ELSE UNCHANGED ackVars

(* Mutant of AckCheck: only the newest frame is acknowledged, and it is      *)
(* marked by whoever comes first.                                            *)
AckCheckEager(a) ==
  /\ a \in ackers /\ a.at = "check"
  /\ IF a.seq <= ackedSeq[a.loop]
       THEN ackers' = ackers \ {a} /\ UNCHANGED ackedSeq
       ELSE /\ ackedSeq' = [ackedSeq EXCEPT ![a.loop] = recvSeq[a.loop]]
            /\ ackers' = (ackers \ {a}) \cup {[a EXCEPT !.at = "notify"]}
  /\ UNCHANGED <<sock, wire, sent, queueVars, recvSeq, heard, histVars>>

(* Under mu: an ack that a later one has overtaken is not sent. *)
AckCheck(a) ==
  /\ a \in ackers /\ a.at = "check"
  /\ IF a.seq <= ackedSeq[a.loop]
       THEN ackers' = ackers \ {a} /\ UNCHANGED ackedSeq
       ELSE /\ ackedSeq' = [ackedSeq EXCEPT ![a.loop] = a.seq]
            /\ ackers' = (ackers \ {a}) \cup {[a EXCEPT !.at = "notify"]}
  /\ UNCHANGED <<sock, wire, sent, queueVars, recvSeq, heard, histVars>>

(* Notify, outside mu: acks may reach the daemon in another order. *)
AckNotify(a) ==
  /\ a \in ackers /\ a.at = "notify"
  /\ ackers' = ackers \ {a}
  /\ heard' = [heard EXCEPT ![a.loop] = IF @ < a.seq THEN a.seq ELSE @]
  /\ UNCHANGED <<sock, wire, sent, queueVars, recvSeq, ackedSeq, histVars>>

-----------------------------------------------------------------------------
(* The calls of the application *)

(* ReadEvent, when frames are pending *)
ReadEventPending ==
  /\ Idle /\ pending # <<>>
  /\ got' = Append(got, Head(pending))
  /\ pending' = Tail(pending)
  /\ Track(Head(pending))
  /\ UNCHANGED <<sock, wire, sent, dropped, peeling, gone, calls, pushed,
                 histVars>>

(* Mutant of ReadEventSocket: it does not look at the queue. *)
ReadEventSocketFirst ==
  /\ Idle /\ wire # <<>> /\ sock # "poisoned"
  /\ got' = Append(got, DecodeMessage(Head(wire)))
  /\ wire' = Tail(wire)
  /\ OffSocket(Head(wire))
  /\ Track(DecodeMessage(Head(wire)))
  /\ UNCHANGED <<sock, sent, pending, dropped, peeling, gone, calls, pushed, requeued>>

(* ReadEvent, from the socket *)
ReadEventSocket ==
  /\ Idle /\ pending = <<>> /\ wire # <<>> /\ sock # "poisoned"
  /\ got' = Append(got, DecodeMessage(Head(wire)))
  /\ wire' = Tail(wire)
  /\ OffSocket(Head(wire))
  /\ Track(DecodeMessage(Head(wire)))
  /\ UNCHANGED <<sock, sent, pending, dropped, peeling, gone, calls, pushed, requeued>>

(* ReadEventWithTimeout, when frames are pending: nothing is acknowledged. *)
ReadTimedPending ==
  /\ Idle /\ pending # <<>>
  /\ got' = Append(got, Head(pending))
  /\ pending' = Tail(pending)
  /\ UNCHANGED <<sock, wire, sent, dropped, peeling, gone, calls, pushed, ackVars,
                 histVars>>

(* ReadEventWithTimeout, nothing comes: nil, and no read will succeed again. *)
ReadTimedOut ==
  /\ Idle /\ pending = <<>> /\ wire = <<>> /\ sock = "open"
  /\ sock' = "poisoned"
  /\ UNCHANGED <<wire, sent, queueVars, ackVars, histVars>>

(* PushPendingEvent with a frame the application has got *)
PushPendingEvent(i) ==
  /\ Idle /\ i \in DOMAIN got /\ calls < MaxCalls
  /\ calls' = calls + 1
  /\ pushed' = TRUE
  /\ Enqueue(pending, got[i])
  /\ PutBack(got[i])
  /\ got' = RemoveAt(got, i)
  /\ gone' = [gone EXCEPT !["lost"] = @ \cup Victims(pending, got[i])]
  /\ UNCHANGED <<sock, wire, sent, peeling, ackVars, terminals>>

(* PeelStalePendingControlEvents: first the leftovers in the queue ... *)
PeelPending ==
  /\ Idle /\ calls < MaxCalls
  /\ calls' = calls + 1
  /\ peeling' = PeelReads
  /\ \E n \in 0 .. Len(pending) : \E kept \in [1 .. n -> DOMAIN pending] :
       /\ FreshAt(pending, kept)
       /\ pending' = [i \in 1 .. n |-> pending[kept[i]]]
  /\ gone' = [gone EXCEPT !["peeled"] = @ \cup (IdsOf(pending) \ IdsOf(pending'))]
  /\ UNCHANGED <<sock, wire, sent, dropped, got, pushed, ackVars,
                 histVars>>

(* ... then a few frames, the first of which that is no leftover goes to the *)
(* end of the queue.  q: the queue without f                                 *)
PeelFrame(f, q) ==
  IF IsStalePending(f)
  THEN /\ peeling' = peeling - 1
       /\ pending' = q
       /\ gone' = [gone EXCEPT !["peeled"] = @ \cup {f.id}]
       /\ UNCHANGED <<dropped, requeued>>
  ELSE /\ peeling' = NotPeeling
       /\ Enqueue(q, f)
       /\ PutBack(f)
       /\ gone' = [gone EXCEPT !["lost"] = @ \cup Victims(q, f)]

PeelQueued ==
  /\ peeling > 0 /\ pending # <<>>
  /\ PeelFrame(Head(pending), Tail(pending))
  /\ UNCHANGED <<sock, wire, sent, got, calls, pushed, ackVars, terminals>>

PeelSocket ==
  /\ peeling > 0 /\ pending = <<>> /\ wire # <<>> /\ sock # "poisoned"
  /\ wire' = Tail(wire)
  /\ PeelFrame(DecodeMessage(Head(wire)), <<>>)
  /\ OffSocket(Head(wire))
  /\ Track(DecodeMessage(Head(wire)))
  /\ UNCHANGED <<sock, sent, got, calls, pushed>>

(* The read's 5 ms pass, or the connection is gone, or the reads are used up. *)
PeelEnds ==
  /\ \/ peeling = 0
     \/ peeling > 0 /\ pending = <<>> /\ (wire = <<>> \/ sock = "poisoned")
  /\ peeling' = NotPeeling
  /\ sock' = IF peeling > 0 /\ sock = "open" THEN "poisoned" ELSE sock
  /\ UNCHANGED <<wire, sent, pending, dropped, got, calls, pushed, gone, ackVars,
                 histVars>>

-----------------------------------------------------------------------------
(* The daemon and the network *)

DaemonSends(k, l) ==
  /\ sent < MaxFrames
  /\ sent' = sent + 1
  /\ wire' = Append(wire, [type |-> k.type, mode |-> k.mode, data |-> k.data,
                           wrapped |-> k.wrapped, loop |-> l, turn |-> NoID,
                           id |-> sent'])
  /\ UNCHANGED <<sock, queueVars, ackVars, histVars>>

-----------------------------------------------------------------------------
AckStep(a) == AckCheck(a) \/ AckNotify(a)

Read == ReadEventPending \/ ReadEventSocket \/ ReadTimedPending \/ ReadTimedOut
Peel == PeelPending \/ PeelQueued \/ PeelSocket \/ PeelEnds

Next ==
  \/ Read \/ Peel
  \/ \E i \in 1 .. MaxFrames : PushPendingEvent(i)
  \/ \E a \in ackers : AckStep(a)
  \/ \E k \in Kinds, l \in Loops : DaemonSends(k, l)

Spec == Init /\ [][Next]_vars

-----------------------------------------------------------------------------
(* InboundDropped() counts what was lost: every frame the daemon sent is    *)
(* still to be read, pending, with the application, peeled, or one     *)
(* of the inboundDropped frames, and nothing is in two of these places.     *)
Conservation ==
  /\ IdsOf(wire) \cup IdsOf(pending) \cup IdsOf(got)
       \cup UNION {gone[how] : how \in DOMAIN gone} = 1 .. sent
  /\ dropped = Cardinality(gone["lost"])
  /\ Len(wire) + Len(pending) + Len(got) + Cardinality(gone["peeled"]) + dropped = sent

(* "Priority-aware drop": a full queue gives up a CRITICAL or HIGH frame    *)
(* only when there is no NORMAL frame, queued or incoming, to give up.      *)
NormalGoesFirst ==
  [][\A i \in DOMAIN pending :
       pending[i].id \in gone'["lost"] /\ ~IsNormal(pending[i])
         => \A j \in DOMAIN pending' : ~IsNormal(pending'[j])]_vars

(* The application gets the frames in the order of the wire, each once, as  *)
(* long as it pushes none back: peeling puts a frame back and changes       *)
(* nothing.                                                                 *)
OrderKept ==
  LET all == got \o pending \o wire IN
  ~pushed => \A i, j \in DOMAIN all : i < j => all[i].id < all[j].id

(* "monotonic per-loop recv seq": the seq the daemon is told for a loop is  *)
(* the number of turn-ending events of that loop that were read, as long as *)
(* none of them is put back in the queue.                                   *)
AckExact ==
  \A l \in Loops :
    /\ ~requeued => recvSeq[l] = terminals[l].event
    /\ heard[l] <= recvSeq[l]

(* "sends delivery_ack on terminal frames": `complete' is counted as well.  *)
CompleteCounted ==
  \A l \in Loops : recvSeq[l] >= terminals[l].event + terminals[l].complete

(* The daemon's drain gating does not wait for ever: when no goroutine has  *)
(* an ack of a loop left to send, the daemon has got the ack of the last    *)
(* terminal frame of the loop, in whatever order the goroutines ran.        *)
AckSettles ==
  \A l \in Loops :
    (\A a \in ackers : a.loop # l) => heard[l] = recvSeq[l]

=============================================================================
