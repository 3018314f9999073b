--------------------------- MODULE Inbound_proofs ---------------------------
(***************************************************************************)
(* Proofs about Inbound, for every set of loops and frames, every bound of *)
(* the queue and every order in which the goroutines of sendDeliveryAck    *)
(* run.  First the acks: the daemon never hears more than was received,    *)
(* and hears of the last terminal frame once the goroutines have ended.    *)
(* Then the queue: no frame is forgotten or in two places, a NORMAL frame  *)
(* is given up first, and the order of the wire is kept.                   *)
(***************************************************************************)
EXTENDS Inbound, FiniteSetTheorems, TLAPS

Acker(l, n, where) == [loop |-> l, seq |-> n, at |-> where]

(* Per loop, what was heard, marked as acked and received is in this order; *)
(* where two of them differ a goroutine is on its way to close the gap.     *)
LoopInv(l) ==
  /\ heard[l] <= ackedSeq[l] /\ ackedSeq[l] <= recvSeq[l]
  /\ ackedSeq[l] < recvSeq[l] => Acker(l, recvSeq[l], "check") \in ackers
  /\ heard[l] < ackedSeq[l] => Acker(l, ackedSeq[l], "notify") \in ackers

AckerInv(a) ==
  /\ a = Acker(a.loop, a.seq, a.at)
  /\ a.at \in {"check", "notify"}
  /\ a.loop \in Loops =>
       /\ a.seq \in Nat /\ a.seq <= recvSeq[a.loop]
       /\ a.at = "notify" => a.seq <= ackedSeq[a.loop]

AckTypes ==
  recvSeq \in [Loops -> Nat] /\ ackedSeq \in [Loops -> Nat] /\ heard \in [Loops -> Nat]

AckInv ==
  /\ AckTypes
  /\ \A l \in Loops : LoopInv(l)
  /\ \A a \in ackers : AckerInv(a)

-----------------------------------------------------------------------------
(* Only a frame that is tracked and the goroutines touch the acks. *)
LEMMA AckSteps ==
  ASSUME [Next]_vars
  PROVE  \/ \E f : Track(f)
         \/ \E a \in ackers : AckCheck(a) \/ AckNotify(a)
         \/ UNCHANGED ackVars
<1>1. CASE Read
  BY <1>1, Zenon DEF Read, ReadEventPending, ReadEventSocket, ReadTimedPending, ReadTimedOut
<1>2. CASE Peel
  BY <1>2, Zenon DEF Peel, PeelPending, PeelQueued, PeelSocket, PeelEnds
<1>3. ASSUME NEW i \in 1 .. MaxFrames, PushPendingEvent(i) PROVE UNCHANGED ackVars
  BY <1>3, Zenon DEF PushPendingEvent
<1>4. ASSUME NEW k \in Kinds, NEW l \in Loops, DaemonSends(k, l) PROVE UNCHANGED ackVars
  BY <1>4, Zenon DEF DaemonSends
<1>5. CASE UNCHANGED vars
  BY <1>5, Zenon DEF vars
<1> QED
  BY <1>1, <1>2, <1>3, <1>4, <1>5 DEF Next, AckStep

(* trackInboundDeliveryAck opens a gap and starts the goroutine that closes it. *)
LEMMA TrackKeeps ==
  ASSUME AckInv, NEW f, Track(f)
  PROVE  AckInv'
<1>0. AckTypes /\ (\A l \in Loops : LoopInv(l)) /\ (\A a \in ackers : AckerInv(a))
  BY Zenon DEF AckInv
<1>1. CASE ~InboundNeedsDeliveryAck(f)
  BY <1>1, Zenon DEF Track, ackVars, AckInv, AckTypes, LoopInv, AckerInv
<1>2. CASE InboundNeedsDeliveryAck(f)
  <2>1. /\ recvSeq' = [recvSeq EXCEPT ![f.loop] = @ + 1]
        /\ ackedSeq' = ackedSeq /\ heard' = heard
        /\ ackers \subseteq ackers'
        /\ \A a \in ackers' \ ackers : a = Acker(f.loop, recvSeq'[f.loop], "check")
        /\ ~(recvSeq'[f.loop] <= ackedSeq[f.loop]) =>
             Acker(f.loop, recvSeq'[f.loop], "check") \in ackers'
    <3> DEFINE late == recvSeq'[f.loop] <= ackedSeq[f.loop]
    <3> DEFINE new == Acker(f.loop, recvSeq'[f.loop], "check")
    <3>1. /\ recvSeq' = [recvSeq EXCEPT ![f.loop] = @ + 1]
          /\ ackedSeq' = ackedSeq /\ heard' = heard
          /\ ackers' = ackers \cup IF late THEN {} ELSE {new}
      BY <1>2, Zenon DEF Track, Acker
    <3> HIDE DEF late, new
    <3>2. /\ ackers \subseteq ackers' /\ (\A a \in ackers' \ ackers : a = new)
          /\ (~late => new \in ackers')
      BY <3>1, Zenon
    <3> QED
      BY <3>1, <3>2, Zenon DEF late, new
  <2>2. AckTypes'
    <3>1. CASE f.loop \in Loops
      BY <1>0, <2>1, <3>1 DEF AckTypes
    <3>2. CASE f.loop \notin Loops
      BY <1>0, <2>1, <3>2, Zenon DEF AckTypes
    <3> QED
      BY <3>1, <3>2, Zenon
  <2>3. \A l \in Loops : recvSeq'[l] = IF l = f.loop THEN recvSeq[l] + 1 ELSE recvSeq[l]
    BY <1>0, <2>1, Zenon DEF AckTypes
  <2>4. ASSUME NEW l \in Loops PROVE LoopInv(l)'
    <3>1. recvSeq[l] \in Nat /\ ackedSeq[l] \in Nat /\ heard[l] \in Nat /\ LoopInv(l)
      BY <1>0, Zenon DEF AckTypes
    <3>2. CASE l = f.loop
      BY <2>1, <2>3, <3>1, <3>2 DEF LoopInv
    <3>3. CASE l # f.loop
      BY <2>1, <2>3, <3>1, <3>3, Zenon DEF LoopInv
    <3> QED
      BY <3>2, <3>3, Zenon
  <2>5. ASSUME NEW a \in ackers' PROVE AckerInv(a)'
    <3>1. CASE a \in ackers
      <4>1. AckerInv(a)
        BY <1>0, <3>1, Zenon
      <4>2. a.loop \in Loops => /\ recvSeq[a.loop] \in Nat
                                /\ recvSeq[a.loop] <= recvSeq'[a.loop]
                                /\ recvSeq'[a.loop] \in Nat
        BY <1>0, <2>3, SMTT(30) DEF AckTypes
      <4> QED
        BY <2>1, <4>1, <4>2 DEF AckerInv
    <3>2. CASE a \notin ackers
      <4>1. a = Acker(f.loop, recvSeq'[f.loop], "check")
        BY <2>1, <3>2, Zenon
      <4>2. a.loop = f.loop /\ a.seq = recvSeq'[f.loop] /\ a.at = "check"
        BY <4>1, Zenon DEF Acker
      <4>3. f.loop \in Loops => recvSeq'[f.loop] \in Nat
        BY <2>2, Zenon DEF AckTypes
      <4> QED
        BY <4>1, <4>2, <4>3 DEF AckerInv
    <3> QED
      BY <3>1, <3>2, Zenon
  <2> QED
    BY <2>2, <2>4, <2>5, Zenon DEF AckInv
<1> QED
  BY <1>1, <1>2, Zenon

(* Under mu, sendDeliveryAck drops an ack that is overtaken, or marks it. *)
LEMMA CheckKeeps ==
  ASSUME AckInv, NEW a \in ackers, AckCheck(a)
  PROVE  AckInv'
<1>0. AckTypes /\ (\A l \in Loops : LoopInv(l)) /\ (\A b \in ackers : AckerInv(b))
  BY Zenon DEF AckInv
<1>1. /\ recvSeq' = recvSeq /\ heard' = heard
      /\ a.at = "check"
      /\ \A b \in ackers : b # a => b \in ackers'
  BY Zenon DEF AckCheck
<1>2. CASE a.loop \notin Loops
  <2>1. AckTypes'
    BY <1>0, <1>1, <1>2, Zenon DEF AckCheck, AckTypes
  <2>2. \A l \in Loops : ackedSeq'[l] = ackedSeq[l]
    BY <1>0, <1>2, Zenon DEF AckCheck, AckTypes
  <2>3. ASSUME NEW l \in Loops PROVE LoopInv(l)'
    <3>1. \A n, w : Acker(l, n, w) # a
      BY <1>2 DEF Acker
    <3> QED
      BY <1>0, <1>1, <2>2, <3>1, Zenon DEF LoopInv
  <2>4. ASSUME NEW b \in ackers' PROVE AckerInv(b)'
    <3>1. b \in ackers \/ b = [a EXCEPT !.at = "notify"]
      BY Zenon DEF AckCheck
    <3>2. CASE b \in ackers
      BY <1>0, <1>1, <2>2, <3>2, Zenon DEF AckerInv
    <3>3. CASE b = [a EXCEPT !.at = "notify"]
      <4>1. a = Acker(a.loop, a.seq, a.at)
        BY <1>0, Zenon DEF AckerInv
      <4>2. b = Acker(a.loop, a.seq, "notify")
        BY <3>3, <4>1, Zenon DEF Acker
      <4> QED
        BY <1>2, <4>2, Zenon DEF AckerInv, Acker
    <3> QED
      BY <3>1, <3>2, <3>3, Zenon
  <2> QED
    BY <2>1, <2>3, <2>4, Zenon DEF AckInv
<1>3. CASE a.loop \in Loops
  <2>0. /\ a = Acker(a.loop, a.seq, "check") /\ a.seq \in Nat /\ a.seq <= recvSeq[a.loop]
        /\ \A l \in Loops : recvSeq[l] \in Nat /\ ackedSeq[l] \in Nat /\ heard[l] \in Nat
    BY <1>0, <1>1, <1>3, Zenon DEF AckerInv, AckTypes
  <2>1. CASE a.seq <= ackedSeq[a.loop]
    <3>1. ackers' = ackers \ {a} /\ ackedSeq' = ackedSeq
      BY <2>1, Zenon DEF AckCheck
    <3>2. ASSUME NEW l \in Loops PROVE LoopInv(l)'
      <4>1. Acker(l, ackedSeq[l], "notify") # a
        BY <1>1 DEF Acker
      <4>2. ackedSeq[l] < recvSeq[l] => Acker(l, recvSeq[l], "check") # a
        <5>1. Acker(l, recvSeq[l], "check") = a => l = a.loop /\ recvSeq[l] = a.seq
          BY DEF Acker
        <5> QED
          BY <2>0, <2>1, <5>1
      <4> QED
        BY <1>0, <1>1, <3>1, <4>1, <4>2, SMTT(30) DEF LoopInv
    <3> QED
      BY <1>0, <1>1, <3>1, <3>2, Zenon DEF AckInv, AckTypes, AckerInv
  <2>2. CASE ~(a.seq <= ackedSeq[a.loop])
    <3> DEFINE new == Acker(a.loop, a.seq, "notify")
    <3>1. [a EXCEPT !.at = "notify"] = new
      BY <2>0 DEF Acker
    <3>2. /\ ackers' = (ackers \ {a}) \cup {new}
          /\ ackedSeq' = [ackedSeq EXCEPT ![a.loop] = a.seq]
      BY <2>2, <3>1, Zenon DEF AckCheck
    <3>3. \A l \in Loops : ackedSeq'[l] = IF l = a.loop THEN a.seq ELSE ackedSeq[l]
      BY <1>0, <3>2, Zenon DEF AckTypes
    <3>4. AckTypes'
      BY <1>0, <1>1, <2>0, <3>2, Zenon DEF AckTypes
    <3>5. ASSUME NEW l \in Loops PROVE LoopInv(l)'
      <4>1. Acker(l, ackedSeq[l], "notify") # a
        BY <1>1 DEF Acker
      <4>2. Acker(l, recvSeq[l], "check") = a => l = a.loop /\ recvSeq[l] = a.seq
        BY DEF Acker
      <4>3. CASE l = a.loop
        <5>1. ackedSeq'[l] = a.seq /\ Acker(l, a.seq, "notify") \in ackers'
          BY <3>2, <3>3, <4>3, Zenon
        <5>2. a.seq < recvSeq[l] => Acker(l, recvSeq[l], "check") \in ackers'
          BY <1>0, <1>1, <2>0, <2>2, <4>2, <4>3 DEF LoopInv
        <5>3. heard[l] <= ackedSeq[l]
          BY <1>0, Zenon DEF LoopInv
        <5> QED
          BY <1>1, <2>0, <2>2, <4>3, <5>1, <5>2, <5>3, SMTT(30) DEF LoopInv
      <4>4. CASE l # a.loop
        BY <1>0, <1>1, <3>3, <4>1, <4>2, <4>4 DEF LoopInv
      <4> QED
        BY <4>3, <4>4, SMTT(30)
    <3>6. ASSUME NEW b \in ackers' PROVE AckerInv(b)'
      <4>1. CASE b = new
        <5>1. b.loop = a.loop /\ b.seq = a.seq /\ b.at = "notify"
          BY <4>1, Zenon DEF Acker
        <5> QED
          BY <1>1, <1>3, <2>0, <3>3, <4>1, <5>1, SMTT(30) DEF AckerInv
      <4>2. CASE b \in ackers
        <5>1. AckerInv(b)
          BY <1>0, <4>2, Zenon
        <5>2. b.loop \in Loops => ackedSeq[b.loop] <= ackedSeq'[b.loop] /\ ackedSeq'[b.loop] \in Nat
          BY <2>0, <2>2, <3>3, SMTT(30)
        <5> QED
          BY <1>1, <2>0, <5>1, <5>2 DEF AckerInv
      <4> QED
        BY <3>2, <4>1, <4>2, Zenon
    <3> QED
      BY <3>4, <3>5, <3>6, Zenon DEF AckInv
  <2> QED
    BY <2>1, <2>2, Zenon
<1> QED
  BY <1>2, <1>3, Zenon

(* The daemon gets an ack, in whatever order the goroutines write. *)
LEMMA NotifyKeeps ==
  ASSUME AckInv, NEW a \in ackers, AckNotify(a)
  PROVE  AckInv'
<1>0. AckTypes /\ (\A l \in Loops : LoopInv(l)) /\ (\A b \in ackers : AckerInv(b))
  BY Zenon DEF AckInv
<1>1. /\ recvSeq' = recvSeq /\ ackedSeq' = ackedSeq
      /\ a.at = "notify" /\ ackers' = ackers \ {a}
      /\ heard' = [heard EXCEPT ![a.loop] = IF heard[a.loop] < a.seq THEN a.seq ELSE heard[a.loop]]
  BY Zenon DEF AckNotify
<1>2. \A b \in ackers' : AckerInv(b)'
  BY <1>0, <1>1, Zenon DEF AckerInv
<1>3. ASSUME NEW l \in Loops PROVE Acker(l, recvSeq[l], "check") # a
  BY <1>1 DEF Acker
<1>4. CASE a.loop \notin Loops
  <2>1. heard' = heard
    BY <1>0, <1>1, <1>4, Zenon DEF AckTypes
  <2>2. \A l \in Loops : Acker(l, ackedSeq[l], "notify") # a
    BY <1>4, SMTT(30) DEF Acker
  <2>3. \A l \in Loops : LoopInv(l)'
    BY <1>0, <1>1, <1>3, <2>1, <2>2, SMTT(30) DEF LoopInv
  <2> QED
    BY <1>0, <1>1, <1>2, <2>1, <2>3, Zenon DEF AckInv, AckTypes
<1>5. CASE a.loop \in Loops
  <2>0. /\ a.seq \in Nat /\ a.seq <= ackedSeq[a.loop]
        /\ \A l \in Loops : recvSeq[l] \in Nat /\ ackedSeq[l] \in Nat /\ heard[l] \in Nat
    BY <1>0, <1>1, <1>5, Zenon DEF AckerInv, AckTypes
  <2> DEFINE top == IF heard[a.loop] < a.seq THEN a.seq ELSE heard[a.loop]
  <2>1. top \in {heard[a.loop], a.seq} /\ top >= heard[a.loop] /\ top >= a.seq /\ top \in Nat
    BY <1>5, <2>0
  <2>2. heard' = [heard EXCEPT ![a.loop] = top]
    BY <1>1, Zenon
  <2> HIDE DEF top
  <2>3. AckTypes'
    BY <1>0, <1>1, <2>1, <2>2, ZenonT(30) DEF AckTypes
  <2>4. \A l \in Loops : heard'[l] = IF l = a.loop THEN top ELSE heard[l]
    BY <1>0, <2>2 DEF AckTypes
  <2>5. ASSUME NEW l \in Loops PROVE LoopInv(l)'
    <3>1. Acker(l, ackedSeq[l], "notify") = a => l = a.loop /\ ackedSeq[l] = a.seq
      BY DEF Acker
    <3>2. LoopInv(l)
      BY <1>0, Zenon
    <3>3. CASE l = a.loop
      <4>1. heard'[l] = top /\ top <= ackedSeq[l]
        BY <2>0, <2>1, <2>4, <3>2, <3>3, SMTT(30) DEF LoopInv
      <4>2. top < ackedSeq[l] => heard[l] < ackedSeq[l] /\ Acker(l, ackedSeq[l], "notify") # a
        BY <2>0, <2>1, <3>1, <3>3, SMTT(30)
      <4> QED
        BY <1>1, <1>3, <3>2, <4>1, <4>2, SMTT(30) DEF LoopInv
    <3>4. CASE l # a.loop
      BY <1>1, <1>3, <2>4, <3>1, <3>2, <3>4, SMTT(30) DEF LoopInv
    <3> QED
      BY <3>3, <3>4, Zenon
  <2> QED
    BY <1>2, <2>3, <2>5, Zenon DEF AckInv
<1> QED
  BY <1>4, <1>5, Zenon

(* A connected client has acknowledged nothing and has nothing to. *)
LEMMA AckStart == Init => AckInv
BY DEF Init, AckInv, AckTypes, LoopInv

(* Every step keeps the invariant of the acks. *)
LEMMA AckKept == AckInv /\ [Next]_vars => AckInv'
<1> SUFFICES ASSUME AckInv, [Next]_vars PROVE AckInv'
  BY Zenon
<1>1. CASE UNCHANGED ackVars
  BY <1>1, Zenon DEF ackVars, AckInv, AckTypes, LoopInv, AckerInv
<1> QED
  BY <1>1, AckSteps, TrackKeeps, CheckKeeps, NotifyKeeps, Zenon

(* AckInv is an invariant of the client. *)
LEMMA AckInvariant == Spec => []AckInv
BY AckStart, AckKept, PTL DEF Spec

(* When no goroutine of sendDeliveryAck is left for a loop, the daemon has  *)
(* got the ack of its last terminal frame, however the goroutines raced.    *)
THEOREM AcksSettle == Spec => []AckSettles
<1>1. AckInv => AckSettles
  <2> SUFFICES ASSUME AckInv, NEW l \in Loops, \A a \in ackers : a.loop # l
               PROVE  heard[l] = recvSeq[l]
    BY Zenon DEF AckSettles
  <2>1. Acker(l, recvSeq[l], "check").loop = l /\ Acker(l, ackedSeq[l], "notify").loop = l
    BY Zenon DEF Acker
  <2>2. LoopInv(l) /\ heard[l] \in Nat /\ ackedSeq[l] \in Nat /\ recvSeq[l] \in Nat
    BY Zenon DEF AckInv, AckTypes
  <2> QED
    BY <2>1, <2>2 DEF LoopInv
<1> QED
  BY <1>1, AckInvariant, PTL

-----------------------------------------------------------------------------
(* The queue *)

(* The frames the daemon sends and what DecodeMessage makes of them *)
Frames ==
  [type : {k.type : k \in Kinds} \cup {"event"},
   mode : {k.mode : k \in Kinds} \cup {k.type : k \in Kinds},
   data : {k.data : k \in Kinds},
   wrapped : {k.wrapped : k \in Kinds} \cup {FALSE},
   loop : Loops \cup {NoLoop}, turn : {NoID}, id : Nat]

(* How many frames have left the wire *)
Fetched == sent - Len(wire)

(* The frames of s have different numbers. *)
Distinct(s) == \A i, j \in DOMAIN s : s[i].id = s[j].id => i = j

(* S, T, U and V are the parts of 1 .. n. *)
Parts(S, T, U, V, n) ==
  /\ S \cup T \cup U \cup V = 1 .. n
  /\ S \cap T = {} /\ S \cap U = {} /\ S \cap V = {}
  /\ T \cap U = {} /\ T \cap V = {} /\ U \cap V = {}

QueueTypes ==
  /\ wire \in Seq(Frames) /\ pending \in Seq(Frames) /\ got \in Seq(Frames)
  /\ sent \in Nat /\ Len(wire) <= sent
  /\ Len(pending) <= MaxPending
  /\ gone \in [{"peeled", "lost"} -> SUBSET Nat]

(* The wire holds the last frames the daemon sent, in order. *)
WireTail == \A i \in DOMAIN wire : wire[i].id = Fetched + i

(* Every frame that has left the wire is in one place. *)
Places ==
  /\ Distinct(pending) /\ Distinct(got)
  /\ Parts(IdsOf(pending), IdsOf(got), gone["peeled"], gone["lost"], Fetched)

Counted == dropped = Cardinality(gone["lost"])

(* As long as nothing is pushed back, what the application has got is in    *)
(* order, and one frame at most, a later one, is waiting.                   *)
InOrder ==
  ~pushed =>
    /\ Len(pending) <= 1
    /\ \A i, j \in DOMAIN got : i < j => got[i].id < got[j].id
    /\ \A i \in DOMAIN got, n \in IdsOf(pending) : got[i].id < n

QueueInv == QueueTypes /\ WireTail /\ Places /\ Counted /\ InOrder

-----------------------------------------------------------------------------
(* A set of indices has a least one. *)
LEMMA Least ==
  ASSUME NEW T \in SUBSET Nat, T # {}
  PROVE  \E i \in T : \A j \in T : i <= j
<1>1. PICK i \in T : \A j \in T : ~(<<j, i>> \in OpToRel(<, Nat))
  BY WFMin, NatLessThanWellFounded, Zenon
<1>2. \A j \in T : ~(j < i)
  BY <1>1, Zenon DEF OpToRel
<1> QED
  BY <1>2

(* RemoveAt moves what comes after up by one. *)
LEMMA RemoveAtFacts ==
  ASSUME NEW S, NEW s \in Seq(S), NEW i \in 1 .. Len(s)
  PROVE  /\ RemoveAt(s, i) \in Seq(S)
         /\ Len(RemoveAt(s, i)) = Len(s) - 1
         /\ \A j \in 1 .. Len(s) - 1 :
              RemoveAt(s, i)[j] = IF j < i THEN s[j] ELSE s[j + 1]
<1> DEFINE a == SubSeq(s, 1, i - 1)
<1> DEFINE b == SubSeq(s, i + 1, Len(s))
<1>1. a \in Seq(S) /\ Len(a) = i - 1 /\ \A j \in 1 .. i - 1 : a[j] = s[j]
  OBVIOUS
<1>2. b \in Seq(S) /\ Len(b) = Len(s) - i /\ \A j \in 1 .. Len(s) - i : b[j] = s[i + j]
  OBVIOUS
<1> HIDE DEF a, b
<1>3. /\ a \o b \in Seq(S) /\ Len(a \o b) = Len(s) - 1
      /\ \A j \in 1 .. Len(s) - 1 : (a \o b)[j] = IF j < i THEN s[j] ELSE s[j + 1]
  <2>1. a \o b \in Seq(S) /\ Len(a \o b) = Len(s) - 1
    <3>1. a \in Seq(S) /\ b \in Seq(S)
      BY <1>1, <1>2, Zenon
    <3>2. a \o b \in Seq(S) /\ Len(a \o b) = Len(a) + Len(b)
      BY <3>1, SMTT(30)
    <3>3. Len(a) = i - 1 /\ Len(b) = Len(s) - i /\ i \in Int /\ Len(s) \in Int
      BY <1>1, <1>2
    <3> HIDE DEF a, b
    <3> QED
      BY <3>2, <3>3
  <2> SUFFICES ASSUME NEW j \in 1 .. Len(s) - 1
               PROVE  (a \o b)[j] = IF j < i THEN s[j] ELSE s[j + 1]
    BY <2>1, Zenon
  <2>2. CASE j < i
    BY <1>1, <1>2, <2>2
  <2>3. CASE ~(j < i)
    <3>1. j - (i - 1) \in 1 .. Len(s) - i /\ j \in Int /\ i \in Int /\ i + (j - (i - 1)) = j + 1
      BY <2>3
    <3>2. (a \o b)[j] = b[j - (i - 1)]
      BY <1>1, <1>2, <2>3, SMTT(30)
    <3> QED
      BY <1>2, <2>3, <3>1, <3>2, Zenon
  <2> QED
    BY <2>2, <2>3, Zenon
<1>4. RemoveAt(s, i) = a \o b
  BY Zenon DEF RemoveAt, a, b
<1> QED
  BY <1>3, <1>4, Zenon

(* What is left keeps different numbers; the number of the removed is gone. *)
LEMMA RemovedIds ==
  ASSUME NEW s \in Seq(Frames), NEW i \in 1 .. Len(s), Distinct(s)
  PROVE  /\ Distinct(RemoveAt(s, i))
         /\ IdsOf(RemoveAt(s, i)) = IdsOf(s) \ {s[i].id}
         /\ \A j \in DOMAIN RemoveAt(s, i) : \E k \in DOMAIN s : RemoveAt(s, i)[j] = s[k]
<1> DEFINE r == RemoveAt(s, i)
<1>1. /\ r \in Seq(Frames) /\ DOMAIN r = 1 .. Len(s) - 1 /\ DOMAIN s = 1 .. Len(s)
      /\ Len(s) \in Nat
      /\ \A j \in 1 .. Len(s) - 1 : r[j] = IF j < i THEN s[j] ELSE s[j + 1]
  <2>1. /\ r \in Seq(Frames) /\ Len(r) = Len(s) - 1
        /\ \A j \in 1 .. Len(s) - 1 : r[j] = IF j < i THEN s[j] ELSE s[j + 1]
    BY RemoveAtFacts, Zenon
  <2> HIDE DEF r
  <2> QED
    BY <2>1
<1> HIDE DEF r
<1>2. Distinct(r)
  <2> SUFFICES ASSUME NEW j \in DOMAIN r, NEW k \in DOMAIN r, r[j].id = r[k].id PROVE j = k
    BY Zenon DEF Distinct
  <2> DEFINE At(n) == IF n < i THEN n ELSE n + 1
  <2>1. At(j) \in DOMAIN s /\ At(k) \in DOMAIN s /\ r[j] = s[At(j)] /\ r[k] = s[At(k)]
    BY <1>1, SMTT(30)
  <2>2. At(j) = At(k)
    BY <2>1, Zenon DEF Distinct
  <2> QED
    BY <1>1, <2>2
<1>3. ASSUME NEW j \in DOMAIN r PROVE \E k \in DOMAIN s : r[j] = s[k] /\ k # i
  <2>1. CASE j < i
    BY <1>1, <2>1
  <2>2. CASE ~(j < i)
    <3>1. j + 1 \in DOMAIN s /\ r[j] = s[j + 1] /\ j + 1 # i
      BY <1>1, <2>2
    <3> QED
      BY <3>1, Zenon
  <2> QED
    BY <2>1, <2>2
<1>4. ASSUME NEW k \in DOMAIN s, k # i PROVE \E j \in DOMAIN r : r[j] = s[k]
  <2>1. CASE k < i
    BY <1>1, <2>1, SMTT(30)
  <2>2. CASE k > i
    <3>1. k - 1 \in DOMAIN r /\ r[k - 1] = s[k]
      BY <1>1, <2>2
    <3> QED
      BY <3>1, Zenon
  <2> QED
    BY <1>1, <1>4, <2>1, <2>2, SMTT(30)
<1>5. IdsOf(r) \subseteq IdsOf(s) \ {s[i].id}
  <2> SUFFICES ASSUME NEW j \in DOMAIN r PROVE r[j].id \in IdsOf(s) \ {s[i].id}
    BY Zenon DEF IdsOf
  <2>1. PICK k \in DOMAIN s : r[j] = s[k] /\ k # i
    BY <1>3, Zenon
  <2>2. s[k].id # s[i].id
    BY <1>1, <2>1, Zenon DEF Distinct
  <2> QED
    BY <2>1, <2>2, Zenon DEF IdsOf
<1>6. IdsOf(s) \ {s[i].id} \subseteq IdsOf(r)
  BY <1>4, Zenon DEF IdsOf
<1> QED
  BY <1>2, <1>3, <1>5, <1>6, Zenon DEF r

(* The same of Tail and Append *)
LEMMA TailIds ==
  ASSUME NEW s \in Seq(Frames), s # <<>>, Distinct(s)
  PROVE  /\ Head(s) \in Frames /\ Head(s).id \in IdsOf(s)
         /\ Tail(s) \in Seq(Frames) /\ Len(Tail(s)) = Len(s) - 1 /\ Distinct(Tail(s))
         /\ IdsOf(Tail(s)) = IdsOf(s) \ {Head(s).id}
<1>1. /\ Head(s) \in Frames /\ Head(s) = s[1] /\ Len(s) \in Nat \ {0}
      /\ Tail(s) \in Seq(Frames) /\ Len(Tail(s)) = Len(s) - 1
      /\ DOMAIN s = 1 .. Len(s) /\ DOMAIN Tail(s) = 1 .. Len(s) - 1
      /\ \A j \in 1 .. Len(s) - 1 : Tail(s)[j] = s[j + 1]
  OBVIOUS
<1> DEFINE t == Tail(s)
<1> HIDE DEF t
<1>2. Distinct(t)
  <2> SUFFICES ASSUME NEW j \in DOMAIN t, NEW k \in DOMAIN t, t[j].id = t[k].id PROVE j = k
    BY Zenon DEF Distinct
  <2>1. j + 1 \in DOMAIN s /\ k + 1 \in DOMAIN s /\ s[j + 1].id = s[k + 1].id
    BY <1>1 DEF t
  <2>2. j + 1 = k + 1
    BY <2>1, Zenon DEF Distinct
  <2> QED
    BY <1>1, <2>2 DEF t
<1>3. IdsOf(t) \subseteq IdsOf(s) \ {Head(s).id}
  <2> SUFFICES ASSUME NEW j \in DOMAIN t PROVE t[j].id \in IdsOf(s) /\ t[j].id # s[1].id
    BY <1>1 DEF IdsOf
  <2>1. j + 1 \in DOMAIN s /\ t[j] = s[j + 1] /\ 1 \in DOMAIN s /\ j + 1 # 1
    BY <1>1 DEF t
  <2> QED
    BY <2>1, Zenon DEF IdsOf, Distinct
<1>4. IdsOf(s) \ {Head(s).id} \subseteq IdsOf(t)
  <2> SUFFICES ASSUME NEW k \in DOMAIN s, k # 1 PROVE s[k].id \in IdsOf(t)
    BY <1>1 DEF IdsOf
  <2>1. k - 1 \in DOMAIN t /\ t[k - 1] = s[k]
    BY <1>1 DEF t
  <2> QED
    BY <2>1, Zenon DEF IdsOf
<1>5. Head(s).id \in IdsOf(s)
  BY <1>1 DEF IdsOf
<1> QED
  BY <1>1, <1>2, <1>3, <1>4, <1>5, Zenon DEF t

(* Append adds the number of the new frame. *)
LEMMA AppendIds ==
  ASSUME NEW s \in Seq(Frames), NEW f \in Frames, Distinct(s), f.id \notin IdsOf(s)
  PROVE  /\ Append(s, f) \in Seq(Frames) /\ Len(Append(s, f)) = Len(s) + 1
         /\ Distinct(Append(s, f))
         /\ IdsOf(Append(s, f)) = IdsOf(s) \cup {f.id}
<1> DEFINE a == Append(s, f)
<1>1. /\ a \in Seq(Frames) /\ Len(a) = Len(s) + 1 /\ Len(s) \in Nat
      /\ DOMAIN s = 1 .. Len(s) /\ DOMAIN a = 1 .. Len(s) + 1
      /\ \A i \in 1 .. Len(s) : a[i] = s[i]
      /\ a[Len(s) + 1] = f
  OBVIOUS
<1> HIDE DEF a
<1>2. Distinct(a)
  <2> SUFFICES ASSUME NEW j \in DOMAIN a, NEW k \in DOMAIN a, a[j].id = a[k].id PROVE j = k
    BY Zenon DEF Distinct
  <2>1. \A i \in 1 .. Len(s) : a[i].id # f.id
    BY <1>1, Zenon DEF IdsOf
  <2> QED
    BY <1>1, <2>1 DEF Distinct
<1>3. IdsOf(a) = IdsOf(s) \cup {f.id}
  BY <1>1 DEF IdsOf
<1> QED
  BY <1>1, <1>2, <1>3, Zenon DEF a

(* Decoding keeps the number of a frame. *)
LEMMA DecodeKeeps ==
  ASSUME NEW f \in Frames
  PROVE  DecodeMessage(f) \in Frames /\ DecodeMessage(f).id = f.id
<1>1. CASE f.type \in {"connection_ack", "error", "complete"} /\ ~f.wrapped
  BY <1>1, Zenon DEF DecodeMessage, Frames
<1>2. CASE f.type = "event" /\ f.wrapped
  BY <1>2, Zenon DEF DecodeMessage, Frames
<1>3. CASE f.type # "event" /\ f.wrapped
  BY <1>3, Zenon DEF DecodeMessage, Frames
<1>4. CASE /\ ~(f.type \in {"connection_ack", "error", "complete"} /\ ~f.wrapped)
           /\ ~(f.type = "event" /\ f.wrapped) /\ ~(f.type # "event" /\ f.wrapped)
  BY <1>4, Zenon DEF DecodeMessage
<1> QED
  BY <1>1, <1>2, <1>3, <1>4, Zenon

(* The index to drop at is that of a NORMAL frame, 0 only without one. *)
LEMMA DropIdxFacts ==
  ASSUME NEW q \in Seq(Frames)
  PROVE  /\ DropIdx(q) # 0 => DropIdx(q) \in 1 .. Len(q) /\ IsNormal(q[DropIdx(q)])
         /\ DropIdx(q) = 0 => \A i \in DOMAIN q : ~IsNormal(q[i])
<1> DEFINE normal == {i \in DOMAIN q : IsNormal(q[i])}
<1>1. normal \in SUBSET Nat /\ normal \subseteq 1 .. Len(q) /\ 0 \notin 1 .. Len(q)
  OBVIOUS
<1>2. DropIdx(q) = IF normal = {} THEN 0
                   ELSE CHOOSE i \in normal : \A j \in normal : i <= j
  BY Zenon DEF DropIdx
<1>3. ASSUME normal # {} PROVE DropIdx(q) \in normal
  <2>1. \E i \in normal : \A j \in normal : i <= j
    BY <1>1, <1>3, Least, Zenon
  <2> HIDE DEF normal
  <2> QED
    BY <1>2, <1>3, <2>1
<1>4. normal = {} => DropIdx(q) = 0
  BY <1>2, Zenon
<1> QED
  BY <1>1, <1>3, <1>4

(* What may be said of the queue after f has come, whatever arm was taken:   *)
(* e is the queue after, v the frames given up.                              *)
Drops(q, f, e, v) ==
  /\ e \in Seq(Frames) /\ Len(e) <= MaxPending /\ Distinct(e)
  /\ v = {} \/ \E x : v = {x}
  /\ v \subseteq IdsOf(q) \cup {f.id}
  /\ IdsOf(e) = (IdsOf(q) \cup {f.id}) \ v
  /\ \A i \in DOMAIN q : q[i].id \in v /\ ~IsNormal(q[i])
                           => \A j \in DOMAIN e : ~IsNormal(e[j])

(* enqueuePendingLocked *)
LEMMA EnqueuedDrops ==
  ASSUME NEW q \in Seq(Frames), Distinct(q), Len(q) <= MaxPending,
         NEW f \in Frames, f.id \notin IdsOf(q)
  PROVE  /\ Drops(q, f, Enqueued(q, f), Victims(q, f))
         /\ Len(q) < MaxPending => Enqueued(q, f) = Append(q, f) /\ Victims(q, f) = {}
<1> DEFINE e == Enqueued(q, f)
<1> DEFINE d == DropIdx(q)
<1>0. Len(q) \in Nat /\ MaxPending \in Nat /\ MaxPending >= 1
  BY InboundAssumption
<1>1. ASSUME NEW v, v \subseteq IdsOf(q) \cup {f.id}, IdsOf(e) = (IdsOf(q) \cup {f.id}) \ v
      PROVE  Victims(q, f) = v
  BY <1>1, Zenon DEF Victims
<1>2. CASE Len(q) < MaxPending
  <2>1. e = Append(q, f)
    BY <1>0, <1>2 DEF Enqueued
  <2>2. /\ e \in Seq(Frames) /\ Len(e) = Len(q) + 1 /\ Distinct(e)
        /\ IdsOf(e) = (IdsOf(q) \cup {f.id}) \ {}
    BY <2>1, AppendIds, ZenonT(30)
  <2>3. Victims(q, f) = {}
    BY <2>2, Zenon DEF Victims
  <2> HIDE DEF e
  <2>4. Len(e) <= MaxPending
    BY <1>0, <1>2, <2>2
  <2>5. Drops(q, f, e, {})
    BY <2>2, <2>4, Zenon DEF Drops
  <2> QED
    BY <2>1, <2>3, <2>5, SMTT(30) DEF e
<1>3. CASE Len(q) >= MaxPending /\ d # 0
  <2> DEFINE r == RemoveAt(q, d)
  <2>1. e = Append(r, f)
    BY <1>0, <1>3 DEF Enqueued
  <2>2. d \in 1 .. Len(q) /\ IsNormal(q[d]) /\ d \in DOMAIN q
    BY <1>3, DropIdxFacts
  <2>3. r \in Seq(Frames) /\ Len(r) = Len(q) - 1
    BY <2>2, RemoveAtFacts, Zenon
  <2>4. Distinct(r) /\ IdsOf(r) = IdsOf(q) \ {q[d].id}
    BY <2>2, RemovedIds
  <2>5. f.id \notin IdsOf(r)
    BY <2>4, Zenon
  <2> HIDE DEF r, d
  <2>6. /\ e \in Seq(Frames) /\ Len(e) = Len(q) /\ Distinct(e)
        /\ IdsOf(e) = IdsOf(r) \cup {f.id}
    BY <1>0, <2>1, <2>3, <2>4, <2>5, AppendIds, SMTT(30)
  <2>7. q[d].id \in IdsOf(q)
    BY <2>2, Zenon DEF IdsOf
  <2>8. IdsOf(e) = (IdsOf(q) \cup {f.id}) \ {q[d].id} /\ q[d].id # f.id
    BY <2>4, <2>6, <2>7
  <2>9. Victims(q, f) = {q[d].id}
    BY <1>1, <2>7, <2>8, Zenon
  <2>10. \A i \in DOMAIN q : q[i].id \in {q[d].id} => IsNormal(q[i])
    BY <2>2, Zenon DEF Distinct
  <2> HIDE DEF e
  <2>11. Drops(q, f, e, {q[d].id})
    BY <2>6, <2>7, <2>8, <2>10, Zenon DEF Drops
  <2>12. ~(Len(q) < MaxPending)
    BY <1>0, <1>3
  <2> QED
    BY <2>9, <2>11, <2>12 DEF e
<1>4. CASE Len(q) >= MaxPending /\ d = 0 /\ IsNormal(f)
  <2>1. e = q
    BY <1>0, <1>4 DEF Enqueued
  <2>2. IdsOf(e) = (IdsOf(q) \cup {f.id}) \ {f.id}
    BY <2>1, Zenon
  <2>3. Victims(q, f) = {f.id}
    BY <1>1, <2>2, Zenon
  <2>4. \A i \in DOMAIN q : q[i].id \notin {f.id}
    BY Zenon DEF IdsOf
  <2> HIDE DEF e
  <2>5. Drops(q, f, e, {f.id})
    BY <2>1, <2>2, <2>4, Zenon DEF Drops
  <2>6. ~(Len(q) < MaxPending)
    BY <1>0, <1>4
  <2> QED
    BY <2>3, <2>5, <2>6, Zenon DEF e
<1>5. CASE Len(q) >= MaxPending /\ d = 0 /\ ~IsNormal(f)
  <2>1. e = Append(Tail(q), f)
    BY <1>0, <1>5 DEF Enqueued
  <2>2. q # <<>>
    BY <1>0, <1>5
  <2>3. /\ Head(q).id \in IdsOf(q)
        /\ Tail(q) \in Seq(Frames) /\ Len(Tail(q)) = Len(q) - 1 /\ Distinct(Tail(q))
        /\ IdsOf(Tail(q)) = IdsOf(q) \ {Head(q).id}
    BY <2>2, TailIds, Zenon
  <2>4. f.id \notin IdsOf(Tail(q))
    BY <2>3, Zenon
  <2>5. /\ e \in Seq(Frames) /\ Len(e) = Len(q) - 1 + 1 /\ Distinct(e)
        /\ IdsOf(e) = IdsOf(Tail(q)) \cup {f.id}
    <3> DEFINE t == Tail(q)
    <3>1. t \in Seq(Frames) /\ Len(t) = Len(q) - 1 /\ Distinct(t) /\ f.id \notin IdsOf(t)
      BY <2>3, <2>4, Zenon
    <3> HIDE DEF t
    <3>2. /\ Append(t, f) \in Seq(Frames) /\ Len(Append(t, f)) = Len(q) - 1 + 1
          /\ Distinct(Append(t, f)) /\ IdsOf(Append(t, f)) = IdsOf(t) \cup {f.id}
      BY <3>1, AppendIds, Zenon
    <3> QED
      BY <2>1, <3>2, Zenon DEF t
  <2>6. IdsOf(e) = (IdsOf(q) \cup {f.id}) \ {Head(q).id}
    BY <2>3, <2>5, Zenon
  <2>7. Victims(q, f) = {Head(q).id}
    BY <1>1, <2>3, <2>6, ZenonT(30)
  <2>8. \A i \in DOMAIN q : ~IsNormal(q[i])
    BY <1>5, DropIdxFacts, Zenon
  <2>9. \A j \in DOMAIN e : e[j] = f \/ \E i \in DOMAIN q : e[j] = q[i]
    <3> SUFFICES ASSUME NEW j \in DOMAIN e, e[j] # f PROVE \E i \in DOMAIN q : e[j] = q[i]
      BY Zenon
    <3>1. j + 1 \in DOMAIN q /\ e[j] = q[j + 1]
      BY <1>0, <2>1, <2>2, SMTT(30)
    <3> QED
      BY <3>1, Zenon
  <2> HIDE DEF e
  <2>10. \A j \in DOMAIN e : ~IsNormal(e[j])
    BY <1>5, <2>8, <2>9, Zenon
  <2>11. Len(e) <= MaxPending
    BY <1>0, <2>5
  <2>12. Drops(q, f, e, {Head(q).id})
    BY <2>3, <2>5, <2>6, <2>10, <2>11, Zenon DEF Drops
  <2>13. ~(Len(q) < MaxPending)
    BY <1>0, <1>5, SMTT(30)
  <2> QED
    BY <2>7, <2>12, <2>13, Zenon DEF e
<1> QED
  BY <1>0, <1>2, <1>3, <1>4, <1>5, SMTT(30)

(* Numbers move between the parts. *)
LEMMA PartsGrow ==
  ASSUME NEW S, NEW T, NEW U, NEW V, NEW n \in Nat, Parts(S, T, U, V, n)
  PROVE  /\ n + 1 \notin S \cup T \cup U \cup V
         /\ Parts(S \cup {n + 1}, T, U, V, n + 1)
         /\ Parts(S, T \cup {n + 1}, U, V, n + 1)
         /\ Parts(S, T, U \cup {n + 1}, V, n + 1)
<1>1. 1 .. n + 1 = (1 .. n) \cup {n + 1} /\ n + 1 \notin 1 .. n
  OBVIOUS
<1> DEFINE m == n + 1
<1> DEFINE A == 1 .. n
<1> DEFINE B == 1 .. n + 1
<1>2. B = A \cup {m} /\ m \notin A
  BY <1>1, Zenon
<1>3. Parts(S, T, U, V, n) <=>
        /\ S \cup T \cup U \cup V = A
        /\ S \cap T = {} /\ S \cap U = {} /\ S \cap V = {}
        /\ T \cap U = {} /\ T \cap V = {} /\ U \cap V = {}
  BY Zenon DEF Parts
<1>4. \A S1, T1, U1, V1 :
        Parts(S1, T1, U1, V1, m) <=>
          /\ S1 \cup T1 \cup U1 \cup V1 = B
          /\ S1 \cap T1 = {} /\ S1 \cap U1 = {} /\ S1 \cap V1 = {}
          /\ T1 \cap U1 = {} /\ T1 \cap V1 = {} /\ U1 \cap V1 = {}
  BY ZenonT(30) DEF Parts
<1>5. m \notin S \cup T \cup U \cup V
  BY <1>2, <1>3, Zenon
<1> HIDE DEF m, A, B
<1>6. Parts(S \cup {m}, T, U, V, m)
  BY <1>2, <1>3, <1>4, <1>5
<1>7. Parts(S, T \cup {m}, U, V, m)
  BY <1>2, <1>3, <1>4, <1>5, SMTT(30)
<1>8. Parts(S, T, U \cup {m}, V, m)
  BY <1>2, <1>3, <1>4, <1>5
<1> QED
  BY <1>5, <1>6, <1>7, <1>8, SMTT(30) DEF m

(* A number moves from one part to another. *)
LEMMA PartsMove ==
  ASSUME NEW S, NEW T, NEW U, NEW V, NEW n, Parts(S, T, U, V, n)
  PROVE  /\ \A W \in SUBSET S : /\ Parts(S \ W, T \cup W, U, V, n)
                                /\ Parts(S \ W, T, U \cup W, V, n)
                                /\ Parts(S \ W, T, U, V \cup W, n)
         /\ \A W \in SUBSET T : Parts(S \cup W, T \ W, U, V, n)
<1> DEFINE A == 1 .. n
<1>1. \A S1, T1, U1, V1 :
        Parts(S1, T1, U1, V1, n) <=>
          /\ S1 \cup T1 \cup U1 \cup V1 = A
          /\ S1 \cap T1 = {} /\ S1 \cap U1 = {} /\ S1 \cap V1 = {}
          /\ T1 \cap U1 = {} /\ T1 \cap V1 = {} /\ U1 \cap V1 = {}
  BY ZenonT(30) DEF Parts
<1> HIDE DEF A
<1>2. ASSUME NEW W \in SUBSET S
      PROVE  /\ Parts(S \ W, T \cup W, U, V, n)
             /\ Parts(S \ W, T, U \cup W, V, n)
             /\ Parts(S \ W, T, U, V \cup W, n)
  BY <1>1
<1>3. ASSUME NEW W \in SUBSET T PROVE Parts(S \cup W, T \ W, U, V, n)
  BY <1>1
<1> QED
  BY <1>2, <1>3, Zenon

(* What enqueuePendingLocked gives up is lost, and counted once. *)
LEMMA EnqueueCounts ==
  ASSUME NEW q \in Seq(Frames), Distinct(q), Len(q) <= MaxPending,
         NEW f \in Frames, f.id \notin IdsOf(q),
         NEW G, NEW X, NEW L, NEW n \in Nat, Parts(IdsOf(q) \cup {f.id}, G, X, L, n)
  PROVE  /\ Parts(IdsOf(Enqueued(q, f)), G, X, L \cup Victims(q, f), n)
         /\ Cardinality(L \cup Victims(q, f)) = Cardinality(L) + Cardinality(Victims(q, f))
<1> DEFINE v == Victims(q, f)
<1>1. /\ v \subseteq IdsOf(q) \cup {f.id} /\ IdsOf(Enqueued(q, f)) = (IdsOf(q) \cup {f.id}) \ v
      /\ v = {} \/ \E x : v = {x}
  BY EnqueuedDrops, Zenon DEF Drops
<1>2. IsFiniteSet(1 .. n)
  BY FS_Interval
<1>3. L \subseteq 1 .. n /\ (IdsOf(q) \cup {f.id}) \cap L = {}
  BY Zenon DEF Parts
<1>4. IsFiniteSet(L)
  BY <1>2, <1>3, FS_Subset, Zenon
<1> HIDE DEF v
<1>5. Parts(IdsOf(Enqueued(q, f)), G, X, L \cup v, n)
  <2> DEFINE S == IdsOf(q) \cup {f.id}
  <2>1. Parts(S, G, X, L, n) /\ v \in SUBSET S
    BY <1>1, Zenon
  <2> HIDE DEF S
  <2>2. Parts(S \ v, G, X, L \cup v, n)
    BY <2>1, PartsMove, Zenon
  <2> QED
    BY <1>1, <2>2, Zenon DEF S
<1>6. Cardinality(L) \in Nat
  BY <1>4, FS_CardinalityType, Zenon
<1>7. Cardinality(L \cup v) = Cardinality(L) + Cardinality(v)
  <2>1. CASE v = {}
    <3>1. L \cup v = L
      BY <2>1, Zenon
    <3>2. Cardinality(L \cup v) = Cardinality(L) /\ Cardinality(v) = 0
      BY <2>1, <3>1, FS_EmptySet, Zenon
    <3>3. Cardinality(L) = Cardinality(L) + 0
      BY <1>6
    <3> QED
      BY <3>2, <3>3, Zenon
  <2>2. CASE \E x : v = {x}
    <3>1. PICK x : v = {x}
      BY <2>2, Zenon
    <3>2. x \notin L
      BY <1>1, <1>3, <3>1
    <3>3. Cardinality(L \cup {x}) = Cardinality(L) + 1
      BY <1>4, <3>2, FS_AddElement, Zenon
    <3>4. Cardinality({x}) = 1
      BY FS_Singleton, Zenon
    <3> QED
      BY <3>1, <3>3, <3>4
  <2> QED
    BY <1>1, <2>1, <2>2, Zenon
<1> QED
  BY <1>5, <1>7, Zenon DEF v

(* A frame is taken off the wire. *)
LEMMA OffWire ==
  ASSUME QueueInv, wire # <<>>, wire' = Tail(wire), sent' = sent
  PROVE  /\ DecodeMessage(Head(wire)) \in Frames
         /\ DecodeMessage(Head(wire)).id = Fetched + 1
         /\ Fetched \in Nat /\ Fetched' = Fetched + 1
         /\ wire' \in Seq(Frames) /\ Len(wire') <= sent' /\ WireTail'
<1>1. /\ wire \in Seq(Frames) /\ sent \in Nat /\ Len(wire) <= sent /\ Len(wire) \in Nat
      /\ \A i \in DOMAIN wire : wire[i].id = Fetched + i
  BY DEF QueueInv, QueueTypes, WireTail
<1>2. /\ Head(wire) = wire[1] /\ 1 \in DOMAIN wire /\ Head(wire) \in Frames
      /\ Tail(wire) \in Seq(Frames) /\ Len(Tail(wire)) = Len(wire) - 1 /\ Len(wire) > 0
      /\ \A i \in DOMAIN Tail(wire) : i \in Nat /\ i + 1 \in DOMAIN wire /\ Tail(wire)[i] = wire[i + 1]
  BY <1>1
<1>3. Fetched \in Nat
  BY <1>1 DEF Fetched
<1>4. Fetched' = Fetched + 1
  BY <1>1, <1>2, SMTT(30) DEF Fetched
<1>5. WireTail'
  BY <1>1, <1>2, <1>3, <1>4, SMTT(30) DEF WireTail
<1>6. DecodeMessage(Head(wire)) \in Frames /\ DecodeMessage(Head(wire)).id = Fetched + 1
  BY <1>1, <1>2, DecodeKeeps
<1>7. Len(wire') <= sent'
  BY <1>1, <1>2
<1> QED
  BY <1>2, <1>3, <1>4, <1>5, <1>6, <1>7, SMTT(30)

(* What NormalGoesFirst says of a step *)
GivesNormal ==
  \A i \in DOMAIN pending :
    pending[i].id \in gone'["lost"] /\ ~IsNormal(pending[i])
      => \A j \in DOMAIN pending' : ~IsNormal(pending'[j])

(* A step that loses nothing gives up nothing. *)
LEMMA NoneLost ==
  ASSUME QueueInv, gone'["lost"] = gone["lost"]
  PROVE  GivesNormal
<1>1. IdsOf(pending) \cap gone["lost"] = {}
  BY Zenon DEF QueueInv, Places, Parts
<1>2. \A i \in DOMAIN pending : pending[i].id \in IdsOf(pending)
  BY Zenon DEF IdsOf
<1> QED
  BY <1>1, <1>2, Zenon DEF GivesNormal

(* The numbers of a queue of frames *)
LEMMA IdsAreNat ==
  ASSUME NEW s \in Seq(Frames)
  PROVE  /\ IdsOf(s) \subseteq Nat
         /\ \A i \in DOMAIN s : s[i] \in Frames /\ s[i].id \in Nat /\ s[i].id \in IdsOf(s)
<1>1. \A f \in Frames : f.id \in Nat
  BY Zenon DEF Frames
<1>2. \A i \in DOMAIN s : s[i] \in Frames
  OBVIOUS
<1> QED
  BY <1>1, <1>2, Zenon DEF IdsOf

(* The count of the frames that were fetched is a number. *)
LEMMA FetchedType ==
  ASSUME QueueInv
  PROVE  Fetched \in Nat
BY DEF QueueInv, QueueTypes, Fetched

(* ReadEvent and ReadEventWithTimeout, from the queue *)
LEMMA ReadPendingKeeps ==
  ASSUME QueueInv, pending # <<>>, got' = Append(got, Head(pending)), pending' = Tail(pending),
         UNCHANGED <<wire, sent, dropped, gone, pushed>>
  PROVE  QueueInv' /\ GivesNormal
<1> DEFINE h == Head(pending)
<1>0. /\ pending \in Seq(Frames) /\ got \in Seq(Frames) /\ Distinct(pending) /\ Distinct(got)
      /\ Parts(IdsOf(pending), IdsOf(got), gone["peeled"], gone["lost"], Fetched)
      /\ Len(pending) <= MaxPending /\ MaxPending \in Nat
  BY InboundAssumption, Zenon DEF QueueInv, QueueTypes, Places
<1>1. /\ h \in Frames /\ h.id \in IdsOf(pending)
      /\ pending' \in Seq(Frames) /\ Len(pending') = Len(pending) - 1 /\ Distinct(pending')
      /\ IdsOf(pending') = IdsOf(pending) \ {h.id}
  BY <1>0, TailIds, SMTT(30)
<1>2. h.id \notin IdsOf(got)
  BY <1>0, <1>1, SMTT(30) DEF Parts
<1> HIDE DEF h
<1>3. /\ got' \in Seq(Frames) /\ Distinct(got') /\ IdsOf(got') = IdsOf(got) \cup {h.id}
  BY <1>0, <1>1, <1>2, AppendIds, SMTT(30) DEF h
<1>4. Fetched' = Fetched
  BY Zenon DEF Fetched
<1>5. Parts(IdsOf(pending'), IdsOf(got'), gone["peeled"], gone["lost"], Fetched)
  <2>1. {h.id} \in SUBSET IdsOf(pending)
    BY <1>1, Zenon
  <2>2. Parts(IdsOf(pending) \ {h.id}, IdsOf(got) \cup {h.id}, gone["peeled"], gone["lost"], Fetched)
    BY <1>0, <2>1, PartsMove, Zenon
  <2> QED
    BY <1>1, <1>3, <2>2, Zenon
<1>6. Places'
  BY <1>1, <1>3, <1>4, <1>5, Zenon DEF Places, IdsOf, Distinct
<1>7. QueueTypes'
  BY <1>0, <1>1, <1>3 DEF QueueInv, QueueTypes
<1>8. WireTail'
  BY <1>4, Zenon DEF QueueInv, WireTail
<1>9. Counted'
  BY Zenon DEF QueueInv, Counted
<1>10. InOrder'
  <2> SUFFICES ASSUME ~pushed
               PROVE  /\ Len(pending') <= 1
                      /\ \A i, j \in DOMAIN got' : i < j => got'[i].id < got'[j].id
                      /\ \A i \in DOMAIN got', n \in IdsOf(pending') : got'[i].id < n
    BY Zenon DEF InOrder, IdsOf
  <2>1. /\ Len(pending) <= 1
        /\ \A i, j \in DOMAIN got : i < j => got[i].id < got[j].id
        /\ \A i \in DOMAIN got : got[i].id < h.id
    BY <1>1, Zenon DEF QueueInv, InOrder
  <2>2. pending' = <<>>
    BY <1>0, <1>1, <2>1, SMTT(30)
  <2>3. IdsOf(pending') = {}
    BY <2>2 DEF IdsOf
  <2>4. /\ DOMAIN got' = 1 .. Len(got) + 1 /\ Len(got) \in Nat /\ DOMAIN got = 1 .. Len(got)
        /\ \A i \in 1 .. Len(got) : got'[i] = got[i]
        /\ got'[Len(got) + 1] = h
    BY <1>0, <1>1 DEF h
  <2>5. ASSUME NEW i \in DOMAIN got', NEW j \in DOMAIN got', i < j PROVE got'[i].id < got'[j].id
    <3>1. i \in DOMAIN got /\ got'[i] = got[i]
      BY <2>4, <2>5
    <3>2. CASE j = Len(got) + 1
      BY <2>1, <2>4, <3>1, <3>2, SMTT(30)
    <3>3. CASE j # Len(got) + 1
      BY <2>1, <2>4, <2>5, <3>1, <3>3, SMTT(30)
    <3> QED
      BY <3>2, <3>3
  <2> QED
    BY <2>2, <2>3, <2>5
<1> QED
  BY <1>6, <1>7, <1>8, <1>9, <1>10, NoneLost, Zenon DEF QueueInv

(* ReadEvent, from the socket *)
LEMMA ReadSocketKeeps ==
  ASSUME QueueInv, ReadEventSocket
  PROVE  QueueInv' /\ GivesNormal
<1> DEFINE h == DecodeMessage(Head(wire))
<1>0. /\ pending \in Seq(Frames) /\ got \in Seq(Frames) /\ Distinct(pending) /\ Distinct(got)
      /\ Parts(IdsOf(pending), IdsOf(got), gone["peeled"], gone["lost"], Fetched)
  BY Zenon DEF QueueInv, QueueTypes, Places
<1>1. /\ wire # <<>> /\ wire' = Tail(wire) /\ got' = Append(got, h)
      /\ pending = <<>> /\ UNCHANGED <<sent, pending, dropped, gone, pushed>>
  BY Zenon DEF ReadEventSocket
<1>2. /\ h \in Frames /\ h.id = Fetched + 1 /\ Fetched \in Nat /\ Fetched' = Fetched + 1
      /\ wire' \in Seq(Frames) /\ Len(wire') <= sent' /\ WireTail'
  BY <1>1, OffWire
<1> HIDE DEF h
<1>3. /\ h.id \notin IdsOf(got) /\ h.id \notin IdsOf(pending)
      /\ Parts(IdsOf(pending), IdsOf(got) \cup {h.id}, gone["peeled"], gone["lost"], Fetched + 1)
  <2>1. /\ Fetched + 1 \notin IdsOf(pending) \cup IdsOf(got) \cup gone["peeled"] \cup gone["lost"]
        /\ Parts(IdsOf(pending), IdsOf(got) \cup {Fetched + 1}, gone["peeled"], gone["lost"],
                 Fetched + 1)
    BY <1>0, <1>2, PartsGrow, Zenon
  <2> QED
    BY <1>2, <2>1, Zenon
<1>4. got' \in Seq(Frames) /\ Distinct(got') /\ IdsOf(got') = IdsOf(got) \cup {h.id}
  BY <1>0, <1>1, <1>2, <1>3, AppendIds, SMTT(30)
<1>5. Places'
  <2>1. Parts(IdsOf(pending), IdsOf(got'), gone["peeled"], gone["lost"], Fetched')
    BY <1>2, <1>3, <1>4, Zenon
  <2> QED
    BY <1>0, <1>1, <1>4, <2>1, Zenon DEF Places
<1>6. QueueTypes'
  BY <1>1, <1>2, <1>4, SMTT(30) DEF QueueInv, QueueTypes
<1>7. Counted'
  BY <1>1, Zenon DEF QueueInv, Counted
<1>8. InOrder'
  <2> SUFFICES ASSUME ~pushed
               PROVE  \A i, j \in DOMAIN got' : i < j => got'[i].id < got'[j].id
    BY <1>1 DEF InOrder, IdsOf
  <2>1. \A i, j \in DOMAIN got : i < j => got[i].id < got[j].id
    BY Zenon DEF QueueInv, InOrder
  <2>2. \A i \in DOMAIN got : got[i].id \in 1 .. Fetched
    BY <1>0, IdsAreNat, Zenon DEF Parts
  <2>3. /\ DOMAIN got' = 1 .. Len(got) + 1 /\ Len(got) \in Nat /\ DOMAIN got = 1 .. Len(got)
        /\ \A i \in 1 .. Len(got) : got'[i] = got[i]
        /\ got'[Len(got) + 1] = h
    BY <1>0, <1>1, <1>2, SMTT(30)
  <2>4. ASSUME NEW i \in DOMAIN got', NEW j \in DOMAIN got', i < j PROVE got'[i].id < got'[j].id
    <3>1. i \in DOMAIN got /\ got'[i] = got[i]
      BY <2>3, <2>4, SMTT(30)
    <3>2. CASE j = Len(got) + 1
      BY <1>2, <2>2, <2>3, <3>1, <3>2, SMTT(30)
    <3>3. CASE j # Len(got) + 1
      BY <2>1, <2>3, <2>4, <3>1, <3>3, SMTT(30)
    <3> QED
      BY <3>2, <3>3, SMTT(30)
  <2> QED
    BY <2>4, Zenon
<1>9. GivesNormal
  BY <1>1, NoneLost, Zenon
<1> QED
  BY <1>2, <1>5, <1>6, <1>7, <1>8, <1>9, SMTT(30) DEF QueueInv

(* PushPendingEvent: what it pushes may cost another frame its place. *)
LEMMA PushKeeps ==
  ASSUME QueueInv, NEW i, PushPendingEvent(i)
  PROVE  QueueInv' /\ GivesNormal
<1> DEFINE f == got[i]
<1> DEFINE v == Victims(pending, f)
<1>0. /\ pending \in Seq(Frames) /\ got \in Seq(Frames) /\ Distinct(pending) /\ Distinct(got)
      /\ Parts(IdsOf(pending), IdsOf(got), gone["peeled"], gone["lost"], Fetched)
      /\ Len(pending) <= MaxPending /\ gone \in [{"peeled", "lost"} -> SUBSET Nat]
      /\ dropped = Cardinality(gone["lost"])
  BY Zenon DEF QueueInv, QueueTypes, Places, Counted
<1>1. /\ i \in DOMAIN got /\ pushed' = TRUE
      /\ pending' = Enqueued(pending, f) /\ dropped' = dropped + Cardinality(v)
      /\ got' = RemoveAt(got, i)
      /\ gone' = [gone EXCEPT !["lost"] = @ \cup v]
      /\ UNCHANGED <<wire, sent>>
  BY ZenonT(30) DEF PushPendingEvent, Enqueue
<1>2. i \in 1 .. Len(got) /\ f \in Frames /\ f.id \in Nat /\ f.id \in IdsOf(got)
  BY <1>0, <1>1, IdsAreNat, SMTT(30)
<1>3. f.id \notin IdsOf(pending)
  BY <1>0, <1>2 DEF Parts
<1>4. got' \in Seq(Frames) /\ Distinct(got') /\ IdsOf(got') = IdsOf(got) \ {f.id}
  BY <1>0, <1>1, <1>2, RemoveAtFacts, RemovedIds, ZenonT(30)
<1> HIDE DEF f
<1>5. /\ Drops(pending, f, pending', v)
  BY <1>0, <1>1, <1>2, <1>3, EnqueuedDrops, SMTT(30)
<1>6. Parts(IdsOf(pending) \cup {f.id}, IdsOf(got'), gone["peeled"], gone["lost"], Fetched)
  <2>1. {f.id} \in SUBSET IdsOf(got)
    BY <1>2, Zenon
  <2>2. Parts(IdsOf(pending) \cup {f.id}, IdsOf(got) \ {f.id}, gone["peeled"], gone["lost"], Fetched)
    BY <1>0, <2>1, PartsMove, Zenon
  <2> QED
    BY <1>4, <2>2, Zenon
<1>7. /\ Parts(IdsOf(pending'), IdsOf(got'), gone["peeled"], gone["lost"] \cup v, Fetched)
      /\ Cardinality(gone["lost"] \cup v) = Cardinality(gone["lost"]) + Cardinality(v)
  BY <1>0, <1>1, <1>2, <1>3, <1>6, FetchedType, EnqueueCounts, ZenonT(40)
<1>8. IdsOf(pending) \subseteq Nat /\ v \subseteq Nat
  BY <1>0, <1>2, <1>5, IdsAreNat, Zenon DEF Drops
<1> HIDE DEF v
<1>9. /\ gone' \in [{"peeled", "lost"} -> SUBSET Nat]
      /\ gone'["peeled"] = gone["peeled"] /\ gone'["lost"] = gone["lost"] \cup v
  BY <1>0, <1>1, <1>8, Zenon
<1>10. Fetched' = Fetched
  BY <1>1, Zenon DEF Fetched
<1>11. Places'
  BY <1>4, <1>5, <1>7, <1>9, <1>10, Zenon DEF Places, Drops
<1>12. QueueTypes'
  BY <1>1, <1>4, <1>5, <1>9, SMTT(30) DEF QueueInv, QueueTypes, Drops
<1>13. WireTail' /\ InOrder'
  BY <1>1, <1>10 DEF QueueInv, WireTail, InOrder
<1>14. Counted'
  BY <1>0, <1>1, <1>7, <1>9, ZenonT(30) DEF Counted
<1>15. GivesNormal
  <2>1. \A k \in DOMAIN pending : pending[k].id \notin gone["lost"]
    BY <1>0, IdsAreNat, SMTT(30) DEF Parts
  <2> QED
    BY <1>5, <1>9, <2>1, SMTT(30) DEF GivesNormal, Drops
<1> QED
  BY <1>11, <1>12, <1>13, <1>14, <1>15, SMTT(30) DEF QueueInv

(* PeelStalePendingControlEvents, in the queue *)
LEMMA PeelPendingKeeps ==
  ASSUME QueueInv, PeelPending
  PROVE  QueueInv' /\ GivesNormal
<1> DEFINE w == IdsOf(pending) \ IdsOf(pending')
<1>0. /\ pending \in Seq(Frames) /\ got \in Seq(Frames) /\ Distinct(pending) /\ Distinct(got)
      /\ Parts(IdsOf(pending), IdsOf(got), gone["peeled"], gone["lost"], Fetched)
      /\ Len(pending) <= MaxPending /\ gone \in [{"peeled", "lost"} -> SUBSET Nat]
      /\ MaxPending \in Nat
  BY InboundAssumption, Zenon DEF QueueInv, QueueTypes, Places
<1>1. /\ gone' = [gone EXCEPT !["peeled"] = @ \cup w]
      /\ UNCHANGED <<wire, sent, dropped, got, pushed>>
  BY Zenon DEF PeelPending
<1>2. PICK n \in 0 .. Len(pending) : \E kept \in [1 .. n -> DOMAIN pending] :
        FreshAt(pending, kept) /\ pending' = [i \in 1 .. n |-> pending[kept[i]]]
  BY Zenon DEF PeelPending
<1>3. PICK kept \in [1 .. n -> DOMAIN pending] :
        FreshAt(pending, kept) /\ pending' = [i \in 1 .. n |-> pending[kept[i]]]
  BY <1>2, Zenon
<1>4. /\ \A i \in 1 .. n : kept[i] \in 1 .. Len(pending) /\ pending[kept[i]] \in Frames
      /\ \A i, j \in 1 .. n : i < j => kept[i] < kept[j]
      /\ DOMAIN pending' = 1 .. n /\ n \in Nat /\ n <= Len(pending) /\ Len(pending) \in Nat
      /\ \A i \in 1 .. n : pending'[i] = pending[kept[i]]
  <2>1. DOMAIN pending = 1 .. Len(pending) /\ Len(pending) \in Nat
        /\ \A i \in 1 .. Len(pending) : pending[i] \in Frames
    BY <1>0
  <2>2. n \in Nat /\ n <= Len(pending)
    BY <1>2, <2>1
  <2>3. DOMAIN pending' = 1 .. n /\ \A i \in 1 .. n : pending'[i] = pending[kept[i]]
    BY <1>3, Zenon
  <2>4. DOMAIN kept = 1 .. n /\ \A i \in 1 .. n : kept[i] \in 1 .. Len(pending)
    BY <1>3, <2>1, Zenon
  <2> QED
    BY <1>3, <2>1, <2>2, <2>3, <2>4, ZenonT(30) DEF FreshAt
<1>5. pending' \in Seq(Frames) /\ Len(pending') = n
  BY <1>3, <1>4
<1>6. Distinct(pending')
  <2> SUFFICES ASSUME NEW i \in 1 .. n, NEW j \in 1 .. n, pending'[i].id = pending'[j].id
               PROVE  i = j
    BY <1>4, Zenon DEF Distinct
  <2>1. /\ kept[i] \in DOMAIN pending /\ kept[j] \in DOMAIN pending
        /\ pending[kept[i]].id = pending[kept[j]].id
    BY <1>3, <1>4, Zenon
  <2>2. Distinct(pending)
    BY <1>0, Zenon
  <2>3. kept[i] = kept[j]
    BY <2>1, <2>2, Zenon DEF Distinct
  <2> QED
    BY <1>4, <2>3, SMTT(30)
<1>7. IdsOf(pending') \subseteq IdsOf(pending) /\ IdsOf(pending) \subseteq Nat
  <2>1. \A i \in 1 .. n : pending'[i].id \in IdsOf(pending)
    BY <1>0, <1>4, IdsAreNat, ZenonT(30)
  <2> QED
    BY <1>0, <1>4, <2>1, IdsAreNat, ZenonT(30) DEF IdsOf
<1>8. Parts(IdsOf(pending'), IdsOf(got), gone["peeled"] \cup w, gone["lost"], Fetched)
  <2>1. w \in SUBSET IdsOf(pending) /\ IdsOf(pending') = IdsOf(pending) \ w /\ w \subseteq Nat
    BY <1>7, Zenon
  <2> HIDE DEF w
  <2>2. Parts(IdsOf(pending) \ w, IdsOf(got), gone["peeled"] \cup w, gone["lost"], Fetched)
    BY <1>0, <2>1, PartsMove, Zenon
  <2> QED
    BY <2>1, <2>2, Zenon
<1>9. w \subseteq Nat
  BY <1>7
<1> HIDE DEF w
<1>10. /\ gone' \in [{"peeled", "lost"} -> SUBSET Nat]
       /\ gone'["lost"] = gone["lost"] /\ gone'["peeled"] = gone["peeled"] \cup w
  BY <1>0, <1>1, <1>9, Zenon
<1>11. Fetched' = Fetched
  BY <1>1 DEF Fetched
<1>12. Places'
  BY <1>0, <1>1, <1>6, <1>8, <1>10, <1>11, ZenonT(30) DEF Places
<1>13. QueueTypes'
  BY <1>0, <1>1, <1>4, <1>5, <1>10, SMTT(30) DEF QueueInv, QueueTypes
<1>14. WireTail' /\ Counted'
  BY <1>1, <1>10, <1>11, SMTT(30) DEF QueueInv, WireTail, Counted
<1>15. InOrder'
  BY <1>0, <1>1, <1>4, <1>5, <1>7, SMTT(30) DEF QueueInv, InOrder
<1> QED
  BY <1>10, <1>12, <1>13, <1>14, <1>15, NoneLost, SMTT(30) DEF QueueInv

(* ... then frame by frame: there is room for the one that is put back. *)
LEMMA PeelFrameKeeps ==
  ASSUME NEW q \in Seq(Frames), Distinct(q), Len(q) < MaxPending,
         NEW f \in Frames, f.id \notin IdsOf(q), NEW n,
         Parts(IdsOf(q) \cup {f.id}, IdsOf(got), gone["peeled"], gone["lost"], n),
         gone \in [{"peeled", "lost"} -> SUBSET Nat], dropped \in Nat, PeelFrame(f, q)
  PROVE  /\ pending' \in Seq(Frames) /\ Distinct(pending') /\ Len(pending') <= Len(q) + 1
         /\ IdsOf(pending') \subseteq IdsOf(q) \cup {f.id}
         /\ gone' \in [{"peeled", "lost"} -> SUBSET Nat]
         /\ gone'["lost"] = gone["lost"] /\ dropped' = dropped
         /\ Parts(IdsOf(pending'), IdsOf(got), gone'["peeled"], gone'["lost"], n)
<1>0. f.id \in Nat /\ Len(q) \in Nat /\ MaxPending \in Nat
  BY InboundAssumption DEF Frames
<1>1. CASE IsStalePending(f)
  <2>1. pending' = q /\ gone' = [gone EXCEPT !["peeled"] = @ \cup {f.id}] /\ dropped' = dropped
    BY <1>1 DEF PeelFrame
  <2>2. /\ gone' \in [{"peeled", "lost"} -> SUBSET Nat]
        /\ gone'["lost"] = gone["lost"] /\ gone'["peeled"] = gone["peeled"] \cup {f.id}
    BY <1>0, <2>1
  <2> DEFINE S == IdsOf(q) \cup {f.id}
  <2>3. {f.id} \in SUBSET S /\ S \ {f.id} = IdsOf(q) /\ IdsOf(q) \subseteq S
    BY Zenon
  <2>4. Parts(S, IdsOf(got), gone["peeled"], gone["lost"], n)
    BY Zenon
  <2> HIDE DEF S
  <2>5. Parts(S \ {f.id}, IdsOf(got), gone["peeled"] \cup {f.id}, gone["lost"], n)
    BY <2>3, <2>4, PartsMove, Zenon
  <2>6. Parts(IdsOf(pending'), IdsOf(got), gone'["peeled"], gone'["lost"], n)
    BY <2>1, <2>2, <2>3, <2>5, Zenon
  <2>7. Len(pending') <= Len(q) + 1
    BY <1>0, <2>1
  <2> QED
    BY <2>1, <2>2, <2>3, <2>6, <2>7, Zenon DEF S
<1>2. CASE ~IsStalePending(f)
  <2>1. Len(q) <= MaxPending
    BY <1>0
  <2>2. Enqueued(q, f) = Append(q, f) /\ Victims(q, f) = {}
    BY <2>1, EnqueuedDrops
  <2>3. /\ pending' = Append(q, f) /\ dropped' = dropped + Cardinality({})
        /\ gone' = [gone EXCEPT !["lost"] = @ \cup {}]
    BY <1>2, <2>2, Zenon DEF PeelFrame, Enqueue
  <2>4. gone' = gone /\ dropped' = dropped
    BY <2>3, FS_EmptySet
  <2>5. /\ pending' \in Seq(Frames) /\ Len(pending') = Len(q) + 1 /\ Distinct(pending')
        /\ IdsOf(pending') = IdsOf(q) \cup {f.id}
    BY <2>3, AppendIds, Zenon
  <2>6. Len(pending') <= Len(q) + 1
    BY <1>0, <2>5
  <2> QED
    BY <2>4, <2>5, <2>6, Zenon
<1> QED
  BY <1>1, <1>2, SMTT(30)

(* The number of lost frames is a number. *)
LEMMA DroppedType ==
  ASSUME QueueInv
  PROVE  IsFiniteSet(gone["lost"]) /\ IsFiniteSet(gone["peeled"]) /\ dropped \in Nat
<1>1. gone["lost"] \subseteq 1 .. Fetched /\ gone["peeled"] \subseteq 1 .. Fetched
  BY Zenon DEF QueueInv, Places, Parts
<1>2. IsFiniteSet(1 .. Fetched)
  BY FetchedType, FS_Interval
<1>3. IsFiniteSet(gone["lost"]) /\ IsFiniteSet(gone["peeled"])
  BY <1>1, <1>2, FS_Subset, Zenon
<1> QED
  BY <1>3, FS_CardinalityType, Zenon DEF QueueInv, Counted

(* The peel takes a frame from the queue. *)
LEMMA PeelQueuedKeeps ==
  ASSUME QueueInv, PeelQueued
  PROVE  QueueInv' /\ GivesNormal
<1> DEFINE f == Head(pending)
<1> DEFINE q == Tail(pending)
<1>0. /\ pending \in Seq(Frames) /\ got \in Seq(Frames) /\ Distinct(pending) /\ Distinct(got)
      /\ Parts(IdsOf(pending), IdsOf(got), gone["peeled"], gone["lost"], Fetched)
      /\ Len(pending) <= MaxPending /\ gone \in [{"peeled", "lost"} -> SUBSET Nat]
      /\ MaxPending \in Nat /\ Len(pending) \in Nat
  BY InboundAssumption DEF QueueInv, QueueTypes, Places
<1>1. pending # <<>> /\ PeelFrame(f, q) /\ UNCHANGED <<wire, sent, got, pushed>>
  BY Zenon DEF PeelQueued
<1>2. /\ f \in Frames /\ f.id \in IdsOf(pending)
      /\ q \in Seq(Frames) /\ Len(q) = Len(pending) - 1 /\ Distinct(q)
      /\ IdsOf(q) = IdsOf(pending) \ {f.id}
  BY <1>0, <1>1, TailIds
<1> HIDE DEF f, q
<1>3. f.id \notin IdsOf(q) /\ IdsOf(q) \cup {f.id} = IdsOf(pending) /\ Len(q) < MaxPending
  BY <1>0, <1>2
<1>4. /\ pending' \in Seq(Frames) /\ Distinct(pending') /\ Len(pending') <= Len(q) + 1
      /\ IdsOf(pending') \subseteq IdsOf(q) \cup {f.id}
      /\ gone' \in [{"peeled", "lost"} -> SUBSET Nat]
      /\ gone'["lost"] = gone["lost"] /\ dropped' = dropped
      /\ Parts(IdsOf(pending'), IdsOf(got), gone'["peeled"], gone'["lost"], Fetched)
  BY <1>0, <1>1, <1>2, <1>3, DroppedType, PeelFrameKeeps, Zenon
<1>5. Fetched' = Fetched
  BY <1>1, Zenon DEF Fetched
<1>6. Len(pending') <= Len(pending) /\ IdsOf(pending') \subseteq IdsOf(pending) /\ Len(pending') \in Nat
  BY <1>0, <1>2, <1>3, <1>4
<1>7. Places'
  BY <1>0, <1>1, <1>4, <1>5, Zenon DEF Places
<1>8. QueueTypes'
  BY <1>0, <1>1, <1>4, <1>6, SMTT(30) DEF QueueInv, QueueTypes
<1>9. WireTail' /\ Counted'
  BY <1>1, <1>4, <1>5 DEF QueueInv, WireTail, Counted
<1>10. InOrder'
  BY <1>0, <1>1, <1>6 DEF QueueInv, InOrder
<1> QED
  BY <1>4, <1>7, <1>8, <1>9, <1>10, NoneLost, SMTT(30) DEF QueueInv

(* The peel takes a frame from the socket. *)
LEMMA PeelSocketKeeps ==
  ASSUME QueueInv, PeelSocket
  PROVE  QueueInv' /\ GivesNormal
<1> DEFINE f == DecodeMessage(Head(wire))
<1>0. /\ got \in Seq(Frames) /\ Distinct(got)
      /\ Parts(IdsOf(pending), IdsOf(got), gone["peeled"], gone["lost"], Fetched)
      /\ gone \in [{"peeled", "lost"} -> SUBSET Nat]
      /\ MaxPending \in Nat /\ MaxPending > 0
  BY InboundAssumption DEF QueueInv, QueueTypes, Places
<1>1. /\ pending = <<>> /\ wire # <<>> /\ wire' = Tail(wire) /\ PeelFrame(f, <<>>)
      /\ UNCHANGED <<sent, got, pushed>>
  BY Zenon DEF PeelSocket
<1>2. /\ f \in Frames /\ f.id = Fetched + 1 /\ Fetched \in Nat /\ Fetched' = Fetched + 1
      /\ wire' \in Seq(Frames) /\ Len(wire') <= sent' /\ WireTail'
  BY <1>1, OffWire
<1> HIDE DEF f
<1>3. Parts(IdsOf(<<>>) \cup {f.id}, IdsOf(got), gone["peeled"], gone["lost"], Fetched')
  <2>1. Parts(IdsOf(pending) \cup {Fetched + 1}, IdsOf(got), gone["peeled"], gone["lost"],
              Fetched + 1)
    BY <1>0, <1>2, PartsGrow, Zenon
  <2> QED
    BY <1>1, <1>2, <2>1, Zenon
<1>4. /\ <<>> \in Seq(Frames) /\ Len(<<>>) = 0 /\ IdsOf(<<>>) = {} /\ Distinct(<<>>)
      /\ Len(<<>>) < MaxPending /\ f.id \notin IdsOf(<<>>)
  BY <1>0 DEF IdsOf, Distinct
<1>5. /\ pending' \in Seq(Frames) /\ Distinct(pending') /\ Len(pending') <= Len(<<>>) + 1
      /\ IdsOf(pending') \subseteq IdsOf(<<>>) \cup {f.id}
      /\ gone' \in [{"peeled", "lost"} -> SUBSET Nat]
      /\ gone'["lost"] = gone["lost"] /\ dropped' = dropped
      /\ Parts(IdsOf(pending'), IdsOf(got), gone'["peeled"], gone'["lost"], Fetched')
  BY <1>0, <1>1, <1>2, <1>3, <1>4, DroppedType, PeelFrameKeeps, Zenon
<1>6. Len(pending') <= 1 /\ IdsOf(pending') \subseteq {Fetched + 1} /\ Len(pending') \in Nat
  BY <1>2, <1>4, <1>5
<1>7. Places'
  BY <1>0, <1>1, <1>5, Zenon DEF Places
<1>8. QueueTypes'
  BY <1>0, <1>1, <1>2, <1>5, <1>6, SMTT(30) DEF QueueInv, QueueTypes
<1>9. Counted'
  BY <1>1, <1>5 DEF QueueInv, Counted
<1>10. InOrder'
  <2>1. \A i \in DOMAIN got : got[i].id \in 1 .. Fetched
    BY <1>0, IdsAreNat DEF Parts
  <2>2. \A i \in DOMAIN got, n \in IdsOf(pending') : got[i].id < n
    BY <1>2, <1>6, <2>1
  <2> QED
    BY <1>1, <1>6, <2>2 DEF QueueInv, InOrder
<1> QED
  BY <1>2, <1>5, <1>7, <1>8, <1>9, <1>10, NoneLost DEF QueueInv

(* The daemon sends the next frame. *)
LEMMA DaemonSendsKeeps ==
  ASSUME QueueInv, NEW k \in Kinds, NEW l \in Loops, DaemonSends(k, l)
  PROVE  QueueInv' /\ GivesNormal
<1> DEFINE f == [type |-> k.type, mode |-> k.mode, data |-> k.data, wrapped |-> k.wrapped,
                 loop |-> l, turn |-> NoID, id |-> sent']
<1>1. /\ wire' = Append(wire, f) /\ sent' = sent + 1
      /\ UNCHANGED <<pending, dropped, got, pushed, gone>>
  BY Zenon DEF DaemonSends, queueVars
<1>2. /\ wire \in Seq(Frames) /\ sent \in Nat /\ Len(wire) <= sent /\ Len(wire) \in Nat
      /\ \A i \in DOMAIN wire : wire[i].id = Fetched + i
  BY DEF QueueInv, QueueTypes, WireTail
<1>3. f \in Frames /\ f.id = sent + 1
  <2>1. sent' \in Nat
    BY <1>1, <1>2
  <2>2. /\ k.type \in {x.type : x \in Kinds} \cup {"event"}
        /\ k.mode \in {x.mode : x \in Kinds} \cup {x.type : x \in Kinds}
        /\ k.data \in {x.data : x \in Kinds}
        /\ k.wrapped \in {x.wrapped : x \in Kinds} \cup {FALSE}
    BY Zenon
  <2>3. f \in Frames
    BY <2>1, <2>2, Zenon DEF Frames
  <2> QED
    BY <1>1, <2>3, Zenon
<1> HIDE DEF f
<1>4. /\ wire' \in Seq(Frames) /\ Len(wire') = Len(wire) + 1 /\ DOMAIN wire' = 1 .. Len(wire) + 1
      /\ \A i \in 1 .. Len(wire) : wire'[i] = wire[i] /\ i \in DOMAIN wire
      /\ wire'[Len(wire) + 1] = f
  BY <1>1, <1>2, <1>3
<1>5. Fetched' = Fetched /\ Len(wire') <= sent'
  BY <1>1, <1>2, <1>4 DEF Fetched
<1>6. WireTail'
  <2> SUFFICES ASSUME NEW i \in 1 .. Len(wire) + 1 PROVE wire'[i].id = Fetched + i
    BY <1>4, <1>5 DEF WireTail
  <2>1. CASE i = Len(wire) + 1
    BY <1>2, <1>3, <1>4, <2>1 DEF Fetched
  <2>2. CASE i # Len(wire) + 1
    BY <1>2, <1>4, <2>2, SMTT(30)
  <2> QED
    BY <2>1, <2>2
<1>7. QueueTypes'
  BY <1>1, <1>2, <1>4, <1>5 DEF QueueInv, QueueTypes
<1>8. Places'
  BY <1>1, <1>5, Zenon DEF QueueInv, Places
<1>9. Counted' /\ InOrder'
  BY <1>1, Zenon DEF QueueInv, Counted, InOrder
<1> QED
  BY <1>1, <1>6, <1>7, <1>8, <1>9, NoneLost DEF QueueInv

(* A step keeps the invariant and gives up a NORMAL frame first. *)
LEMMA QueueStep ==
  ASSUME QueueInv, [Next]_vars
  PROVE  QueueInv' /\ GivesNormal
<1>1. ASSUME UNCHANGED <<wire, sent, pending, dropped, got, pushed, gone>>
      PROVE  QueueInv' /\ GivesNormal
  <2>1. Fetched' = Fetched
    BY <1>1, Zenon DEF Fetched
  <2>2. QueueTypes' /\ WireTail'
    BY <1>1, <2>1 DEF QueueInv, QueueTypes, WireTail
  <2>3. Places' /\ Counted' /\ InOrder'
    BY <1>1, <2>1, Zenon DEF QueueInv, Places, Counted, InOrder
  <2> QED
    BY <1>1, <2>2, <2>3, NoneLost DEF QueueInv
<1>2. CASE ReadEventPending
  BY <1>2, ReadPendingKeeps DEF ReadEventPending
<1>3. CASE ReadEventSocket
  BY <1>3, ReadSocketKeeps
<1>4. CASE ReadTimedPending
  BY <1>4, ReadPendingKeeps DEF ReadTimedPending
<1>5. CASE ReadTimedOut
  BY <1>1, <1>5, Zenon DEF ReadTimedOut, queueVars
<1>6. CASE PeelPending
  BY <1>6, PeelPendingKeeps, Zenon
<1>7. CASE PeelQueued
  BY <1>7, PeelQueuedKeeps, Zenon
<1>8. CASE PeelSocket
  BY <1>8, PeelSocketKeeps, Zenon
<1>9. CASE PeelEnds
  BY <1>1, <1>9, Zenon DEF PeelEnds
<1>10. ASSUME NEW i \in 1 .. MaxFrames, PushPendingEvent(i) PROVE QueueInv' /\ GivesNormal
  BY <1>10, PushKeeps
<1>11. ASSUME NEW a \in ackers, AckStep(a) PROVE QueueInv' /\ GivesNormal
  <2>1. UNCHANGED <<wire, sent, queueVars>>
    BY <1>11, Zenon DEF AckStep, AckCheck, AckNotify
  <2> QED
    BY <1>1, <2>1, Zenon DEF queueVars
<1>12. ASSUME NEW k \in Kinds, NEW l \in Loops, DaemonSends(k, l) PROVE QueueInv' /\ GivesNormal
  BY <1>12, DaemonSendsKeeps
<1>13. CASE UNCHANGED vars
  BY <1>1, <1>13, Zenon DEF vars, queueVars
<1> QED
  BY <1>2, <1>3, <1>4, <1>5, <1>6, <1>7, <1>8, <1>9, <1>10, <1>11, <1>12, <1>13, Zenon
     DEF Next, Read, Peel

(* The queue is empty at first. *)
LEMMA QueueInit ==
  ASSUME Init
  PROVE  QueueInv
<1>1. /\ wire = <<>> /\ pending = <<>> /\ got = <<>> /\ sent = 0 /\ dropped = 0
      /\ gone = [how \in {"peeled", "lost"} |-> {}] /\ MaxPending \in Nat
  BY InboundAssumption, Zenon DEF Init
<1>2. gone["peeled"] = {} /\ gone["lost"] = {}
  BY <1>1, Zenon
<1>3. IdsOf(<<>>) = {} /\ Distinct(<<>>)
  BY DEF IdsOf, Distinct
<1>4. Fetched = 0 /\ 1 .. Fetched = {}
  <2>1. Len(wire) = 0 /\ sent = 0
    BY <1>1, Zenon
  <2>2. Fetched = 0
    BY <2>1 DEF Fetched
  <2> QED
    BY <2>2
<1>5. Places
  BY <1>1, <1>2, <1>3, <1>4 DEF Places, Parts
<1>6. Counted
  BY <1>1, <1>2, FS_EmptySet DEF Counted
<1>7. QueueTypes /\ WireTail /\ InOrder
  BY <1>1, <1>3 DEF QueueTypes, WireTail, InOrder
<1> QED
  BY <1>5, <1>6, <1>7 DEF QueueInv

(* The frames that have left the wire are in one place each, whatever the    *)
(* application calls.                                                        *)
THEOREM QueueInvariant == Spec => []QueueInv
<1>1. Init => QueueInv
  BY QueueInit, Zenon
<1>2. QueueInv /\ [Next]_vars => QueueInv'
  BY QueueStep, Zenon
<1> QED
  BY <1>1, <1>2, PTL DEF Spec

(* enqueuePendingLocked gives up a CRITICAL or HIGH frame only when there is *)
(* no NORMAL one to give up, for any bound of the queue and any frames.      *)
THEOREM NormalFirst == Spec => NormalGoesFirst
<1>1. QueueInv /\ [Next]_vars => [GivesNormal]_vars
  BY QueueStep, Zenon
<1> QED
  BY <1>1, QueueInvariant, PTL DEF Spec, NormalGoesFirst, GivesNormal

-----------------------------------------------------------------------------
(* The numbers in s go up. *)
Ascends(s) == \A i, j \in DOMAIN s : i < j => s[i].id < s[j].id

(* Two such sequences, one after the other *)
LEMMA AscendsOn ==
  ASSUME NEW s \in Seq(Frames), NEW t \in Seq(Frames), Ascends(s), Ascends(t),
         \A i \in DOMAIN s, j \in DOMAIN t : s[i].id < t[j].id
  PROVE  /\ s \o t \in Seq(Frames) /\ Ascends(s \o t)
         /\ \A i \in DOMAIN (s \o t) : \/ \E j \in DOMAIN s : (s \o t)[i] = s[j]
                                       \/ \E j \in DOMAIN t : (s \o t)[i] = t[j]
<1> DEFINE u == s \o t
<1>1. /\ u \in Seq(Frames) /\ Len(s) \in Nat /\ Len(t) \in Nat
      /\ DOMAIN u = 1 .. Len(s) + Len(t) /\ DOMAIN s = 1 .. Len(s) /\ DOMAIN t = 1 .. Len(t)
  OBVIOUS
<1>2. \A i \in 1 .. Len(s) : u[i] = s[i]
  OBVIOUS
<1>3. \A i \in Len(s) + 1 .. Len(s) + Len(t) : i - Len(s) \in DOMAIN t /\ u[i] = t[i - Len(s)]
  OBVIOUS
<1> HIDE DEF u
<1>4. Ascends(u)
  <2> SUFFICES ASSUME NEW i \in DOMAIN u, NEW j \in DOMAIN u, i < j PROVE u[i].id < u[j].id
    BY Zenon DEF Ascends
  <2>1. CASE j <= Len(s)
    BY <1>1, <1>2, <2>1 DEF Ascends
  <2>2. CASE i <= Len(s) /\ j > Len(s)
    <3>1. i \in DOMAIN s /\ u[i] = s[i]
      BY <1>1, <1>2, <2>2
    <3>2. j \in Len(s) + 1 .. Len(s) + Len(t)
      BY <1>1, <2>2
    <3>3. j - Len(s) \in DOMAIN t /\ u[j] = t[j - Len(s)]
      BY <1>3, <3>2, Zenon
    <3> QED
      BY <3>1, <3>3, Zenon
  <2>3. CASE i > Len(s)
    <3>1. /\ i \in Len(s) + 1 .. Len(s) + Len(t) /\ j \in Len(s) + 1 .. Len(s) + Len(t)
          /\ i - Len(s) < j - Len(s)
      BY <1>1, <2>3
    <3>2. /\ i - Len(s) \in DOMAIN t /\ u[i] = t[i - Len(s)]
          /\ j - Len(s) \in DOMAIN t /\ u[j] = t[j - Len(s)]
      BY <1>3, <3>1, Zenon
    <3> QED
      BY <3>1, <3>2, Zenon DEF Ascends
  <2> QED
    BY <1>1, <2>1, <2>2, <2>3
<1>5. ASSUME NEW i \in DOMAIN u
      PROVE  (\E j \in DOMAIN s : u[i] = s[j]) \/ (\E j \in DOMAIN t : u[i] = t[j])
  <2>1. CASE i <= Len(s)
    BY <1>1, <1>2, <2>1
  <2>2. CASE i > Len(s)
    <3>1. i - Len(s) \in DOMAIN t /\ u[i] = t[i - Len(s)]
      BY <1>1, <1>3, <2>2
    <3> QED
      BY <3>1, Zenon
  <2> QED
    BY <1>1, <2>1, <2>2, SMTT(30)
<1> QED
  BY <1>1, <1>4, <1>5 DEF u

(* The application gets the frames in the order in which the daemon sent     *)
(* them, each once, as long as it pushes none back.                          *)
THEOREM OrderIsKept == Spec => []OrderKept
<1>1. QueueInv => OrderKept
  <2> SUFFICES ASSUME QueueInv, ~pushed PROVE Ascends((got \o pending) \o wire)
    BY Zenon DEF OrderKept, Ascends
  <2>1. /\ got \in Seq(Frames) /\ pending \in Seq(Frames) /\ wire \in Seq(Frames)
        /\ Len(pending) <= 1 /\ Ascends(got)
        /\ \A i \in DOMAIN got, n \in IdsOf(pending) : got[i].id < n
        /\ \A i \in DOMAIN wire : wire[i].id = Fetched + i
        /\ Parts(IdsOf(pending), IdsOf(got), gone["peeled"], gone["lost"], Fetched)
    BY Zenon DEF QueueInv, QueueTypes, InOrder, WireTail, Places, Ascends
  <2>2. Ascends(pending)
    BY <2>1 DEF Ascends
  <2>3. Ascends(wire)
    BY <2>1, FetchedType DEF Ascends
  <2>4. \A i \in DOMAIN got, j \in DOMAIN pending : got[i].id < pending[j].id
    BY <2>1, IdsAreNat, Zenon
  <2> DEFINE u == got \o pending
  <2>5. /\ u \in Seq(Frames) /\ Ascends(u)
        /\ \A i \in DOMAIN u : \/ \E j \in DOMAIN got : u[i] = got[j]
                               \/ \E j \in DOMAIN pending : u[i] = pending[j]
    BY <2>1, <2>2, <2>4, AscendsOn, SMTT(30)
  <2> HIDE DEF u
  <2>6. /\ \A j \in DOMAIN got : got[j].id \in 1 .. Fetched
        /\ \A j \in DOMAIN pending : pending[j].id \in 1 .. Fetched
    BY <2>1, IdsAreNat DEF Parts
  <2>7. \A i \in DOMAIN u : u[i].id \in 1 .. Fetched
    BY <2>5, <2>6, SMTT(30)
  <2>8. \A i \in DOMAIN u, j \in DOMAIN wire : u[i].id < wire[j].id
    BY <2>1, <2>7, FetchedType
  <2>9. Ascends(u \o wire)
    BY <2>1, <2>3, <2>5, <2>8, AscendsOn
  <2> QED
    BY <2>9, Zenon DEF u
<1> QED
  BY <1>1, QueueInvariant, PTL

-----------------------------------------------------------------------------
(* A queue whose frames have different numbers is as long as it has numbers. *)
LEMMA CountIds ==
  ASSUME NEW s \in Seq(Frames), Distinct(s)
  PROVE  IsFiniteSet(IdsOf(s)) /\ Cardinality(IdsOf(s)) = Len(s)
<1> DEFINE m == [i \in 1 .. Len(s) |-> s[i].id]
<1>0. Len(s) \in Nat /\ DOMAIN s = 1 .. Len(s)
  OBVIOUS
<1>1. m \in [1 .. Len(s) -> IdsOf(s)]
  BY <1>0, Zenon DEF IdsOf
<1>2. m \in Injection(1 .. Len(s), IdsOf(s))
  BY <1>0, <1>1, Zenon DEF Injection, IsInjective, Distinct
<1>3. m \in Surjection(1 .. Len(s), IdsOf(s))
  BY <1>0, <1>1, Zenon DEF Surjection, IdsOf
<1>4. ExistsBijection(1 .. Len(s), IdsOf(s))
  BY <1>2, <1>3, Zenon DEF ExistsBijection, Bijection
<1>5. IsFiniteSet(1 .. Len(s)) /\ Cardinality(1 .. Len(s)) = Len(s)
  BY <1>0, FS_Interval, SMTT(30)
<1> QED
  BY <1>4, <1>5, FS_Bijection, Zenon

(* Two disjoint sets *)
LEMMA CountDisjoint ==
  ASSUME NEW S, NEW T, IsFiniteSet(S), IsFiniteSet(T), S \cap T = {}
  PROVE  /\ IsFiniteSet(S \cup T) /\ Cardinality(S \cup T) = Cardinality(S) + Cardinality(T)
         /\ Cardinality(S) \in Nat /\ Cardinality(T) \in Nat
<1>1. Cardinality(S) \in Nat /\ Cardinality(T) \in Nat
  BY FS_CardinalityType, Zenon
<1>2. Cardinality(S \cap T) = 0
  BY FS_EmptySet, Zenon
<1>3. /\ IsFiniteSet(S \cup T)
      /\ Cardinality(S \cup T) = Cardinality(S) + Cardinality(T) - Cardinality(S \cap T)
  BY FS_Union
<1> QED
  BY <1>1, <1>2, <1>3

(* InboundDropped() counts what was lost: no frame is forgotten, none is in  *)
(* two places, whatever the application pushes and peels.                    *)
THEOREM FramesConserved == Spec => []Conservation
<1>1. QueueInv => Conservation
  <2> SUFFICES ASSUME QueueInv PROVE Conservation
    BY Zenon
  <2> DEFINE P == IdsOf(pending)
  <2> DEFINE G == IdsOf(got)
  <2> DEFINE X == gone["peeled"]
  <2> DEFINE L == gone["lost"]
  <2>1. /\ pending \in Seq(Frames) /\ got \in Seq(Frames) /\ wire \in Seq(Frames)
        /\ Distinct(pending) /\ Distinct(got) /\ Parts(P, G, X, L, Fetched)
        /\ dropped = Cardinality(L) /\ sent \in Nat /\ Len(wire) \in Nat /\ Len(wire) <= sent
        /\ gone \in [{"peeled", "lost"} -> SUBSET Nat]
        /\ \A i \in DOMAIN wire : wire[i].id = Fetched + i
    BY DEF QueueInv, QueueTypes, Places, Counted, WireTail
  <2>2. Fetched \in Nat /\ sent = Fetched + Len(wire)
    BY <2>1, FetchedType DEF Fetched
  <2>3. IdsOf(wire) = Fetched + 1 .. sent
    <3>1. ASSUME NEW i \in DOMAIN wire PROVE wire[i].id \in Fetched + 1 .. sent
      BY <2>1, <2>2
    <3>2. ASSUME NEW n \in Fetched + 1 .. sent PROVE \E i \in DOMAIN wire : wire[i].id = n
      <4>1. n - Fetched \in DOMAIN wire /\ wire[n - Fetched].id = Fetched + (n - Fetched)
        BY <2>1, <2>2
      <4>2. Fetched + (n - Fetched) = n
        BY <2>2
      <4> QED
        BY <4>1, <4>2
    <3> QED
      BY <3>1, <3>2 DEF IdsOf
  <2>4. UNION {gone[how] : how \in DOMAIN gone} = X \cup L
    <3>1. DOMAIN gone = {"peeled", "lost"}
      BY <2>1
    <3> QED
      BY <3>1
  <2>5. P \cup G \cup X \cup L = 1 .. Fetched
    BY <2>1, Zenon DEF Parts
  <2>6. IsFiniteSet(P) /\ IsFiniteSet(G) /\ IsFiniteSet(X) /\ IsFiniteSet(L)
    BY <2>1, CountIds, DroppedType, SMTT(30)
  <2>7. Cardinality(P) = Len(pending) /\ Cardinality(G) = Len(got)
    BY <2>1, CountIds
  <2>8. Cardinality(1 .. Fetched) = Fetched
    BY <2>2, FS_Interval
  <2>9. P \cap G = {} /\ (P \cup G) \cap X = {} /\ (P \cup G \cup X) \cap L = {}
    BY <2>1, Zenon DEF Parts
  <2>10. (1 .. Fetched) \cup (Fetched + 1 .. sent) = 1 .. sent
    BY <2>1, <2>2
  <2> HIDE DEF P, G, X, L
  <2>11. IdsOf(wire) \cup P \cup G \cup (X \cup L) = 1 .. sent
    <3>1. IdsOf(wire) \cup P \cup G \cup (X \cup L) = (P \cup G \cup X \cup L) \cup IdsOf(wire)
      BY Zenon
    <3> QED
      BY <2>3, <2>5, <2>10, <3>1, Zenon
  <2>12. /\ IsFiniteSet(P \cup G) /\ Cardinality(P \cup G) = Cardinality(P) + Cardinality(G)
         /\ Cardinality(P) \in Nat /\ Cardinality(G) \in Nat
    BY <2>6, <2>9, CountDisjoint, Zenon
  <2>13. /\ IsFiniteSet(P \cup G \cup X) /\ Cardinality(X) \in Nat
         /\ Cardinality(P \cup G \cup X) = Cardinality(P \cup G) + Cardinality(X)
    BY <2>6, <2>9, <2>12, CountDisjoint, Zenon
  <2>14. /\ Cardinality(P \cup G \cup X \cup L) = Cardinality(P \cup G \cup X) + Cardinality(L)
         /\ Cardinality(L) \in Nat
    BY <2>6, <2>9, <2>13, CountDisjoint, Zenon
  <2>15. Fetched = Cardinality(P \cup G \cup X) + Cardinality(L)
    BY <2>5, <2>8, <2>14, Zenon
  <2>16. Len(wire) + Len(pending) + Len(got) + Cardinality(X) + dropped = sent
    BY <2>1, <2>2, <2>7, <2>12, <2>13, <2>14, <2>15, SMTT(30)
  <2> QED
    BY <2>1, <2>4, <2>11, <2>16, Zenon DEF Conservation, P, G, X, L
<1> QED
  BY <1>1, QueueInvariant, PTL

=============================================================================
