------------------------- MODULE TurnReaders_proofs -------------------------
(***************************************************************************)
(* Proofs about the stream a pooled connection's turns share, for any      *)
(* number of turns and of chunks: what the daemon says comes in the order  *)
(* of the turns, and a chunk in the channel that is not of the turn that   *)
(* reads it was sent after the client had left its turn.  So the chunk     *)
(* that arms a turn puts all leftovers of earlier turns behind it.         *)
(*                                                                         *)
(* The second part is about IterTurnChunks (module DaemonTurn), which      *)
(* reads the same frames by the same rules for a DaemonSession: the order  *)
(* of what it yields.  The third shows that a turn it reads to its end is  *)
(* complete: OwnInv follows a turn from SendTurn to the end of the drain.  *)
(***************************************************************************)
EXTENDS TurnStream, DaemonTurn, TLAPS

(* The generations of the turns that were sent *)
Known(g) == g <= turn /\ (pc = "send" => g < turn)

(* The daemon takes the turns in the order they were sent. *)
AllKnown ==
  /\ \A i \in 1 .. Len(eventCh) : Known(eventCh[i].gen)
  /\ query # NoID => Known(query)
  /\ \A k \in 1 .. Len(inbox) : Known(inbox[k].gen)
Sorted == \A i, j \in 1 .. Len(eventCh) : i < j => eventCh[i].gen <= eventCh[j].gen
QueryLast == query # NoID => \A i \in 1 .. Len(eventCh) : eventCh[i].gen <= query
InputsAhead ==
  \A k \in 1 .. Len(inbox) : inbox[k].kind = "input" =>
    /\ \A i \in 1 .. Len(eventCh) : eventCh[i].gen < inbox[k].gen
    /\ query < inbox[k].gen
    /\ \A l \in 1 .. Len(inbox) :
         k < l /\ inbox[l].kind = "input" => inbox[k].gen < inbox[l].gen
InOrder == AllKnown /\ Sorted /\ QueryLast /\ InputsAhead

(* The daemon is in a phase of the turn it works on. *)
Working == phase # "none" <=> query # NoID

(* A turn that was sent has a number. *)
Started == pc # "idle" => turn \in Gens

(* A chunk in the channel is of the turn that reads it, or came late. *)
ChunksOwn ==
  \A i \in 1 .. Len(eventCh) :
    eventCh[i].kind \in Chunks => eventCh[i].gen \in late \/ (pc = "stream" /\ eventCh[i].gen = turn)

(* Some earlier turn had a chunk sent after the client had left it. *)
Stray(g) == \E h \in late : h < g

(* An armed turn has all that is left of earlier turns behind it. *)
ArmedOwn ==
  pc = "stream" /\ armed /\ ~Stray(turn) =>
    /\ \A i \in 1 .. Len(eventCh) : eventCh[i].gen = turn
    /\ query \in {NoID, turn}
    /\ \A k \in 1 .. Len(inbox) : inbox[k].kind # "input"

TextOwn == pc = "stream" => content \subseteq {turn} \cup late

StreamInv ==
  /\ StreamTypeOK /\ Working /\ Started /\ InOrder /\ ChunksOwn /\ ArmedOwn /\ TextOwn
  /\ EndsOnOwnFrame /\ ReplyIsOwn

-----------------------------------------------------------------------------
(* Sequences *)

(* t is what is left of s when its first frames are gone. *)
Rest(t, s) ==
  \E d \in 0 .. Len(s) :
    /\ Len(t) = Len(s) - d
    /\ \A i \in 1 .. Len(t) : i + d \in 1 .. Len(s) /\ t[i] = s[i + d]

(* What remains of a sequence after some of its front is taken *)
LEMMA RestSame ==
  ASSUME NEW S, NEW s \in Seq(S)
  PROVE  Rest(s, s)
<1>1. Len(s) \in Nat
  OBVIOUS
<1>2. 0 \in 0 .. Len(s) /\ \A i \in 1 .. Len(s) : i + 0 = i
  BY <1>1
<1> QED
  BY <1>1, <1>2 DEF Rest

(* All of it may be taken, *)
LEMMA RestNone ==
  ASSUME NEW S, NEW s \in Seq(S)
  PROVE  Rest(<<>>, s)
<1>1. Len(s) \in Nat /\ Len(<<>>) = 0
  OBVIOUS
<1>2. Len(s) \in 0 .. Len(s) /\ Len(<<>>) = Len(s) - Len(s) /\ 1 .. Len(<<>>) = {}
  BY <1>1
<1> QED
  BY <1>2, Zenon DEF Rest

(* Head and Tail *)
LEMMA TailFacts ==
  ASSUME NEW S, NEW s \in Seq(S), s # <<>>
  PROVE  /\ Tail(s) \in Seq(S) /\ Len(s) \in Nat /\ Len(s) >= 1
         /\ Head(s) = s[1] /\ Head(s) \in S
         /\ Len(Tail(s)) = Len(s) - 1
         /\ \A i \in 1 .. Len(Tail(s)) : i + 1 \in 1 .. Len(s) /\ Tail(s)[i] = s[i + 1]
OBVIOUS

(* or one. *)
LEMMA RestTail ==
  ASSUME NEW S, NEW s \in Seq(S), s # <<>>
  PROVE  Rest(Tail(s), s)
<1>1. 1 \in 0 .. Len(s)
  BY TailFacts
<1> QED
  BY <1>1, TailFacts, Zenon DEF Rest

(* Append *)
LEMMA AppendFacts ==
  ASSUME NEW S, NEW s \in Seq(S), NEW e \in S
  PROVE  /\ Append(s, e) \in Seq(S) /\ Len(s) \in Nat
         /\ Len(Append(s, e)) = Len(s) + 1
         /\ Append(s, e)[Len(s) + 1] = e
         /\ \A i \in 1 .. Len(s) : Append(s, e)[i] = s[i]
         /\ \A i \in 1 .. Len(s) + 1 : i \in 1 .. Len(s) \/ i = Len(s) + 1
OBVIOUS

-----------------------------------------------------------------------------
(* Types *)

Gates == [sawRunning : BOOLEAN, sawTurnProgress : BOOLEAN, expected : Gens \cup {NoID}]

(* The gate after a frame is a gate. *)
LEMMA ObserveType ==
  ASSUME NEW g \in Gates, NEW f \in Frames
  PROVE  Observe(g, f) \in Gates
BY Zenon DEF Observe, ObserveRunning, Gates, Frames, IsProgressChunk, Chunks, Gens, NoID

Results ==
  [how : {"none", "completed", "failed", "timeout", "cancelled"},
   by : Gens \cup {NoID}, text : SUBSET Gens]
Requests == [kind : {"input", "cancel"}, gen : Gens]

RunTypes ==
  /\ turn \in 0 .. MaxTurns /\ pc \in {"idle", "send", "stream"} /\ armed \in BOOLEAN
  /\ gate \in Gates /\ content \subseteq Gens /\ result \in [Gens -> Results]
DaemonTypes ==
  /\ inbox \in Seq(Requests)
  /\ query \in Gens \cup {NoID}
  /\ phase \in {"none", "admitted", "running", "closing"}
  /\ chunks \in [n : 0 .. MaxChunks, progress : BOOLEAN]
  /\ closed \subseteq Gens /\ mute \subseteq closed /\ late \subseteq Gens

(* The type invariant in three parts *)
LEMMA Types ==
  /\ StreamTypeOK <=> RunTypes /\ DaemonTypes /\ eventCh \in Seq(Frames)
  /\ StreamTypeOK' <=> RunTypes' /\ DaemonTypes' /\ eventCh' \in Seq(Frames)
BY Zenon DEF StreamTypeOK, RunTypes, DaemonTypes, Gates, Results, Requests

(* Turns are numbered from 1. *)
LEMMA Numbers ==
  /\ MaxTurns \in Nat /\ MaxChunks \in Nat /\ NoID = 0 /\ NoID \notin Gens
  /\ \A g \in Gens : g \in Nat /\ g >= 1 /\ g <= MaxTurns
BY StreamAssumption DEF Gens, NoID

(* The frame that runTurn reads *)
LEMMA FrameFacts ==
  ASSUME StreamTypeOK, Streaming
  PROVE  /\ NextEvent \in Frames /\ NextEvent = eventCh[1] /\ Tail(eventCh) \in Seq(Frames)
         /\ NextEvent.gen \in Gens /\ Observed \in Gates
         /\ Text \subseteq Gens /\ content \subseteq Text
<1>1. eventCh \in Seq(Frames) /\ eventCh # <<>> /\ gate \in Gates /\ content \subseteq Gens
  BY Types, Zenon DEF Streaming, RunTypes
<1>2. NextEvent \in Frames /\ NextEvent = eventCh[1] /\ Tail(eventCh) \in Seq(Frames)
  BY <1>1, TailFacts, Zenon DEF NextEvent
<1>3. NextEvent.gen \in Gens
  BY <1>2, Zenon DEF Frames
<1> QED
  BY <1>1, <1>2, <1>3, ObserveType, Zenon DEF Observed, Text

(* A turn that returns drains the channel. *)
LEMMA ReturnType ==
  ASSUME StreamTypeOK, turn \in Gens,
         NEW how \in {"completed", "failed", "timeout", "cancelled"},
         NEW by \in Gens \cup {NoID}, NEW text \in SUBSET Gens,
         ReturnTurn(how, by, text)
  PROVE  /\ result' \in [Gens -> Results] /\ pc' = "idle" /\ eventCh' = <<>>
         /\ eventCh' \in Seq(Frames)
<1>1. [how |-> how, by |-> by, text |-> text] \in Results
  BY Zenon DEF Results
<1> QED
  BY <1>1, Types DEF ReturnTurn, RunTypes

(* Every step keeps the types and the place of the turn. *)
LEMMA TypeStep ==
  ASSUME StreamTypeOK, Working, Started, StreamNext
  PROVE  StreamTypeOK' /\ Working' /\ Started'
<1>0. RunTypes /\ DaemonTypes /\ eventCh \in Seq(Frames)
  BY Types, Zenon
<1>a. MaxTurns \in Nat /\ MaxChunks \in Nat
  BY Numbers, Zenon
<1>1. CASE Drain
  <2>1. turn + 1 \in 0 .. MaxTurns /\ turn + 1 \in Gens
    BY <1>0, <1>1, <1>a DEF Drain, RunTypes, Gens
  <2> QED
    BY <1>0, <1>1, <2>1, Types DEF Drain, RunTypes, DaemonTypes, daemonSide, Working, Started
<1>2. CASE SendInput
  <2>1. [kind |-> "input", gen |-> turn] \in Requests
    BY <1>2, Zenon DEF SendInput, Started, Requests
  <2>2. inbox' \in Seq(Requests)
    BY <1>0, <1>2, <2>1, AppendFacts, Zenon DEF SendInput, DaemonTypes
  <2>3. NewGate \in Gates
    BY Zenon DEF NewGate, Gates
  <2> QED
    BY <1>0, <1>2, <2>2, <2>3, Types, Zenon DEF SendInput, RunTypes, DaemonTypes, Working, Started
<1>3. CASE DiscardStale \/ TrackRunning \/ ConsumeEvent
  <2>1. Streaming /\ eventCh' = Tail(eventCh) /\ UNCHANGED <<turn, pc, result, daemonSide>>
    BY <1>3, Zenon DEF DiscardStale, TrackRunning, ConsumeEvent, ForTurn, runVars
  <2>2. gate' \in Gates /\ armed' \in BOOLEAN /\ content' \subseteq Gens
    BY <1>0, <1>3, <2>1, FrameFacts, Zenon
    DEF DiscardStale, TrackRunning, ConsumeEvent, Observed, RunTypes, runVars
  <2> QED
    BY <1>0, <2>1, <2>2, FrameFacts, Types, Zenon DEF RunTypes, DaemonTypes, daemonSide, Working, Started
<1>4. CASE EarlyComplete \/ BoundaryEnds \/ EventFails
  <2>1. /\ Streaming /\ turn \in Gens /\ UNCHANGED <<turn, daemonSide>>
        /\ armed' = TRUE /\ gate' = Observed /\ content' \in {Text, content}
        /\ \E how \in {"completed", "failed"}, text \in {Text, content} : ReturnTurn(how, NextEvent.gen, text)
    BY <1>4, Zenon
    DEF EarlyComplete, BoundaryEnds, EventFails, ForTurn, Streaming, Started
  <2>2. result' \in [Gens -> Results] /\ pc' = "idle" /\ eventCh' \in Seq(Frames)
    BY <1>0, <2>1, FrameFacts, ReturnType, Zenon DEF RunTypes
  <2> QED
    BY <1>0, <2>1, <2>2, FrameFacts, Types, Zenon DEF RunTypes, DaemonTypes, daemonSide, Working, Started
<1>5. CASE Timeout \/ Cancel
  <2>1. /\ turn \in Gens /\ inbox' = Append(inbox, [kind |-> "cancel", gen |-> turn])
        /\ ReturnTurn("timeout", NoID, content) \/ ReturnTurn("cancelled", NoID, content)
        /\ UNCHANGED <<turn, armed, gate, content, query, phase, chunks, closed, mute, late>>
    BY <1>5, Zenon DEF Timeout, Cancel, Started
  <2>2. [kind |-> "cancel", gen |-> turn] \in Requests
    BY <2>1, Zenon DEF Requests
  <2>3. inbox' \in Seq(Requests)
    BY <1>0, <2>1, <2>2, AppendFacts, Zenon DEF DaemonTypes
  <2>4. result' \in [Gens -> Results] /\ pc' = "idle" /\ eventCh' \in Seq(Frames)
    BY <1>0, <2>1, ReturnType, Zenon DEF RunTypes
  <2> QED
    BY <1>0, <2>1, <2>3, <2>4, Types, Zenon DEF RunTypes, DaemonTypes, Working, Started
<1>6. CASE Admit
  <2>1. Head(inbox) \in Requests /\ Tail(inbox) \in Seq(Requests)
    BY <1>0, <1>6, TailFacts, Zenon DEF Admit, DaemonTypes
  <2>2. Head(inbox).gen \in Gens /\ Head(inbox).gen # NoID
    BY <2>1, Numbers, Zenon DEF Requests
  <2>3. [n |-> 0, progress |-> FALSE] \in [n : 0 .. MaxChunks, progress : BOOLEAN]
    BY <1>a
  <2> QED
    BY <1>0, <1>6, <2>1, <2>2, <2>3, Types, Zenon
    DEF Admit, RunTypes, DaemonTypes, runVars, Working, Started
<1>7. CASE EmitRunning \/ EmitEnd \/ EmitIdle \/ \E kind \in Chunks : EmitChunk(kind)
  <2>1. query \in Gens
    BY <1>0, <1>7, Zenon DEF EmitRunning, EmitEnd, EmitIdle, EmitChunk, Working, DaemonTypes
  <2>2. PICK kind \in Chunks \cup {"running", "end", "idle"} : EmitFrame(kind)
    BY <1>7, Zenon DEF EmitRunning, EmitEnd, EmitIdle, EmitChunk
  <2>3. [kind |-> kind, gen |-> query] \in Frames
    BY <2>1, Zenon DEF Frames
  <2>4. eventCh' \in Seq(Frames)
    BY <1>0, <2>2, <2>3, AppendFacts, Zenon DEF EmitFrame
  <2>5. UNCHANGED <<runVars, inbox>>
    BY <1>7, Zenon DEF EmitRunning, EmitEnd, EmitIdle, EmitChunk
  <2>6. chunks' \in [n : 0 .. MaxChunks, progress : BOOLEAN]
    <3>1. CASE \E k \in Chunks : EmitChunk(k)
      <4>1. PICK k \in Chunks : EmitChunk(k)
        BY <3>1, Zenon
      <4>2. chunks.n \in 0 .. MaxChunks /\ chunks.progress \in BOOLEAN /\ chunks.n < MaxChunks
        BY <1>0, <4>1, Zenon DEF EmitChunk, DaemonTypes
      <4>3. chunks.n + 1 \in 0 .. MaxChunks
        BY <1>a, <4>2
      <4> QED
        BY <4>1, <4>2, <4>3, Zenon DEF EmitChunk
    <3>2. CASE UNCHANGED chunks
      BY <1>0, <3>2, Zenon DEF DaemonTypes
    <3> QED
      BY <1>7, <3>1, <3>2, Zenon DEF EmitRunning, EmitEnd, EmitIdle
  <2>7. /\ query' \in Gens \cup {NoID} /\ phase' \in {"none", "admitted", "running", "closing"}
        /\ closed' \subseteq Gens /\ mute' \subseteq closed' /\ late' \subseteq Gens
        /\ Working'
    BY <1>0, <1>7, <2>1, Zenon DEF EmitRunning, EmitEnd, EmitIdle, EmitChunk, DaemonTypes, Working
  <2> QED
    BY <1>0, <2>4, <2>5, <2>6, <2>7, Types, Zenon DEF RunTypes, DaemonTypes, runVars, Started
<1>8. CASE EmitStopped
  <2>1. Tail(inbox) \in Seq(Requests)
    BY <1>0, <1>8, TailFacts, Zenon DEF EmitStopped, DaemonTypes
  <2>2. eventCh' \in Seq(Frames)
    <3>1. CASE query = NoID
      BY <1>0, <1>8, <3>1, Zenon DEF EmitStopped
    <3>2. CASE query # NoID
      <4>1. [kind |-> "stopped", gen |-> query] \in Frames
        BY <1>0, <3>2, Zenon DEF Frames, DaemonTypes
      <4> QED
        BY <1>0, <1>8, <3>2, <4>1, AppendFacts, SMTT(30) DEF EmitStopped, EmitFrame
    <3> QED
      BY <3>1, <3>2, Zenon
  <2>3. closed' \subseteq Gens /\ mute' \subseteq closed'
    BY <1>0, <1>8, Zenon DEF EmitStopped, DaemonTypes
  <2> QED
    BY <1>0, <1>8, <2>1, <2>2, <2>3, Types, Zenon
    DEF EmitStopped, RunTypes, DaemonTypes, runVars, Working, Started
<1> QED
  BY <1>1, <1>2, <1>3, <1>4, <1>5, <1>6, <1>7, <1>8, Zenon DEF StreamNext, ReadStep, DaemonStep

-----------------------------------------------------------------------------
(* The order of the stream *)

(* The numbers in the state *)
LEMMA Values ==
  ASSUME StreamTypeOK
  PROVE  /\ turn \in Nat /\ query \in Nat /\ Len(eventCh) \in Nat /\ Len(inbox) \in Nat
         /\ \A i \in 1 .. Len(eventCh) : eventCh[i] \in Frames /\ eventCh[i].gen \in Nat
         /\ \A k \in 1 .. Len(inbox) : inbox[k] \in Requests /\ inbox[k].gen \in Nat
<1>1. RunTypes /\ DaemonTypes /\ eventCh \in Seq(Frames)
  BY Types, Zenon
<1>2. turn \in Nat /\ query \in Nat
  BY <1>1, Numbers DEF RunTypes, DaemonTypes
<1>3. \A i \in 1 .. Len(eventCh) : eventCh[i] \in Frames /\ eventCh[i].gen \in Nat
  <2>1. \A f \in Frames : f.gen \in Gens
    BY Zenon DEF Frames
  <2> QED
    BY <1>1, <2>1, Numbers
<1>4. \A k \in 1 .. Len(inbox) : inbox[k] \in Requests /\ inbox[k].gen \in Nat
  <2>1. \A m \in Requests : m.gen \in Gens
    BY Zenon DEF Requests
  <2> QED
    BY <1>1, <2>1, Numbers, SMTT(30) DEF DaemonTypes
<1> QED
  BY <1>1, <1>2, <1>3, <1>4 DEF DaemonTypes

(* Reading the channel keeps its order. *)
LEMMA ReadOrder ==
  ASSUME StreamTypeOK, InOrder, Rest(eventCh', eventCh), UNCHANGED <<turn, query, inbox>>,
         pc' = pc \/ pc' = "idle"
  PROVE  InOrder'
<1>1. PICK d \in 0 .. Len(eventCh) :
        /\ Len(eventCh') = Len(eventCh) - d
        /\ \A i \in 1 .. Len(eventCh') :
             i + d \in 1 .. Len(eventCh) /\ eventCh'[i] = eventCh[i + d]
  BY Zenon DEF Rest
<1>2. Len(eventCh) \in Nat /\ d \in Nat /\ Len(eventCh') \in Nat
  BY <1>1, Values
<1>3. AllKnown'
  <2>1. \A g \in Nat : Known(g) => Known(g)'
    BY Zenon DEF Known
  <2>2. ASSUME NEW i \in 1 .. Len(eventCh') PROVE Known(eventCh[i].gen)'
    <3>1. Known(eventCh[i + d].gen) /\ eventCh'[i] = eventCh[i + d]
      BY <1>1, Zenon DEF InOrder, AllKnown
    <3> QED
      BY <3>1, Zenon DEF Known
  <2> QED
    BY <2>2, Zenon DEF InOrder, AllKnown, Known
<1>4. Sorted'
  <2> SUFFICES ASSUME NEW i \in 1 .. Len(eventCh'), NEW j \in 1 .. Len(eventCh'), i < j
               PROVE  eventCh'[i].gen <= eventCh'[j].gen
    BY Zenon DEF Sorted
  <2>1. i + d < j + d
    BY <1>2
  <2> QED
    BY <1>1, <2>1, Zenon DEF InOrder, Sorted
<1>5. QueryLast'
  BY <1>1, Zenon DEF InOrder, QueryLast
<1>6. InputsAhead'
  <2> SUFFICES ASSUME NEW k \in 1 .. Len(inbox), inbox[k].kind = "input"
               PROVE  /\ \A i \in 1 .. Len(eventCh') : eventCh'[i].gen < inbox[k].gen
                      /\ query < inbox[k].gen
                      /\ \A l \in 1 .. Len(inbox) :
                           k < l /\ inbox[l].kind = "input" => inbox[k].gen < inbox[l].gen
    BY Zenon DEF InputsAhead
  <2>1. /\ \A i \in 1 .. Len(eventCh) : eventCh[i].gen < inbox[k].gen
        /\ query < inbox[k].gen
        /\ \A l \in 1 .. Len(inbox) :
             k < l /\ inbox[l].kind = "input" => inbox[k].gen < inbox[l].gen
    BY Zenon DEF InOrder, InputsAhead
  <2> QED
    BY <1>1, <2>1, Zenon
<1> QED
  BY <1>3, <1>4, <1>5, <1>6, Zenon DEF InOrder

(* A request is written behind all others. *)
LEMMA WriteOrder ==
  ASSUME StreamTypeOK, InOrder, turn \in Gens, NEW kind \in {"input", "cancel"},
         inbox' = Append(inbox, [kind |-> kind, gen |-> turn]),
         UNCHANGED <<turn, query>>, pc' \in {"stream", "idle"},
         eventCh' = eventCh \/ eventCh' = <<>>,
         kind = "input" => pc = "send"
  PROVE  InOrder'
<1>0. inbox \in Seq(Requests) /\ [kind |-> kind, gen |-> turn] \in Requests
  BY Types, Zenon DEF DaemonTypes, Requests
<1>1. /\ Len(inbox') = Len(inbox) + 1 /\ Len(inbox) \in Nat
      /\ inbox'[Len(inbox) + 1] = [kind |-> kind, gen |-> turn]
      /\ \A i \in 1 .. Len(inbox) : inbox'[i] = inbox[i]
      /\ \A i \in 1 .. Len(inbox') : i \in 1 .. Len(inbox) \/ i = Len(inbox) + 1
  BY <1>0, AppendFacts
<1>2. \A i \in 1 .. Len(eventCh') : i \in 1 .. Len(eventCh) /\ eventCh'[i] = eventCh[i]
  BY Values
<1>3. AllKnown'
  <2>1. \A g \in Nat : Known(g) => g <= turn
    BY Zenon DEF Known
  <2>2. ASSUME NEW k \in 1 .. Len(inbox') PROVE inbox'[k].gen <= turn
    BY <1>1, Values DEF InOrder, AllKnown, Known
  <2> QED
    BY <1>2, <2>2, Zenon DEF InOrder, AllKnown, Known
<1>4. Sorted' /\ QueryLast'
  BY <1>2, Zenon DEF InOrder, Sorted, QueryLast
<1>5. InputsAhead'
  <2> SUFFICES ASSUME NEW k \in 1 .. Len(inbox'), inbox'[k].kind = "input"
               PROVE  /\ \A i \in 1 .. Len(eventCh') : eventCh'[i].gen < inbox'[k].gen
                      /\ query' < inbox'[k].gen
                      /\ \A l \in 1 .. Len(inbox') :
                           k < l /\ inbox'[l].kind = "input" => inbox'[k].gen < inbox'[l].gen
    BY Zenon DEF InputsAhead
  <2>1. CASE k = Len(inbox) + 1
    <3>1. kind = "input" /\ inbox'[k].gen = turn /\ pc = "send"
      BY <1>1, <2>1
    <3>2. \A i \in 1 .. Len(eventCh') : eventCh'[i].gen < turn
      BY <1>2, <3>1, Zenon DEF InOrder, AllKnown, Known
    <3>3. query' < turn
      BY <3>1, Numbers, Values DEF InOrder, AllKnown, Known
    <3>4. \A l \in 1 .. Len(inbox') : ~(k < l)
      BY <1>1, <2>1
    <3> QED
      BY <3>1, <3>2, <3>3, <3>4, Zenon
  <2>2. CASE k \in 1 .. Len(inbox)
    <3>1. inbox'[k] = inbox[k]
      BY <1>1, <2>2, Zenon
    <3>2. ASSUME NEW l \in 1 .. Len(inbox'), k < l, inbox'[l].kind = "input"
          PROVE  inbox'[k].gen < inbox'[l].gen
      <4>1. CASE l \in 1 .. Len(inbox)
        BY <1>1, <2>2, <3>1, <3>2, <4>1, Zenon DEF InOrder, InputsAhead
      <4>2. CASE l = Len(inbox) + 1
        <5>1. inbox'[l].gen = turn /\ pc = "send"
          BY <1>1, <3>2, <4>2
        <5> QED
          BY <2>2, <3>1, <5>1, Zenon DEF InOrder, AllKnown, Known
      <4> QED
        BY <1>1, <4>1, <4>2, Zenon
    <3> QED
      BY <1>2, <2>2, <3>1, <3>2, Zenon DEF InOrder, InputsAhead
  <2> QED
    BY <1>1, <2>1, <2>2, Zenon
<1> QED
  BY <1>3, <1>4, <1>5, Zenon DEF InOrder

(* The daemon takes the next request. *)
LEMMA AdmitOrder ==
  ASSUME StreamTypeOK, InOrder, Admit
  PROVE  InOrder'
<1>0. inbox \in Seq(Requests) /\ inbox # <<>>
  BY Types, Zenon DEF DaemonTypes, Admit
<1>1. /\ Len(inbox) \in Nat /\ Len(inbox) >= 1 /\ Len(inbox') = Len(inbox) - 1
      /\ inbox[1].kind = "input" /\ query' = inbox[1].gen /\ query = NoID
      /\ \A k \in 1 .. Len(inbox') : k + 1 \in 1 .. Len(inbox) /\ inbox'[k] = inbox[k + 1]
      /\ UNCHANGED <<eventCh, turn, pc>>
  BY <1>0, TailFacts, Zenon DEF Admit, runVars
<1>2. 1 \in 1 .. Len(inbox)
  BY <1>1
<1>3. AllKnown'
  BY <1>1, <1>2, Zenon DEF InOrder, AllKnown, Known
<1>4. Sorted' /\ QueryLast'
  BY <1>1, <1>2, Values, SMTT(30) DEF InOrder, Sorted, QueryLast, InputsAhead
<1>5. InputsAhead'
  <2> SUFFICES ASSUME NEW k \in 1 .. Len(inbox'), inbox'[k].kind = "input"
               PROVE  /\ \A i \in 1 .. Len(eventCh') : eventCh'[i].gen < inbox'[k].gen
                      /\ query' < inbox'[k].gen
                      /\ \A l \in 1 .. Len(inbox') :
                           k < l /\ inbox'[l].kind = "input" => inbox'[k].gen < inbox'[l].gen
    BY Zenon DEF InputsAhead
  <2>1. k + 1 \in 1 .. Len(inbox) /\ inbox'[k] = inbox[k + 1] /\ 1 < k + 1
    BY <1>1
  <2>2. \A l \in 1 .. Len(inbox') : k < l => k + 1 < l + 1
    BY <1>1
  <2> QED
    BY <1>1, <1>2, <2>1, <2>2, Zenon DEF InOrder, InputsAhead
<1> QED
  BY <1>3, <1>4, <1>5, Zenon DEF InOrder

(* The daemon says something about turn g. *)
Said(g) == \E f \in Frames : f.gen = g /\ eventCh' = Append(eventCh, f)

(* The daemon speaks of the turn it works on. *)
LEMMA EmitSays ==
  ASSUME StreamTypeOK, query # NoID,
         NEW kind \in Chunks \cup {"running", "idle", "stopped", "end"}, EmitFrame(kind)
  PROVE  Said(query)
<1>1. [kind |-> kind, gen |-> query] \in Frames
  BY Types, Zenon DEF DaemonTypes, Frames
<1> QED
  BY <1>1, Zenon DEF EmitFrame, Said

(* It does so, or skips a cancel. *)
LEMMA EmitOrder ==
  ASSUME StreamTypeOK, InOrder, StreamTypeOK',
         UNCHANGED <<turn, pc>>, Rest(inbox', inbox), query' \in {query, NoID},
         \/ eventCh' = eventCh
         \/ query # NoID /\ Said(query)
  PROVE  InOrder'
<1>1. PICK d \in 0 .. Len(inbox) :
        /\ Len(inbox') = Len(inbox) - d
        /\ \A k \in 1 .. Len(inbox') : k + d \in 1 .. Len(inbox) /\ inbox'[k] = inbox[k + d]
  BY Zenon DEF Rest
<1>2. Len(inbox) \in Nat /\ d \in Nat /\ Len(inbox') \in Nat
  BY <1>1, Values
<1>3. /\ Len(eventCh) \in Nat
      /\ \A i \in 1 .. Len(eventCh') :
           \/ i \in 1 .. Len(eventCh) /\ eventCh'[i] = eventCh[i]
           \/ i = Len(eventCh) + 1 /\ query # NoID /\ eventCh'[i].gen = query
  <2>1. CASE eventCh' = eventCh
    BY <2>1, Values, Zenon
  <2>2. CASE query # NoID /\ Said(query)
    <3>1. PICK f \in Frames : f.gen = query /\ eventCh' = Append(eventCh, f)
      BY <2>2, Zenon DEF Said
    <3> QED
      BY <2>2, <3>1, Types, AppendFacts
  <2> QED
    BY <2>1, <2>2, Zenon
<1>4. AllKnown'
  BY <1>1, <1>3, Zenon DEF InOrder, AllKnown, Known
<1>5. Sorted'
  <2> SUFFICES ASSUME NEW i \in 1 .. Len(eventCh'), NEW j \in 1 .. Len(eventCh'), i < j
               PROVE  eventCh'[i].gen <= eventCh'[j].gen
    BY Zenon DEF Sorted
  <2>1. i \in 1 .. Len(eventCh) /\ eventCh'[i] = eventCh[i]
    BY <1>3
  <2>2. CASE j \in 1 .. Len(eventCh) /\ eventCh'[j] = eventCh[j]
    BY <2>1, <2>2, Zenon DEF InOrder, Sorted
  <2>3. CASE query # NoID /\ eventCh'[j].gen = query
    BY <2>1, <2>3, Zenon DEF InOrder, QueryLast
  <2> QED
    BY <1>3, <2>2, <2>3, Zenon
<1>6. QueryLast'
  BY <1>3, Values, SMTT(30) DEF InOrder, QueryLast
<1>7. InputsAhead'
  <2> SUFFICES ASSUME NEW k \in 1 .. Len(inbox'), inbox'[k].kind = "input"
               PROVE  /\ \A i \in 1 .. Len(eventCh') : eventCh'[i].gen < inbox'[k].gen
                      /\ query' < inbox'[k].gen
                      /\ \A l \in 1 .. Len(inbox') :
                           k < l /\ inbox'[l].kind = "input" => inbox'[k].gen < inbox'[l].gen
    BY Zenon DEF InputsAhead
  <2>1. k + d \in 1 .. Len(inbox) /\ inbox'[k] = inbox[k + d] /\ query < inbox'[k].gen
    BY <1>1, Zenon DEF InOrder, InputsAhead
  <2>2. \A i \in 1 .. Len(eventCh') : eventCh'[i].gen < inbox'[k].gen
    BY <1>3, <2>1, Zenon DEF InOrder, InputsAhead
  <2>3. query' < inbox'[k].gen
    BY <2>1, Values, Numbers, SMTT(30) DEF InOrder, InputsAhead
  <2>4. \A l \in 1 .. Len(inbox') : k < l => k + d < l + d
    BY <1>2
  <2> QED
    BY <1>1, <2>1, <2>2, <2>3, <2>4, Zenon DEF InOrder, InputsAhead
<1> QED
  BY <1>4, <1>5, <1>6, <1>7, Zenon DEF InOrder

(* What is on its way is about no later turn than what is behind it. *)
LEMMA OrderStep ==
  ASSUME StreamTypeOK, StreamTypeOK', Working, Started, InOrder, StreamNext
  PROVE  InOrder'
<1>0. RunTypes /\ DaemonTypes /\ eventCh \in Seq(Frames) /\ inbox \in Seq(Requests)
  BY Types, Zenon DEF DaemonTypes
<1>1. CASE Drain
  <2>1. /\ pc = "idle" /\ turn' = turn + 1 /\ turn \in Nat /\ eventCh' = <<>>
        /\ Len(eventCh') = 0 /\ UNCHANGED <<query, inbox>>
    BY <1>1, Values, Zenon DEF Drain, daemonSide
  <2>2. 1 .. Len(eventCh') = {}
    BY <2>1, SMTT(30)
  <2>3. AllKnown'
    BY <2>1, <2>2, Values, SMTT(30) DEF InOrder, AllKnown, Known
  <2> QED
    BY <2>1, <2>2, <2>3 DEF InOrder, Sorted, QueryLast, InputsAhead
<1>2. CASE SendInput
  BY <1>2, WriteOrder, Zenon DEF SendInput, Started
<1>3. CASE DiscardStale \/ TrackRunning \/ ConsumeEvent
  <2>1. eventCh # <<>> /\ eventCh' = Tail(eventCh) /\ UNCHANGED <<turn, pc, query, inbox>>
    BY <1>3, Zenon DEF DiscardStale, TrackRunning, ConsumeEvent, ForTurn, Streaming, runVars, daemonSide
  <2> QED
    BY <1>0, <2>1, RestTail, ReadOrder, Zenon
<1>4. CASE EarlyComplete \/ BoundaryEnds \/ EventFails
  <2>1. eventCh' = <<>> /\ pc' = "idle" /\ UNCHANGED <<turn, query, inbox>>
    BY <1>4, Zenon DEF EarlyComplete, BoundaryEnds, EventFails, ReturnTurn, daemonSide
  <2> QED
    BY <1>0, <2>1, RestNone, ReadOrder, Zenon
<1>5. CASE Timeout \/ Cancel
  BY <1>5, WriteOrder, Zenon DEF Timeout, Cancel, ReturnTurn, Started
<1>6. CASE Admit
  BY <1>6, AdmitOrder, Zenon
<1>7. CASE EmitRunning \/ EmitEnd \/ EmitIdle \/ \E kind \in Chunks : EmitChunk(kind)
  <2>1. /\ query # NoID /\ UNCHANGED <<turn, pc, inbox>> /\ query' \in {query, NoID}
        /\ Said(query)
    <3>1. query # NoID /\ \E kind \in Chunks \cup {"running", "end", "idle"} : EmitFrame(kind)
      BY <1>7, Zenon DEF EmitRunning, EmitEnd, EmitIdle, EmitChunk, Working
    <3> QED
      BY <1>7, <3>1, EmitSays, Zenon DEF EmitRunning, EmitEnd, EmitIdle, EmitChunk, runVars
  <2> QED
    BY <1>0, <2>1, RestSame, EmitOrder, Zenon
<1>8. CASE EmitStopped
  <2>1. /\ UNCHANGED <<turn, pc>> /\ query' = NoID /\ inbox # <<>> /\ inbox' = Tail(inbox)
        /\ \/ eventCh' = eventCh
           \/ query # NoID /\ Said(query)
    BY <1>8, EmitSays, Zenon DEF EmitStopped, runVars
  <2> QED
    BY <1>0, <2>1, RestTail, EmitOrder, Zenon
<1> QED
  BY <1>1, <1>2, <1>3, <1>4, <1>5, <1>6, <1>7, <1>8, Zenon DEF StreamNext, ReadStep, DaemonStep

-----------------------------------------------------------------------------
(* Whose frames a turn reads *)

(* The frame a turn takes for its own is its own, but for a stray chunk. *)
LEMMA OwnFrame ==
  ASSUME StreamTypeOK, InOrder, ChunksOwn, ArmedOwn, ForTurn
  PROVE  /\ NextEvent.gen = turn \/ Stray(turn)
         /\ IsProgressChunk(NextEvent) => NextEvent.gen \in {turn} \cup late
<1>0. /\ pc = "stream" /\ NextEvent = eventCh[1] /\ NextEvent \in Frames /\ 1 \in 1 .. Len(eventCh)
      /\ NextEvent.gen \in Nat /\ turn \in Nat
  <2>1. Streaming /\ eventCh \in Seq(Frames) /\ eventCh # <<>>
    BY Types, Zenon DEF ForTurn, Streaming
  <2>2. Len(eventCh) \in Nat /\ Len(eventCh) >= 1
    BY <2>1, TailFacts, Zenon
  <2> QED
    BY <2>1, <2>2, FrameFacts, Numbers, Values DEF Streaming
<1>1. NextEvent.gen <= turn
  BY <1>0, Zenon DEF InOrder, AllKnown, Known
<1>2. NextEvent.kind \in Chunks => NextEvent.gen \in {turn} \cup late
  BY <1>0, Zenon DEF ChunksOwn
<1>3. CASE armed
  BY <1>0, <1>2, <1>3, Zenon DEF ArmedOwn, IsProgressChunk, Chunks
<1>4. CASE ~armed
  <2>1. NextEvent.kind \in Chunks
    BY <1>0, <1>4, Zenon DEF ForTurn, Frames, isStaleTurnEndEvent
  <2> QED
    BY <1>0, <1>1, <1>2, <2>1 DEF Stray
<1> QED
  BY <1>3, <1>4, Zenon

(* A chunk of an earlier turn on its way was sent late. *)
LEMMA ChunkStep ==
  ASSUME StreamTypeOK, StreamTypeOK', Working, ChunksOwn, StreamNext
  PROVE  ChunksOwn'
<1>0. eventCh \in Seq(Frames) /\ query \in Gens \cup {NoID}
  BY Types, Zenon DEF DaemonTypes
<1>1. CASE eventCh' = <<>>
  <2>1. 1 .. Len(eventCh') = {}
    BY <1>1
  <2> QED
    BY <2>1, Zenon DEF ChunksOwn
<1>2. CASE SendInput \/ Admit \/ (EmitStopped /\ query = NoID)
  BY <1>2, Zenon DEF SendInput, Admit, EmitStopped, ChunksOwn, runVars
<1>3. CASE DiscardStale \/ TrackRunning \/ ConsumeEvent
  <2>1. eventCh # <<>> /\ eventCh' = Tail(eventCh) /\ UNCHANGED <<turn, pc, late>>
    BY <1>3, Zenon DEF DiscardStale, TrackRunning, ConsumeEvent, ForTurn, Streaming, runVars, daemonSide
  <2>2. \A i \in 1 .. Len(eventCh') : i + 1 \in 1 .. Len(eventCh) /\ eventCh'[i] = eventCh[i + 1]
    BY <1>0, <2>1, TailFacts, Zenon
  <2> QED
    BY <2>1, <2>2 DEF ChunksOwn
<1>4. ASSUME query # NoID, NEW kind \in Chunks \cup {"running", "idle", "stopped", "end"},
             EmitFrame(kind), UNCHANGED <<turn, pc>>, late \subseteq late',
             kind \in Chunks => query \in late' \/ (query = turn /\ pc = "stream")
      PROVE  ChunksOwn'
  <2>1. [kind |-> kind, gen |-> query] \in Frames
    BY <1>0, <1>4, Zenon DEF Frames
  <2>2. \A i \in 1 .. Len(eventCh') :
          \/ i \in 1 .. Len(eventCh) /\ eventCh'[i] = eventCh[i]
          \/ eventCh'[i] = [kind |-> kind, gen |-> query]
    BY <1>0, <1>4, <2>1, AppendFacts DEF EmitFrame
  <2> QED
    BY <1>4, <2>2 DEF ChunksOwn
<1>5. CASE EmitRunning \/ EmitEnd \/ EmitIdle \/ (EmitStopped /\ query # NoID)
  <2>1. /\ query # NoID /\ UNCHANGED <<turn, pc, late>>
        /\ \E kind \in {"running", "idle", "stopped", "end"} : EmitFrame(kind)
    BY <1>5, Zenon DEF EmitRunning, EmitEnd, EmitIdle, EmitStopped, Working, runVars
  <2> QED
    BY <1>4, <2>1, Zenon DEF Chunks
<1>6. ASSUME NEW kind \in Chunks, EmitChunk(kind)
      PROVE  ChunksOwn'
  BY <1>4, <1>6, Zenon DEF EmitChunk, Working, runVars
<1> QED
  BY <1>1, <1>2, <1>3, <1>5, <1>6, Zenon
  DEF StreamNext, ReadStep, DaemonStep, Drain, EarlyComplete, BoundaryEnds, EventFails, Timeout, Cancel, ReturnTurn

(* A turn is armed by a frame of its own, or a late one. *)
LEMMA ArmedStep ==
  ASSUME StreamTypeOK, StreamTypeOK', Working, InOrder, ChunksOwn, ArmedOwn, StreamNext
  PROVE  ArmedOwn'
<1>0. eventCh \in Seq(Frames) /\ inbox \in Seq(Requests) /\ turn \in Nat /\ query \in Nat
  BY Types, Values, Zenon DEF DaemonTypes
<1>1. CASE Drain \/ EarlyComplete \/ BoundaryEnds \/ EventFails \/ Timeout \/ Cancel
  BY <1>1, Zenon
  DEF Drain, EarlyComplete, BoundaryEnds, EventFails, Timeout, Cancel, ReturnTurn, ArmedOwn
<1>2. CASE SendInput
  BY <1>2, Zenon DEF SendInput, ArmedOwn
<1>3. CASE DiscardStale \/ TrackRunning \/ ConsumeEvent
  <2>1. /\ pc = "stream" /\ eventCh # <<>> /\ eventCh' = Tail(eventCh)
        /\ UNCHANGED <<turn, pc, late, query, inbox>>
    BY <1>3, Zenon DEF DiscardStale, TrackRunning, ConsumeEvent, ForTurn, Streaming, runVars, daemonSide
  <2>2. /\ \A i \in 1 .. Len(eventCh') : i + 1 \in 1 .. Len(eventCh) /\ eventCh'[i] = eventCh[i + 1]
        /\ Len(eventCh) \in Nat /\ Len(eventCh) >= 1 /\ NextEvent = eventCh[1]
    BY <1>0, <2>1, TailFacts, Zenon DEF NextEvent
  <2>3. CASE armed
    BY <2>1, <2>2, <2>3, Zenon DEF ArmedOwn, Stray
  <2>4. CASE ~armed /\ ~ConsumeEvent
    BY <1>3, <2>4, Zenon DEF DiscardStale, TrackRunning, ArmedOwn, runVars
  <2>5. CASE ~armed /\ ConsumeEvent /\ ~Stray(turn)
    <3>1. NextEvent.gen = turn
      BY <2>5, OwnFrame, Zenon DEF ConsumeEvent
    <3>2. 1 \in 1 .. Len(eventCh)
      BY <2>2
    <3>3. \A i \in 1 .. Len(eventCh) : eventCh[i].gen = turn
      <4> SUFFICES ASSUME NEW i \in 1 .. Len(eventCh) PROVE eventCh[i].gen = turn
        BY Zenon
      <4>1. eventCh[i].gen \in Nat /\ eventCh[i].gen <= turn
        BY <2>1, Values, Zenon DEF InOrder, AllKnown, Known
      <4>2. i = 1 \/ 1 < i
        BY <2>2
      <4>3. CASE 1 < i
        <5>1. turn <= eventCh[i].gen
          BY <2>2, <3>1, <3>2, <4>3, Zenon DEF InOrder, Sorted
        <5> QED
          BY <1>0, <4>1, <5>1
      <4> QED
        BY <2>2, <3>1, <4>2, <4>3, Zenon
    <3>4. query \in {NoID, turn}
      <4>1. query # NoID => query <= turn /\ turn <= query
        BY <2>2, <3>1, <3>2, Zenon DEF InOrder, AllKnown, Known, QueryLast
      <4> QED
        BY <1>0, <4>1
    <3>5. ASSUME NEW k \in 1 .. Len(inbox), inbox[k].kind = "input"
          PROVE  FALSE
      <4>1. turn < inbox[k].gen /\ inbox[k].gen <= turn /\ inbox[k].gen \in Nat
        BY <2>2, <3>1, <3>2, <3>5, Values, Zenon DEF InOrder, AllKnown, Known, InputsAhead
      <4> QED
        BY <1>0, <4>1
    <3> QED
      BY <2>1, <2>2, <3>3, <3>4, <3>5, Zenon DEF ArmedOwn
  <2> QED
    BY <2>1, <2>3, <2>4, <2>5, Zenon DEF ArmedOwn, Stray
<1>4. CASE Admit
  <2>1. inbox # <<>> /\ inbox[1].kind = "input" /\ 1 \in 1 .. Len(inbox)
    BY <1>0, <1>4, TailFacts DEF Admit
  <2>2. ~(pc = "stream" /\ armed /\ ~Stray(turn))
    BY <2>1, Zenon DEF ArmedOwn
  <2> QED
    BY <1>4, <2>2, Zenon DEF Admit, ArmedOwn, Stray, runVars
<1>5. ASSUME UNCHANGED runVars, late \subseteq late', query' \in {query, NoID}, Rest(inbox', inbox),
             eventCh' = eventCh \/ (query # NoID /\ Said(query))
      PROVE  ArmedOwn'
  <2> SUFFICES ASSUME pc = "stream", armed, ~Stray(turn)'
               PROVE  /\ \A i \in 1 .. Len(eventCh') : eventCh'[i].gen = turn'
                      /\ query' \in {NoID, turn'}
                      /\ \A k \in 1 .. Len(inbox') : inbox'[k].kind # "input"
    BY <1>5, Zenon DEF ArmedOwn, runVars
  <2>1. /\ ~Stray(turn) /\ turn' = turn
    BY <1>5, Zenon DEF Stray, runVars
  <2>2. \A i \in 1 .. Len(eventCh') : eventCh'[i].gen = turn
    <3>1. CASE eventCh' = eventCh
      BY <2>1, <3>1, Zenon DEF ArmedOwn
    <3>2. CASE query # NoID /\ Said(query)
      <4>1. PICK f \in Frames : f.gen = query /\ eventCh' = Append(eventCh, f)
        BY <3>2, Zenon DEF Said
      <4> QED
        BY <1>0, <2>1, <3>2, <4>1, AppendFacts DEF ArmedOwn
    <3> QED
      BY <1>5, <3>1, <3>2, Zenon
  <2>3. \A k \in 1 .. Len(inbox') : inbox'[k].kind # "input"
    BY <1>5, <2>1, Zenon DEF ArmedOwn, Rest
  <2> QED
    BY <1>5, <2>1, <2>2, <2>3, Zenon DEF ArmedOwn
<1>6. CASE EmitRunning \/ EmitEnd \/ EmitIdle \/ \E kind \in Chunks : EmitChunk(kind)
  <2>1. query # NoID /\ \E kind \in Chunks \cup {"running", "end", "idle"} : EmitFrame(kind)
    BY <1>6, Zenon DEF EmitRunning, EmitEnd, EmitIdle, EmitChunk, Working
  <2>2. /\ Said(query) /\ UNCHANGED <<runVars, inbox>> /\ late \subseteq late'
        /\ query' \in {query, NoID}
    BY <1>6, <2>1, EmitSays, Zenon DEF EmitRunning, EmitEnd, EmitIdle, EmitChunk
  <2> QED
    BY <1>0, <1>5, <2>1, <2>2, RestSame, Zenon
<1>7. CASE EmitStopped
  <2>1. /\ UNCHANGED <<runVars, late>> /\ query' = NoID /\ inbox # <<>> /\ inbox' = Tail(inbox)
        /\ eventCh' = eventCh \/ (query # NoID /\ Said(query))
    BY <1>7, EmitSays, Zenon DEF EmitStopped
  <2> QED
    BY <1>0, <1>5, <2>1, RestTail, Zenon
<1> QED
  BY <1>1, <1>2, <1>3, <1>4, <1>6, <1>7, Zenon DEF StreamNext, ReadStep, DaemonStep

(* Its text is its own, or late. *)
LEMMA TextStep ==
  ASSUME StreamTypeOK, InOrder, ChunksOwn, ArmedOwn, TextOwn, StreamNext
  PROVE  TextOwn'
<1>1. CASE Drain \/ EarlyComplete \/ BoundaryEnds \/ EventFails \/ Timeout \/ Cancel \/ SendInput
  BY <1>1, Zenon
  DEF Drain, EarlyComplete, BoundaryEnds, EventFails, Timeout, Cancel, ReturnTurn, SendInput, TextOwn
<1>2. CASE DiscardStale \/ TrackRunning
  BY <1>2, Zenon DEF DiscardStale, TrackRunning, TextOwn, runVars, daemonSide
<1>3. CASE ConsumeEvent
  BY <1>3, OwnFrame, Zenon DEF ConsumeEvent, Text, TextOwn, daemonSide
<1>4. CASE DaemonStep
  <2>1. UNCHANGED runVars /\ late \subseteq late'
    BY <1>4, Zenon DEF DaemonStep, Admit, EmitRunning, EmitEnd, EmitIdle, EmitStopped, EmitChunk
  <2> QED
    BY <2>1, Zenon DEF TextOwn, runVars
<1> QED
  BY <1>1, <1>2, <1>3, <1>4, Zenon DEF StreamNext, ReadStep

(* What a turn returns *)
LEMMA ResultStep ==
  ASSUME StreamInv, StreamNext
  PROVE  EndsOnOwnFrame' /\ ReplyIsOwn'
<1>0. /\ StreamTypeOK /\ InOrder /\ ChunksOwn /\ ArmedOwn /\ TextOwn /\ EndsOnOwnFrame /\ ReplyIsOwn
      /\ Started /\ result \in [Gens -> Results]
  BY Types, Zenon DEF StreamInv, RunTypes
<1>1. ASSUME UNCHANGED result, late \subseteq late'
      PROVE  EndsOnOwnFrame' /\ ReplyIsOwn'
  BY <1>0, <1>1, Zenon DEF EndsOnOwnFrame, ReplyIsOwn
<1>2. ASSUME NEW how, NEW by, NEW text, ReturnTurn(how, by, text), UNCHANGED late, turn \in Gens,
             by \in {NoID, turn} \/ Stray(turn), text \subseteq {turn} \cup late
      PROVE  EndsOnOwnFrame' /\ ReplyIsOwn'
  <2>1. \A g \in Gens : g # turn => result'[g] = result[g]
    BY <1>0, <1>2, Zenon DEF ReturnTurn
  <2>2. result'[turn] = [how |-> how, by |-> by, text |-> text]
    BY <1>0, <1>2, Zenon DEF ReturnTurn
  <2>3. result'[turn].by = by /\ result'[turn].text = text
    BY <2>2
  <2>4. EndsOnOwnFrame'
    BY <1>0, <1>2, <2>1, <2>3, Zenon DEF EndsOnOwnFrame, Stray
  <2>5. ReplyIsOwn'
    BY <1>0, <1>2, <2>1, <2>3, Zenon DEF ReplyIsOwn
  <2> QED
    BY <2>4, <2>5, Zenon
<1>3. CASE EarlyComplete \/ BoundaryEnds \/ EventFails
  <2>1. /\ ForTurn /\ UNCHANGED late /\ turn \in Gens /\ content \subseteq {turn} \cup late
        /\ \E how \in {"completed", "failed"}, text \in {Text, content} : ReturnTurn(how, NextEvent.gen, text)
    BY <1>0, <1>3, Zenon
    DEF EarlyComplete, BoundaryEnds, EventFails, ForTurn, Streaming, Started, TextOwn, daemonSide
  <2>2. Text \subseteq {turn} \cup late /\ (NextEvent.gen = turn \/ Stray(turn))
    BY <1>0, <2>1, OwnFrame, Zenon DEF Text
  <2> QED
    BY <1>2, <2>1, <2>2, Zenon
<1>4. CASE Timeout \/ Cancel
  <2>1. /\ UNCHANGED late /\ turn \in Gens /\ content \subseteq {turn} \cup late
        /\ ReturnTurn("timeout", NoID, content) \/ ReturnTurn("cancelled", NoID, content)
    BY <1>0, <1>4, Zenon DEF Timeout, Cancel, Started, TextOwn
  <2> QED
    BY <1>2, <2>1, Zenon
<1>5. CASE Drain \/ SendInput \/ DiscardStale \/ TrackRunning \/ ConsumeEvent \/ DaemonStep
  <2>1. UNCHANGED result /\ late \subseteq late'
    BY <1>5, Zenon
    DEF Drain, SendInput, DiscardStale, TrackRunning, ConsumeEvent, DaemonStep, runVars, daemonSide,
        Admit, EmitRunning, EmitEnd, EmitIdle, EmitStopped, EmitChunk
  <2> QED
    BY <1>1, <2>1, Zenon
<1> QED
  BY <1>3, <1>4, <1>5, Zenon DEF StreamNext, ReadStep

-----------------------------------------------------------------------------
(* The theorems *)

(* The invariant holds at first, *)
LEMMA InitInv ==
  ASSUME StreamInit
  PROVE  StreamInv
<1>1. StreamTypeOK
  <2>1. 0 \in 0 .. MaxTurns /\ 0 \in 0 .. MaxChunks
    BY Numbers
  <2>2. NewGate \in Gates /\ NoOutcome \in Results
    BY Zenon DEF NewGate, Gates, NoOutcome, Results
  <2> QED
    <3>1. RunTypes
      BY <2>1, <2>2, Zenon DEF StreamInit, RunTypes
    <3>2. [n |-> 0, progress |-> FALSE] \in [n : 0 .. MaxChunks, progress : BOOLEAN]
      BY <2>1, Zenon
    <3>3. DaemonTypes /\ eventCh \in Seq(Frames)
      BY <3>2 DEF StreamInit, DaemonTypes
    <3> QED
      BY <3>1, <3>3, Types, Zenon
<1>2. 1 .. Len(eventCh) = {} /\ 1 .. Len(inbox) = {}
  BY DEF StreamInit
<1>3. InOrder /\ ChunksOwn
  BY <1>2, Zenon DEF StreamInit, InOrder, AllKnown, Sorted, QueryLast, InputsAhead, ChunksOwn
<1>4. Working /\ Started /\ ArmedOwn /\ TextOwn
  BY Zenon DEF StreamInit, Working, Started, ArmedOwn, TextOwn
<1>5. EndsOnOwnFrame /\ ReplyIsOwn
  BY Zenon DEF StreamInit, EndsOnOwnFrame, ReplyIsOwn, NoOutcome
<1> QED
  BY <1>1, <1>3, <1>4, <1>5, Zenon DEF StreamInv

(* and every step keeps it. *)
LEMMA InvStep ==
  ASSUME StreamInv, [StreamNext]_streamVars
  PROVE  StreamInv'
<1>1. CASE UNCHANGED streamVars
  BY <1>1
  DEF StreamInv, streamVars, runVars, daemonSide, StreamTypeOK, Working, Started, InOrder, AllKnown, Known,
      Sorted, QueryLast, InputsAhead, ChunksOwn, ArmedOwn, Stray, TextOwn, EndsOnOwnFrame,
      ReplyIsOwn
<1>2. CASE StreamNext
  <2>1. StreamTypeOK' /\ Working' /\ Started'
    BY <1>2, TypeStep, Zenon DEF StreamInv
  <2>2. InOrder' /\ ChunksOwn' /\ ArmedOwn' /\ TextOwn'
    BY <1>2, <2>1, OrderStep, ChunkStep, ArmedStep, TextStep, Zenon DEF StreamInv
  <2> QED
    BY <1>2, <2>1, <2>2, ResultStep, Zenon DEF StreamInv
<1> QED
  BY <1>1, <1>2, ZenonT(30)

(* StreamInv is inductive: what is on its way from the daemon, and what the turn*)
(* has made of it, belongs to the turn unless it was sent late.              *)
THEOREM StreamInvariant == StreamSpec => []StreamInv
<1>1. StreamInit => StreamInv
  BY InitInv, Zenon
<1>2. StreamInv /\ [StreamNext]_streamVars => StreamInv'
  BY InvStep, Zenon
<1> QED
  BY <1>1, <1>2, PTL DEF StreamSpec

(***************************************************************************)
(* A turn ends on a frame of its own: runTurn's armed flag keeps every     *)
(* leftover end marker of an earlier turn from ending a later one, however *)
(* many turns share the channel, unless a chunk of an earlier turn was     *)
(* sent after the client had left it.                                      *)
(***************************************************************************)
THEOREM TurnsEndOnOwnFrame == StreamSpec => []EndsOnOwnFrame
BY StreamInvariant, PTL DEF StreamInv

(***************************************************************************)
(* The text of a completed turn is its own, but for chunks the daemon sent *)
(* after the client had left their turn: the drains before and after each  *)
(* turn take the other leftovers away.                                     *)
(***************************************************************************)
THEOREM RepliesOwn == StreamSpec => []ReplyIsOwn
BY StreamInvariant, PTL DEF StreamInv

-----------------------------------------------------------------------------
(***************************************************************************)
(* The other reader of a turn's frames, IterTurnChunks of DaemonSession,   *)
(* for any number of turns, chunks and faults.  The frames between the     *)
(* daemon and the application are numbered: what was yielded, then the one *)
(* frame the peel may have put back, then the wire.                        *)
(***************************************************************************)
IsSequence(s) == \E S : s \in Seq(S)

(* The frames of s have numbers up to n. *)
Numbered(s, n) ==
  IsSequence(s) /\ \A i \in 1 .. Len(s) : "id" \in DOMAIN s[i] /\ s[i].id \in 1 .. n
Increasing(s) == \A i, j \in 1 .. Len(s) : i < j => s[i].id < s[j].id
Before(s, q) == \A i \in 1 .. Len(s), j \in 1 .. Len(q) : s[i].id < q[j].id

(* The wire w, the queue p, what was yielded, by turn, and the frames sent *)
Flow(w, p, o, n) ==
  /\ n \in Nat
  /\ Numbered(w, n) /\ Increasing(w)
  /\ Numbered(p, n) /\ Len(p) <= 1 /\ Before(p, w)
  /\ DOMAIN o = Gens
  /\ \A g \in Gens :
       Numbered(o[g], n) /\ Increasing(o[g]) /\ Before(o[g], p) /\ Before(o[g], w)
  /\ \A g, h \in Gens : g < h => Before(o[g], o[h])

FlowInv ==
  /\ Flow(wire, pending, out, sent)
  /\ turn \in 0 .. MaxTurns /\ (pc # "idle" => turn \in Gens)
  /\ \A g \in Gens : g > turn => out[g] = <<>>

(* A turn drains after it has ended. *)
EndInv ==
  /\ DOMAIN result = Gens /\ \A g \in Gens : DOMAIN result[g] = {"err", "endState", "by"}
  /\ "endState" \in DOMAIN it /\ (pc = "drain" => it.endState \in Ended)

-----------------------------------------------------------------------------
(* No frame is before and after every frame. *)
LEMMA EmptyFlow ==
  /\ \A n : Numbered(<<>>, n)
  /\ Increasing(<<>>) /\ Len(<<>>) = 0
  /\ \A q : Before(<<>>, q) /\ Before(q, <<>>)
<1>1. Len(<<>>) = 0 /\ 1 .. 0 = {}
  OBVIOUS
<1>2. <<>> \in Seq({})
  OBVIOUS
<1> QED
  BY <1>1, <1>2, Zenon DEF Numbered, IsSequence, Increasing, Before

(* The frame taken from the front is before those that stay. *)
LEMMA TailFlow ==
  ASSUME NEW s, NEW n \in Nat, Numbered(s, n), Increasing(s), s # <<>>
  PROVE  /\ Numbered(Tail(s), n) /\ Increasing(Tail(s)) /\ Len(Tail(s)) = Len(s) - 1
         /\ Len(s) \in Nat
         /\ "id" \in DOMAIN Head(s) /\ Head(s).id \in 1 .. n
         /\ \A j \in 1 .. Len(Tail(s)) : Head(s).id < Tail(s)[j].id
         /\ \A q : Before(q, s) =>
              Before(q, Tail(s)) /\ \A i \in 1 .. Len(q) : q[i].id < Head(s).id
         /\ \A q : Before(s, q) =>
              Before(Tail(s), q) /\ \A j \in 1 .. Len(q) : Head(s).id < q[j].id
<1>1. PICK S : s \in Seq(S)
  BY Zenon DEF Numbered, IsSequence
<1>2. /\ Tail(s) \in Seq(S) /\ Len(s) \in Nat /\ Len(s) >= 1 /\ Head(s) = s[1]
      /\ Len(Tail(s)) = Len(s) - 1
      /\ \A i \in 1 .. Len(Tail(s)) : i + 1 \in 1 .. Len(s) /\ Tail(s)[i] = s[i + 1]
  BY <1>1, TailFacts, Zenon
<1>3. 1 \in 1 .. Len(s) /\ \A i \in 1 .. Len(Tail(s)) : 1 < i + 1
  BY <1>2
<1>4. \A i, j \in 1 .. Len(Tail(s)) : i < j => i + 1 < j + 1
  OBVIOUS
<1>5. Numbered(Tail(s), n)
  BY <1>2, Zenon DEF Numbered, IsSequence
<1>6. Increasing(Tail(s))
  BY <1>2, <1>4, Zenon DEF Increasing
<1>7. "id" \in DOMAIN Head(s) /\ Head(s).id \in 1 .. n
  BY <1>2, <1>3, Zenon DEF Numbered
<1>8. \A j \in 1 .. Len(Tail(s)) : Head(s).id < Tail(s)[j].id
  BY <1>2, <1>3, Zenon DEF Increasing
<1>9. \A q : Before(q, s) =>
        Before(q, Tail(s)) /\ \A i \in 1 .. Len(q) : q[i].id < Head(s).id
  BY <1>2, <1>3, Zenon DEF Before
<1>10. \A q : Before(s, q) =>
         Before(Tail(s), q) /\ \A j \in 1 .. Len(q) : Head(s).id < q[j].id
  BY <1>2, <1>3, Zenon DEF Before
<1> QED
  BY <1>2, <1>5, <1>6, <1>7, <1>8, <1>9, <1>10, Zenon

(* A frame after all frames of s is put at its end. *)
LEMMA AppendFlow ==
  ASSUME NEW s, NEW n \in Nat, Numbered(s, n), Increasing(s),
         NEW f, "id" \in DOMAIN f, f.id \in 1 .. n,
         \A i \in 1 .. Len(s) : s[i].id < f.id
  PROVE  /\ Numbered(Append(s, f), n) /\ Increasing(Append(s, f))
         /\ Len(Append(s, f)) = Len(s) + 1 /\ Len(s) \in Nat
         /\ \A q : Before(q, s) /\ (\A i \in 1 .. Len(q) : q[i].id < f.id) =>
              Before(q, Append(s, f))
         /\ \A q : Before(s, q) /\ (\A j \in 1 .. Len(q) : f.id < q[j].id) =>
              Before(Append(s, f), q)
<1>1. PICK S : s \in Seq(S)
  BY Zenon DEF Numbered, IsSequence
<1>2. s \in Seq(S \cup {f}) /\ f \in S \cup {f}
  BY <1>1
<1> DEFINE a == Append(s, f)
<1>3. /\ a \in Seq(S \cup {f}) /\ Len(s) \in Nat
      /\ Len(a) = Len(s) + 1
      /\ a[Len(s) + 1] = f
      /\ \A i \in 1 .. Len(s) : a[i] = s[i]
      /\ \A i \in 1 .. Len(s) + 1 : i \in 1 .. Len(s) \/ i = Len(s) + 1
  BY <1>2, AppendFacts, Zenon
<1> HIDE DEF a
<1>4. \A i \in 1 .. Len(a) : (i \in 1 .. Len(s) /\ a[i] = s[i]) \/ (i = Len(s) + 1 /\ a[i] = f)
  BY <1>3, Zenon
<1>5. Numbered(a, n)
  BY <1>3, <1>4, Zenon DEF Numbered, IsSequence
<1>6. Increasing(a)
  <2> SUFFICES ASSUME NEW i \in 1 .. Len(a), NEW j \in 1 .. Len(a), i < j
               PROVE  a[i].id < a[j].id
    BY Zenon DEF Increasing
  <2>1. i \in 1 .. Len(s) /\ a[i] = s[i]
    BY <1>3, <1>4
  <2> QED
    BY <1>4, <2>1, Zenon DEF Increasing
<1>7. \A q : Before(q, s) /\ (\A i \in 1 .. Len(q) : q[i].id < f.id) => Before(q, a)
  BY <1>4, Zenon DEF Before
<1>8. \A q : Before(s, q) /\ (\A j \in 1 .. Len(q) : f.id < q[j].id) => Before(a, q)
  BY <1>4, Zenon DEF Before
<1> QED
  BY <1>3, <1>5, <1>6, <1>7, <1>8, Zenon DEF a

LEMMA SeqLen == \A s : IsSequence(s) => Len(s) \in Nat
BY DEF IsSequence

LEMMA SeqDomain == \A s : IsSequence(s) => DOMAIN s = 1 .. Len(s)
BY DEF IsSequence

LEMMA NoFrames ==
  ASSUME NEW S, NEW s \in Seq(S), Len(s) = 0
  PROVE  s = <<>>
OBVIOUS

LEMMA PutBackOne ==
  ASSUME NEW S, NEW s \in Seq(S), s # <<>>, Tail(s) = <<>>
  PROVE  Append(<<>>, Head(s)) = s
<1>1. Len(Tail(s)) = 0 /\ Len(s) \in Nat /\ Len(Tail(s)) = Len(s) - 1 /\ Head(s) = s[1]
  BY TailFacts, ZenonT(30)
<1>2. Len(s) = 1
  BY <1>1
<1>3. Head(s) \in S
  BY TailFacts, Zenon
<1> DEFINE h == Head(s)
<1>4. s[1] = h
  BY <1>1, Zenon
<1> HIDE DEF h
<1>5. Append(<<>>, h) \in Seq(S) /\ Len(Append(<<>>, h)) = 1 /\ Append(<<>>, h)[1] = h
  BY <1>3 DEF h
<1>6. Append(<<>>, h) = s
  BY <1>2, <1>4, <1>5
<1> QED
  BY <1>6, Zenon DEF h

LEMMA AppendTwo ==
  ASSUME NEW s, IsSequence(s), NEW a, NEW b
  PROVE  s \o <<a, b>> = Append(Append(s, a), b)
<1>1. PICK S : s \in Seq(S)
  BY Zenon DEF IsSequence
<1>2. s \in Seq(S \cup {a, b})
  BY <1>1
<1> QED
  BY <1>2

(* Frames are lost from the wire, or read and not yielded. *)
LEMMA FlowLess ==
  ASSUME NEW w, NEW p, NEW o, NEW n, Flow(w, p, o, n)
  PROVE  /\ Flow(<<>>, p, o, n) /\ Flow(w, <<>>, o, n) /\ Flow(<<>>, <<>>, o, n)
         /\ w # <<>> => Flow(Tail(w), p, o, n)
         /\ p # <<>> => Tail(p) = <<>> /\ Flow(w, Tail(p), o, n)
<1>0. 0 <= 1 /\ n \in Nat
  BY DEF Flow
<1>1. Flow(<<>>, p, o, n) /\ Flow(w, <<>>, o, n) /\ Flow(<<>>, <<>>, o, n)
  BY <1>0, EmptyFlow, Zenon DEF Flow
<1>2. ASSUME w # <<>> PROVE Flow(Tail(w), p, o, n)
  BY <1>0, <1>2, TailFlow, Zenon DEF Flow
<1>3. ASSUME p # <<>> PROVE Tail(p) = <<>>
  <2>1. PICK S : p \in Seq(S)
    BY Zenon DEF Flow, Numbered, IsSequence
  <2>2. Tail(p) \in Seq(S) /\ Len(Tail(p)) = Len(p) - 1 /\ Len(p) \in Nat /\ Len(p) >= 1
    BY <1>3, <2>1, TailFacts, Zenon
  <2>3. Len(Tail(p)) = 0
    BY <2>2 DEF Flow
  <2> QED
    BY <2>2, <2>3, NoFrames, Zenon
<1> QED
  BY <1>1, <1>2, <1>3, Zenon

(* The peel drops leftovers from the queue. *)
LEMMA FlowKept ==
  ASSUME NEW w, NEW p, NEW o, NEW n, Flow(w, p, o, n),
         NEW m \in 0 .. Len(p), NEW kept \in [1 .. m -> DOMAIN p]
  PROVE  Flow(w, [i \in 1 .. m |-> p[kept[i]]], o, n)
<1> DEFINE k == [i \in 1 .. m |-> p[kept[i]]]
<1>1. PICK S : p \in Seq(S)
  BY Zenon DEF Flow, Numbered, IsSequence
<1>2. Len(p) \in Nat /\ Len(p) <= 1 /\ DOMAIN p = 1 .. Len(p) /\ m \in Nat /\ m <= 1
  BY <1>1 DEF Flow
<1>3. k \in Seq(S) /\ Len(k) = m /\ \A i \in 1 .. m : kept[i] \in 1 .. Len(p) /\ k[i] = p[kept[i]]
  BY <1>1, <1>2
<1> HIDE DEF k
<1>4. Numbered(k, n)
  BY <1>3, Zenon DEF Flow, Numbered, IsSequence
<1>5. Len(k) <= 1 /\ Before(k, w) /\ \A g \in Gens : Before(o[g], k)
  <2>1. Len(k) <= 1
    BY <1>2, <1>3, Zenon
  <2>2. \A i \in 1 .. Len(k) : \E j \in 1 .. Len(p) : k[i] = p[j]
    BY <1>3, Zenon
  <2>3. Before(p, w) /\ \A g \in Gens : Before(o[g], p)
    BY Zenon DEF Flow
  <2>4. Before(k, w)
    BY <2>2, <2>3, Zenon DEF Before
  <2>5. \A g \in Gens : Before(o[g], k)
    BY <2>2, <2>3, Zenon DEF Before
  <2> QED
    BY <2>1, <2>4, <2>5, Zenon
<1> QED
  BY <1>4, <1>5, Zenon DEF Flow, k

(* DecodeMessage keeps the number of a frame. *)
LEMMA Decoded ==
  ASSUME NEW f, "id" \in DOMAIN f
  PROVE  "id" \in DOMAIN DecodeMessage(f) /\ DecodeMessage(f).id = f.id
BY DEF DecodeMessage

(* The peel puts the frame it has read back. *)
LEMMA FlowBack ==
  ASSUME NEW w, NEW o, NEW n, Flow(w, <<>>, o, n), w # <<>>
  PROVE  Flow(Tail(w), Append(<<>>, DecodeMessage(Head(w))), o, n)
<1> DEFINE f == DecodeMessage(Head(w))
<1>1. /\ n \in Nat /\ Numbered(Tail(w), n) /\ Increasing(Tail(w))
      /\ "id" \in DOMAIN Head(w) /\ Head(w).id \in 1 .. n
      /\ \A j \in 1 .. Len(Tail(w)) : Head(w).id < Tail(w)[j].id
      /\ \A g \in Gens : Before(o[g], Tail(w)) /\ \A i \in 1 .. Len(o[g]) : o[g][i].id < Head(w).id
  BY TailFlow, Zenon DEF Flow
<1>2. "id" \in DOMAIN f /\ f.id = Head(w).id
  BY <1>1, Decoded, Zenon
<1> HIDE DEF f
<1>3. \A i \in 1 .. Len(<<>>) : <<>>[i].id < f.id
  OBVIOUS
<1>4. /\ Numbered(Append(<<>>, f), n)
      /\ Len(Append(<<>>, f)) = Len(<<>>) + 1
      /\ Before(Append(<<>>, f), Tail(w))
      /\ \A g \in Gens : Before(o[g], Append(<<>>, f))
  BY <1>1, <1>2, <1>3, EmptyFlow, AppendFlow, Zenon
<1>5. Len(Append(<<>>, f)) <= 1
  BY <1>4, EmptyFlow
<1> QED
  BY <1>1, <1>4, <1>5, Zenon DEF Flow, f

(* Turn t yields a frame that is before what remains; no later turn has     *)
(* yielded anything.                                                        *)
LEMMA FlowYield ==
  ASSUME NEW w, NEW p, NEW o, NEW n, Flow(w, p, o, n), NEW t \in Gens, NEW f,
         "id" \in DOMAIN f, f.id \in 1 .. n,
         \A g \in Gens : \A i \in 1 .. Len(o[g]) : o[g][i].id < f.id,
         \A g \in Gens : g > t => o[g] = <<>>,
         \A j \in 1 .. Len(w) : f.id < w[j].id,
         \A j \in 1 .. Len(p) : f.id < p[j].id
  PROVE  Flow(w, p, [o EXCEPT ![t] = Append(@, f)], n)
<1> DEFINE oo == [o EXCEPT ![t] = Append(@, f)]
<1>1. /\ DOMAIN oo = Gens /\ oo[t] = Append(o[t], f)
      /\ \A g \in Gens : g # t => oo[g] = o[g]
  BY Zenon DEF Flow
<1> HIDE DEF oo
<1>2. /\ Numbered(oo[t], n) /\ Increasing(oo[t])
      /\ Before(oo[t], w) /\ Before(oo[t], p)
      /\ \A g \in Gens : g < t => Before(o[g], oo[t])
  <2>1. /\ n \in Nat /\ Numbered(o[t], n) /\ Increasing(o[t])
        /\ \A i \in 1 .. Len(o[t]) : o[t][i].id < f.id
        /\ Before(o[t], w) /\ Before(o[t], p)
        /\ \A g \in Gens : g < t => Before(o[g], o[t])
    BY Zenon DEF Flow
  <2> DEFINE s == o[t]
  <2>2. /\ Numbered(s, n) /\ Increasing(s) /\ \A i \in 1 .. Len(s) : s[i].id < f.id
    BY <2>1, Zenon
  <2> HIDE DEF s
  <2>3. /\ Numbered(Append(s, f), n) /\ Increasing(Append(s, f))
        /\ \A q : Before(q, s) /\ (\A i \in 1 .. Len(q) : q[i].id < f.id) =>
             Before(q, Append(s, f))
        /\ \A q : Before(s, q) /\ (\A j \in 1 .. Len(q) : f.id < q[j].id) =>
             Before(Append(s, f), q)
    BY <2>1, <2>2, AppendFlow, Zenon
  <2> QED
    BY <1>1, <2>1, <2>3, Zenon DEF s
<1>3. ASSUME NEW g \in Gens, NEW h \in Gens, g < h
      PROVE  Before(oo[g], oo[h])
  <2>1. h # t => h > t \/ g # t
    BY <1>3, SMTT(30) DEF Gens
  <2>2. g # h
    BY <1>3 DEF Gens
  <2>3. CASE h = t
    BY <1>1, <1>2, <1>3, <2>2, <2>3, Zenon
  <2>4. CASE h # t /\ h > t
    BY <1>1, <2>4, EmptyFlow, Zenon
  <2>5. CASE h # t /\ g # t
    BY <1>1, <1>3, <2>5, Zenon DEF Flow
  <2> QED
    BY <2>1, <2>3, <2>4, <2>5, Zenon
<1>4. ASSUME NEW g \in Gens
      PROVE  Numbered(oo[g], n) /\ Increasing(oo[g]) /\ Before(oo[g], p) /\ Before(oo[g], w)
  BY <1>1, <1>2, Zenon DEF Flow
<1> QED
  BY <1>1, <1>3, <1>4, Zenon DEF Flow, oo

(* The daemon sends a frame: it gets the next number, and is lost or goes to *)
(* the end of the wire.                                                      *)
LEMMA FlowSent ==
  ASSUME NEW w, NEW p, NEW o, NEW n, Flow(w, p, o, n), NEW f, "id" \in DOMAIN f, f.id = n + 1
  PROVE  Flow(w, p, o, n + 1) /\ Flow(Append(w, f), p, o, n + 1)
<1>1. n \in Nat /\ n + 1 \in Nat /\ n + 1 \in 1 .. n + 1 /\ \A x \in 1 .. n : x \in 1 .. n + 1 /\ x < n + 1
  BY DEF Flow
<1>2. \A s : Numbered(s, n) => Numbered(s, n + 1) /\ \A i \in 1 .. Len(s) : s[i].id < f.id
  BY <1>1, Zenon DEF Numbered
<1>3. Flow(w, p, o, n + 1)
  BY <1>1, <1>2, Zenon DEF Flow
<1>4. /\ Numbered(Append(w, f), n + 1) /\ Increasing(Append(w, f))
      /\ Before(p, Append(w, f)) /\ \A g \in Gens : Before(o[g], Append(w, f))
  BY <1>1, <1>2, <1>3, AppendFlow, ZenonT(30) DEF Flow
<1> QED
  BY <1>3, <1>4, Zenon DEF Flow

-----------------------------------------------------------------------------
(* ReadEvent takes the first frame there is. *)
LEMMA TakenFlow ==
  ASSUME FlowInv, HasFrame, Consume
  PROVE  /\ Flow(wire', pending', out, sent)
         /\ "id" \in DOMAIN Frame /\ Frame.id \in 1 .. sent
         /\ \A g \in Gens : \A i \in 1 .. Len(out[g]) : out[g][i].id < Frame.id
         /\ \A j \in 1 .. Len(wire') : Frame.id < wire'[j].id
         /\ \A j \in 1 .. Len(pending') : Frame.id < pending'[j].id
<1>0. Flow(wire, pending, out, sent) /\ sent \in Nat
  BY Zenon DEF FlowInv, Flow
<1>1. CASE pending # <<>>
  <2>1. Frame = Head(pending) /\ pending' = Tail(pending) /\ wire' = wire
    BY <1>1, Zenon DEF Frame, Consume
  <2>2. Tail(pending) = <<>> /\ Flow(wire, Tail(pending), out, sent)
    BY <1>0, <1>1, FlowLess, Zenon
  <2>3. Increasing(pending)
    <3>1. Len(pending) <= 1 /\ Len(pending) \in Nat
      BY <1>0, SeqLen, Zenon DEF Flow, Numbered
    <3> QED
      BY <3>1 DEF Increasing
  <2>4. /\ "id" \in DOMAIN Head(pending) /\ Head(pending).id \in 1 .. sent
        /\ \A g \in Gens : \A i \in 1 .. Len(out[g]) : out[g][i].id < Head(pending).id
        /\ \A j \in 1 .. Len(wire) : Head(pending).id < wire[j].id
        /\ \A j \in 1 .. Len(Tail(pending)) : Head(pending).id < Tail(pending)[j].id
    <3>1. Numbered(pending, sent) /\ Before(pending, wire) /\ \A g \in Gens : Before(out[g], pending)
      BY <1>0, Zenon DEF Flow
    <3> QED
      BY <1>0, <1>1, <2>3, <3>1, TailFlow, Zenon
  <2> QED
    BY <2>1, <2>2, <2>4, Zenon
<1>2. CASE pending = <<>>
  <2>1. wire # <<>> /\ Frame = DecodeMessage(Head(wire)) /\ wire' = Tail(wire) /\ pending' = pending
    BY <1>2, Zenon DEF HasFrame, Frame, Consume
  <2>2. Flow(Tail(wire), pending, out, sent)
    BY <1>0, <2>1, FlowLess, Zenon
  <2>3. /\ "id" \in DOMAIN Head(wire) /\ Head(wire).id \in 1 .. sent
        /\ \A g \in Gens : \A i \in 1 .. Len(out[g]) : out[g][i].id < Head(wire).id
        /\ \A j \in 1 .. Len(Tail(wire)) : Head(wire).id < Tail(wire)[j].id
    <3>1. Numbered(wire, sent) /\ Increasing(wire) /\ \A g \in Gens : Before(out[g], wire)
      BY <1>0, Zenon DEF Flow
    <3> QED
      BY <1>0, <2>1, <3>1, TailFlow, Zenon
  <2>4. "id" \in DOMAIN Frame /\ Frame.id = Head(wire).id
    BY <2>1, <2>3, Decoded, Zenon
  <2>5. \A j \in 1 .. Len(pending') : Frame.id < pending'[j].id
    BY <1>2, <2>1
  <2> QED
    BY <2>1, <2>2, <2>3, <2>4, <2>5, Zenon
<1> QED
  BY <1>1, <1>2, Zenon

(* Nothing is yielded. *)
LEMMA Stays ==
  ASSUME FlowInv, UNCHANGED <<out, turn>>, Flow(wire', pending', out, sent'),
         pc' = "idle" \/ pc # "idle"
  PROVE  FlowInv'
BY Zenon DEF FlowInv

(* The frame that is read is yielded. *)
LEMMA Yields ==
  ASSUME FlowInv, pc # "idle", HasFrame, Consume, Yield(Frame),
         UNCHANGED <<turn, sent>>
  PROVE  FlowInv'
<1> DEFINE f == Frame
<1>1. turn \in Gens /\ turn \in 0 .. MaxTurns /\ DOMAIN out = Gens
      /\ out' = [out EXCEPT ![turn] = Append(@, f)]
      /\ \A g \in Gens : g > turn => out[g] = <<>>
  BY Zenon DEF FlowInv, Flow, Yield
<1>2. /\ Flow(wire', pending', out, sent)
      /\ "id" \in DOMAIN f /\ f.id \in 1 .. sent
      /\ \A g \in Gens : \A i \in 1 .. Len(out[g]) : out[g][i].id < f.id
      /\ \A j \in 1 .. Len(wire') : f.id < wire'[j].id
      /\ \A j \in 1 .. Len(pending') : f.id < pending'[j].id
  BY TakenFlow, Zenon
<1> HIDE DEF f
<1>3. Flow(wire', pending', out', sent')
  BY <1>1, <1>2, FlowYield, Zenon
<1>4. \A g \in Gens : g > turn => out'[g] = <<>>
  <2>1. \A g \in Gens : g > turn => g # turn
    BY <1>1 DEF Gens
  <2> QED
    BY <1>1, <2>1, Zenon
<1> QED
  BY <1>1, <1>3, <1>4, Zenon DEF FlowInv

(* The daemon sends a frame. *)
LEMMA Emits ==
  ASSUME FlowInv, NEW f, Emit(f), "id" \in DOMAIN f, f.id = sent + 1,
         UNCHANGED <<out, turn, pc>>
  PROVE  FlowInv'
<1>1. Flow(wire, pending, out, sent + 1) /\ Flow(Append(wire, f), pending, out, sent + 1)
  BY FlowSent, Zenon DEF FlowInv
<1>2. Flow(wire', pending', out, sent')
  BY <1>1, Zenon DEF Emit
<1> QED
  BY <1>2, Zenon DEF FlowInv

(* The next frame of the daemon has the next number. *)
LEMMA SentNext ==
  \A type, mode, data, loop, gen, wrapped :
    LET f == Sent(type, mode, data, loop, gen, wrapped)
    IN  "id" \in DOMAIN f /\ f.id = sent + 1
BY DEF Sent

(* A frame is read and none yielded. *)
LEMMA Takes ==
  ASSUME FlowInv, pc # "idle", HasFrame, Consume, UNCHANGED <<out, turn, sent>>
  PROVE  FlowInv'
BY TakenFlow, Stays, Zenon

(* The peel: leftovers leave the queue, ... *)
LEMMA StartFlow ==
  ASSUME FlowInv, IterStart
  PROVE  FlowInv'
<1>1. PICK m \in 0 .. Len(pending) : \E kept \in [1 .. m -> DOMAIN pending] :
        pending' = [i \in 1 .. m |-> pending[kept[i]]]
  BY Zenon DEF IterStart
<1>2. PICK kept \in [1 .. m -> DOMAIN pending] : pending' = [i \in 1 .. m |-> pending[kept[i]]]
  BY <1>1, Zenon
<1>3. UNCHANGED <<wire, sent, out, turn>> /\ pc = "start"
  BY Zenon DEF IterStart, daemonVars
<1>4. Flow(wire', pending', out, sent')
  <2>1. Flow(wire, pending, out, sent)
    BY Zenon DEF FlowInv
  <2>2. Flow(wire, [i \in 1 .. m |-> pending[kept[i]]], out, sent)
    BY <2>1, FlowKept
  <2> QED
    BY <1>2, <1>3, <2>2, Zenon
<1>5. pc # "idle"
  BY <1>3
<1> QED
  BY <1>3, <1>4, <1>5, Stays, Zenon

(* ... then a leftover is dropped, or a frame is put back. *)
LEMMA PeelFlow ==
  ASSUME FlowInv, PeelFrame
  PROVE  FlowInv'
<1>1. pc = "peel" /\ HasFrame /\ UNCHANGED <<turn, out, sent>>
  BY Zenon DEF PeelFrame, daemonVars
<1>2. pc # "idle"
  BY <1>1
<1>3. CASE Consume
  BY <1>1, <1>2, <1>3, Takes, Zenon
<1>4. CASE /\ pending' = Append(IF pending # <<>> THEN Tail(pending) ELSE <<>>, Frame)
           /\ wire' = IF pending # <<>> THEN wire ELSE Tail(wire)
  <2>0. Flow(wire, pending, out, sent)
    BY Zenon DEF FlowInv
  <2>1. CASE pending # <<>>
    <3>1. Tail(pending) = <<>> /\ Frame = Head(pending)
      BY <2>0, <2>1, FlowLess, Zenon DEF Frame
    <3>2. PICK S : pending \in Seq(S)
      BY <2>0, Zenon DEF Flow, Numbered, IsSequence
    <3>3. Append(<<>>, Head(pending)) = pending
      BY <2>1, <3>1, <3>2, PutBackOne, Zenon
    <3> QED
      BY <1>1, <1>2, <1>4, <2>0, <2>1, <3>1, <3>3, Stays, Zenon
  <2>2. CASE pending = <<>>
    <3>1. wire # <<>> /\ Frame = DecodeMessage(Head(wire))
      BY <1>1, <2>2, Zenon DEF HasFrame, Frame
    <3>2. Flow(Tail(wire), Append(<<>>, Frame), out, sent)
      BY <2>0, <2>2, <3>1, FlowBack, Zenon
    <3> QED
      BY <1>1, <1>2, <1>4, <2>2, <3>2, Stays, Zenon
  <2> QED
    BY <2>1, <2>2, Zenon
<1> QED
  BY <1>3, <1>4, Zenon DEF PeelFrame

(* A read that returns nil takes a control frame at most. *)
LEMMA NilFlow ==
  ASSUME FlowInv, ReadNil \/ wire' = wire, UNCHANGED <<turn, out, sent, pending>>,
         pc # "idle"
  PROVE  FlowInv'
<1>1. wire' = wire \/ (wire # <<>> /\ wire' = Tail(wire))
  BY Zenon DEF ReadNil, Control
<1>2. Flow(wire', pending', out, sent')
  <2>1. Flow(wire, pending, out, sent)
    BY Zenon DEF FlowInv
  <2>2. wire # <<>> => Flow(Tail(wire), pending, out, sent)
    BY <2>1, FlowLess, Zenon
  <2> QED
    BY <1>1, <2>1, <2>2, Zenon
<1> QED
  BY <1>2, Stays, Zenon

(* A cancel is answered with two frames. *)
LEMMA CancelFlow ==
  ASSUME FlowInv, DaemonCancels
  PROVE  FlowInv'
<1>1. PICK gen : LET reply == Sent("command_response", "", "cancel", NoLoop, NoID, FALSE)
                     last  == IF gen = NoID THEN Status("idle", NoID) ELSE Status("stopped", gen)
                 IN  wire' = IF sock = "open" THEN wire \o <<reply, [last EXCEPT !.id = sent + 2]>>
                                              ELSE wire
  BY Zenon DEF DaemonCancels
<1> DEFINE a == Sent("command_response", "", "cancel", NoLoop, NoID, FALSE)
<1> DEFINE c == IF gen = NoID THEN Status("idle", NoID) ELSE Status("stopped", gen)
<1> DEFINE b == [c EXCEPT !.id = sent + 2]
<1>2. UNCHANGED <<out, turn, pc, pending>> /\ sent' = sent + 2
  BY Zenon DEF DaemonCancels, iterVars
<1>3. wire' = wire \/ wire' = wire \o <<a, b>>
  BY <1>1, Zenon
<1>4. "id" \in DOMAIN a /\ a.id = sent + 1
  BY SentNext, Zenon
<1>5. "id" \in DOMAIN b /\ b.id = sent + 2
  <2>1. "id" \in DOMAIN c
    BY SentNext, Zenon DEF Status
  <2> HIDE DEF c
  <2> QED
    BY <2>1, Zenon
<1> HIDE DEF a, b
<1>6. Flow(wire, pending, out, sent) /\ sent \in Nat /\ IsSequence(wire)
  BY Zenon DEF FlowInv, Flow, Numbered
<1>7. (sent + 1) + 1 = sent + 2
  BY <1>6
<1>8. Flow(wire, pending, out, sent + 1) /\ Flow(Append(wire, a), pending, out, sent + 1)
  BY <1>4, <1>6, FlowSent, Zenon
<1>9. Flow(wire, pending, out, sent + 2) /\ Flow(Append(Append(wire, a), b), pending, out, sent + 2)
  BY <1>5, <1>7, <1>8, FlowSent, Zenon
<1>10. wire \o <<a, b>> = Append(Append(wire, a), b)
  BY <1>6, AppendTwo
<1>11. Flow(wire', pending', out, sent')
  BY <1>2, <1>3, <1>9, <1>10, Zenon
<1> QED
  BY <1>2, <1>11, Zenon DEF FlowInv

(* Every step keeps the order of the frames. *)
LEMMA FlowStep ==
  ASSUME FlowInv, [Next]_vars
  PROVE  FlowInv'
<1>0. Flow(wire, pending, out, sent)
  BY Zenon DEF FlowInv
<1>1. CASE SendTurn
  <2>1. /\ turn < MaxTurns /\ turn' = turn + 1 /\ UNCHANGED <<out, wire, pending, sent>>
        /\ turn \in 0 .. MaxTurns /\ \A g \in Gens : g > turn => out[g] = <<>>
    BY <1>1, Zenon DEF SendTurn, sockVars, FlowInv
  <2>2. turn' \in 0 .. MaxTurns /\ turn' \in Gens /\ \A g \in Gens : g > turn' => g > turn
    BY <2>1, StreamAssumption DEF Gens
  <2> QED
    BY <1>0, <2>1, <2>2, Zenon DEF FlowInv
<1>2. CASE EnsureConnected \/ Connect
  <2>1. /\ UNCHANGED <<out, turn, pc, sent>>
        /\ (wire' = wire /\ pending' = pending) \/ (wire' = <<>> /\ pending' = <<>>)
    BY <1>2, Zenon DEF EnsureConnected, Connect, FreshSocket, iterVars, sockVars, daemonVars
  <2>2. Flow(<<>>, <<>>, out, sent)
    BY <1>0, FlowLess, Zenon
  <2>3. Flow(wire', pending', out, sent')
    BY <1>0, <2>1, <2>2, Zenon
  <2> QED
    BY <2>1, <2>3, Zenon DEF FlowInv
<1>3. CASE IterStart
  BY <1>3, StartFlow, Zenon
<1>4. CASE PeelFrame
  BY <1>4, PeelFlow, Zenon
<1>5. CASE PeelTimeout \/ Top \/ ReadPoisoned \/ DrainTimeout
  <2>1. pc \in {"peel", "top", "read", "drain"} /\ UNCHANGED <<out, turn, wire, pending, sent>>
    BY <1>5, Zenon DEF PeelTimeout, Top, ReadPoisoned, DrainTimeout, sockVars, daemonVars
  <2>2. pc # "idle"
    BY <2>1
  <2> QED
    BY <1>0, <2>1, <2>2, Stays, Zenon
<1>6. CASE PeelEnds \/ ReadNothing \/ DrainEnds
  <2>1. /\ pc \in {"peel", "read", "drain"} /\ UNCHANGED <<out, turn, pending, sent>>
        /\ ReadNil \/ wire' = wire
    BY <1>6, Zenon DEF PeelEnds, ReadNothing, DrainEnds, daemonVars
  <2>2. pc # "idle"
    BY <2>1
  <2> QED
    BY <2>1, <2>2, NilFlow, Zenon
<1>7. CASE ReadIgnored \/ ReadRunning \/ ReadError \/ ReadCancelled \/ YieldCancelled
  <2>1. pc = "read" /\ HasFrame /\ Consume /\ UNCHANGED <<out, turn, sent>>
    BY <1>7, Zenon DEF ReadIgnored, ReadRunning, ReadError, ReadCancelled,
                       YieldCancelled, Taken, daemonVars
  <2>2. pc # "idle"
    BY <2>1
  <2> QED
    BY <2>1, <2>2, Takes, Zenon
<1>8. CASE ReadChunk \/ ReadEnd \/ DrainFrame
  <2>1. /\ pc \in {"read", "drain"} /\ HasFrame /\ Consume /\ UNCHANGED <<turn, sent>>
        /\ Yield(Frame) \/ out' = out
    BY <1>8, Zenon DEF ReadChunk, ReadEnd, DrainFrame, Taken, daemonVars
  <2>2. pc # "idle"
    BY <2>1
  <2> QED
    BY <2>1, <2>2, Takes, Yields, Zenon
<1>9. CASE DaemonRuns \/ DaemonEnds \/ DaemonIdles \/ DaemonNoise \/ \E k : DaemonChunk(k)
  <2>1. UNCHANGED <<out, turn, pc>>
    BY <1>9, Zenon DEF DaemonRuns, DaemonEnds, DaemonIdles, DaemonNoise,
                       DaemonChunk, iterVars
  <2>2. PICK type, mode, data, loop, gen, wrapped :
          Emit(Sent(type, mode, data, loop, gen, wrapped))
    BY <1>9, Zenon DEF DaemonRuns, DaemonEnds, DaemonIdles, DaemonNoise,
                       DaemonChunk, Status
  <2> DEFINE f == Sent(type, mode, data, loop, gen, wrapped)
  <2>3. Emit(f) /\ "id" \in DOMAIN f /\ f.id = sent + 1
    BY <2>2, SentNext, Zenon
  <2> HIDE DEF f
  <2> QED
    BY <2>1, <2>3, Emits, Zenon
<1>10. CASE DaemonCancels
  BY <1>10, CancelFlow, Zenon
<1>11. CASE Break
  <2>1. UNCHANGED <<out, turn, pc, pending, sent>> /\ (wire' = wire \/ wire' = <<>>)
    BY <1>11, Zenon DEF Break, iterVars, daemonVars
  <2>2. Flow(<<>>, pending, out, sent)
    BY <1>0, FlowLess, Zenon
  <2>3. Flow(wire', pending', out, sent')
    BY <1>0, <2>1, <2>2, Zenon
  <2> QED
    BY <2>1, <2>3, Zenon DEF FlowInv
<1>12. CASE DaemonAdmits \/ CancelActiveTurn \/ CtxDone \/ UNCHANGED vars
  <2>1. UNCHANGED <<out, turn, pc, pending, wire, sent>>
    BY <1>12, Zenon DEF DaemonAdmits, CancelActiveTurn, CtxDone, vars, iterVars,
                        sockVars, daemonVars
  <2> QED
    BY <2>1, Zenon DEF FlowInv
<1> QED
  BY <1>1, <1>2, <1>3, <1>4, <1>5, <1>6, <1>7, <1>8, <1>9, <1>10, <1>11, <1>12, ZenonT(30)
     DEF Next, IterStep, Daemon

LEMMA FlowInit == ASSUME Init PROVE FlowInv
<1>1. /\ wire = <<>> /\ pending = <<>> /\ sent = 0 /\ turn = 0 /\ pc = "idle"
      /\ out = [g \in Gens |-> <<>>]
  BY Zenon DEF Init
<1>2. 0 \in Nat /\ 0 <= 1 /\ 0 \in 0 .. MaxTurns
  BY StreamAssumption
<1>3. DOMAIN out = Gens /\ \A g \in Gens : out[g] = <<>>
  BY <1>1, Zenon
<1>4. Flow(wire, pending, out, sent)
  BY <1>1, <1>2, <1>3, EmptyFlow, Zenon DEF Flow
<1> QED
  BY <1>1, <1>2, <1>3, <1>4, Zenon DEF FlowInv

(* IterTurnChunks yields frames in the order of the wire and once each, over *)
(* all turns of the session, reconnects, peels and cancels included.         *)
THEOREM ChunksInWireOrder == Spec => []InWireOrder
<1>1. Init => FlowInv
  BY FlowInit, Zenon
<1>2. FlowInv /\ [Next]_vars => FlowInv'
  BY FlowStep, Zenon
<1>3. FlowInv => InWireOrder
  <2> SUFFICES ASSUME FlowInv, NEW g \in Gens, NEW h \in Gens,
                      NEW i \in DOMAIN out[g], NEW j \in DOMAIN out[h],
                      g < h \/ (g = h /\ i < j)
               PROVE  out[g][i].id < out[h][j].id
    BY Zenon DEF InWireOrder
  <2>1. \A k \in Gens : DOMAIN out[k] = 1 .. Len(out[k])
    BY SeqDomain, Zenon DEF FlowInv, Flow, Numbered
  <2> QED
    BY <2>1, ZenonT(30) DEF FlowInv, Flow, Before, Increasing
<1> QED
  BY <1>1, <1>2, <1>3, PTL DEF Spec

-----------------------------------------------------------------------------
(* Return sets the error and the end state of the turn, and of no other. *)
LEMMA Returned ==
  ASSUME EndInv, NEW err, NEW s, Return(err, s)
  PROVE  /\ pc' = "idle" /\ DOMAIN result' = Gens
         /\ \A g \in Gens : DOMAIN result'[g] = {"err", "endState", "by"}
         /\ \A g \in Gens : \/ result'[g] = result[g]
                            \/ result'[g].err = err /\ result'[g].endState = s
<1>1. /\ pc' = "idle" /\ DOMAIN result = Gens
      /\ \A g \in Gens : DOMAIN result[g] = {"err", "endState", "by"}
      /\ result' = [result EXCEPT ![turn] = [@ EXCEPT !.err = err, !.endState = s]]
  BY Zenon DEF EndInv, Return, Goto
<1>2. DOMAIN result' = Gens
  BY <1>1, Zenon
<1>3. ASSUME NEW g \in Gens
      PROVE  /\ DOMAIN result'[g] = {"err", "endState", "by"}
             /\ \/ result'[g] = result[g]
                \/ result'[g].err = err /\ result'[g].endState = s
  <2>1. CASE g # turn
    BY <1>1, <2>1, Zenon
  <2>2. CASE g = turn
    <3>1. result'[g] = [result[g] EXCEPT !.err = err, !.endState = s]
      BY <1>1, <2>2, Zenon
    <3>2. DOMAIN result[g] = {"err", "endState", "by"}
      BY <1>1, Zenon
    <3> QED
      BY <3>1, <3>2
  <2> QED
    BY <2>1, <2>2, Zenon
<1> QED
  BY <1>1, <1>2, <1>3, Zenon

(* ReadEnd notes the turn of the last frame, and an end state. *)
LEMMA EndRead ==
  ASSUME EndInv, ReadEnd
  PROVE  /\ EndInv'
         /\ \A g \in Gens : result'[g].err = result[g].err
<1>1. /\ DOMAIN result = Gens
      /\ \A g \in Gens : DOMAIN result[g] = {"err", "endState", "by"}
      /\ "endState" \in DOMAIN it
  BY Zenon DEF EndInv
<1>2. result' = [result EXCEPT ![turn].by = Frame.turn]
  BY Zenon DEF ReadEnd
<1>3. DOMAIN result' = Gens
  BY <1>1, <1>2, Zenon
<1>4. ASSUME NEW g \in Gens
      PROVE  DOMAIN result'[g] = {"err", "endState", "by"} /\ result'[g].err = result[g].err
  <2>1. CASE g # turn
    BY <1>1, <1>2, <2>1, Zenon
  <2>2. CASE g = turn
    <3>1. result'[g] = [result[g] EXCEPT !.by = Frame.turn]
      BY <1>1, <1>2, <2>2, Zenon
    <3>2. DOMAIN result[g] = {"err", "endState", "by"}
      BY <1>1, Zenon
    <3> QED
      BY <3>1, <3>2
  <2> QED
    BY <2>1, <2>2, Zenon
<1> DEFINE e == CASE ~IsTurnEnd(Frame) -> Frame.data
                  [] Frame.data = "stream.end" -> "stream_end"
                  [] OTHER -> "completed"
<1>5. it' = [it EXCEPT !.endState = e]
  BY Zenon DEF ReadEnd
<1>6. e \in Ended
  <2>1. EndsTurn(Frame)
    BY Zenon DEF ReadEnd
  <2>2. ~IsTurnEnd(Frame) => Frame.data \in {"stopped", "idle"}
    BY <2>1, Zenon DEF EndsTurn, IsTurnEnd
  <2> QED
    BY <2>2 DEF Ended
<1> HIDE DEF e
<1>7. "endState" \in DOMAIN it' /\ it'.endState = e
  BY <1>1, <1>5, Zenon
<1> QED
  BY <1>3, <1>4, <1>6, <1>7, Zenon DEF EndInv

(* What IterTurnChunks does with its result *)
LEMMA ResultSteps ==
  ASSUME Next, ~ReadEnd
  PROVE  \/ result' = result
         \/ \E s : \E err \in {"ctx", "daemon", "read", "lost"} : Return(err, s)
         \/ ReadNothing /\ Return("nil", "")
         \/ pc = "drain" /\ Return("nil", it.endState)
BY ZenonT(30) DEF Next, IterStep, Daemon, SendTurn, EnsureConnected, Connect, IterStart,
     PeelFrame, PeelTimeout, PeelEnds, Top, ReadIgnored, ReadRunning, ReadError,
     ReadCancelled, ReadChunk, ReadNothing, ReadPoisoned, DrainFrame, DrainTimeout,
     DrainEnds, YieldCancelled, DaemonAdmits, DaemonRuns, DaemonChunk, DaemonEnds,
     DaemonIdles, DaemonCancels, DaemonNoise, Break, CancelActiveTurn, CtxDone,
     iterVars

(* and with its locals *)
LEMMA Locals ==
  ASSUME Next, ~ReadEnd
  PROVE  \/ it' = it /\ (pc' = "drain" => pc = "drain")
         \/ pc' # "drain" /\ ("endState" \in DOMAIN it => "endState" \in DOMAIN it')
<1>1. CASE IterStart
  <2>1. pc' = "peel" /\ "endState" \in DOMAIN it'
    BY <1>1, Zenon DEF IterStart, Goto, NewIter
  <2> QED
    BY <2>1
<1>2. CASE ReadRunning \/ ReadCancelled \/ ReadChunk
  <2>1. pc' = "top" /\ DOMAIN it' = DOMAIN it
    BY <1>2, Zenon DEF ReadRunning, ReadCancelled, ReadChunk, Goto
  <2> QED
    BY <2>1
<1>3. CASE SendTurn
  BY <1>3 DEF SendTurn
<1>4. CASE ~(IterStart \/ ReadRunning \/ ReadCancelled \/ ReadChunk \/ SendTurn)
  <2>1. it' = it /\ (pc' = pc \/ pc' \in {"top", "read", "idle"})
    BY <1>4, Zenon DEF Next, IterStep, Daemon, EnsureConnected, Connect,
     PeelFrame, PeelTimeout, PeelEnds, Top, ReadIgnored, ReadError,
     ReadNothing, ReadPoisoned, DrainFrame, DrainTimeout,
     DrainEnds, YieldCancelled, DaemonAdmits, DaemonRuns, DaemonChunk, DaemonEnds,
     DaemonIdles, DaemonCancels, DaemonNoise, Break, CancelActiveTurn, CtxDone,
     iterVars, Goto, Return
  <2> QED
    BY <2>1
<1> QED
  BY <1>1, <1>2, <1>3, <1>4, Zenon

LEMMA EndInit == ASSUME Init PROVE EndInv
<1>1. result = [g \in Gens |-> NoResult] /\ it = NewIter /\ pc = "idle"
  BY Zenon DEF Init
<1>2. DOMAIN NoResult = {"err", "endState", "by"} /\ "endState" \in DOMAIN NewIter
  BY DEF NoResult, NewIter
<1>3. DOMAIN result = Gens /\ \A g \in Gens : result[g] = NoResult
  BY <1>1, Zenon
<1>4. pc # "drain"
  BY <1>1
<1> QED
  BY <1>1, <1>2, <1>3, <1>4, Zenon DEF EndInv

(* A turn drains after it has ended: a step keeps it. *)
LEMMA EndStep ==
  ASSUME EndInv, [Next]_vars
  PROVE  EndInv'
<1>1. CASE ReadEnd
  BY <1>1, EndRead, Zenon
<1>2. CASE Next /\ ~ReadEnd
  <2>1. DOMAIN result' = Gens /\ \A g \in Gens : DOMAIN result'[g] = {"err", "endState", "by"}
    <3>1. CASE result' = result
      BY <3>1, Zenon DEF EndInv
    <3>2. CASE \E err, s : Return(err, s)
      BY <3>2, Returned, Zenon
    <3> QED
      BY <1>2, <3>1, <3>2, ResultSteps, Zenon
  <2>2. "endState" \in DOMAIN it' /\ (pc' = "drain" => it'.endState \in Ended)
    BY <1>2, Locals, Zenon DEF EndInv
  <2> QED
    BY <2>1, <2>2, Zenon DEF EndInv
<1>3. CASE UNCHANGED vars
  BY <1>3, Zenon DEF EndInv, vars, iterVars
<1> QED
  BY <1>1, <1>2, <1>3, Zenon

(* Where the only control frame is the daemon's farewell, IterTurnChunks     *)
(* returns neither an error nor an end state only when the daemon is gone.   *)
THEOREM SilentOnlyWhenGone ==
  ASSUME Controls \subseteq {"disconnect"}
  PROVE  Spec => SilentEnd
<1> DEFINE Silent == \A g \in Gens :
       result[g].err = "none" /\ result'[g].err = "nil" /\ result'[g].endState = ""
         => sock = "closed" \/ ~alive'
<1>1. Init => EndInv
  BY EndInit, Zenon
<1>2. EndInv /\ [Next]_vars => EndInv'
  BY EndStep, Zenon
<1>3. EndInv /\ [Next]_vars => [Silent]_vars
  <2> SUFFICES ASSUME EndInv, Next, NEW g \in Gens,
                      result[g].err = "none", result'[g].err = "nil", result'[g].endState = ""
               PROVE  sock = "closed" \/ ~alive'
    BY Zenon
  <2>1. result'[g].err # result[g].err
    BY Zenon
  <2>2. ~ReadEnd /\ result' # result
    BY <2>1, EndRead, Zenon
  <2>3. ASSUME NEW err \in {"ctx", "daemon", "read", "lost"}, NEW s, Return(err, s)
        PROVE  FALSE
    <3>1. result'[g].err = err
      BY <2>1, <2>3, Returned, Zenon
    <3> QED
      BY <3>1, Zenon
  <2>4. ASSUME pc = "drain", Return("nil", it.endState)
        PROVE  FALSE
    <3>1. it.endState \in Ended
      BY <2>4, Zenon DEF EndInv
    <3>2. result'[g] = result[g] \/ result'[g].endState = it.endState
      BY <2>4, Returned, ZenonT(30)
    <3>3. result'[g].endState = it.endState
      BY <2>1, <3>2, Zenon
    <3> QED
      BY <3>1, <3>3, Zenon DEF Ended
  <2>5. ASSUME ReadNothing PROVE sock = "closed" \/ ~alive'
    <3>1. ReadNil
      BY <2>5, Zenon DEF ReadNothing
    <3>2. CASE Control
      <4>1. Head(wire).type = "disconnect"
        BY <3>2, Zenon DEF Control
      <4> QED
        BY <3>1, <3>2, <4>1, Zenon DEF ReadNil
    <3> QED
      BY <3>1, <3>2, Zenon DEF ReadNil, NilRead
  <2> QED
    BY <2>2, <2>3, <2>4, <2>5, ResultSteps, Zenon
<1> QED
  BY <1>1, <1>2, <1>3, PTL DEF Spec, SilentEnd

-----------------------------------------------------------------------------
(* The frames on their way: put back by the peel, or on the wire *)
FramesIn(s) == {s[i] : i \in 1 .. Len(s)}
Transit == FramesIn(pending) \cup FramesIn(wire)

(* What a frame says: that a turn runs, a chunk of it, or its end *)
IsRunning(f) == f.type = "status" /\ f.data = "running"
IsChunk(f) == f.type = "event" /\ f.loop = Loop /\ ~IsTurnEnd(f)
AtWork(f) == IsRunning(f) \/ IsChunk(f)
IsFinal(f) == f.loop = Loop /\ (IsTurnEnd(f) \/ (f.type = "status" /\ ~IsRunning(f)))

(* A frame as it was sent, about a turn up to t *)
IsSent(f) ==
  /\ f = [type |-> f.type, mode |-> f.mode, data |-> f.data, loop |-> f.loop,
          turn |-> f.turn, wrapped |-> f.wrapped, id |-> f.id]
  /\ f.wrapped = FALSE
About(f, t) ==
  \/ /\ f.loop = Loop /\ f.turn \in 1 .. t
     /\ f.type \in {"event", "status"}
  \/ f.loop = Loop /\ f.turn = NoID /\ f.type = "status" /\ ~IsRunning(f)
  \/ f.loop = Foreign /\ f.type \in {"event", "status"} /\ ~IsRunning(f)
  \/ f.loop = NoLoop /\ f.type \in {"command_response", "error", "ping", "disconnect"}
Proper(f, t) == IsSent(f) /\ About(f, t)

FrameInv == \A f \in Transit : Proper(f, turn)

(* Chunks come as event frames of their own and none ends its turn; control *)
(* frames are pings and the daemon's farewell.                              *)
PlainKinds ==
  \A i \in 1 .. MaxChunks : \A k \in ChunkKinds[i] :
    k.wrapped = FALSE /\ ~(k.mode = "custom" /\ IsTurnEndCustomData(k.data))
KnownControls == Controls \subseteq {"ping", "disconnect"}

(* Turn g is over for the daemon, but for the idle that closes it. *)
Past(g) == g \in closed \/ (query = g /\ phase = "closing")

(* What the daemon has not read: cancels, and turns up to t, once each, that *)
(* it has neither closed nor in hand                                         *)
Queued(s, t, c, q) ==
  /\ IsSequence(s)
  /\ \A i \in 1 .. Len(s) : s[i] = CancelTurn \/ (s[i] \in 1 .. t /\ s[i] \notin c /\ s[i] # q)
  /\ \A i, j \in 1 .. Len(s) : s[i] = s[j] => i = j \/ s[i] = CancelTurn

(* The daemon has a turn at most in hand, and each input once. *)
DaemonInv ==
  /\ closed \subseteq 1 .. turn /\ query \in 0 .. turn /\ query \notin closed
  /\ phase \in {"none", "admitted", "running", "closing"}
  /\ query = NoID <=> phase = "none"
  /\ Queued(inbox, turn, closed, query)
  /\ chunks \in Nat /\ DOMAIN log = Gens
  /\ \A g \in Gens : IsSequence(log[g]) /\ (g > turn => log[g] = <<>>)

(* The locals of IterTurnChunks, and how turns ended so far *)
ResultInv ==
  /\ DOMAIN it = DOMAIN NewIter
  /\ \A g \in Gens : g > turn \/ (g = turn /\ pc # "idle") => result[g].err = "none"
  /\ haunted \subseteq 1 .. turn
  /\ \A h \in haunted : \E e \in Gens : e < h /\ LeftEarly(e)

(* Between turns, none of which was left early, the daemon is done. *)
Calm ==
  /\ \A i \in 1 .. Len(inbox) : inbox[i] = CancelTurn
  /\ phase \in {"none", "closing"}
  /\ \A f \in Transit : ~AtWork(f)
CalmInv == pc = "idle" /\ (\A g \in Gens : g <= turn => ~LeftEarly(g)) => Calm

(* In a turn: the daemon has no other in hand, ... *)
InHand ==
  /\ \A i \in 1 .. Len(inbox) : inbox[i] \in {CancelTurn, turn}
  /\ query \in {NoID, turn} \/ phase = "closing"

(* ... what it says of its work is about this turn, ... *)
Logged(f) ==
  \E k \in 1 .. Len(log[turn]) :
    log[turn][k].id = f.id /\ log[turn][k].mode = f.mode /\ log[turn][k].data = f.data
OwnWork == \A f \in Transit : AtWork(f) => f.turn = turn /\ (IsChunk(f) => Logged(f))

(* ... the reader is bound to it or to none, ... *)
Bound == IF pc = "start" THEN NoID ELSE it.expected
Begun == (query = turn /\ phase \in {"running", "closing"}) \/ turn \in closed
BoundOwn ==
  /\ Bound \in {NoID, turn}
  /\ pc # "start" /\ it.queryStarted => it.expected = turn
  /\ Bound = turn \/ (\E f \in Transit : IsRunning(f)) => Begun

(* ... a frame that could end it comes before the turn runs, and is passed  *)
(* over, or comes after all its chunks, ...                                 *)
LastFrames == {f \in Transit : IsFinal(f) /\ f.turn \in {turn, NoID}}
Early(f) ==
  /\ f.turn = NoID /\ Bound = NoID
  /\ \A r \in Transit : IsRunning(r) => f.id < r.id
Late(f) ==
  /\ Past(turn) /\ (f.turn = NoID => turn \in closed)
  /\ \A r \in Transit : AtWork(r) => r.id < f.id
EndsInPlace == \A f \in LastFrames : Early(f) \/ Late(f)

(* ... and no chunk is lost, unless the socket is, and with it the end.     *)
Coming(id) == \E f \in Transit : IsChunk(f) /\ ~ShouldDropStreamChunkEarly(f) /\ f.id = id
Complete == \A id \in PassedIds(log[turn]) : id \in ChunkIds(out[turn]) \/ Coming(id)
CutOff == sock # "open" /\ pc # "drain" /\ \A f \in LastFrames : Early(f)

(* In the drain the turn is over. *)
OwnEnd(g) == result[g].by = g \/ (result[g].by = NoID /\ g \in closed)
Drained == pc = "drain" => Past(turn) /\ OwnEnd(turn) /\ \A f \in Transit : ~AtWork(f)

InTurn ==
  /\ InHand /\ OwnWork /\ BoundOwn /\ EndsInPlace /\ Drained
  /\ ChunkIds(out[turn]) \subseteq PassedIds(log[turn])
  /\ Complete \/ CutOff
TurnInv == pc # "idle" /\ turn \notin haunted => InTurn

(* A turn that has ended stays as it was. *)
DoneInv ==
  \A g \in Gens : g \notin haunted /\ result[g].err = "nil" /\ result[g].endState \in Ended =>
    Past(g) /\ OwnEnd(g) /\ ChunkIds(out[g]) = PassedIds(log[g])

OwnInv ==
  /\ FlowInv /\ EndInv /\ FrameInv /\ DaemonInv /\ ResultInv
  /\ CalmInv /\ TurnInv /\ DoneInv

-----------------------------------------------------------------------------
(* FramesIn of a queue *)
LEMMA NoneIn == FramesIn(<<>>) = {}
<1>1. 1 .. Len(<<>>) = {}
  OBVIOUS
<1> QED
  BY <1>1, Zenon DEF FramesIn

(* The frames of a sequence without its first, and with one more *)
LEMMA TailFrames ==
  ASSUME NEW s, IsSequence(s), s # <<>>
  PROVE  /\ Head(s) \in FramesIn(s) /\ FramesIn(Tail(s)) \subseteq FramesIn(s)
         /\ FramesIn(s) \subseteq FramesIn(Tail(s)) \cup {Head(s)}
<1>1. PICK S : s \in Seq(S)
  BY Zenon DEF IsSequence
<1>2. /\ Len(s) \in Nat /\ Len(s) >= 1 /\ Head(s) = s[1] /\ Len(Tail(s)) = Len(s) - 1
      /\ \A i \in 1 .. Len(Tail(s)) : i + 1 \in 1 .. Len(s) /\ Tail(s)[i] = s[i + 1]
  BY <1>1, TailFacts, Zenon
<1>3. 1 \in 1 .. Len(s)
  BY <1>2
<1>4. \A i \in 1 .. Len(s) : i = 1 \/ (i - 1 \in 1 .. Len(Tail(s)) /\ (i - 1) + 1 = i)
  BY <1>2
<1>5. \A i \in 1 .. Len(s) : s[i] = Head(s) \/ s[i] \in FramesIn(Tail(s))
  BY <1>2, <1>4, ZenonT(30) DEF FramesIn
<1>6. \A i \in 1 .. Len(Tail(s)) : Tail(s)[i] \in FramesIn(s)
  BY <1>2, Zenon DEF FramesIn
<1>7. Head(s) \in FramesIn(s)
  BY <1>2, <1>3, Zenon DEF FramesIn
<1>8. FramesIn(Tail(s)) \subseteq FramesIn(s)
  <2>1. \A x \in FramesIn(Tail(s)) : \E i \in 1 .. Len(Tail(s)) : x = Tail(s)[i]
    BY Zenon DEF FramesIn
  <2> QED
    BY <1>6, <2>1, Zenon
<1>9. \A x \in FramesIn(s) : \E i \in 1 .. Len(s) : x = s[i]
  BY Zenon DEF FramesIn
<1> QED
  BY <1>5, <1>7, <1>8, <1>9, Zenon

LEMMA AppendFrames ==
  ASSUME NEW s, IsSequence(s), NEW f
  PROVE  FramesIn(Append(s, f)) = FramesIn(s) \cup {f} /\ IsSequence(Append(s, f))
<1>1. PICK S : s \in Seq(S)
  BY Zenon DEF IsSequence
<1>2. s \in Seq(S \cup {f}) /\ f \in S \cup {f}
  BY <1>1
<1> DEFINE a == Append(s, f)
<1>3. /\ a \in Seq(S \cup {f}) /\ Len(s) \in Nat
      /\ Len(a) = Len(s) + 1
      /\ a[Len(s) + 1] = f
      /\ \A i \in 1 .. Len(s) : a[i] = s[i]
      /\ \A i \in 1 .. Len(s) + 1 : i \in 1 .. Len(s) \/ i = Len(s) + 1
  BY <1>2, AppendFacts, Zenon
<1>4. Len(s) + 1 \in 1 .. Len(s) + 1 /\ \A i \in 1 .. Len(s) : i \in 1 .. Len(s) + 1
  BY <1>3
<1> HIDE DEF a
<1>5. FramesIn(a) = FramesIn(s) \cup {f}
  <2>1. \A x \in FramesIn(a) : x \in FramesIn(s) \cup {f}
    BY <1>3, Zenon DEF FramesIn
  <2>2. \A x \in FramesIn(s) : x \in FramesIn(a)
    BY <1>3, <1>4, Zenon DEF FramesIn
  <2>3. f \in FramesIn(a)
    BY <1>3, <1>4, Zenon DEF FramesIn
  <2> QED
    BY <2>1, <2>2, <2>3, Zenon
<1> QED
  BY <1>3, <1>5, Zenon DEF a, IsSequence

(* DecodeMessage changes no frame the daemon sends. *)
LEMMA SameDecoded ==
  ASSUME NEW f, NEW t, Proper(f, t)
  PROVE  DecodeMessage(f) = f
<1>1. f.wrapped = FALSE /\ f.type \in {"event", "status", "command_response", "error", "ping", "disconnect"}
  BY DEF Proper, IsSent, About
<1>2. f.type = "error" => f.loop = NoLoop
  BY DEF Proper, About
<1>3. f.type = "error" => [f EXCEPT !.loop = NoLoop] = f
  BY <1>2 DEF Proper, IsSent
<1> QED
  BY <1>1, <1>3, SMTT(30) DEF DecodeMessage

(* ReadEvent takes the first of the frames on their way. *)
LEMMA TakenTransit ==
  ASSUME FlowInv, FrameInv, HasFrame, Consume
  PROVE  /\ Frame \in Transit /\ Transit' \subseteq Transit
         /\ Transit \subseteq Transit' \cup {Frame}
         /\ \A f \in Transit' : Frame.id < f.id
<1>1. IsSequence(wire) /\ IsSequence(pending)
  BY Zenon DEF FlowInv, Flow, Numbered
<1>2. \A f \in Transit' : Frame.id < f.id
  BY TakenFlow, Zenon DEF Transit, FramesIn
<1>3. CASE pending # <<>>
  <2>1. Frame = Head(pending) /\ pending' = Tail(pending) /\ wire' = wire
    BY <1>3, Zenon DEF Frame, Consume
  <2> QED
    BY <1>1, <1>2, <1>3, <2>1, TailFrames, Zenon DEF Transit
<1>4. CASE pending = <<>>
  <2>1. wire # <<>> /\ Frame = DecodeMessage(Head(wire)) /\ wire' = Tail(wire) /\ pending' = pending
    BY <1>4, Zenon DEF HasFrame, Frame, Consume
  <2>2. Head(wire) \in Transit
    BY <1>1, <2>1, TailFrames, Zenon DEF Transit
  <2>3. Frame = Head(wire)
    BY <2>1, <2>2, SameDecoded, Zenon DEF FrameInv
  <2> QED
    BY <1>1, <1>2, <2>1, <2>3, TailFrames, Zenon DEF Transit
<1> QED
  BY <1>3, <1>4, Zenon

(* The peel loses nothing but leftovers. *)
LEMMA StartTransit ==
  ASSUME FlowInv, IterStart
  PROVE  /\ Transit' \subseteq Transit
         /\ \A f \in Transit : f \in Transit' \/ IsStalePending(f)
<1>1. PICK m \in 0 .. Len(pending) : \E kept \in [1 .. m -> DOMAIN pending] :
        /\ FreshAt(pending, kept)
        /\ pending' = [i \in 1 .. m |-> pending[kept[i]]]
  BY Zenon DEF IterStart
<1>2. PICK kept \in [1 .. m -> DOMAIN pending] :
        /\ FreshAt(pending, kept)
        /\ pending' = [i \in 1 .. m |-> pending[kept[i]]]
  BY <1>1, Zenon
<1>3. IsSequence(pending) /\ wire' = wire
  BY Zenon DEF FlowInv, Flow, Numbered, IterStart
<1>4. Len(pending) \in Nat /\ DOMAIN pending = 1 .. Len(pending) /\ m \in Nat
  BY <1>3, SeqLen, SeqDomain
<1>5. Len(pending') = m /\ \A i \in 1 .. m : kept[i] \in 1 .. Len(pending) /\ pending'[i] = pending[kept[i]]
  BY <1>2, <1>4
<1>6. FramesIn(pending') \subseteq FramesIn(pending)
  <2>1. \A x \in FramesIn(pending') : \E i \in 1 .. m : x = pending[kept[i]]
    BY <1>5, Zenon DEF FramesIn
  <2>2. \A i \in 1 .. m : pending[kept[i]] \in FramesIn(pending)
    BY <1>5, Zenon DEF FramesIn
  <2> QED
    BY <2>1, <2>2, Zenon
<1>7. ASSUME NEW i \in 1 .. Len(pending), ~IsStalePending(pending[i])
      PROVE  pending[i] \in FramesIn(pending')
  <2>1. i \in {kept[j] : j \in DOMAIN kept}
    BY <1>2, <1>4, <1>7, Zenon DEF FreshAt
  <2>2. PICK j \in 1 .. m : i = kept[j]
    BY <2>1, Zenon
  <2> QED
    BY <1>5, <2>2, Zenon DEF FramesIn
<1> QED
  BY <1>3, <1>6, <1>7, Zenon DEF Transit, FramesIn

(* A frame the peel puts back is still on its way. *)
LEMMA PeelTransit ==
  ASSUME FlowInv, FrameInv, PeelFrame
  PROVE  /\ Transit' \subseteq Transit
         /\ \A f \in Transit : f \in Transit' \/ IsStalePending(f)
<1>1. HasFrame
  BY Zenon DEF PeelFrame
<1>2. CASE IsStalePending(Frame) /\ Consume
  BY <1>1, <1>2, TakenTransit, Zenon
<1>3. CASE /\ pending' = Append(IF pending # <<>> THEN Tail(pending) ELSE <<>>, Frame)
           /\ wire' = IF pending # <<>> THEN wire ELSE Tail(wire)
  <2>0. Flow(wire, pending, out, sent) /\ IsSequence(wire)
    BY Zenon DEF FlowInv, Flow, Numbered
  <2>1. CASE pending # <<>>
    <3>1. Tail(pending) = <<>> /\ Frame = Head(pending)
      BY <2>0, <2>1, FlowLess, Zenon DEF Frame
    <3>2. PICK S : pending \in Seq(S)
      BY <2>0, Zenon DEF Flow, Numbered, IsSequence
    <3>3. Append(<<>>, Head(pending)) = pending
      BY <2>1, <3>1, <3>2, PutBackOne, Zenon
    <3> QED
      BY <1>3, <2>1, <3>1, <3>3, Zenon DEF Transit
  <2>2. CASE pending = <<>>
    <3>1. wire # <<>> /\ Frame = DecodeMessage(Head(wire))
      BY <1>1, <2>2, Zenon DEF HasFrame, Frame
    <3>2. Head(wire) \in Transit
      BY <2>0, <3>1, TailFrames, Zenon DEF Transit
    <3>3. Frame = Head(wire)
      BY <3>1, <3>2, SameDecoded, Zenon DEF FrameInv
    <3>4. <<>> \in Seq({})
      OBVIOUS
    <3>5. IsSequence(<<>>) /\ pending' = Append(<<>>, Head(wire)) /\ wire' = Tail(wire)
      BY <1>3, <2>2, <3>3, <3>4, Zenon DEF IsSequence
    <3>6. FramesIn(pending') = {} \cup {Head(wire)} /\ FramesIn(pending) = {}
      BY <2>2, <3>5, NoneIn, AppendFrames, Zenon
    <3>7. /\ Head(wire) \in FramesIn(wire) /\ FramesIn(wire') \subseteq FramesIn(wire)
          /\ FramesIn(wire) \subseteq FramesIn(wire') \cup {Head(wire)}
      BY <2>0, <3>1, <3>5, TailFrames, Zenon
    <3>8. Transit' = Transit
      BY <3>6, <3>7 DEF Transit
    <3> QED
      BY <3>8, Zenon
  <2> QED
    BY <2>1, <2>2, Zenon
<1> QED
  BY <1>2, <1>3, Zenon DEF PeelFrame

(* A read that returns nil loses a control frame at most. *)
LEMMA NilTransit ==
  ASSUME FlowInv, KnownControls, ReadNil \/ wire' = wire, pending' = pending
  PROVE  /\ Transit' \subseteq Transit
         /\ \A f \in Transit : f \in Transit' \/ f.type \in {"ping", "disconnect"}
<1>1. IsSequence(wire)
  BY Zenon DEF FlowInv, Flow, Numbered
<1>2. wire' = wire \/ (wire # <<>> /\ wire' = Tail(wire) /\ Head(wire).type \in Controls)
  BY Zenon DEF ReadNil, Control
<1> QED
  BY <1>1, <1>2, TailFrames, Zenon DEF Transit, KnownControls

(* A frame the daemon sends is lost, or follows all others. *)
LEMMA EmitTransit ==
  ASSUME FlowInv, NEW f, Emit(f), f.id = sent + 1
  PROVE  /\ Transit \subseteq Transit' /\ Transit' \subseteq Transit \cup {f}
         /\ (sock = "open" => f \in Transit') /\ (sock # "open" => Transit' = Transit)
         /\ \A r \in Transit : r.id < f.id
<1>1. IsSequence(wire) /\ sent \in Nat
  BY Zenon DEF FlowInv, Flow, Numbered
<1>2. \A x \in 1 .. sent : x < sent + 1
  BY <1>1
<1>3. \A r \in Transit : r.id \in 1 .. sent
  BY Zenon DEF FlowInv, Flow, Numbered, Transit, FramesIn
<1>4. FramesIn(Append(wire, f)) = FramesIn(wire) \cup {f}
  BY <1>1, AppendFrames, Zenon
<1> QED
  BY <1>2, <1>3, <1>4, Zenon DEF Transit, Emit

(* A frame the daemon sends *)
IsFrame(f, type, mode, data, loop, gen, w, n) ==
  f = [type |-> type, mode |-> mode, data |-> data, loop |-> loop, turn |-> gen,
       wrapped |-> w, id |-> n]

SentAs(f, type, mode, data, loop, gen, n) ==
  \E w : w = FALSE /\ IsFrame(f, type, mode, data, loop, gen, w, n)

(* A frame as the daemon makes it, and what is in it *)
LEMMA SentFrame ==
  \A type, mode, data, loop, gen :
    SentAs(Sent(type, mode, data, loop, gen, FALSE), type, mode, data, loop, gen, sent + 1)
<1>1. PICK w : w = FALSE
  BY Zenon
<1>2. ASSUME NEW type, NEW mode, NEW data, NEW loop, NEW gen
      PROVE  SentAs(Sent(type, mode, data, loop, gen, w), type, mode, data, loop, gen, sent + 1)
  BY <1>1, Zenon DEF SentAs, IsFrame, Sent
<1> QED
  BY <1>1, <1>2, Zenon

LEMMA SentFacts ==
  ASSUME NEW f, NEW type, NEW mode, NEW data, NEW loop, NEW gen, NEW n,
         SentAs(f, type, mode, data, loop, gen, n)
  PROVE  /\ IsSent(f) /\ f.type = type /\ f.mode = mode /\ f.data = data
         /\ f.loop = loop /\ f.turn = gen /\ f.id = n
<1>1. PICK w : w = FALSE /\ IsFrame(f, type, mode, data, loop, gen, w, n)
  BY Zenon DEF SentAs
<1>2. /\ f.type = type /\ f.mode = mode /\ f.data = data /\ f.wrapped = w
      /\ f.loop = loop /\ f.turn = gen /\ f.id = n
  <2>1. IsFrame(f, type, mode, data, loop, gen, w, n)
    BY <1>1
  <2> QED
    BY <2>1 DEF IsFrame
<1> QED
  BY <1>1, <1>2, Zenon DEF IsFrame, IsSent

LEMMA Renumbered ==
  ASSUME NEW f, NEW type, NEW mode, NEW data, NEW loop, NEW gen, NEW n, NEW m,
         SentAs(f, type, mode, data, loop, gen, n)
  PROVE  SentAs([f EXCEPT !.id = m], type, mode, data, loop, gen, m)
<1>1. PICK w : w = FALSE /\ IsFrame(f, type, mode, data, loop, gen, w, n)
  BY Zenon DEF SentAs
<1>2. IsFrame(f, type, mode, data, loop, gen, w, n)
  BY <1>1
<1>3. IsFrame([f EXCEPT !.id = m], type, mode, data, loop, gen, w, m)
  BY <1>2 DEF IsFrame
<1> QED
  BY <1>1, <1>3, Zenon DEF SentAs

(* A cancel is answered with a reply and the end of the turn in hand. *)
LEMMA CancelTransit ==
  ASSUME FlowInv, DaemonCancels
  PROVE  \E a, b :
           /\ Transit \subseteq Transit' /\ Transit' \subseteq Transit \cup {a, b}
           /\ sock # "open" => Transit' = Transit
           /\ IsSent(a) /\ a.loop = NoLoop /\ a.type = "command_response"
           /\ IsSent(b) /\ b.loop = Loop /\ b.type = "status" /\ b.data # "running"
           /\ b.turn \in {NoID, query}
           /\ \A r \in Transit : r.id < b.id
<1>1. PICK gen \in {query, NoID} :
        LET reply == Sent("command_response", "", "cancel", NoLoop, NoID, FALSE)
            last  == IF gen = NoID THEN Status("idle", NoID) ELSE Status("stopped", gen)
        IN  wire' = IF sock = "open" THEN wire \o <<reply, [last EXCEPT !.id = sent + 2]>>
                                     ELSE wire
  BY Zenon DEF DaemonCancels
<1> DEFINE a == Sent("command_response", "", "cancel", NoLoop, NoID, FALSE)
<1> DEFINE c == IF gen = NoID THEN Status("idle", NoID) ELSE Status("stopped", gen)
<1> DEFINE b == [c EXCEPT !.id = sent + 2]
<1>2. pending' = pending /\ sock' = sock
  BY Zenon DEF DaemonCancels
<1>3. wire' = IF sock = "open" THEN wire \o <<a, b>> ELSE wire
  BY <1>1, Zenon
<1>4. PICK t, m, d : t = "command_response" /\ SentAs(a, t, m, d, NoLoop, NoID, sent + 1)
  BY SentFrame, Zenon
<1>5. PICK st, sm, sd : /\ st = "status" /\ sd \in {"idle", "stopped"}
                        /\ SentAs(c, st, sm, sd, Loop, gen, sent + 1)
  BY SentFrame, Zenon DEF Status
<1> HIDE DEF a, c
<1>6. IsSent(a) /\ a.loop = NoLoop /\ a.type = "command_response"
  BY <1>4, SentFacts, Zenon
<1>7. SentAs(b, st, sm, sd, Loop, gen, sent + 2)
  BY <1>5, Renumbered, Zenon
<1> HIDE DEF b
<1>8. /\ IsSent(b) /\ b.loop = Loop /\ b.type = "status" /\ b.data \in {"idle", "stopped"}
      /\ b.turn = gen /\ b.id = sent + 2
  <2>1. IsSent(b) /\ b.loop = Loop /\ b.type = st /\ b.data = sd /\ b.turn = gen /\ b.id = sent + 2
    BY <1>7, SentFacts
  <2> QED
    BY <1>5, <2>1, Zenon
<1>9. sent \in Nat /\ IsSequence(wire)
  BY Zenon DEF FlowInv, Flow, Numbered
<1>10. \A x \in 1 .. sent : x < sent + 2
  BY <1>9
<1>11. \A r \in Transit : r.id < b.id
  BY <1>8, <1>10, Zenon DEF FlowInv, Flow, Numbered, Transit, FramesIn
<1>12. FramesIn(wire \o <<a, b>>) = (FramesIn(wire) \cup {a}) \cup {b}
  <2>1. wire \o <<a, b>> = Append(Append(wire, a), b)
    BY <1>9, AppendTwo
  <2>2. FramesIn(Append(wire, a)) = FramesIn(wire) \cup {a} /\ IsSequence(Append(wire, a))
    BY <1>9, AppendFrames, Zenon
  <2>3. FramesIn(Append(Append(wire, a), b)) = FramesIn(Append(wire, a)) \cup {b}
    BY <2>2, AppendFrames, Zenon
  <2> QED
    BY <2>1, <2>2, <2>3, Zenon
<1>13. Transit' = IF sock = "open" THEN Transit \cup {a, b} ELSE Transit
  <2>1. CASE sock = "open"
    <3>1. wire' = wire \o <<a, b>>
      BY <1>3, <2>1, Zenon
    <3>2. FramesIn(wire') = (FramesIn(wire) \cup {a}) \cup {b} /\ FramesIn(pending') = FramesIn(pending)
      BY <1>2, <1>12, <3>1, Zenon
    <3> QED
      BY <2>1, <3>2 DEF Transit
  <2>2. CASE sock # "open"
    BY <1>2, <1>3, <2>2, Zenon DEF Transit
  <2> QED
    BY <2>1, <2>2, Zenon
<1>14. b.data # "running"
  BY <1>8
<1>15. Transit \subseteq Transit' /\ Transit' \subseteq Transit \cup {a, b} /\ (sock # "open" => Transit' = Transit)
  BY <1>13, Zenon
<1> QED
  BY <1>1, <1>6, <1>8, <1>11, <1>14, <1>15, Zenon

(* The reader, the loss of the connection and a new socket lose frames. *)
LEMMA LessTransit ==
  ASSUME FlowInv, FrameInv, KnownControls,
         IterStep \/ YieldCancelled \/ Break \/ EnsureConnected \/ Connect
  PROVE  Transit' \subseteq Transit
<1>1. CASE IterStart
  BY <1>1, StartTransit, Zenon
<1>2. CASE PeelFrame
  BY <1>2, PeelTransit, Zenon
<1>3. CASE PeelTimeout \/ Top \/ ReadPoisoned \/ DrainTimeout
  <2>1. UNCHANGED <<wire, pending>>
    BY <1>3, Zenon DEF PeelTimeout, Top, ReadPoisoned, DrainTimeout, sockVars
  <2> QED
    BY <2>1, Zenon DEF Transit
<1>4. CASE PeelEnds \/ ReadNothing \/ DrainEnds
  <2>1. pending' = pending /\ (ReadNil \/ wire' = wire)
    BY <1>4, Zenon DEF PeelEnds, ReadNothing, DrainEnds
  <2> QED
    BY <2>1, NilTransit, Zenon
<1>5. CASE \/ ReadIgnored \/ ReadRunning \/ ReadError \/ ReadCancelled \/ YieldCancelled
           \/ ReadChunk \/ ReadEnd \/ DrainFrame
  <2>1. HasFrame /\ Consume
    BY <1>5, Zenon DEF ReadIgnored, ReadRunning, ReadError, ReadCancelled,
                       YieldCancelled, ReadChunk, ReadEnd, DrainFrame, Taken
  <2> QED
    BY <2>1, TakenTransit, Zenon
<1>6. CASE Break \/ EnsureConnected \/ Connect
  <2>1. /\ wire' = wire \/ wire' = <<>>
        /\ pending' = pending \/ pending' = <<>>
    BY <1>6, Zenon DEF Break, EnsureConnected, Connect, FreshSocket, sockVars
  <2>2. FramesIn(wire') \subseteq FramesIn(wire) /\ FramesIn(pending') \subseteq FramesIn(pending)
    BY <2>1, NoneIn, Zenon
  <2> QED
    BY <2>2, Zenon DEF Transit
<1> QED
  BY <1>1, <1>2, <1>3, <1>4, <1>5, <1>6, Zenon DEF IterStep

(* The frames on their way are as they were sent, about turns so far. *)
LEMMA FrameStep ==
  ASSUME FlowInv, FrameInv, DaemonInv, KnownControls, PlainKinds, [Next]_vars
  PROVE  FrameInv'
<1>0. turn \in Nat /\ (phase # "none" => query \in 1 .. turn)
  <2>1. turn \in 0 .. MaxTurns /\ query \in 0 .. turn /\ (phase # "none" => query # 0)
    BY Zenon DEF FlowInv, DaemonInv, NoID
  <2> QED
    BY <2>1, DaemonTurnAssumption
<1>1. CASE IterStep \/ YieldCancelled \/ Break \/ EnsureConnected \/ Connect
  <2>1. turn' = turn
    BY <1>1, Zenon DEF IterStep, IterStart, PeelFrame, PeelTimeout, PeelEnds, Top,
         ReadIgnored, ReadRunning, ReadError, ReadCancelled, ReadChunk, ReadEnd,
         ReadNothing, ReadPoisoned, DrainFrame, DrainTimeout, DrainEnds,
         YieldCancelled, Break, EnsureConnected, Connect, iterVars
  <2> QED
    BY <1>1, <2>1, LessTransit, Zenon DEF FrameInv
<1>2. CASE SendTurn
  <2>1. turn' = turn + 1 /\ Transit' = Transit
    BY <1>2, Zenon DEF SendTurn, sockVars, Transit
  <2>2. \A g \in 1 .. turn : g \in 1 .. turn'
    BY <1>0, <2>1
  <2> QED
    BY <2>1, <2>2, Zenon DEF FrameInv, Proper, About
<1>3. ASSUME turn' = turn, NEW f, Emit(f), f.id = sent + 1, Proper(f, turn) PROVE FrameInv'
  BY <1>3, EmitTransit, Zenon DEF FrameInv
<1>4. CASE DaemonRuns \/ DaemonEnds \/ DaemonIdles
  <2>1. turn' = turn /\ phase # "none"
    BY <1>4, Zenon DEF DaemonRuns, DaemonEnds, DaemonIdles, iterVars
  <2>2. PICK type, mode, data :
          (type = "event" \/ type = "status") /\ Emit(Sent(type, mode, data, Loop, query, FALSE))
    <3>1. CASE DaemonRuns \/ DaemonIdles
      <4>1. PICK d : Emit(Status(d, query))
        BY <3>1, Zenon DEF DaemonRuns, DaemonIdles
      <4> QED
        BY <4>1, Zenon DEF Status
    <3>2. CASE DaemonEnds
      <4>1. PICK d : Emit(Sent("event", "custom", d, Loop, query, FALSE))
        BY <3>2, Zenon DEF DaemonEnds
      <4> QED
        BY <4>1, Zenon
    <3> QED
      BY <1>4, <3>1, <3>2, Zenon
  <2>3. PICK f : Emit(f) /\ SentAs(f, type, mode, data, Loop, query, sent + 1)
    BY <2>2, SentFrame, Zenon
  <2>4. IsSent(f) /\ f.type = type /\ f.loop = Loop /\ f.turn = query /\ f.id = sent + 1
    BY <2>3, SentFacts, Zenon
  <2>5. Proper(f, turn)
    BY <1>0, <2>1, <2>2, <2>4, Zenon DEF Proper, About
  <2> QED
    BY <1>3, <2>1, <2>3, <2>4, <2>5, Zenon
<1>5. ASSUME chunks < MaxChunks, NEW k \in ChunkKinds[chunks + 1], DaemonChunk(k)
      PROVE  FrameInv'
  <2>1. turn' = turn /\ phase # "none" /\ Emit(Sent("event", k.mode, k.data, Loop, query, k.wrapped))
    BY <1>5 DEF DaemonChunk, iterVars
  <2>2. k.wrapped = FALSE
    <3>1. chunks + 1 \in 1 .. MaxChunks
      BY <1>5, DaemonTurnAssumption DEF DaemonInv
    <3> QED
      BY <1>5, <3>1, Zenon DEF PlainKinds
  <2>3. PICK f : Emit(f) /\ SentAs(f, "event", k.mode, k.data, Loop, query, sent + 1)
    BY <2>1, <2>2, SentFrame, Zenon
  <2>4. IsSent(f) /\ f.type = "event" /\ f.loop = Loop /\ f.turn = query /\ f.id = sent + 1
    BY <2>3, SentFacts
  <2>5. Proper(f, turn)
    BY <1>0, <2>1, <2>4, Zenon DEF Proper, About
  <2> QED
    BY <1>3, <2>1, <2>3, <2>4, <2>5, Zenon
<1>6. CASE DaemonNoise
  <2>1. turn' = turn
    BY <1>6, Zenon DEF DaemonNoise, iterVars
  <2>2. \/ Emit(Sent("status", "", "idle", Foreign, NoID, FALSE))
         \/ Emit(Sent("event", "messages", "text", Foreign, NoID, FALSE))
         \/ Emit(Sent("error", "", "", NoLoop, NoID, FALSE))
         \/ \E c \in Controls : Emit(Sent(c, "", "", NoLoop, NoID, FALSE))
    BY <1>6, Zenon DEF DaemonNoise
  <2>3. ASSUME NEW t, NEW m, NEW d, NEW l, Emit(Sent(t, m, d, l, NoID, FALSE)),
               \/ l = Foreign /\ t \in {"status", "event"} /\ d # "running"
               \/ l = NoLoop /\ t \in {"error"} \cup Controls
        PROVE  FrameInv'
    <3>1. PICK f : Emit(f) /\ SentAs(f, t, m, d, l, NoID, sent + 1)
      BY <2>3, SentFrame, Zenon
    <3>2. IsSent(f) /\ f.id = sent + 1 /\ f.type = t /\ f.data = d /\ f.loop = l
      BY <3>1, SentFacts, Zenon
    <3>3. Proper(f, turn)
      BY <2>3, <3>2, Zenon DEF Proper, About, IsRunning, KnownControls
    <3> QED
      BY <1>3, <2>1, <3>1, <3>2, <3>3, Zenon
  <2>4. "idle" # "running" /\ "text" # "running"
    OBVIOUS
  <2> QED
    BY <2>2, <2>3, <2>4, Zenon
<1>7. CASE DaemonCancels
  <2>1. turn' = turn
    BY <1>7, Zenon DEF DaemonCancels, iterVars
  <2>2. PICK a, b :
           /\ Transit' \subseteq Transit \cup {a, b}
           /\ IsSent(a) /\ a.loop = NoLoop /\ a.type = "command_response"
           /\ IsSent(b) /\ b.loop = Loop /\ b.type = "status" /\ b.data # "running"
           /\ b.turn \in {NoID, query}
    BY <1>7, CancelTransit, Zenon
  <2>3. Proper(a, turn)
    BY <2>2, Zenon DEF Proper, About
  <2>4. query = NoID \/ query \in 1 .. turn
    BY <1>0, Zenon DEF DaemonInv
  <2>5. Proper(b, turn)
    BY <2>2, <2>4, Zenon DEF Proper, About, IsRunning
  <2> QED
    BY <2>1, <2>2, <2>3, <2>5, Zenon DEF FrameInv
<1>8. CASE DaemonAdmits \/ CancelActiveTurn \/ CtxDone \/ UNCHANGED vars
  <2>1. turn' = turn /\ Transit' = Transit
    BY <1>8, Zenon DEF DaemonAdmits, CancelActiveTurn, CtxDone, vars, iterVars,
                       sockVars, Transit
  <2> QED
    BY <2>1, Zenon DEF FrameInv
<1> QED
  BY <1>1, <1>2, <1>4, <1>5, <1>6, <1>7, <1>8, Zenon DEF Next, Daemon

-----------------------------------------------------------------------------
(* What the daemon has not read *)
LEMMA QueuedTail ==
  ASSUME NEW s, NEW t, NEW c, NEW q, Queued(s, t, c, q), s # <<>>
  PROVE  /\ Queued(Tail(s), t, c, q)
         /\ Head(s) = CancelTurn \/ (Head(s) \in 1 .. t /\ Head(s) \notin c /\ Head(s) # q)
         /\ Head(s) # CancelTurn => Queued(Tail(s), t, c, Head(s))
         /\ \E i \in 1 .. Len(s) : Head(s) = s[i]
         /\ \A i \in 1 .. Len(Tail(s)) : \E j \in 1 .. Len(s) : Tail(s)[i] = s[j]
<1>1. PICK S : s \in Seq(S)
  BY Zenon DEF Queued, IsSequence
<1>2. /\ Tail(s) \in Seq(S) /\ Len(s) \in Nat /\ Len(s) >= 1 /\ Head(s) = s[1]
      /\ Len(Tail(s)) = Len(s) - 1
      /\ \A i \in 1 .. Len(Tail(s)) : i + 1 \in 1 .. Len(s) /\ Tail(s)[i] = s[i + 1]
  BY <1>1, TailFacts, Zenon
<1>3. 1 \in 1 .. Len(s) /\ \A i \in 1 .. Len(Tail(s)) : 1 # i + 1
  BY <1>2
<1>4. \A i, j \in 1 .. Len(Tail(s)) : i + 1 = j + 1 => i = j
  OBVIOUS
<1>5. Head(s) = CancelTurn \/ (Head(s) \in 1 .. t /\ Head(s) \notin c /\ Head(s) # q)
  BY <1>2, <1>3, Zenon DEF Queued
<1>6. \A i \in 1 .. Len(Tail(s)) :
        \/ Tail(s)[i] = CancelTurn
        \/ /\ Tail(s)[i] \in 1 .. t /\ Tail(s)[i] \notin c /\ Tail(s)[i] # q
           /\ Tail(s)[i] # Head(s)
  BY <1>2, <1>3, Zenon DEF Queued
<1>7. \A i, j \in 1 .. Len(Tail(s)) : Tail(s)[i] = Tail(s)[j] => i = j \/ Tail(s)[i] = CancelTurn
  BY <1>2, <1>4, Zenon DEF Queued
<1>8. IsSequence(Tail(s))
  BY <1>2, Zenon DEF IsSequence
<1> QED
  BY <1>2, <1>3, <1>5, <1>6, <1>7, <1>8, Zenon DEF Queued

(* A turn or a cancel is sent; the turn in hand is closed. *)
LEMMA QueuedMore ==
  ASSUME NEW s, NEW t \in Nat, NEW c \in SUBSET (1 .. t), NEW q \in 0 .. t, Queued(s, t, c, q)
  PROVE  /\ Queued(s, t + 1, c, q) /\ Queued(Append(s, t + 1), t + 1, c, q)
         /\ Queued(Append(s, CancelTurn), t, c, q)
         /\ \A x : \A i \in 1 .. Len(Append(s, x)) :
              Append(s, x)[i] = x \/ \E j \in 1 .. Len(s) : Append(s, x)[i] = s[j]
<1>1. PICK S : s \in Seq(S)
  BY Zenon DEF Queued, IsSequence
<1>2. /\ \A x \in 1 .. t : x \in 1 .. t + 1 /\ x # t + 1
      /\ t + 1 \in 1 .. t + 1 /\ t + 1 # q /\ t + 1 \notin c /\ t + 1 # CancelTurn
  BY DEF CancelTurn
<1>3. Queued(s, t + 1, c, q)
  BY <1>2, Zenon DEF Queued
<1>4. ASSUME NEW x
      PROVE  /\ IsSequence(Append(s, x)) /\ Len(s) \in Nat
             /\ \A i \in 1 .. Len(Append(s, x)) :
                  \/ i \in 1 .. Len(s) /\ Append(s, x)[i] = s[i]
                  \/ i = Len(s) + 1 /\ Append(s, x)[i] = x
  <2>1. s \in Seq(S \cup {x}) /\ x \in S \cup {x}
    BY <1>1
  <2>2. /\ Append(s, x) \in Seq(S \cup {x}) /\ Len(s) \in Nat
        /\ Len(Append(s, x)) = Len(s) + 1
        /\ Append(s, x)[Len(s) + 1] = x
        /\ \A i \in 1 .. Len(s) : Append(s, x)[i] = s[i]
        /\ \A i \in 1 .. Len(s) + 1 : i \in 1 .. Len(s) \/ i = Len(s) + 1
    BY <2>1, AppendFacts, Zenon
  <2> QED
    BY <2>2, Zenon DEF IsSequence
<1>5. Queued(Append(s, CancelTurn), t, c, q)
  BY <1>4, Zenon DEF Queued
<1>6. Queued(Append(s, t + 1), t + 1, c, q)
  <2> DEFINE a == Append(s, t + 1)
  <2>1. \A i \in 1 .. Len(s) : s[i] # t + 1
    BY <1>2, Zenon DEF Queued
  <2>2. /\ IsSequence(a) /\ Len(s) \in Nat
        /\ \A i \in 1 .. Len(a) :
             (i \in 1 .. Len(s) /\ a[i] = s[i]) \/ (i = Len(s) + 1 /\ a[i] = t + 1)
    BY <1>4, Zenon
  <2> HIDE DEF a
  <2>3. \A i \in 1 .. Len(a) :
          a[i] = CancelTurn \/ (a[i] \in 1 .. t + 1 /\ a[i] \notin c /\ a[i] # q)
    <3>1. \A i \in 1 .. Len(s) :
            s[i] = CancelTurn \/ (s[i] \in 1 .. t + 1 /\ s[i] \notin c /\ s[i] # q)
      BY <1>3, Zenon DEF Queued
    <3> QED
      BY <1>2, <2>2, <3>1, Zenon
  <2>4. ASSUME NEW i \in 1 .. Len(a), NEW j \in 1 .. Len(a), a[i] = a[j]
        PROVE  i = j \/ a[i] = CancelTurn
    <3>1. CASE i \in 1 .. Len(s) /\ a[i] = s[i] /\ j \in 1 .. Len(s) /\ a[j] = s[j]
      BY <2>4, <3>1, Zenon DEF Queued
    <3>2. CASE i = Len(s) + 1 /\ j = Len(s) + 1
      BY <3>2, Zenon
    <3> QED
      BY <2>1, <2>2, <2>4, <3>1, <3>2, Zenon
  <2>5. Queued(a, t + 1, c, q)
    BY <2>2, <2>3, <2>4, Zenon DEF Queued
  <2> QED
    BY <2>5, Zenon DEF a
<1> QED
  BY <1>3, <1>4, <1>5, <1>6, Zenon

LEMMA QueuedClose ==
  ASSUME NEW s, NEW t \in Nat, NEW c, NEW q, Queued(s, t, c, q)
  PROVE  Queued(s, t, c \cup ({q} \ {NoID}), NoID) /\ Queued(s, t, c \cup {q}, NoID)
<1>1. \A x \in 1 .. t : x # NoID
  BY DEF NoID
<1> QED
  BY <1>1, Zenon DEF Queued

(* A step keeps what the daemon has in hand. *)
LEMMA DaemonInvStep ==
  ASSUME FlowInv, DaemonInv, [Next]_vars
  PROVE  DaemonInv'
<1>0. /\ turn \in Nat /\ MaxTurns \in Nat /\ closed \in SUBSET (1 .. turn) /\ query \in 0 .. turn
      /\ (phase # "none" => query \in 1 .. turn /\ query \in Gens /\ query # NoID)
      /\ NoID \in 0 .. turn /\ NoID \notin 1 .. turn
  <2>1. turn \in 0 .. MaxTurns /\ query \in 0 .. turn /\ (phase # "none" => query # 0)
    BY Zenon DEF FlowInv, DaemonInv, NoID
  <2>2. turn \in Nat /\ MaxTurns \in Nat /\ (phase # "none" => query \in 1 .. turn /\ query \in 1 .. MaxTurns)
        /\ 0 \in 0 .. turn /\ 0 \notin 1 .. turn
    BY <2>1, DaemonTurnAssumption
  <2>3. closed \in SUBSET (1 .. turn)
    BY Zenon DEF DaemonInv
  <2> QED
    BY <2>1, <2>2, <2>3, Zenon DEF NoID, Gens
<1>1. CASE UNCHANGED <<turn, inbox, query, phase, chunks, log, closed>>
  BY <1>1, Zenon DEF DaemonInv
<1>2. CASE SendTurn
  <2>1. /\ turn' = turn + 1 /\ UNCHANGED <<query, phase, chunks, log, closed>>
        /\ inbox' = inbox \/ inbox' = Append(inbox, turn + 1)
    BY <1>2, Zenon DEF SendTurn
  <2>2. /\ \A x \in 1 .. turn : x \in 1 .. turn'
        /\ \A x \in 0 .. turn : x \in 0 .. turn'
        /\ \A g \in Gens : g > turn' => g > turn
    BY <1>0, <2>1 DEF Gens
  <2>3. Queued(inbox', turn', closed, query)
    <3>1. Queued(inbox, turn, closed, query)
      BY Zenon DEF DaemonInv
    <3>2. Queued(inbox, turn + 1, closed, query) /\ Queued(Append(inbox, turn + 1), turn + 1, closed, query)
      BY <1>0, <3>1, QueuedMore, Zenon
    <3> QED
      BY <2>1, <3>2, Zenon
  <2> QED
    BY <1>0, <2>1, <2>2, <2>3, Zenon DEF DaemonInv
<1>3. CASE DaemonAdmits
  <2>1. /\ inbox # <<>> /\ Head(inbox) # CancelTurn /\ query = NoID
        /\ query' = Head(inbox) /\ inbox' = Tail(inbox) /\ phase' = "admitted" /\ chunks' = 0
        /\ UNCHANGED <<turn, log, closed>>
    BY <1>3, Zenon DEF DaemonAdmits, iterVars
  <2>2. /\ Queued(inbox', turn, closed, query') /\ query' \in 1 .. turn /\ query' \notin closed
    BY <2>1, QueuedTail, Zenon DEF DaemonInv
  <2>3. query' \in 0 .. turn /\ query' # NoID /\ 0 \in Nat /\ "admitted" # "none"
    BY <1>0, <2>2 DEF NoID
  <2> QED
    BY <2>1, <2>2, <2>3, Zenon DEF DaemonInv
<1>4. CASE DaemonRuns \/ DaemonEnds
  <2>1. phase # "none" /\ phase' \in {"running", "closing"} /\ phase' # "none"
    BY <1>4, Zenon DEF DaemonRuns, DaemonEnds
  <2>2. UNCHANGED <<turn, inbox, query, chunks, log, closed>>
    BY <1>4, Zenon DEF DaemonRuns, DaemonEnds, iterVars
  <2> QED
    BY <2>1, <2>2, Zenon DEF DaemonInv
<1>5. ASSUME NEW k, DaemonChunk(k) PROVE DaemonInv'
  <2>1. /\ phase = "running" /\ chunks' = chunks + 1
        /\ log' = [log EXCEPT ![query] = Append(@, [id |-> sent', mode |-> k.mode, data |-> k.data])]
        /\ UNCHANGED <<turn, inbox, query, phase, closed>>
    BY <1>5, Zenon DEF DaemonChunk, iterVars
  <2>2. query \in Gens /\ ~(query > turn) /\ chunks' \in Nat
    BY <1>0, <2>1 DEF DaemonInv
  <2> DEFINE e == [id |-> sent', mode |-> k.mode, data |-> k.data]
  <2> HIDE DEF e
  <2>3. /\ DOMAIN log' = Gens /\ log'[query] = Append(log[query], e)
        /\ \A g \in Gens : g # query => log'[g] = log[g]
    BY <2>1, <2>2, Zenon DEF DaemonInv, e
  <2>4. IsSequence(log'[query])
    <3>1. IsSequence(log[query])
      BY <2>2, Zenon DEF DaemonInv
    <3>2. IsSequence(Append(log[query], e))
      BY <3>1, AppendFrames, Zenon
    <3> QED
      BY <2>3, <3>2, Zenon
  <2> QED
    BY <2>1, <2>2, <2>3, <2>4, Zenon DEF DaemonInv
<1>6. CASE DaemonIdles \/ DaemonCancels
  <2>1. /\ phase' = "none" /\ query' = NoID
        /\ inbox' = inbox \/ (inbox # <<>> /\ inbox' = Tail(inbox))
        /\ \/ closed' = closed \cup {query} /\ phase = "closing"
           \/ closed' = closed \cup ({query} \ {NoID})
        /\ UNCHANGED <<turn, chunks, log>>
    BY <1>6, Zenon DEF DaemonIdles, DaemonCancels, iterVars
  <2>2. Queued(inbox', turn, closed, query)
    <3>1. Queued(inbox, turn, closed, query)
      BY Zenon DEF DaemonInv
    <3>2. inbox # <<>> => Queued(Tail(inbox), turn, closed, query)
      BY <3>1, QueuedTail, Zenon
    <3> QED
      BY <2>1, <3>1, <3>2, Zenon
  <2>3. Queued(inbox', turn', closed', query')
    <3>1. /\ Queued(inbox', turn, closed \cup ({query} \ {NoID}), NoID)
          /\ Queued(inbox', turn, closed \cup {query}, NoID)
      BY <1>0, <2>2, QueuedClose, Zenon
    <3> QED
      BY <2>1, <3>1, Zenon
  <2>4. phase = "closing" => phase # "none"
    OBVIOUS
  <2>5. closed' \subseteq 1 .. turn /\ NoID \notin closed'
    BY <1>0, <2>1, <2>4, Zenon DEF DaemonInv
  <2> QED
    BY <1>0, <2>1, <2>3, <2>5, Zenon DEF DaemonInv
<1>7. CASE CancelActiveTurn
  <2>1. inbox' = Append(inbox, CancelTurn) /\ UNCHANGED <<turn, query, phase, chunks, log, closed>>
    BY <1>7, Zenon DEF CancelActiveTurn, iterVars
  <2>2. Queued(inbox', turn, closed, query)
    BY <1>0, <2>1, QueuedMore, Zenon DEF DaemonInv
  <2> QED
    BY <2>1, <2>2, Zenon DEF DaemonInv
<1>8. CASE /\ ~(SendTurn \/ DaemonAdmits \/ DaemonRuns \/ DaemonEnds \/ DaemonIdles)
           /\ ~(DaemonCancels \/ CancelActiveTurn \/ \E k : DaemonChunk(k))
  <2>1. UNCHANGED <<turn, inbox, query, phase, chunks, log, closed>>
    BY <1>8, Zenon DEF Next, IterStep, Daemon, EnsureConnected, Connect, IterStart,
         PeelFrame, PeelTimeout, PeelEnds, Top, ReadIgnored, ReadRunning, ReadError,
         ReadCancelled, ReadChunk, ReadEnd, ReadNothing, ReadPoisoned, DrainFrame,
         DrainTimeout, DrainEnds, YieldCancelled, DaemonNoise, Break, CtxDone,
         vars, iterVars, daemonVars
  <2> QED
    BY <1>1, <2>1, Zenon
<1> QED
  BY <1>2, <1>3, <1>4, <1>5, <1>6, <1>7, <1>8, Zenon

-----------------------------------------------------------------------------
(* A turn begins with SendTurn, and ... *)
LEMMA TurnMoves ==
  ASSUME [Next]_vars, ~SendTurn
  PROVE  turn' = turn /\ haunted' = haunted /\ (pc = "idle" => pc' = "idle")
<1>1. CASE IterStep \/ YieldCancelled
  <2>1. pc # "idle"
    <3>1. pc \in {"start", "peel", "top", "read", "drain"}
      BY <1>1, Zenon DEF IterStep, IterStart, PeelFrame, PeelTimeout, PeelEnds, Top,
         ReadIgnored, ReadRunning, ReadError, ReadCancelled, ReadChunk, ReadEnd,
         ReadNothing, ReadPoisoned, DrainFrame, DrainTimeout, DrainEnds,
         YieldCancelled, Taken
    <3> QED
      BY <3>1
  <2>2. turn' = turn
    BY <1>1, Zenon DEF IterStep, IterStart, PeelFrame, PeelTimeout, PeelEnds, Top,
         ReadIgnored, ReadRunning, ReadError, ReadCancelled, ReadChunk, ReadEnd,
         ReadNothing, ReadPoisoned, DrainFrame, DrainTimeout, DrainEnds,
         YieldCancelled
  <2>3. haunted' = haunted
    BY Zenon DEF Next, vars
  <2> QED
    BY <2>1, <2>2, <2>3, Zenon
<1>2. CASE ~(IterStep \/ YieldCancelled)
  BY <1>2, Zenon DEF Next, Daemon, EnsureConnected, Connect, DaemonAdmits, DaemonRuns,
     DaemonChunk, DaemonEnds, DaemonIdles, DaemonCancels, DaemonNoise, Break,
     CancelActiveTurn, CtxDone, vars, iterVars
<1> QED
  BY <1>1, <1>2, Zenon

(* ... IterTurnChunks touches what it returned and yielded for it alone. *)
LEMMA OthersKept ==
  ASSUME FlowInv, EndInv, [Next]_vars
  PROVE  \A g \in Gens : g # turn \/ pc = "idle" => result'[g] = result[g] /\ out'[g] = out[g]
<1>0. DOMAIN result = Gens /\ DOMAIN out = Gens
  BY Zenon DEF EndInv, FlowInv, Flow
<1>1. CASE IterStep \/ YieldCancelled
  <2>1. pc # "idle"
    <3>1. pc \in {"start", "peel", "top", "read", "drain"}
      BY <1>1, Zenon DEF IterStep, IterStart, PeelFrame, PeelTimeout, PeelEnds, Top,
         ReadIgnored, ReadRunning, ReadError, ReadCancelled, ReadChunk, ReadEnd,
         ReadNothing, ReadPoisoned, DrainFrame, DrainTimeout, DrainEnds,
         YieldCancelled, Taken
    <3> QED
      BY <3>1
  <2>2. out' = out \/ Yield(Frame)
    BY <1>1, Zenon DEF IterStep, IterStart, PeelFrame, PeelTimeout, PeelEnds, Top,
         ReadIgnored, ReadRunning, ReadError, ReadCancelled, ReadChunk, ReadEnd,
         ReadNothing, ReadPoisoned, DrainFrame, DrainTimeout, DrainEnds,
         YieldCancelled
  <2>3. \/ result' = result \/ (\E err, s : Return(err, s))
        \/ result' = [result EXCEPT ![turn].by = Frame.turn]
    BY <1>1, Zenon DEF IterStep, IterStart, PeelFrame, PeelTimeout, PeelEnds, Top,
         ReadIgnored, ReadRunning, ReadError, ReadCancelled, ReadChunk, ReadEnd,
         ReadNothing, ReadPoisoned, DrainFrame, DrainTimeout, DrainEnds,
         YieldCancelled
  <2>4. \A g \in Gens : g # turn => out'[g] = out[g]
    BY <1>0, <2>2, Zenon DEF Yield
  <2>5. \A g \in Gens : g # turn => result'[g] = result[g]
    BY <1>0, <2>3, Zenon DEF Return
  <2> QED
    BY <2>1, <2>4, <2>5, Zenon
<1>2. CASE ~(IterStep \/ YieldCancelled)
  <2>1. result' = result /\ out' = out
    BY <1>2, Zenon DEF Next, Daemon, SendTurn, EnsureConnected, Connect, DaemonAdmits,
       DaemonRuns, DaemonChunk, DaemonEnds, DaemonIdles, DaemonCancels, DaemonNoise,
       Break, CancelActiveTurn, CtxDone, vars, iterVars
  <2> QED
    BY <2>1, Zenon
<1> QED
  BY <1>1, <1>2, Zenon

(* While a turn is read no result is returned. *)
LEMMA ErrKept ==
  ASSUME EndInv, [Next]_vars, pc' # "idle"
  PROVE  \A g \in Gens : result'[g].err = result[g].err
<1>1. CASE ReadEnd
  BY <1>1, EndRead, Zenon
<1>2. CASE Next /\ ~ReadEnd
  <2>1. result' = result \/ \E err, s : Return(err, s)
    BY <1>2, ResultSteps, Zenon
  <2> QED
    BY <2>1, Zenon DEF Return, Goto
<1>3. CASE UNCHANGED vars
  BY <1>3, Zenon DEF vars, iterVars
<1> QED
  BY <1>1, <1>2, <1>3, Zenon

LEMMA LocalsKept ==
  ASSUME [Next]_vars, DOMAIN it = DOMAIN NewIter
  PROVE  DOMAIN it' = DOMAIN NewIter
<1>1. CASE IterStart
  BY <1>1, Zenon DEF IterStart
<1>2. CASE ReadRunning \/ ReadCancelled \/ ReadChunk \/ ReadEnd
  <2>1. DOMAIN it' = DOMAIN it
    BY <1>2, Zenon DEF ReadRunning, ReadCancelled, ReadChunk, ReadEnd
  <2> QED
    BY <2>1, Zenon
<1>3. CASE ~(IterStart \/ ReadRunning \/ ReadCancelled \/ ReadChunk \/ ReadEnd)
  <2>1. it' = it
    BY <1>3, Zenon DEF Next, IterStep, Daemon, SendTurn, EnsureConnected, Connect,
     PeelFrame, PeelTimeout, PeelEnds, Top, ReadIgnored, ReadError,
     ReadNothing, ReadPoisoned, DrainFrame, DrainTimeout,
     DrainEnds, YieldCancelled, DaemonAdmits, DaemonRuns, DaemonChunk, DaemonEnds,
     DaemonIdles, DaemonCancels, DaemonNoise, Break, CancelActiveTurn, CtxDone,
     vars, iterVars
  <2> QED
    BY <2>1, Zenon
<1> QED
  BY <1>1, <1>2, <1>3, Zenon

(* A turn is haunted by one before it. *)
LEMMA ResultInvStep ==
  ASSUME FlowInv, EndInv, ResultInv, [Next]_vars
  PROVE  ResultInv'
<1>0. turn \in Nat /\ turn \in 0 .. MaxTurns
  <2>1. turn \in 0 .. MaxTurns
    BY Zenon DEF FlowInv
  <2> QED
    BY <2>1, DaemonTurnAssumption
<1>1. DOMAIN it' = DOMAIN NewIter
  BY LocalsKept, Zenon DEF ResultInv
<1>2. CASE SendTurn
  <2>1. /\ turn' = turn + 1 /\ result' = result
        /\ \/ haunted' = haunted
           \/ haunted' = haunted \cup {turn'} /\ \E h \in 1 .. turn : LeftEarly(h)
    BY <1>2, Zenon DEF SendTurn
  <2>2. /\ \A g \in Gens : g > turn' \/ g = turn' => g > turn
        /\ \A h \in 1 .. turn : h \in 1 .. turn' /\ h \in Gens /\ h < turn'
        /\ turn' \in 1 .. turn'
    BY <1>0, <2>1, DaemonTurnAssumption DEF Gens
  <2>3. haunted' \subseteq 1 .. turn'
    BY <2>1, <2>2, Zenon DEF ResultInv
  <2>4. \A h \in haunted' : \E e \in Gens : e < h /\ LeftEarly(e)
    BY <2>1, <2>2, Zenon DEF ResultInv
  <2>5. \A e : LeftEarly(e)' <=> LeftEarly(e)
    BY <2>1, Zenon DEF LeftEarly
  <2> QED
    BY <1>1, <2>1, <2>2, <2>3, <2>4, <2>5, Zenon DEF ResultInv
<1>3. CASE ~SendTurn
  <2>1. turn' = turn /\ haunted' = haunted /\ (pc = "idle" => pc' = "idle")
    BY <1>3, TurnMoves, Zenon
  <2>2. \A g \in Gens : g > turn \/ (g = turn /\ pc' # "idle") => result'[g].err = "none"
    <3>1. \A g \in Gens : g > turn => g # turn
      BY <1>0 DEF Gens
    <3> QED
      BY <2>1, <3>1, OthersKept, ErrKept, Zenon DEF ResultInv
  <2>3. \A h \in haunted : \A e \in Gens : e < h => e # turn
    <3>1. \A h \in 1 .. turn : \A e \in Gens : e < h => e # turn
      BY <1>0 DEF Gens
    <3> QED
      BY <3>1, Zenon DEF ResultInv
  <2>4. \A e \in Gens : e # turn => (LeftEarly(e)' <=> LeftEarly(e))
    BY OthersKept, Zenon DEF LeftEarly
  <2> QED
    BY <1>1, <2>1, <2>2, <2>3, <2>4, Zenon DEF ResultInv
<1> QED
  BY <1>2, <1>3, Zenon

-----------------------------------------------------------------------------
(* A frame more *)
LEMMA MoreIds ==
  ASSUME NEW s, IsSequence(s), NEW f
  PROVE  /\ ChunkIds(s) \subseteq ChunkIds(Append(s, f))
         /\ ChunkIds(Append(s, f)) \subseteq ChunkIds(s) \cup {f.id}
         /\ IsTurnEnd(f) => ChunkIds(Append(s, f)) = ChunkIds(s)
         /\ ~IsTurnEnd(f) => f.id \in ChunkIds(Append(s, f))
         /\ PassedIds(s) \subseteq PassedIds(Append(s, f))
         /\ PassedIds(Append(s, f)) \subseteq PassedIds(s) \cup {f.id}
         /\ ShouldDropStreamChunkEarly(f) => PassedIds(Append(s, f)) = PassedIds(s)
<1>1. PICK S : s \in Seq(S)
  BY Zenon DEF IsSequence
<1>2. s \in Seq(S \cup {f}) /\ f \in S \cup {f}
  BY <1>1
<1> DEFINE a == Append(s, f)
<1>3. /\ a \in Seq(S \cup {f}) /\ Len(s) \in Nat
      /\ Len(a) = Len(s) + 1
      /\ a[Len(s) + 1] = f
      /\ \A i \in 1 .. Len(s) : a[i] = s[i]
      /\ \A i \in 1 .. Len(s) + 1 : i \in 1 .. Len(s) \/ i = Len(s) + 1
  BY <1>2, AppendFacts, Zenon
<1> HIDE DEF a
<1>4. Len(s) + 1 \in 1 .. Len(s) + 1 /\ \A i \in 1 .. Len(s) : i \in 1 .. Len(s) + 1
  BY <1>3
<1>5. DOMAIN s = 1 .. Len(s) /\ DOMAIN a = 1 .. Len(s) + 1
  BY <1>1, <1>3, SeqDomain, Zenon DEF IsSequence
<1>6. /\ \A i \in DOMAIN s : i \in DOMAIN a /\ a[i] = s[i]
      /\ \A i \in DOMAIN a : (i \in DOMAIN s /\ a[i] = s[i]) \/ a[i] = f
      /\ \E i \in DOMAIN a : a[i] = f
  BY <1>3, <1>4, <1>5, Zenon
<1>7. \A q, x : x \in ChunkIds(q) <=> \E i \in DOMAIN q : ~IsTurnEnd(q[i]) /\ x = q[i].id
  BY Zenon DEF ChunkIds
<1>8. \A q, x : x \in PassedIds(q) <=>
        \E i \in DOMAIN q : ~ShouldDropStreamChunkEarly(q[i]) /\ x = q[i].id
  BY Zenon DEF PassedIds
<1>9. \A x \in ChunkIds(s) : x \in ChunkIds(a)
  <2> SUFFICES ASSUME NEW x \in ChunkIds(s) PROVE x \in ChunkIds(a)
    OBVIOUS
  <2>1. PICK i \in DOMAIN s : ~IsTurnEnd(s[i]) /\ x = s[i].id
    BY <1>7, ZenonT(30)
  <2> QED
    BY <1>6, <1>7, <2>1, Zenon
<1>10. \A x \in ChunkIds(a) : x \in ChunkIds(s) \/ (~IsTurnEnd(f) /\ x = f.id)
  <2> SUFFICES ASSUME NEW x \in ChunkIds(a)
               PROVE  x \in ChunkIds(s) \/ (~IsTurnEnd(f) /\ x = f.id)
    OBVIOUS
  <2>1. PICK i \in DOMAIN a : ~IsTurnEnd(a[i]) /\ x = a[i].id
    BY <1>7, ZenonT(30)
  <2> QED
    BY <1>6, <1>7, <2>1, Zenon
<1>11. ~IsTurnEnd(f) => f.id \in ChunkIds(a)
  BY <1>6, <1>7, Zenon
<1>12. \A x \in PassedIds(s) : x \in PassedIds(a)
  <2> SUFFICES ASSUME NEW x \in PassedIds(s) PROVE x \in PassedIds(a)
    OBVIOUS
  <2>1. PICK i \in DOMAIN s : ~ShouldDropStreamChunkEarly(s[i]) /\ x = s[i].id
    BY <1>8, Zenon
  <2> QED
    BY <1>6, <1>8, <2>1, Zenon
<1>13. \A x \in PassedIds(a) : x \in PassedIds(s) \/ (~ShouldDropStreamChunkEarly(f) /\ x = f.id)
  <2> SUFFICES ASSUME NEW x \in PassedIds(a)
               PROVE  x \in PassedIds(s) \/ (~ShouldDropStreamChunkEarly(f) /\ x = f.id)
    OBVIOUS
  <2>1. PICK i \in DOMAIN a : ~ShouldDropStreamChunkEarly(a[i]) /\ x = a[i].id
    BY <1>8, ZenonT(30)
  <2> QED
    BY <1>6, <1>8, <2>1, Zenon
<1> QED
  BY <1>9, <1>10, <1>11, <1>12, <1>13, Zenon DEF a

(* No frames, no numbers *)
LEMMA NoIds == ChunkIds(<<>>) = {} /\ PassedIds(<<>>) = {}
<1>1. DOMAIN <<>> = {}
  OBVIOUS
<1> QED
  BY <1>1, Zenon DEF ChunkIds, PassedIds

(* What the daemon has done with a turn stays. *)
LEMMA PastKept ==
  ASSUME FlowInv, DaemonInv, [Next]_vars
  PROVE  /\ closed \subseteq closed'
         /\ \A g \in Gens : Past(g) => Past(g)' /\ log'[g] = log[g]
<1>1. \A g \in Gens : g # NoID
  BY DEF Gens, NoID
<1>2. CASE DaemonIdles \/ DaemonCancels
  <2>1. /\ log' = log
        /\ closed' = closed \cup {query} \/ closed' = closed \cup ({query} \ {NoID})
    BY <1>2, Zenon DEF DaemonIdles, DaemonCancels
  <2> QED
    BY <1>1, <2>1, Zenon DEF Past
<1>3. ASSUME NEW k, DaemonChunk(k)
      PROVE  closed' = closed /\ \A g \in Gens : Past(g) => Past(g)' /\ log'[g] = log[g]
  <2>1. /\ phase = "running" /\ UNCHANGED <<query, phase, closed>>
        /\ log' = [log EXCEPT ![query] = Append(@, [id |-> sent', mode |-> k.mode, data |-> k.data])]
    BY <1>3, Zenon DEF DaemonChunk
  <2>2. phase # "closing"
    BY <2>1
  <2>3. \A g \in Gens : g # query => log'[g] = log[g]
    BY <2>1, Zenon DEF DaemonInv
  <2>4. \A g : Past(g) => g # query
    BY <2>2, Zenon DEF Past, DaemonInv
  <2> QED
    BY <2>1, <2>3, <2>4, Zenon DEF Past
<1>4. CASE DaemonAdmits \/ DaemonRuns \/ DaemonEnds
  <2>1. /\ UNCHANGED <<log, closed>>
        /\ query = NoID \/ (query' = query /\ phase \in {"admitted", "running"})
    BY <1>4, Zenon DEF DaemonAdmits, DaemonRuns, DaemonEnds
  <2>2. phase \in {"admitted", "running"} => phase # "closing"
    OBVIOUS
  <2> QED
    BY <1>1, <2>1, <2>2, Zenon DEF Past
<1>5. CASE /\ ~(DaemonAdmits \/ DaemonRuns \/ DaemonEnds \/ DaemonIdles)
           /\ ~(DaemonCancels \/ \E k : DaemonChunk(k))
  <2>1. UNCHANGED <<query, phase, log, closed>>
    BY <1>5, Zenon DEF Next, IterStep, Daemon, SendTurn, EnsureConnected, Connect, IterStart,
         PeelFrame, PeelTimeout, PeelEnds, Top, ReadIgnored, ReadRunning, ReadError,
         ReadCancelled, ReadChunk, ReadEnd, ReadNothing, ReadPoisoned, DrainFrame,
         DrainTimeout, DrainEnds, YieldCancelled, DaemonNoise, Break, CancelActiveTurn,
         CtxDone, vars, iterVars, daemonVars
  <2> QED
    BY <2>1, Zenon DEF Past
<1> QED
  BY <1>2, <1>3, <1>4, <1>5, Zenon

(* The drain yields the end of a turn at most. *)
LEMMA DrainIds ==
  ASSUME OwnInv, pc = "drain", InTurn, DrainFrame
  PROVE  ChunkIds(out'[turn]) = ChunkIds(out[turn])
<1>1. /\ turn \in Gens /\ IsSequence(out[turn]) /\ DOMAIN out = Gens
  <2>1. pc # "idle"
    OBVIOUS
  <2> QED
    BY <2>1, Zenon DEF OwnInv, FlowInv, Flow, Numbered
<1>2. Frame \in Transit
  BY TakenTransit, Zenon DEF OwnInv, DrainFrame
<1>3. Proper(Frame, turn) /\ ~AtWork(Frame)
  BY <1>2, Zenon DEF OwnInv, FrameInv, InTurn, Drained
<1>4. Frame.type = "event" /\ Frame.loop \in {NoLoop, Loop} => IsTurnEnd(Frame)
  <2>1. Frame.type = "event" => Frame.type \notin {"command_response", "error", "ping", "disconnect"}
    OBVIOUS
  <2>2. NoLoop # Loop /\ NoLoop # Foreign
    BY DaemonTurnAssumption, Zenon
  <2> QED
    BY <1>3, <2>1, <2>2, Zenon DEF Proper, About, AtWork, IsChunk
<1>5. CASE out' = out
  BY <1>5, Zenon
<1>6. CASE Yield(Frame) /\ IsTurnEnd(Frame)
  <2>1. out'[turn] = Append(out[turn], Frame)
    BY <1>1, <1>6, Zenon DEF Yield
  <2>2. ChunkIds(Append(out[turn], Frame)) = ChunkIds(out[turn])
    BY <1>1, <1>6, MoreIds, Zenon
  <2> QED
    BY <2>1, <2>2, Zenon
<1> QED
  BY <1>4, <1>5, <1>6, Zenon DEF DrainFrame

-----------------------------------------------------------------------------
(* IterTurnChunks returns early, or from the drain. *)
LEMMA Leaves ==
  ASSUME FlowInv, EndInv, [Next]_vars, pc # "idle", pc' = "idle"
  PROVE  \/ LeftEarly(turn)'
         \/ /\ pc = "drain" /\ (DrainFrame \/ DrainTimeout \/ DrainEnds)
            /\ result'[turn].by = result[turn].by
<1>1. Next
  BY Zenon DEF vars, iterVars
<1>2. \/ \E err \in {"ctx", "daemon", "read", "lost", "nil"} :
           \E s \in {"", "connection_lost"} : Return(err, s)
      \/ /\ pc = "drain" /\ (DrainFrame \/ DrainTimeout \/ DrainEnds)
         /\ Return("nil", it.endState)
  <2>1. "start" # "idle" /\ "peel" # "idle" /\ "top" # "idle" /\ "read" # "idle" /\ "drain" # "idle"
    OBVIOUS
  <2>2. CASE IterStep \/ YieldCancelled
    BY <2>1, <2>2, Zenon DEF IterStep, IterStart, PeelFrame, PeelTimeout, PeelEnds, Top,
         ReadIgnored, ReadRunning, ReadError, ReadCancelled, ReadChunk, ReadEnd,
         ReadNothing, ReadPoisoned, DrainFrame, DrainTimeout, DrainEnds,
         YieldCancelled, Goto
  <2>3. CASE ~(IterStep \/ YieldCancelled)
    <3>1. pc' = pc \/ pc' = "start"
      BY <1>1, <2>3, Zenon DEF Next, Daemon, SendTurn, EnsureConnected, Connect,
         DaemonAdmits, DaemonRuns, DaemonChunk, DaemonEnds, DaemonIdles, DaemonCancels,
         DaemonNoise, Break, CancelActiveTurn, CtxDone, iterVars
    <3> QED
      BY <2>1, <3>1, Zenon
  <2> QED
    BY <2>2, <2>3, Zenon
<1>3. turn' = turn
  <2>1. ~SendTurn
    BY Zenon DEF SendTurn
  <2> QED
    BY <2>1, TurnMoves, Zenon
<1>4. turn \in Gens /\ DOMAIN result = Gens /\ DOMAIN result[turn] = {"err", "endState", "by"}
  BY Zenon DEF FlowInv, EndInv
<1>5. ASSUME NEW err, NEW s, Return(err, s)
      PROVE  result'[turn].err = err /\ result'[turn].endState = s /\ result'[turn].by = result[turn].by
  <2>1. result'[turn] = [result[turn] EXCEPT !.err = err, !.endState = s]
    BY <1>4, <1>5, Zenon DEF Return
  <2> QED
    BY <1>4, <2>1
<1>6. CASE \E err \in {"ctx", "daemon", "read", "lost", "nil"} :
             \E s \in {"", "connection_lost"} : Return(err, s)
  <2>1. PICK err \in {"ctx", "daemon", "read", "lost", "nil"}, s \in {"", "connection_lost"} :
          Return(err, s)
    BY <1>6, Zenon
  <2>2. err # "none" /\ s \notin Ended
    BY Zenon DEF Ended
  <2> QED
    BY <1>3, <1>5, <2>1, <2>2, Zenon DEF LeftEarly
<1> QED
  BY <1>2, <1>5, <1>6, Zenon

(* What has ended stays as it was: every chunk yielded, by a frame of its own. *)
LEMMA DoneStep ==
  ASSUME OwnInv, [Next]_vars
  PROVE  DoneInv'
<1>0. FlowInv /\ EndInv /\ FrameInv /\ DaemonInv /\ ResultInv /\ TurnInv /\ DoneInv
  BY Zenon DEF OwnInv
<1> SUFFICES ASSUME NEW g \in Gens, g \notin haunted',
                    result'[g].err = "nil", result'[g].endState \in Ended
             PROVE  Past(g)' /\ OwnEnd(g)' /\ ChunkIds(out'[g]) = PassedIds(log'[g])
  BY Zenon DEF DoneInv
<1>1. g \notin haunted
  <2>1. haunted \subseteq haunted'
    BY Zenon DEF Next, SendTurn, vars
  <2> QED
    BY <2>1, Zenon
<1>2. CASE g # turn \/ pc = "idle"
  <2>1. result'[g] = result[g] /\ out'[g] = out[g]
    BY <1>0, <1>2, OthersKept, Zenon
  <2>2. Past(g) /\ OwnEnd(g) /\ ChunkIds(out[g]) = PassedIds(log[g])
    BY <1>0, <1>1, <2>1, Zenon DEF DoneInv
  <2>3. Past(g)' /\ log'[g] = log[g] /\ closed \subseteq closed'
    BY <1>0, <2>2, PastKept, Zenon
  <2> QED
    BY <2>1, <2>2, <2>3, Zenon DEF OwnEnd
<1>3. CASE g = turn /\ pc # "idle"
  <2>1. result[g].err = "none"
    BY <1>0, <1>3, Zenon DEF ResultInv
  <2>2. pc' = "idle"
    <3>1. result'[g].err # result[g].err
      BY <2>1, Zenon
    <3> QED
      BY <1>0, <3>1, ErrKept, Zenon
  <2>3. turn' = turn
    <3>1. ~SendTurn
      BY <2>2 DEF SendTurn
    <3> QED
      BY <3>1, TurnMoves, Zenon
  <2>4. /\ pc = "drain" /\ (DrainFrame \/ DrainTimeout \/ DrainEnds)
        /\ result'[turn].by = result[turn].by
    <3>1. ~LeftEarly(turn)'
      BY <1>3, <2>3, Zenon DEF LeftEarly
    <3> QED
      BY <1>0, <1>3, <2>2, <3>1, Leaves, Zenon
  <2>5. InTurn
    BY <1>0, <1>1, <1>3, Zenon DEF TurnInv
  <2>6. Past(turn) /\ OwnEnd(turn) /\ ChunkIds(out[turn]) = PassedIds(log[turn])
    <3>1. Past(turn) /\ OwnEnd(turn) /\ \A f \in Transit : ~AtWork(f)
      BY <2>4, <2>5, Zenon DEF InTurn, Drained
    <3>2. Complete /\ ChunkIds(out[turn]) \subseteq PassedIds(log[turn])
      BY <2>4, <2>5, Zenon DEF InTurn, CutOff
    <3>3. PassedIds(log[turn]) \subseteq ChunkIds(out[turn])
      BY <3>1, <3>2, Zenon DEF Complete, Coming, AtWork
    <3> QED
      BY <3>1, <3>2, <3>3, Zenon
  <2>7. ChunkIds(out'[turn]) = ChunkIds(out[turn])
    <3>1. CASE DrainFrame
      BY <2>4, <2>5, <3>1, DrainIds, Zenon
    <3>2. CASE DrainTimeout \/ DrainEnds
      BY <3>2, Zenon DEF DrainTimeout, DrainEnds
    <3> QED
      BY <2>4, <3>1, <3>2, Zenon
  <2>8. Past(g)' /\ log'[g] = log[g] /\ closed \subseteq closed'
    BY <1>0, <1>3, <2>6, PastKept, Zenon
  <2> QED
    BY <1>3, <2>4, <2>6, <2>7, <2>8, Zenon DEF OwnEnd
<1> QED
  BY <1>2, <1>3, Zenon

(* A turn that was drained leaves the daemon done. *)
LEMMA DrainCalm ==
  ASSUME OwnInv, pc = "drain", InTurn
  PROVE  Calm
<1>0. DaemonInv /\ InHand /\ Past(turn) /\ \A f \in Transit : ~AtWork(f)
  BY Zenon DEF OwnInv, InTurn, Drained
<1>1. \A i \in 1 .. Len(inbox) : inbox[i] = CancelTurn
  BY <1>0, Zenon DEF DaemonInv, Queued, InHand, Past
<1>2. phase \in {"none", "closing"}
  BY <1>0, Zenon DEF DaemonInv, InHand, Past
<1> QED
  BY <1>0, <1>1, <1>2, Zenon DEF Calm

(* What the daemon says when no turn runs *)
LEMMA QuietEmit ==
  ASSUME FlowInv, KnownControls, DaemonNoise \/ DaemonIdles \/ DaemonCancels
  PROVE  \A f \in Transit' : f \in Transit \/ ~AtWork(f)
<1>1. CASE DaemonNoise
  <2>1. \/ Emit(Sent("status", "", "idle", Foreign, NoID, FALSE))
        \/ Emit(Sent("event", "messages", "text", Foreign, NoID, FALSE))
        \/ Emit(Sent("error", "", "", NoLoop, NoID, FALSE))
        \/ \E c \in Controls : Emit(Sent(c, "", "", NoLoop, NoID, FALSE))
    BY <1>1, Zenon DEF DaemonNoise
  <2>2. ASSUME NEW t, NEW m, NEW d, NEW l, Emit(Sent(t, m, d, l, NoID, FALSE)),
               \/ l = Foreign /\ d # "running"
               \/ l = NoLoop /\ t # "status"
        PROVE  \A f \in Transit' : f \in Transit \/ ~AtWork(f)
    <3>1. PICK f : Emit(f) /\ SentAs(f, t, m, d, l, NoID, sent + 1)
      BY <2>2, SentFrame, Zenon
    <3>2. f.id = sent + 1 /\ f.type = t /\ f.data = d /\ f.loop = l
      BY <3>1, SentFacts, Zenon
    <3>3. ~AtWork(f)
      BY <2>2, <3>2, DaemonTurnAssumption, Zenon DEF AtWork, IsRunning, IsChunk
    <3>4. Transit' \subseteq Transit \cup {f}
      BY <3>1, <3>2, EmitTransit, Zenon
    <3> QED
      BY <3>3, <3>4, Zenon
  <2>3. /\ "idle" # "running" /\ "text" # "running" /\ "error" # "status"
        /\ \A c \in Controls : c # "status"
    BY DEF KnownControls
  <2> QED
    BY <2>1, <2>2, <2>3, Zenon
<1>2. CASE DaemonIdles
  <2>1. PICK t, m, d : t = "status" /\ d = "idle" /\ Emit(Sent(t, m, d, Loop, query, FALSE))
    BY <1>2, Zenon DEF DaemonIdles, Status
  <2>2. PICK f : Emit(f) /\ SentAs(f, t, m, d, Loop, query, sent + 1)
    BY <2>1, SentFrame, Zenon
  <2>3. f.id = sent + 1 /\ f.type = t /\ f.data = d
    BY <2>2, SentFacts, Zenon
  <2>4. ~AtWork(f)
    BY <2>1, <2>3, Zenon DEF AtWork, IsRunning, IsChunk
  <2>5. Transit' \subseteq Transit \cup {f}
    BY <2>2, <2>3, EmitTransit, Zenon
  <2> QED
    BY <2>4, <2>5, Zenon
<1>3. CASE DaemonCancels
  <2>1. PICK a, b :
           /\ Transit' \subseteq Transit \cup {a, b}
           /\ a.type = "command_response"
           /\ b.type = "status" /\ b.data # "running"
    BY <1>3, CancelTransit, ZenonT(30)
  <2>2. ~AtWork(a) /\ ~AtWork(b)
    BY <2>1, Zenon DEF AtWork, IsRunning, IsChunk
  <2> QED
    BY <2>1, <2>2, Zenon
<1> QED
  BY <1>1, <1>2, <1>3, Zenon

(* Nothing disturbs the calm. *)
LEMMA CalmKept ==
  ASSUME OwnInv, KnownControls, Calm, [Next]_vars, pc = "idle", ~SendTurn
  PROVE  Calm'
<1>0. FlowInv /\ FrameInv /\ DaemonInv
  BY Zenon DEF OwnInv
<1>1. ASSUME UNCHANGED <<inbox, phase>>, Transit' \subseteq Transit PROVE Calm'
  BY <1>1, Zenon DEF Calm
<1>2. CASE EnsureConnected \/ Connect \/ Break
  <2>1. UNCHANGED <<inbox, phase>>
    BY <1>2, Zenon DEF EnsureConnected, Connect, Break, daemonVars
  <2> QED
    BY <1>0, <1>1, <1>2, <2>1, LessTransit, Zenon
<1>3. CASE DaemonNoise \/ DaemonIdles \/ DaemonCancels
  <2>1. /\ phase' = phase \/ phase' = "none"
        /\ inbox' = inbox \/ (inbox # <<>> /\ inbox' = Tail(inbox))
    BY <1>3, Zenon DEF DaemonNoise, DaemonIdles, DaemonCancels
  <2>2. \A i \in 1 .. Len(inbox') : inbox'[i] = CancelTurn
    <3>1. Queued(inbox, turn, closed, query)
      BY <1>0, Zenon DEF DaemonInv
    <3>2. inbox # <<>> =>
            \A i \in 1 .. Len(Tail(inbox)) : \E j \in 1 .. Len(inbox) : Tail(inbox)[i] = inbox[j]
      BY <3>1, QueuedTail, Zenon
    <3> QED
      BY <2>1, <3>2, Zenon DEF Calm
  <2>3. \A f \in Transit' : ~AtWork(f)
    BY <1>0, <1>3, QuietEmit, Zenon DEF Calm
  <2> QED
    BY <2>1, <2>2, <2>3, Zenon DEF Calm
<1>4. CASE DaemonAdmits \/ DaemonRuns \/ DaemonEnds \/ \E k : DaemonChunk(k)
  <2>1. \/ phase \in {"admitted", "running"}
        \/ inbox # <<>> /\ Head(inbox) # CancelTurn
    BY <1>4, Zenon DEF DaemonAdmits, DaemonRuns, DaemonEnds, DaemonChunk
  <2>2. phase \notin {"admitted", "running"}
    BY DEF Calm
  <2>3. inbox # <<>> => Head(inbox) = CancelTurn
    <3>1. Queued(inbox, turn, closed, query)
      BY <1>0, Zenon DEF DaemonInv
    <3>2. inbox # <<>> => \E i \in 1 .. Len(inbox) : Head(inbox) = inbox[i]
      BY <3>1, QueuedTail, Zenon
    <3> QED
      BY <3>2, Zenon DEF Calm
  <2> QED
    BY <2>1, <2>2, <2>3, Zenon
<1>5. CASE UNCHANGED vars
  BY <1>1, <1>5, Zenon DEF vars, sockVars, daemonVars, Transit
<1>6. ~(IterStep \/ YieldCancelled \/ CancelActiveTurn \/ CtxDone)
  <2>1. pc \notin {"start", "peel", "top", "read", "drain"}
    OBVIOUS
  <2> QED
    BY <2>1, Zenon DEF IterStep, IterStart, PeelFrame, PeelTimeout, PeelEnds, Top,
         ReadIgnored, ReadRunning, ReadError, ReadCancelled, ReadChunk, ReadEnd,
         ReadNothing, ReadPoisoned, DrainFrame, DrainTimeout, DrainEnds,
         YieldCancelled, Taken, CancelActiveTurn, CtxDone
<1> QED
  BY <1>2, <1>3, <1>4, <1>5, <1>6, Zenon DEF Next, Daemon

(* Between turns the daemon is done: a step keeps it. *)
LEMMA CalmStep ==
  ASSUME OwnInv, KnownControls, [Next]_vars
  PROVE  CalmInv'
<1>0. FlowInv /\ EndInv /\ FrameInv /\ ResultInv /\ CalmInv /\ TurnInv
  BY Zenon DEF OwnInv
<1> SUFFICES ASSUME pc' = "idle", \A g \in Gens : g <= turn' => ~LeftEarly(g)'
             PROVE  Calm'
  BY Zenon DEF CalmInv
<1>1. ~SendTurn /\ turn' = turn /\ haunted' = haunted
  <2>1. ~SendTurn
    BY DEF SendTurn
  <2> QED
    BY <2>1, TurnMoves, Zenon
<1>2. CASE pc = "idle"
  <2>1. \A g \in Gens : g <= turn => ~LeftEarly(g)
    BY <1>0, <1>1, <1>2, OthersKept, Zenon DEF LeftEarly
  <2>2. Calm
    BY <1>0, <1>2, <2>1, Zenon DEF CalmInv
  <2> QED
    BY <1>1, <1>2, <2>2, CalmKept, Zenon
<1>3. CASE pc # "idle"
  <2>1. turn \in Gens /\ turn <= turn /\ \A e \in Gens : e < turn => e <= turn /\ e # turn
    <3>1. turn \in Gens
      BY <1>0, <1>3, Zenon DEF FlowInv
    <3> QED
      BY <3>1 DEF Gens
  <2>2. pc = "drain" /\ (DrainFrame \/ DrainTimeout \/ DrainEnds)
    BY <1>0, <1>1, <1>3, <2>1, Leaves, Zenon
  <2>3. turn \notin haunted
    <3>1. \A e \in Gens : e < turn => ~LeftEarly(e)
      BY <1>0, <1>1, <2>1, OthersKept, Zenon DEF LeftEarly
    <3> QED
      BY <1>0, <3>1, Zenon DEF ResultInv
  <2>4. InTurn
    BY <1>0, <1>3, <2>3, Zenon DEF TurnInv
  <2>5. Calm
    BY <2>2, <2>4, DrainCalm, Zenon
  <2>6. UNCHANGED <<inbox, phase>>
    BY <2>2, Zenon DEF DrainFrame, DrainTimeout, DrainEnds, daemonVars
  <2>7. Transit' \subseteq Transit
    BY <1>0, <2>2, LessTransit, Zenon DEF IterStep
  <2> QED
    BY <2>5, <2>6, <2>7, Zenon DEF Calm
<1> QED
  BY <1>2, <1>3, Zenon

-----------------------------------------------------------------------------
(* Frames are lost on their way. *)
LEMMA Shrinks ==
  ASSUME InTurn, Transit' \subseteq Transit,
         UNCHANGED <<turn, inbox, query, phase, log, closed>>
  PROVE  /\ InHand' /\ OwnWork' /\ LastFrames' \subseteq LastFrames
         /\ \A f : Late(f) => Late(f)'
         /\ Bound' = Bound => \A f : Early(f) => Early(f)'
         /\ Begun' = Begun
         /\ (\E f \in Transit' : IsRunning(f)) => Begun
<1>1. InHand'
  BY Zenon DEF InTurn, InHand
<1>2. OwnWork'
  BY Zenon DEF InTurn, OwnWork, Logged
<1>3. LastFrames' \subseteq LastFrames
  BY Zenon DEF LastFrames
<1>4. \A f : Late(f) => Late(f)'
  BY Zenon DEF Late, Past
<1>5. Bound' = Bound => \A f : Early(f) => Early(f)'
  BY Zenon DEF Early
<1>6. Begun' = Begun
  BY Zenon DEF Begun
<1>7. (\E f \in Transit' : IsRunning(f)) => Begun
  BY Zenon DEF InTurn, BoundOwn
<1> QED
  BY <1>1, <1>2, <1>3, <1>4, <1>5, <1>6, <1>7, Zenon

(* None of them is a chunk that is due. *)
LEMMA KeepsChunks ==
  ASSUME Complete, UNCHANGED <<turn, out, log>>,
         \A f \in Transit : f \in Transit' \/ ~IsChunk(f) \/ ShouldDropStreamChunkEarly(f)
  PROVE  Complete'
BY Zenon DEF Complete, Coming

(* Frames are passed over. *)
LEMMA PassesOver ==
  ASSUME InTurn, Transit' \subseteq Transit,
         \A f \in Transit : f \in Transit' \/ ~IsChunk(f) \/ ShouldDropStreamChunkEarly(f),
         UNCHANGED <<turn, inbox, query, phase, log, closed, out>>,
         Bound' = Bound, pc' # "start" /\ it'.queryStarted => it'.expected = turn,
         sock' = sock \/ sock' # "open", pc # "drain", pc' # "drain"
  PROVE  InTurn'
<1>1. /\ InHand' /\ OwnWork' /\ LastFrames' \subseteq LastFrames
      /\ (\A f : Late(f) => Late(f)') /\ (\A f : Early(f) => Early(f)')
      /\ Begun' = Begun /\ ((\E f \in Transit' : IsRunning(f)) => Begun)
  BY Shrinks, Zenon
<1>2. BoundOwn'
  BY <1>1, Zenon DEF InTurn, BoundOwn
<1>3. EndsInPlace'
  BY <1>1, Zenon DEF InTurn, EndsInPlace
<1>4. Drained'
  BY Zenon DEF Drained
<1>5. Complete' \/ CutOff'
  <2>1. CASE Complete
    BY <2>1, KeepsChunks, Zenon
  <2>2. CASE CutOff
    BY <1>1, <2>2, Zenon DEF CutOff
  <2> QED
    BY <2>1, <2>2, Zenon DEF InTurn
<1>6. ChunkIds(out'[turn']) \subseteq PassedIds(log'[turn'])
  BY Zenon DEF InTurn
<1> QED
  BY <1>1, <1>2, <1>3, <1>4, <1>5, <1>6, Zenon DEF InTurn

(* A frame the peel drops is no chunk. *)
LEMMA StaleNoChunk ==
  ASSUME NEW f, IsStalePending(f) \/ f.type \in {"ping", "disconnect"}
  PROVE  ~IsChunk(f)
BY Zenon DEF IsStalePending, IsChunk, IsTurnEnd

(* A chunk of the turn is passed over only where it is filtered. *)
LEMMA IgnoredChunk ==
  ASSUME InTurn, pc = "read", turn \in Gens, NEW f \in Transit, Ignored(f), IsChunk(f)
  PROVE  ShouldDropStreamChunkEarly(f)
<1>1. f.loop = Loop /\ f.type = "event" /\ ~IsTurnEnd(f)
  BY Zenon DEF IsChunk
<1>2. f.turn = turn
  BY Zenon DEF InTurn, OwnWork, AtWork
<1>3. it.expected \in {NoID, turn}
  <2>1. pc # "start"
    OBVIOUS
  <2> QED
    BY <2>1, Zenon DEF InTurn, BoundOwn, Bound
<1>4. turn # NoID
  BY DEF Gens, NoID
<1>5. ~Mismatch(f)
  <2>1. f.type # "status"
    BY <1>1
  <2> QED
    BY <1>1, <1>2, <1>3, <1>4, <2>1, Zenon DEF Mismatch, TurnIDsMatch
<1> QED
  BY <1>1, <1>5, Zenon DEF Ignored

(* The peel, the steps between reads, and frames that are passed over *)
LEMMA OverStep ==
  ASSUME OwnInv, KnownControls, InTurn,
         \/ IterStart \/ PeelFrame \/ PeelTimeout \/ PeelEnds \/ Top
         \/ ReadIgnored \/ ReadCancelled,
         pc' # "idle"
  PROVE  InTurn'
<1>0. FlowInv /\ FrameInv /\ DOMAIN it = DOMAIN NewIter
  BY Zenon DEF OwnInv, ResultInv
<1>1. UNCHANGED <<turn, inbox, query, phase, log, closed, out>>
  BY Zenon DEF IterStart, PeelFrame, PeelTimeout, PeelEnds, Top, ReadIgnored,
     ReadCancelled, daemonVars
<1>2. /\ Transit' \subseteq Transit
      /\ \A f \in Transit : f \in Transit' \/ ~IsChunk(f) \/ ShouldDropStreamChunkEarly(f)
  <2>1. CASE IterStart
    BY <1>0, <2>1, StartTransit, StaleNoChunk, Zenon
  <2>2. CASE PeelFrame
    BY <1>0, <2>2, PeelTransit, StaleNoChunk, Zenon
  <2>3. CASE PeelEnds
    <3>1. pending' = pending /\ (ReadNil \/ wire' = wire)
      BY <2>3, Zenon DEF PeelEnds
    <3> QED
      BY <1>0, <3>1, NilTransit, StaleNoChunk, Zenon
  <2>4. CASE PeelTimeout \/ Top
    BY <2>4, Zenon DEF PeelTimeout, Top, sockVars, Transit
  <2>5. CASE ReadIgnored \/ ReadCancelled
    <3>1. pc = "read" /\ HasFrame /\ Consume /\ (Ignored(Frame) \/ Frame.type = "command_response")
      BY <2>5, Zenon DEF ReadIgnored, ReadCancelled, Taken
    <3>2. /\ Frame \in Transit /\ Transit' \subseteq Transit
          /\ Transit \subseteq Transit' \cup {Frame}
      BY <1>0, <3>1, TakenTransit, Zenon
    <3>3. turn \in Gens
      <4>1. pc # "idle"
        BY <3>1
      <4> QED
        BY <1>0, <4>1, Zenon DEF FlowInv
    <3>4. Frame.type = "command_response" => ~IsChunk(Frame)
      BY DEF IsChunk
    <3>5. ~IsChunk(Frame) \/ ShouldDropStreamChunkEarly(Frame)
      BY <3>1, <3>2, <3>3, <3>4, IgnoredChunk, Zenon
    <3> QED
      BY <3>2, <3>5, Zenon
  <2> QED
    BY <2>1, <2>2, <2>3, <2>4, <2>5, Zenon
<1>3. /\ pc \in {"start", "peel", "top", "read"} /\ pc' \in {"peel", "top", "read"}
      /\ sock' = sock \/ sock' = "poisoned"
  BY Zenon DEF IterStart, PeelFrame, PeelTimeout, PeelEnds, Top, ReadIgnored,
     ReadCancelled, Taken, Consume, Return, Goto, sockVars
<1>4. pc # "drain" /\ pc' # "drain" /\ pc' # "start" /\ (sock' = sock \/ sock' # "open")
  BY <1>3
<1>5. Bound' = Bound /\ (it'.queryStarted => it'.expected = turn)
  <2>1. CASE IterStart
    <3>1. pc = "start" /\ it' = NewIter
      BY <2>1, Zenon DEF IterStart
    <3>2. NewIter.expected = NoID /\ NewIter.queryStarted = FALSE
      BY DEF NewIter
    <3> QED
      BY <1>4, <3>1, <3>2, Zenon DEF Bound
  <2>2. CASE ~IterStart
    <3>1. pc # "start"
      <4>1. pc \in {"peel", "top", "read"}
        BY <2>2, Zenon DEF PeelFrame, PeelTimeout, PeelEnds, Top, ReadIgnored,
           ReadCancelled, Taken
      <4> QED
        BY <4>1
    <3>2. it' = it \/ it' = [it EXCEPT !.cancelSeen = TRUE]
      BY <2>2, Zenon DEF PeelFrame, PeelTimeout, PeelEnds, Top, ReadIgnored, ReadCancelled
    <3>3. it'.expected = it.expected /\ it'.queryStarted = it.queryStarted
      <4>1. "expected" \in DOMAIN it /\ "queryStarted" \in DOMAIN it
        BY <1>0 DEF NewIter
      <4> QED
        BY <3>2, <4>1, SMTT(30)
    <3> QED
      BY <1>4, <3>1, <3>3, Zenon DEF Bound, InTurn, BoundOwn
  <2> QED
    BY <2>1, <2>2, Zenon
<1> QED
  BY <1>1, <1>2, <1>4, <1>5, PassesOver, Zenon

(* Of two frames one comes first. *)
LEMMA OneFirst ==
  ASSUME FlowInv, NEW f \in Transit, NEW r \in Transit, f.id < r.id
  PROVE  ~(r.id < f.id)
<1>1. f.id \in 1 .. sent /\ r.id \in 1 .. sent /\ sent \in Nat
  BY Zenon DEF FlowInv, Flow, Numbered, Transit, FramesIn
<1> QED
  BY <1>1

(* status=running binds the reader to the turn; no end that came before it  *)
(* is left.                                                                 *)
LEMMA RunningStep ==
  ASSUME OwnInv, InTurn, ReadRunning
  PROVE  InTurn'
<1>0. FlowInv /\ FrameInv /\ DOMAIN it = DOMAIN NewIter
  BY Zenon DEF OwnInv, ResultInv
<1>1. /\ pc = "read" /\ HasFrame /\ Consume /\ pc' = "top" /\ sock' = sock
      /\ Frame.type = "status" /\ Frame.data = "running"
      /\ UNCHANGED <<turn, inbox, query, phase, log, closed, out>>
  BY Zenon DEF ReadRunning, Taken, Consume, Goto, daemonVars
<1>2. /\ pc # "start" /\ pc # "drain" /\ pc # "idle" /\ pc' # "start" /\ pc' # "drain"
      /\ Frame.type # "event"
  BY <1>1
<1>3. /\ Frame \in Transit /\ Transit' \subseteq Transit
      /\ Transit \subseteq Transit' \cup {Frame}
      /\ \A f \in Transit' : Frame.id < f.id
  BY <1>0, <1>1, TakenTransit, Zenon
<1>4. IsRunning(Frame) /\ ~IsChunk(Frame) /\ Frame.turn = turn
  BY <1>1, <1>2, <1>3, Zenon DEF IsRunning, IsChunk, AtWork, InTurn, OwnWork
<1>5. turn \in Gens /\ turn # NoID /\ turn >= turn
  <2>1. turn \in Gens
    BY <1>0, <1>2, Zenon DEF FlowInv
  <2> QED
    BY <2>1 DEF Gens, NoID
<1>6. it'.expected = turn /\ Bound' = turn
  <2>1. Binds(it.expected, Frame.turn)
    BY <1>2, <1>4, <1>5, Zenon DEF Binds, InTurn, BoundOwn, Bound
  <2>2. it' = [it EXCEPT !.queryStarted = TRUE, !.expected = Frame.turn,
                         !.progress = @ /\ it.expected \in {NoID, Frame.turn}]
    BY <2>1, Zenon DEF ReadRunning
  <2>3. "expected" \in DOMAIN it
    BY <1>0 DEF NewIter
  <2>4. it'.expected = Frame.turn
    BY <2>2, <2>3, Zenon
  <2> QED
    BY <1>2, <1>4, <2>4, Zenon DEF Bound
<1>7. /\ InHand' /\ OwnWork' /\ LastFrames' \subseteq LastFrames
      /\ (\A f : Late(f) => Late(f)') /\ Begun' = Begun
  BY <1>1, <1>3, Shrinks, Zenon
<1>8. Begun
  BY <1>3, <1>4, Zenon DEF InTurn, BoundOwn
<1>9. ASSUME NEW f \in LastFrames' PROVE ~Early(f)
  <2>1. f \in Transit /\ Frame.id < f.id
    BY <1>3, <1>9, Zenon DEF LastFrames
  <2>2. ~(f.id < Frame.id)
    BY <1>0, <1>3, <2>1, OneFirst, Zenon
  <2> QED
    BY <1>3, <1>4, <2>2, Zenon DEF Early
<1>10. EndsInPlace'
  BY <1>7, <1>9, Zenon DEF InTurn, EndsInPlace
<1>11. Complete' \/ CutOff'
  <2>1. CASE Complete
    <3>1. \A f \in Transit : f \in Transit' \/ ~IsChunk(f) \/ ShouldDropStreamChunkEarly(f)
      BY <1>3, <1>4, Zenon
    <3> QED
      BY <1>1, <2>1, <3>1, KeepsChunks, Zenon
  <2>2. CASE CutOff
    BY <1>1, <1>2, <1>7, <1>9, <2>2, Zenon DEF CutOff
  <2> QED
    BY <2>1, <2>2, Zenon DEF InTurn
<1>12. BoundOwn' /\ Drained'
  BY <1>1, <1>2, <1>6, <1>7, <1>8, Zenon DEF BoundOwn, Drained
<1> QED
  BY <1>1, <1>7, <1>10, <1>11, <1>12, Zenon DEF InTurn

(* A chunk is yielded. *)
LEMMA YieldStep ==
  ASSUME OwnInv, InTurn, ReadChunk
  PROVE  InTurn'
<1>0. FlowInv /\ FrameInv /\ DOMAIN it = DOMAIN NewIter
  BY Zenon DEF OwnInv, ResultInv
<1>1. /\ pc = "read" /\ HasFrame /\ Consume /\ pc' = "top" /\ sock' = sock
      /\ Frame.type = "event" /\ ~IsTurnEnd(Frame) /\ ~Ignored(Frame) /\ Yield(Frame)
      /\ it' = [it EXCEPT !.progress = @ \/ IsTurnProgressChunk(Frame.mode, Frame.data)]
      /\ UNCHANGED <<turn, inbox, query, phase, log, closed>>
  BY Zenon DEF ReadChunk, Taken, Consume, Goto, daemonVars
<1>2. pc # "start" /\ pc # "drain" /\ pc # "idle" /\ pc' # "start" /\ pc' # "drain"
  BY <1>1
<1>3. /\ Frame \in Transit /\ Transit' \subseteq Transit
      /\ Transit \subseteq Transit' \cup {Frame}
  BY <1>0, <1>1, TakenTransit, Zenon
<1>4. IsChunk(Frame) /\ ~ShouldDropStreamChunkEarly(Frame) /\ Logged(Frame)
  <2>1. Frame.loop \in {NoLoop, Loop} /\ ~ShouldDropStreamChunkEarly(Frame)
    BY <1>1, Zenon DEF Ignored, Mismatch
  <2>2. Proper(Frame, turn)
    BY <1>0, <1>3, Zenon DEF FrameInv
  <2>3. Frame.loop = Loop
    <3>1. Frame.type \notin {"command_response", "error", "ping", "disconnect"}
      BY <1>1
    <3> QED
      BY <2>1, <2>2, <3>1, DaemonTurnAssumption, Zenon DEF Proper, About
  <2>4. IsChunk(Frame)
    BY <1>1, <2>3, Zenon DEF IsChunk
  <2> QED
    BY <1>3, <2>1, <2>4, Zenon DEF InTurn, OwnWork, AtWork
<1>5. turn \in Gens /\ IsSequence(out[turn]) /\ DOMAIN out = Gens /\ IsSequence(log[turn])
  BY <1>2, Zenon DEF OwnInv, FlowInv, Flow, Numbered, DaemonInv
<1>6. out'[turn] = Append(out[turn], Frame)
  BY <1>1, <1>5, Zenon DEF Yield
<1>7. /\ ChunkIds(out[turn]) \subseteq ChunkIds(out'[turn])
      /\ ChunkIds(out'[turn]) \subseteq ChunkIds(out[turn]) \cup {Frame.id}
      /\ Frame.id \in ChunkIds(out'[turn])
  <2>1. /\ ChunkIds(out[turn]) \subseteq ChunkIds(Append(out[turn], Frame))
        /\ ChunkIds(Append(out[turn], Frame)) \subseteq ChunkIds(out[turn]) \cup {Frame.id}
        /\ ~IsTurnEnd(Frame) => Frame.id \in ChunkIds(Append(out[turn], Frame))
    BY <1>5, MoreIds, Zenon
  <2> QED
    BY <1>1, <1>6, <2>1, Zenon
<1>8. Frame.id \in PassedIds(log[turn])
  <2>1. PICK k \in 1 .. Len(log[turn]) :
          /\ log[turn][k].id = Frame.id /\ log[turn][k].mode = Frame.mode
          /\ log[turn][k].data = Frame.data
    BY <1>4, Zenon DEF Logged
  <2>2. k \in DOMAIN log[turn]
    BY <1>5, SeqDomain, Zenon
  <2>3. ~ShouldDropStreamChunkEarly(log[turn][k])
    BY <1>4, <2>1, Zenon DEF ShouldDropStreamChunkEarly
  <2> QED
    BY <2>1, <2>2, <2>3, Zenon DEF PassedIds
<1>9. ChunkIds(out'[turn']) \subseteq PassedIds(log'[turn'])
  BY <1>1, <1>7, <1>8, Zenon DEF InTurn
<1>10. Bound' = Bound /\ it'.expected = it.expected /\ it'.queryStarted = it.queryStarted
  <2>1. "expected" \in DOMAIN it /\ "queryStarted" \in DOMAIN it
    BY <1>0 DEF NewIter
  <2>2. it'.expected = it.expected /\ it'.queryStarted = it.queryStarted
    <3> DEFINE p == it.progress \/ IsTurnProgressChunk(Frame.mode, Frame.data)
    <3>1. it' = [it EXCEPT !.progress = p]
      BY <1>1, Zenon
    <3> HIDE DEF p
    <3> QED
      BY <2>1, <3>1, Zenon
  <2> QED
    BY <1>2, <2>2, Zenon DEF Bound
<1>11. /\ InHand' /\ OwnWork' /\ LastFrames' \subseteq LastFrames
       /\ (\A f : Late(f) => Late(f)') /\ (\A f : Early(f) => Early(f)')
       /\ Begun' = Begun /\ ((\E f \in Transit' : IsRunning(f)) => Begun)
  BY <1>1, <1>3, <1>10, Shrinks, Zenon
<1>12. BoundOwn' /\ Drained'
  BY <1>1, <1>2, <1>10, <1>11, Zenon DEF InTurn, BoundOwn, Drained
<1>13. EndsInPlace'
  BY <1>11, Zenon DEF InTurn, EndsInPlace
<1>14. Complete' \/ CutOff'
  <2>1. CASE Complete
    <3>1. \A id : Coming(id) => Coming(id)' \/ id = Frame.id
      BY <1>3, Zenon DEF Coming
    <3> QED
      BY <1>1, <1>7, <2>1, <3>1, Zenon DEF Complete
  <2>2. CASE CutOff
    BY <1>1, <1>2, <1>11, <2>2, Zenon DEF CutOff
  <2> QED
    BY <2>1, <2>2, Zenon DEF InTurn
<1> QED
  BY <1>9, <1>11, <1>12, <1>13, <1>14, Zenon DEF InTurn

(* A frame that ends the turn is the last about it: it came after the turn  *)
(* was bound, so it is no early one.                                        *)
LEMMA LastFrame ==
  ASSUME OwnInv, InTurn, ReadEnd
  PROVE  Late(Frame) /\ Frame.turn \in {turn, NoID} /\ IsFinal(Frame)
<1>0. FlowInv /\ FrameInv
  BY Zenon DEF OwnInv
<1>1. pc = "read" /\ HasFrame /\ Consume /\ ~Ignored(Frame) /\ EndsTurn(Frame)
  BY Zenon DEF ReadEnd, Taken
<1>2. pc # "start" /\ pc # "idle"
  BY <1>1
<1>3. Frame \in Transit /\ Proper(Frame, turn)
  BY <1>0, <1>1, TakenTransit, Zenon DEF FrameInv
<1>4. turn \in Gens /\ turn # NoID
  <2>1. turn \in Gens
    BY <1>0, <1>2, Zenon DEF FlowInv
  <2> QED
    BY <2>1 DEF Gens, NoID
<1>5. it.queryStarted /\ it.expected = turn /\ Bound = turn
  <2>1. it.queryStarted
    BY <1>1, Zenon DEF EndsTurn, IsTurnTerminalAllowed
  <2> QED
    BY <1>2, <2>1, Zenon DEF InTurn, BoundOwn, Bound
<1>6. Frame.turn \in {turn, NoID}
  BY <1>1, <1>4, <1>5, Zenon DEF EndsTurn, IsIdleTerminalAllowed, IsTurnTerminalAllowed, TurnIDsMatch
<1>7. Frame.loop = Loop
  <2>1. Frame.loop \in {NoLoop, Loop}
    BY <1>1, Zenon DEF Ignored, Mismatch
  <2>2. Frame.type = "status" \/ Frame.type = "event"
    BY <1>1, Zenon DEF EndsTurn
  <2>3. Frame.type \notin {"command_response", "error", "ping", "disconnect"}
    BY <2>2
  <2> QED
    BY <1>3, <2>1, <2>3, DaemonTurnAssumption, Zenon DEF Proper, About
<1>8. IsFinal(Frame)
  <2>1. CASE Frame.type = "status" /\ (Frame.data = "stopped" \/ Frame.data = "idle")
    <3>1. ~IsRunning(Frame)
      BY <2>1 DEF IsRunning
    <3> QED
      BY <1>7, <2>1, <3>1, Zenon DEF IsFinal
  <2>2. CASE Frame.type = "event" /\ Frame.mode = "custom" /\ IsTurnEndCustomData(Frame.data)
    BY <1>7, <2>2, Zenon DEF IsFinal, IsTurnEnd
  <2> QED
    BY <1>1, <2>1, <2>2, Zenon DEF EndsTurn
<1>9. ~Early(Frame)
  BY <1>4, <1>5, Zenon DEF Early
<1> QED
  BY <1>3, <1>6, <1>8, <1>9, Zenon DEF InTurn, EndsInPlace, LastFrames

(* The turn has ended: all its chunks have been read. *)
LEMMA EndReadStep ==
  ASSUME OwnInv, InTurn, ReadEnd
  PROVE  InTurn'
<1>0. FlowInv /\ FrameInv /\ EndInv /\ DOMAIN it = DOMAIN NewIter
  BY Zenon DEF OwnInv, ResultInv
<1>1. /\ pc = "read" /\ HasFrame /\ Consume /\ pc' = "drain" /\ sock' = sock
      /\ UNCHANGED <<turn, inbox, query, phase, log, closed>>
      /\ out' = out \/ (IsTurnEnd(Frame) /\ Yield(Frame))
      /\ result' = [result EXCEPT ![turn].by = Frame.turn]
  BY Zenon DEF ReadEnd, Taken, Consume, Goto, daemonVars
<1>2. pc # "start" /\ pc # "drain" /\ pc # "idle" /\ pc' # "start"
  BY <1>1
<1>3. /\ Frame \in Transit /\ Transit' \subseteq Transit
      /\ Transit \subseteq Transit' \cup {Frame}
      /\ \A f \in Transit' : Frame.id < f.id
  BY <1>0, <1>1, TakenTransit, Zenon
<1>4. Late(Frame) /\ Frame.turn \in {turn, NoID} /\ IsFinal(Frame)
  BY LastFrame, Zenon
<1>5. ASSUME NEW f \in Transit' PROVE ~AtWork(f)
  <2>1. ~(f.id < Frame.id)
    BY <1>0, <1>3, OneFirst, Zenon
  <2> QED
    BY <1>3, <1>4, <2>1, Zenon DEF Late
<1>6. ~IsChunk(Frame)
  BY <1>4 DEF IsFinal, IsChunk
<1>7. turn \in Gens /\ DOMAIN out = Gens /\ IsSequence(out[turn])
  BY <1>0, <1>2, Zenon DEF FlowInv, Flow, Numbered
<1>8. ChunkIds(out'[turn]) = ChunkIds(out[turn])
  <2>1. CASE out' = out
    BY <2>1, Zenon
  <2>2. CASE IsTurnEnd(Frame) /\ Yield(Frame)
    <3>1. out'[turn] = Append(out[turn], Frame)
      BY <1>7, <2>2, Zenon DEF Yield
    <3>2. ChunkIds(Append(out[turn], Frame)) = ChunkIds(out[turn])
      BY <1>7, <2>2, MoreIds, Zenon
    <3> QED
      BY <3>1, <3>2, Zenon
  <2> QED
    BY <1>1, <2>1, <2>2, Zenon
<1>9. Bound' = Bound /\ it'.expected = it.expected /\ it'.queryStarted = it.queryStarted
  <2>1. "expected" \in DOMAIN it /\ "queryStarted" \in DOMAIN it
    BY <1>0 DEF NewIter
  <2>2. PICK s : it' = [it EXCEPT !.endState = s]
    BY Zenon DEF ReadEnd
  <2>3. it'.expected = it.expected /\ it'.queryStarted = it.queryStarted
    BY <2>1, <2>2, Zenon
  <2> QED
    BY <1>2, <2>3, Zenon DEF Bound
<1>10. OwnEnd(turn)'
  <2>1. result'[turn] = [result[turn] EXCEPT !.by = Frame.turn]
    BY <1>0, <1>1, <1>7, Zenon DEF EndInv
  <2>2. "by" \in DOMAIN result[turn]
    BY <1>0, <1>7 DEF EndInv
  <2>3. result'[turn].by = Frame.turn
    BY <2>1, <2>2, Zenon
  <2> QED
    BY <1>1, <1>4, <2>3, Zenon DEF OwnEnd, Late
<1>11. Drained'
  BY <1>1, <1>4, <1>5, <1>10, Zenon DEF Drained, Late, Past
<1>12. /\ InHand' /\ OwnWork' /\ LastFrames' \subseteq LastFrames
       /\ (\A f : Late(f) => Late(f)') /\ (\A f : Early(f) => Early(f)')
       /\ Begun' = Begun /\ ((\E f \in Transit' : IsRunning(f)) => Begun)
  BY <1>1, <1>3, <1>9, Shrinks, Zenon
<1>13. BoundOwn'
  BY <1>1, <1>2, <1>9, <1>12, Zenon DEF InTurn, BoundOwn
<1>14. EndsInPlace'
  BY <1>12, Zenon DEF InTurn, EndsInPlace
<1>15. Complete'
  <2>1. ~CutOff
    <3>1. Bound = turn /\ turn # NoID
      <4>1. it.queryStarted
        BY Zenon DEF ReadEnd, EndsTurn, IsTurnTerminalAllowed
      <4>2. turn # NoID
        BY <1>7 DEF Gens, NoID
      <4> QED
        BY <1>2, <4>1, <4>2, Zenon DEF InTurn, BoundOwn, Bound
    <3>2. ~Early(Frame)
      BY <3>1, Zenon DEF Early
    <3> QED
      BY <1>3, <1>4, <3>2, Zenon DEF CutOff, LastFrames
  <2>2. Complete
    BY <2>1, Zenon DEF InTurn
  <2>3. \A id : Coming(id) => Coming(id)'
    BY <1>3, <1>6, Zenon DEF Coming
  <2> QED
    BY <1>1, <1>8, <2>2, <2>3, Zenon DEF Complete
<1> QED
  BY <1>1, <1>8, <1>11, <1>12, <1>13, <1>14, <1>15, Zenon DEF InTurn

(* What the drain reads is no chunk of the turn. *)
LEMMA DrainStep ==
  ASSUME OwnInv, InTurn, DrainFrame, pc' # "idle"
  PROVE  InTurn'
<1>0. FlowInv /\ FrameInv
  BY Zenon DEF OwnInv
<1>1. /\ pc = "drain" /\ HasFrame /\ Consume /\ pc' = pc /\ sock' = sock /\ it' = it
      /\ result' = result /\ UNCHANGED <<turn, inbox, query, phase, log, closed>>
  BY Zenon DEF DrainFrame, Consume, Return, Goto, daemonVars
<1>2. Transit' \subseteq Transit /\ ChunkIds(out'[turn]) = ChunkIds(out[turn])
  BY <1>0, <1>1, TakenTransit, DrainIds, Zenon
<1>3. Bound' = Bound
  BY <1>1, Zenon DEF Bound
<1>4. /\ InHand' /\ OwnWork' /\ LastFrames' \subseteq LastFrames
      /\ (\A f : Late(f) => Late(f)') /\ (\A f : Early(f) => Early(f)')
      /\ Begun' = Begun /\ ((\E f \in Transit' : IsRunning(f)) => Begun)
  BY <1>1, <1>2, <1>3, Shrinks, Zenon
<1>5. BoundOwn'
  BY <1>1, <1>3, <1>4, Zenon DEF InTurn, BoundOwn
<1>6. EndsInPlace'
  BY <1>4, Zenon DEF InTurn, EndsInPlace
<1>7. Drained'
  BY <1>1, <1>2, Zenon DEF InTurn, Drained, Past, OwnEnd
<1>8. Complete'
  <2>1. Complete
    BY <1>1, Zenon DEF InTurn, CutOff
  <2>2. \A id : ~Coming(id)
    BY <1>1, Zenon DEF InTurn, Drained, Coming, AtWork
  <2> QED
    BY <1>1, <1>2, <2>1, <2>2, Zenon DEF Complete
<1> QED
  BY <1>1, <1>2, <1>4, <1>5, <1>6, <1>7, <1>8, Zenon DEF InTurn

(* What is final is no work. *)
LEMMA FinalNoWork ==
  ASSUME NEW f, IsFinal(f)
  PROVE  ~AtWork(f)
BY DEF IsFinal, AtWork, IsRunning, IsChunk, IsTurnEnd

(* A frame the daemon adds: work is about the turn while it runs and follows *)
(* all other frames, and what could end the turn is in its place.            *)
Fits(f) ==
  /\ AtWork(f) =>
       /\ f.turn = turn /\ ~Past(turn)
       /\ \A r \in Transit : r.id < f.id
       /\ (IsRunning(f) => Begun') /\ (IsChunk(f) => Logged(f)')
  /\ IsFinal(f) /\ f.turn \in {turn, NoID} => Early(f)' \/ Late(f)'

(* Work that fits *)
LEMMA FitsWork ==
  ASSUME NEW f, Fits(f), AtWork(f)
  PROVE  /\ f.turn = turn /\ ~Past(turn) /\ \A r \in Transit : r.id < f.id
         /\ (IsRunning(f) => Begun') /\ (IsChunk(f) => Logged(f)')
BY Zenon DEF Fits

(* A step of the daemon whose frames fit *)
LEMMA DaemonKeeps ==
  ASSUME InTurn, UNCHANGED <<turn, pc, it, out, result, sock>>,
         Transit \subseteq Transit', sock # "open" => Transit' = Transit,
         \A f \in Transit' : f \in Transit \/ Fits(f),
         closed \subseteq closed', Past(turn) => Past(turn)', Begun => Begun', InHand',
         PassedIds(log[turn]) \subseteq PassedIds(log'[turn]),
         \A f : Logged(f) => Logged(f)',
         \A id \in PassedIds(log'[turn]) :
           id \in PassedIds(log[turn]) \/ Coming(id)' \/ (sock # "open" /\ ~Past(turn))
  PROVE  InTurn'
<1>1. OwnWork'
  <2>1. ASSUME NEW f \in Transit', AtWork(f)
        PROVE  f.turn = turn /\ (IsChunk(f) => Logged(f)')
    <3>1. CASE f \in Transit
      BY <2>1, <3>1, Zenon DEF InTurn, OwnWork
    <3>2. CASE Fits(f)
      BY <2>1, <3>2, FitsWork, Zenon
    <3> QED
      BY <3>1, <3>2, Zenon
  <2> QED
    BY <2>1, Zenon DEF OwnWork
<1>2. Bound' = Bound
  BY Zenon DEF Bound
<1>3. BoundOwn'
  <2>1. ASSUME NEW f \in Transit', IsRunning(f) PROVE Begun'
    <3>1. CASE f \in Transit
      BY <2>1, <3>1, Zenon DEF InTurn, BoundOwn
    <3>2. CASE Fits(f)
      <4>1. AtWork(f)
        BY <2>1, Zenon DEF AtWork
      <4> QED
        BY <2>1, <3>2, <4>1, FitsWork, Zenon
    <3> QED
      BY <3>1, <3>2, Zenon
  <2> QED
    BY <1>2, <2>1, Zenon DEF InTurn, BoundOwn
<1>4. ASSUME NEW f \in Transit, Early(f) PROVE Early(f)'
  <2>1. ASSUME NEW r \in Transit', IsRunning(r) PROVE f.id < r.id
    <3>1. CASE r \in Transit
      BY <1>4, <2>1, <3>1, Zenon DEF Early
    <3>2. CASE Fits(r)
      BY <1>4, <2>1, <3>2, Zenon DEF Fits, AtWork
    <3> QED
      BY <3>1, <3>2, Zenon
  <2> QED
    BY <1>2, <1>4, <2>1, Zenon DEF Early
<1>5. ASSUME NEW f \in Transit, Late(f) PROVE Late(f)'
  <2>1. ASSUME NEW r \in Transit', AtWork(r) PROVE r.id < f.id
    <3>1. r \in Transit
      BY <1>5, <2>1, Zenon DEF Fits, Late
    <3> QED
      BY <1>5, <2>1, <3>1, Zenon DEF Late
  <2> QED
    BY <1>5, <2>1, Zenon DEF Late
<1>6. EndsInPlace'
  <2> SUFFICES ASSUME NEW f \in Transit', IsFinal(f), f.turn \in {turn, NoID}
               PROVE  Early(f)' \/ Late(f)'
    BY Zenon DEF EndsInPlace, LastFrames
  <2>1. CASE f \in Transit
    <3>1. Early(f) \/ Late(f)
      BY <2>1, Zenon DEF InTurn, EndsInPlace, LastFrames
    <3> QED
      BY <1>4, <1>5, <2>1, <3>1, Zenon
  <2>2. CASE Fits(f)
    BY <2>2, Zenon DEF Fits
  <2> QED
    BY <2>1, <2>2, Zenon
<1>7. Drained'
  <2> SUFFICES ASSUME pc = "drain"
               PROVE  Past(turn)' /\ OwnEnd(turn)' /\ \A f \in Transit' : ~AtWork(f)
    BY Zenon DEF Drained
  <2>1. Past(turn) /\ OwnEnd(turn) /\ \A f \in Transit : ~AtWork(f)
    BY Zenon DEF InTurn, Drained
  <2>2. \A f \in Transit' : ~AtWork(f)
    BY <2>1, Zenon DEF Fits
  <2> QED
    BY <2>1, <2>2, Zenon DEF OwnEnd
<1>8. ASSUME sock # "open", pc # "drain", \A f \in LastFrames : Early(f) PROVE CutOff'
  <2>1. LastFrames' = LastFrames /\ LastFrames \subseteq Transit
    BY <1>8, Zenon DEF LastFrames
  <2> QED
    BY <1>4, <1>8, <2>1, Zenon DEF CutOff
<1>9. Complete' \/ CutOff'
  <2>1. CASE CutOff
    BY <1>8, <2>1, Zenon DEF CutOff
  <2>2. CASE sock # "open" /\ ~Past(turn)
    <3>1. pc # "drain" /\ \A f \in LastFrames : Early(f)
      BY <2>2, Zenon DEF InTurn, Drained, EndsInPlace, Late
    <3> QED
      BY <1>8, <2>2, <3>1, Zenon
  <2>3. CASE Complete /\ ~(sock # "open" /\ ~Past(turn))
    <3>1. \A id : Coming(id) => Coming(id)'
      BY Zenon DEF Coming
    <3> QED
      BY <2>3, <3>1, Zenon DEF Complete
  <2> QED
    BY <2>1, <2>2, <2>3, Zenon DEF InTurn
<1>10. ChunkIds(out'[turn']) \subseteq PassedIds(log'[turn'])
  BY Zenon DEF InTurn
<1> QED
  BY <1>1, <1>3, <1>6, <1>7, <1>9, <1>10, Zenon DEF InTurn

(* In a turn the daemon runs, if any, this one. *)
LEMMA OwnHand ==
  ASSUME OwnInv, InTurn, pc # "idle"
  PROVE  /\ turn \in Gens /\ turn # NoID
         /\ phase \in {"admitted", "running"} => query = turn /\ ~Past(turn)
<1>1. turn \in Gens
  BY Zenon DEF OwnInv, FlowInv
<1>2. turn # NoID
  BY <1>1 DEF Gens, NoID
<1>3. ASSUME phase \in {"admitted", "running"} PROVE query = turn /\ ~Past(turn)
  <2>1. phase # "none" /\ phase # "closing"
    BY <1>3
  <2> QED
    BY <2>1, Zenon DEF InTurn, InHand, OwnInv, DaemonInv, Past
<1> QED
  BY <1>1, <1>2, <1>3, Zenon

(* The daemon sends a frame that is no chunk. *)
LEMMA SaysStep ==
  ASSUME InTurn, FlowInv, UNCHANGED <<turn, pc, it, out, result, log>>,
         NEW f, Emit(f), f.id = sent + 1,
         closed \subseteq closed', Past(turn) => Past(turn)', Begun => Begun', InHand',
         ~IsChunk(f), IsRunning(f) => f.turn = turn /\ ~Past(turn) /\ Begun',
         IsFinal(f) /\ f.turn \in {turn, NoID} =>
           Past(turn)' /\ (f.turn = NoID => turn \in closed')
  PROVE  InTurn'
<1>1. /\ Transit \subseteq Transit' /\ Transit' \subseteq Transit \cup {f}
      /\ (sock # "open" => Transit' = Transit)
      /\ \A r \in Transit : r.id < f.id
  BY EmitTransit, Zenon
<1>2. sock' = sock
  BY Zenon DEF Emit
<1>3. ASSUME IsFinal(f), f.turn \in {turn, NoID} PROVE Late(f)'
  <2>1. \A r \in Transit' : AtWork(r) => r.id < f.id
    BY <1>1, <1>3, FinalNoWork, Zenon
  <2> QED
    BY <1>3, <2>1, Zenon DEF Late
<1>4. Fits(f)
  BY <1>1, <1>3, Zenon DEF Fits, AtWork
<1>5. \A r : Logged(r) => Logged(r)'
  BY Zenon DEF Logged
<1> QED
  BY <1>1, <1>2, <1>4, <1>5, DaemonKeeps, Zenon

(* running, the end of the stream, and idle *)
LEMMA StatusStep ==
  ASSUME OwnInv, InTurn, pc # "idle", DaemonRuns \/ DaemonEnds \/ DaemonIdles
  PROVE  InTurn'
<1>0. FlowInv /\ DaemonInv
  BY Zenon DEF OwnInv
<1>1. /\ turn \in Gens /\ turn # NoID
      /\ phase \in {"admitted", "running"} => query = turn /\ ~Past(turn)
  BY OwnHand, Zenon
<1>2. UNCHANGED <<turn, pc, it, out, result, log, inbox>>
  BY Zenon DEF DaemonRuns, DaemonEnds, DaemonIdles, iterVars
<1>3. CASE DaemonRuns
  <2>1. /\ phase = "admitted" /\ phase' = "running" /\ query' = query /\ closed' = closed
        /\ Emit(Status("running", query))
    BY <1>3, Zenon DEF DaemonRuns
  <2>2. query = turn /\ ~Past(turn)
    BY <1>1, <2>1, Zenon
  <2>3. PICK t, m, d : t = "status" /\ d = "running" /\ Emit(Sent(t, m, d, Loop, query, FALSE))
    BY <2>1, Zenon DEF Status
  <2>4. PICK f : Emit(f) /\ SentAs(f, t, m, d, Loop, query, sent + 1)
    BY <2>3, SentFrame, Zenon
  <2>5. f.id = sent + 1 /\ f.type = t /\ f.data = d /\ f.turn = query
    BY <2>4, SentFacts, Zenon
  <2>6. ~IsChunk(f) /\ ~IsFinal(f)
    BY <2>3, <2>5 DEF IsChunk, IsFinal, IsTurnEnd, IsRunning
  <2>7. Begun' /\ InHand'
    BY <1>2, <2>1, <2>2, Zenon DEF Begun, InHand, InTurn
  <2> QED
    BY <1>0, <1>2, <2>1, <2>2, <2>4, <2>5, <2>6, <2>7, SaysStep, ZenonT(30)
<1>4. CASE DaemonEnds
  <2>1. /\ phase = "running" /\ phase' = "closing" /\ query' = query /\ closed' = closed
        /\ \E d \in {"stream.end", "loop.completed"} :
             Emit(Sent("event", "custom", d, Loop, query, FALSE))
    BY <1>4, Zenon DEF DaemonEnds
  <2>2. query = turn /\ ~Past(turn)
    BY <1>1, <2>1, Zenon
  <2>3. PICK t, m, d : t = "event" /\ m = "custom" /\ IsTurnEndCustomData(d)
                       /\ Emit(Sent(t, m, d, Loop, query, FALSE))
    BY <2>1, Zenon DEF IsTurnEndCustomData
  <2>4. PICK f : Emit(f) /\ SentAs(f, t, m, d, Loop, query, sent + 1)
    BY <2>3, SentFrame, Zenon
  <2>5. f.id = sent + 1 /\ f.type = t /\ f.mode = m /\ f.data = d /\ f.turn = query
    BY <2>4, SentFacts, Zenon
  <2>6. ~IsChunk(f) /\ ~IsRunning(f)
    BY <2>3, <2>5 DEF IsChunk, IsTurnEnd, IsRunning
  <2>7. Begun' /\ InHand' /\ Past(turn)'
    BY <1>2, <2>1, <2>2, Zenon DEF Begun, InHand, InTurn, Past
  <2> QED
    BY <1>0, <1>1, <1>2, <2>1, <2>2, <2>4, <2>5, <2>6, <2>7, SaysStep, ZenonT(30)
<1>5. CASE DaemonIdles
  <2>1. /\ phase = "closing" /\ query' = NoID /\ closed' = closed \cup {query}
        /\ Emit(Status("idle", query))
    BY <1>5, Zenon DEF DaemonIdles
  <2>2. query # NoID
    BY <1>0, <2>1 DEF DaemonInv
  <2>3. PICK t, m, d : t = "status" /\ d = "idle" /\ Emit(Sent(t, m, d, Loop, query, FALSE))
    BY <2>1, Zenon DEF Status
  <2>4. PICK f : Emit(f) /\ SentAs(f, t, m, d, Loop, query, sent + 1)
    BY <2>3, SentFrame, Zenon
  <2>5. f.id = sent + 1 /\ f.type = t /\ f.data = d /\ f.turn = query
    BY <2>4, SentFacts, Zenon
  <2>6. ~IsChunk(f) /\ ~IsRunning(f)
    BY <2>3, <2>5 DEF IsChunk, IsRunning
  <2>7. InHand' /\ (Begun => Begun') /\ (Past(turn) => Past(turn)')
    BY <1>2, <2>1, Zenon DEF Begun, InHand, InTurn, Past
  <2>8. f.turn \in {turn, NoID} => Past(turn)' /\ (f.turn = NoID => turn \in closed')
    BY <1>2, <2>1, <2>2, <2>5, Zenon DEF Past
  <2> QED
    BY <1>0, <1>2, <2>1, <2>4, <2>5, <2>6, <2>7, <2>8, SaysStep, Zenon
<1> QED
  BY <1>3, <1>4, <1>5, Zenon

(* Frames of another loop, errors and control frames *)
LEMMA NoiseStep ==
  ASSUME OwnInv, KnownControls, InTurn, DaemonNoise
  PROVE  InTurn'
<1>0. FlowInv
  BY Zenon DEF OwnInv
<1>1. UNCHANGED <<turn, pc, it, out, result, log, inbox, query, phase, closed>>
  BY Zenon DEF DaemonNoise, iterVars
<1>2. InHand' /\ (Begun => Begun') /\ (Past(turn) => Past(turn)')
  BY <1>1, Zenon DEF Begun, InHand, InTurn, Past
<1>3. \/ Emit(Sent("status", "", "idle", Foreign, NoID, FALSE))
      \/ Emit(Sent("event", "messages", "text", Foreign, NoID, FALSE))
      \/ Emit(Sent("error", "", "", NoLoop, NoID, FALSE))
      \/ \E c \in Controls : Emit(Sent(c, "", "", NoLoop, NoID, FALSE))
  BY Zenon DEF DaemonNoise
<1>4. ASSUME NEW t, NEW m, NEW d, NEW l, Emit(Sent(t, m, d, l, NoID, FALSE)),
             \/ l = Foreign /\ d # "running"
             \/ l = NoLoop /\ t # "status"
      PROVE  InTurn'
  <2>1. PICK f : Emit(f) /\ SentAs(f, t, m, d, l, NoID, sent + 1)
    BY <1>4, SentFrame, Zenon
  <2>2. f.id = sent + 1 /\ f.type = t /\ f.data = d /\ f.loop = l
    BY <2>1, SentFacts, Zenon
  <2>3. ~IsChunk(f) /\ ~IsRunning(f) /\ ~IsFinal(f)
    BY <1>4, <2>2, DaemonTurnAssumption, Zenon DEF IsRunning, IsChunk, IsFinal
  <2> QED
    BY <1>0, <1>1, <1>2, <2>1, <2>2, <2>3, SaysStep, Zenon
<1>5. /\ "idle" # "running" /\ "text" # "running" /\ "error" # "status"
      /\ \A c \in Controls : c # "status"
  BY DEF KnownControls
<1> QED
  BY <1>3, <1>4, <1>5, Zenon

(* What Append adds, and where *)
LEMMA AppendAll ==
  ASSUME NEW s, IsSequence(s), NEW e
  PROVE  /\ Len(Append(s, e)) = Len(s) + 1 /\ Len(s) \in Nat
         /\ Append(s, e)[Len(s) + 1] = e
         /\ \A i \in 1 .. Len(s) : Append(s, e)[i] = s[i]
         /\ \A i \in 1 .. Len(Append(s, e)) :
              Append(s, e)[i] = e \/ \E j \in 1 .. Len(s) : Append(s, e)[i] = s[j]
<1>1. PICK S : s \in Seq(S)
  BY Zenon DEF IsSequence
<1>2. s \in Seq(S \cup {e}) /\ e \in S \cup {e}
  BY <1>1
<1>3. /\ Append(s, e) \in Seq(S \cup {e}) /\ Len(s) \in Nat
      /\ Len(Append(s, e)) = Len(s) + 1
      /\ Append(s, e)[Len(s) + 1] = e
      /\ \A i \in 1 .. Len(s) : Append(s, e)[i] = s[i]
      /\ \A i \in 1 .. Len(s) + 1 : i \in 1 .. Len(s) \/ i = Len(s) + 1
  BY <1>2, AppendFacts, Zenon
<1> QED
  BY <1>3, Zenon

(* A chunk of the turn is logged; it comes, or the socket is gone and so is *)
(* the end of the turn.                                                     *)
LEMMA SendsChunk ==
  ASSUME OwnInv, PlainKinds, InTurn, pc # "idle", chunks < MaxChunks,
         NEW k \in ChunkKinds[chunks + 1], DaemonChunk(k)
  PROVE  InTurn'
<1>0. FlowInv /\ DaemonInv
  BY Zenon DEF OwnInv
<1> DEFINE e == [id |-> sent', mode |-> k.mode, data |-> k.data]
<1>1. /\ phase = "running" /\ log' = [log EXCEPT ![query] = Append(@, e)] /\ sent' = sent + 1
      /\ Emit(Sent("event", k.mode, k.data, Loop, query, k.wrapped)) /\ sock' = sock
      /\ UNCHANGED <<turn, pc, it, out, result, inbox, query, phase, closed>>
  BY Zenon DEF DaemonChunk, iterVars, Emit
<1>2. /\ turn \in Gens /\ turn # NoID /\ query = turn /\ ~Past(turn)
  BY <1>1, OwnHand, Zenon
<1>3. e.id = sent + 1 /\ e.mode = k.mode /\ e.data = k.data
  BY <1>1
<1> HIDE DEF e
<1>4. k.wrapped = FALSE /\ ~(k.mode = "custom" /\ IsTurnEndCustomData(k.data))
  <2>1. chunks + 1 \in 1 .. MaxChunks
    BY <1>0, DaemonTurnAssumption DEF DaemonInv
  <2> QED
    BY <2>1, Zenon DEF PlainKinds
<1>5. PICK t : t = "event" /\ Emit(Sent(t, k.mode, k.data, Loop, query, FALSE))
  BY <1>1, <1>4, Zenon
<1>6. PICK f : Emit(f) /\ SentAs(f, t, k.mode, k.data, Loop, query, sent + 1)
  BY <1>5, SentFrame, Zenon
<1>7. /\ f.id = sent + 1 /\ f.type = t /\ f.mode = k.mode /\ f.data = k.data
      /\ f.loop = Loop /\ f.turn = query
  BY <1>6, SentFacts, ZenonT(30)
<1>8. IsChunk(f) /\ ~IsRunning(f) /\ ~IsFinal(f)
  BY <1>4, <1>5, <1>7 DEF IsChunk, IsRunning, IsFinal, IsTurnEnd
<1>9. /\ Transit \subseteq Transit' /\ Transit' \subseteq Transit \cup {f}
      /\ (sock = "open" => f \in Transit') /\ (sock # "open" => Transit' = Transit)
      /\ \A r \in Transit : r.id < f.id
  BY <1>0, <1>6, <1>7, EmitTransit, Zenon
<1>10. log'[turn] = Append(log[turn], e) /\ IsSequence(log[turn])
  BY <1>0, <1>1, <1>2, Zenon DEF DaemonInv
<1>11. IsSequence(log[turn])
  BY <1>10, Zenon
<1>12. /\ Len(log'[turn]) = Len(log[turn]) + 1 /\ Len(log[turn]) \in Nat
       /\ log'[turn][Len(log[turn]) + 1] = e
       /\ \A i \in 1 .. Len(log[turn]) : log'[turn][i] = log[turn][i]
  <2>1. /\ Len(Append(log[turn], e)) = Len(log[turn]) + 1 /\ Len(log[turn]) \in Nat
        /\ Append(log[turn], e)[Len(log[turn]) + 1] = e
        /\ \A i \in 1 .. Len(log[turn]) : Append(log[turn], e)[i] = log[turn][i]
        /\ \A i \in 1 .. Len(Append(log[turn], e)) :
             \/ Append(log[turn], e)[i] = e
             \/ \E j \in 1 .. Len(log[turn]) : Append(log[turn], e)[i] = log[turn][j]
    BY <1>11, AppendAll, ZenonT(30)
  <2> QED
    BY <1>10, <2>1, Zenon
<1>13. /\ Len(log[turn]) + 1 \in 1 .. Len(log'[turn])
       /\ \A i \in 1 .. Len(log[turn]) : i \in 1 .. Len(log'[turn])
  BY <1>12
<1>14. \A r : Logged(r) => Logged(r)'
  BY <1>1, <1>12, <1>13, Zenon DEF Logged
<1>15. Logged(f)'
  <2>1. PICK n \in 1 .. Len(log'[turn']) : log'[turn'][n] = e
    BY <1>1, <1>12, <1>13, Zenon
  <2>2. e.id = f.id /\ e.mode = f.mode /\ e.data = f.data
    BY <1>3, <1>7, Zenon
  <2> QED
    BY <2>1, <2>2, Zenon DEF Logged
<1>16. /\ PassedIds(log[turn]) \subseteq PassedIds(log'[turn])
       /\ PassedIds(log'[turn]) \subseteq PassedIds(log[turn]) \cup {e.id}
       /\ ShouldDropStreamChunkEarly(e) => PassedIds(log'[turn]) = PassedIds(log[turn])
  <2>1. /\ PassedIds(log[turn]) \subseteq PassedIds(Append(log[turn], e))
        /\ PassedIds(Append(log[turn], e)) \subseteq PassedIds(log[turn]) \cup {e.id}
        /\ ShouldDropStreamChunkEarly(e) => PassedIds(Append(log[turn], e)) = PassedIds(log[turn])
    BY <1>10, MoreIds, Zenon
  <2> QED
    BY <1>10, <2>1, Zenon
<1>17. ASSUME NEW id \in PassedIds(log'[turn]), id \notin PassedIds(log[turn])
       PROVE  Coming(id)' \/ (sock # "open" /\ ~Past(turn))
  <2>1. id = f.id /\ ~ShouldDropStreamChunkEarly(e)
    BY <1>3, <1>7, <1>16, <1>17, Zenon
  <2>2. ~ShouldDropStreamChunkEarly(f)
    BY <1>3, <1>7, <2>1, Zenon DEF ShouldDropStreamChunkEarly
  <2> QED
    BY <1>2, <1>8, <1>9, <2>1, <2>2, Zenon DEF Coming
<1>18. Fits(f)
  BY <1>2, <1>7, <1>8, <1>9, <1>15, Zenon DEF Fits
<1>19. InHand' /\ (Begun => Begun') /\ (Past(turn) => Past(turn)')
  BY <1>1, Zenon DEF Begun, InHand, InTurn, Past
<1> QED
  BY <1>1, <1>9, <1>14, <1>16, <1>17, <1>18, <1>19, DaemonKeeps, Zenon

(* A cancel is answered: with the end of the turn in hand, or, before the   *)
(* turn runs, with an idle that nothing waits for.                          *)
LEMMA CancelStep ==
  ASSUME OwnInv, InTurn, pc # "idle", DaemonCancels
  PROVE  InTurn'
<1>0. FlowInv /\ DaemonInv /\ turn \in Gens /\ turn # NoID
  BY OwnHand, Zenon DEF OwnInv
<1>1. /\ inbox # <<>> /\ inbox' = Tail(inbox) /\ query' = NoID /\ phase' = "none"
      /\ closed' = closed \cup ({query} \ {NoID})
      /\ UNCHANGED <<turn, pc, it, out, result, log, sock>>
  BY Zenon DEF DaemonCancels, iterVars
<1>2. PICK a, b :
        /\ Transit \subseteq Transit' /\ Transit' \subseteq Transit \cup {a, b}
        /\ sock # "open" => Transit' = Transit
        /\ IsSent(a) /\ a.loop = NoLoop /\ a.type = "command_response"
        /\ IsSent(b) /\ b.loop = Loop /\ b.type = "status" /\ b.data # "running"
        /\ b.turn \in {NoID, query}
        /\ \A r \in Transit : r.id < b.id
  BY <1>0, CancelTransit, Zenon
<1>3. ~AtWork(a) /\ ~IsFinal(a) /\ ~AtWork(b)
  BY <1>2, DaemonTurnAssumption DEF AtWork, IsRunning, IsChunk, IsFinal
<1>4. /\ closed \subseteq closed' /\ (Past(turn) => turn \in closed')
      /\ (query = turn => turn \in closed') /\ (Begun => turn \in closed')
  BY <1>0, <1>1, Zenon DEF Past, Begun
<1>5. (turn \in closed' => Past(turn)' /\ Begun') /\ Bound' = Bound
  BY <1>1, Zenon DEF Past, Begun, Bound
<1>6. InHand'
  <2>1. Queued(inbox, turn, closed, query)
    BY <1>0, Zenon DEF DaemonInv
  <2>2. \A i \in 1 .. Len(Tail(inbox)) : \E j \in 1 .. Len(inbox) : Tail(inbox)[i] = inbox[j]
    BY <1>1, <2>1, QueuedTail, Zenon
  <2> QED
    BY <1>1, <2>2, Zenon DEF InTurn, InHand
<1>7. ASSUME b.turn \in {turn, NoID} PROVE Early(b)' \/ Late(b)'
  <2>1. CASE turn \in closed'
    <3>1. \A r \in Transit' : AtWork(r) => r.id < b.id
      BY <1>2, <1>3, Zenon
    <3> QED
      BY <1>1, <1>5, <2>1, <3>1, Zenon DEF Late
  <2>2. CASE turn \notin closed'
    <3>1. Bound = NoID /\ \A r \in Transit : ~IsRunning(r)
      BY <1>4, <2>2, Zenon DEF InTurn, BoundOwn
    <3>2. b.turn = NoID
      BY <1>0, <1>2, <1>4, <1>7, <2>2, Zenon
    <3>3. \A r \in Transit' : ~IsRunning(r)
      BY <1>2, <1>3, <3>1, Zenon DEF AtWork
    <3> QED
      BY <1>5, <3>1, <3>2, <3>3, Zenon DEF Early
  <2> QED
    BY <2>1, <2>2, Zenon
<1>8. Fits(a) /\ Fits(b)
  BY <1>3, <1>7, Zenon DEF Fits
<1>9. \A r : Logged(r) => Logged(r)'
  BY <1>1, Zenon DEF Logged
<1>10. \A f \in Transit' : f \in Transit \/ Fits(f)
  BY <1>2, <1>8, Zenon
<1> QED
  BY <1>1, <1>2, <1>4, <1>5, <1>6, <1>9, <1>10, DaemonKeeps, Zenon

(* The daemon takes the turn in, or a cancel or the context changes nothing *)
(* of what is on its way.                                                   *)
LEMMA SilentStep ==
  ASSUME OwnInv, InTurn, pc # "idle",
         DaemonAdmits \/ CancelActiveTurn \/ CtxDone \/ UNCHANGED vars
  PROVE  InTurn'
<1>0. DaemonInv /\ turn \in Gens /\ turn # NoID
  BY OwnHand, Zenon DEF OwnInv
<1>1. /\ Transit' = Transit /\ UNCHANGED <<turn, pc, it, out, result, log, closed, sock>>
  BY Zenon DEF DaemonAdmits, CancelActiveTurn, CtxDone, vars, iterVars, sockVars,
     daemonVars, Transit
<1>2. Queued(inbox, turn, closed, query)
  BY <1>0, Zenon DEF DaemonInv
<1>3. InHand' /\ (Begun => Begun') /\ (Past(turn) => Past(turn)')
  <2>1. CASE DaemonAdmits
    <3>1. /\ inbox # <<>> /\ Head(inbox) # CancelTurn /\ query = NoID
          /\ query' = Head(inbox) /\ inbox' = Tail(inbox)
      BY <2>1, Zenon DEF DaemonAdmits
    <3>2. /\ \E i \in 1 .. Len(inbox) : Head(inbox) = inbox[i]
          /\ \A i \in 1 .. Len(Tail(inbox)) : \E j \in 1 .. Len(inbox) : Tail(inbox)[i] = inbox[j]
      BY <1>2, <3>1, QueuedTail, Zenon
    <3>3. query' = turn
      BY <3>1, <3>2, Zenon DEF InTurn, InHand
    <3> QED
      BY <1>0, <1>1, <3>1, <3>2, <3>3, Zenon DEF InTurn, InHand, Begun, Past
  <2>2. CASE CancelActiveTurn
    <3>1. inbox' = Append(inbox, CancelTurn) /\ UNCHANGED <<query, phase>>
      BY <2>2, Zenon DEF CancelActiveTurn
    <3>2. \A i \in 1 .. Len(Append(inbox, CancelTurn)) :
            \/ Append(inbox, CancelTurn)[i] = CancelTurn
            \/ \E j \in 1 .. Len(inbox) : Append(inbox, CancelTurn)[i] = inbox[j]
      <4>1. IsSequence(inbox)
        BY <1>2, Zenon DEF Queued
      <4> QED
        BY <4>1, AppendAll, ZenonT(30)
    <3> QED
      BY <1>1, <3>1, <3>2, Zenon DEF InTurn, InHand, Begun, Past
  <2>3. CASE CtxDone \/ UNCHANGED vars
    <3>1. UNCHANGED <<inbox, query, phase>>
      BY <2>3, Zenon DEF CtxDone, vars, daemonVars
    <3> QED
      BY <1>1, <3>1, Zenon DEF InTurn, InHand, Begun, Past
  <2> QED
    BY <2>1, <2>2, <2>3, Zenon
<1>4. \A r : Logged(r) => Logged(r)'
  BY <1>1, Zenon DEF Logged
<1>5. /\ Transit \subseteq Transit' /\ (sock # "open" => Transit' = Transit)
      /\ \A f \in Transit' : f \in Transit \/ Fits(f)
  BY <1>1, Zenon
<1>6. /\ closed \subseteq closed' /\ PassedIds(log[turn]) \subseteq PassedIds(log'[turn])
      /\ \A id \in PassedIds(log'[turn]) : id \in PassedIds(log[turn])
  BY <1>1, Zenon
<1> QED
  BY <1>1, <1>3, <1>4, <1>5, <1>6, DaemonKeeps, Zenon

(* The connection breaks.  An end of the turn that was put back by the peel *)
(* outlives it, and no chunk was behind it; otherwise the end is lost.      *)
LEMMA BreakStep ==
  ASSUME OwnInv, InTurn, Break
  PROVE  InTurn'
<1>0. FlowInv
  BY Zenon DEF OwnInv
<1>1. /\ sock = "open" /\ sock' = "closed" /\ (wire' = wire \/ wire' = <<>>)
      /\ pending' = pending
      /\ UNCHANGED <<turn, pc, it, out, result, log, inbox, query, phase, closed>>
  BY Zenon DEF Break, iterVars, daemonVars
<1>2. Transit' \subseteq Transit /\ (Transit' = Transit \/ Transit' = FramesIn(pending))
  <2>1. CASE wire' = wire
    BY <1>1, <2>1, Zenon DEF Transit
  <2>2. CASE wire' = <<>>
    BY <1>1, <2>2, NoneIn, Zenon DEF Transit
  <2> QED
    BY <1>1, <2>1, <2>2, Zenon
<1>3. Bound' = Bound
  BY <1>1, Zenon DEF Bound
<1>4. /\ InHand' /\ OwnWork' /\ LastFrames' \subseteq LastFrames
      /\ (\A f : Late(f) => Late(f)') /\ (\A f : Early(f) => Early(f)')
      /\ Begun' = Begun /\ ((\E f \in Transit' : IsRunning(f)) => Begun)
  BY <1>1, <1>2, <1>3, Shrinks, Zenon
<1>5. BoundOwn'
  BY <1>1, <1>3, <1>4, Zenon DEF InTurn, BoundOwn
<1>6. EndsInPlace'
  BY <1>4, Zenon DEF InTurn, EndsInPlace
<1>7. Drained'
  BY <1>1, <1>2, Zenon DEF InTurn, Drained, Past, OwnEnd
<1>8. Complete
  BY <1>1, Zenon DEF InTurn, CutOff
<1>9. CASE Transit' = Transit \/ \A r \in Transit : ~AtWork(r)
  <2>1. \A id : Coming(id) => Coming(id)'
    BY <1>9, Zenon DEF Coming, AtWork
  <2> QED
    BY <1>1, <1>4, <1>5, <1>6, <1>7, <1>8, <2>1, Zenon DEF InTurn, Complete
<1>10. CASE pc # "drain" /\ \A f \in LastFrames' : Early(f)'
  <2>1. sock' # "open"
    BY <1>1
  <2>2. CutOff'
    BY <1>1, <1>10, <2>1, Zenon DEF CutOff
  <2> QED
    BY <1>1, <1>4, <1>5, <1>6, <1>7, <2>2, Zenon DEF InTurn
<1>11. ASSUME NEW f \in FramesIn(pending), f \in LastFrames, ~Early(f)
       PROVE  \A r \in Transit : ~AtWork(r)
  <2>1. IsFinal(f) /\ f \in Transit /\ Late(f)
    BY <1>11, Zenon DEF InTurn, EndsInPlace, LastFrames
  <2>2. ~AtWork(f)
    BY <2>1, FinalNoWork, Zenon
  <2>3. ASSUME NEW r \in FramesIn(pending) PROVE r = f
    <3>1. PICK i \in 1 .. Len(pending) : f = pending[i]
      BY <1>11, Zenon DEF FramesIn
    <3>2. PICK j \in 1 .. Len(pending) : r = pending[j]
      BY <2>3, Zenon DEF FramesIn
    <3>3. Len(pending) \in Nat /\ Len(pending) <= 1
      BY <1>0, SeqDomain DEF FlowInv, Flow, Numbered
    <3>4. i = j
      BY <3>3
    <3> QED
      BY <3>1, <3>2, <3>4, Zenon
  <2>4. ASSUME NEW r \in FramesIn(wire) PROVE ~AtWork(r)
    <3>1. f.id < r.id
      BY <1>0, <1>11, <2>4, Zenon DEF FlowInv, Flow, Before, FramesIn
    <3>2. r \in Transit
      BY <2>4, Zenon DEF Transit
    <3>3. ~(r.id < f.id)
      BY <1>0, <2>1, <3>1, <3>2, OneFirst, Zenon
    <3> QED
      BY <2>1, <3>2, <3>3, Zenon DEF Late
  <2> QED
    BY <2>2, <2>3, <2>4, Zenon DEF Transit
<1>12. CASE pc = "drain"
  <2>1. \A r \in Transit : ~AtWork(r)
    BY <1>12, Zenon DEF InTurn, Drained
  <2> QED
    BY <1>9, <2>1, Zenon
<1>13. CASE Transit' = FramesIn(pending) /\ \E f \in LastFrames' : ~Early(f)'
  <2>1. PICK f \in LastFrames' : ~Early(f)'
    BY <1>13, Zenon
  <2>2. f \in FramesIn(pending) /\ f \in LastFrames /\ ~Early(f)
    BY <1>4, <1>13, <2>1, Zenon DEF LastFrames
  <2> QED
    BY <1>9, <1>11, <2>2, Zenon
<1> QED
  BY <1>2, <1>9, <1>10, <1>12, <1>13, Zenon

(* A turn starts in the calm. *)
LEMMA SendStep ==
  ASSUME OwnInv, SendTurn, turn' \notin haunted'
  PROVE  InTurn'
<1>0. FlowInv /\ FrameInv /\ DaemonInv
  BY Zenon DEF OwnInv
<1>1. /\ pc = "idle" /\ pc' = "start" /\ turn < MaxTurns /\ turn' = turn + 1
      /\ (inbox' = inbox \/ inbox' = Append(inbox, turn'))
      /\ UNCHANGED <<query, phase, log, closed, out, it, pending, wire>>
  BY Zenon DEF SendTurn, sockVars
<1>2. pc' # "drain"
  BY <1>1
<1>3. /\ turn' \in Gens /\ turn' # NoID /\ turn' > turn
      /\ turn' \notin 1 .. turn /\ \A g \in Gens : g <= turn => g \in 1 .. turn
  <2>1. turn \in 0 .. MaxTurns
    BY <1>0, Zenon DEF FlowInv
  <2> QED
    BY <1>1, <2>1, DaemonTurnAssumption DEF Gens, NoID
<1>4. Transit' = Transit
  BY <1>1, Zenon DEF Transit
<1>5. Calm
  <2>1. CASE \A h \in 1 .. turn : ~LeftEarly(h)
    <3>1. \A g \in Gens : g <= turn => ~LeftEarly(g)
      BY <1>3, <2>1, Zenon
    <3> QED
      BY <1>1, <3>1, Zenon DEF OwnInv, CalmInv
  <2>2. CASE query = NoID /\ inbox = <<>> /\ wire = <<>> /\ pending = <<>>
    <3>1. Transit = {}
      BY <2>2, NoneIn, Zenon DEF Transit
    <3>2. phase = "none"
      BY <1>0, <2>2, Zenon DEF DaemonInv
    <3>3. \A i \in 1 .. Len(inbox) : inbox[i] = CancelTurn
      <4>1. 1 .. Len(inbox) = {}
        BY <2>2
      <4> QED
        BY <4>1, Zenon
    <3> QED
      BY <3>1, <3>2, <3>3, Zenon DEF Calm
  <2> QED
    BY <2>1, <2>2, Zenon DEF SendTurn
<1>6. \A f \in Transit' : ~AtWork(f)
  BY <1>4, <1>5, Zenon DEF Calm
<1>7. InHand'
  <2>1. \A i \in 1 .. Len(inbox') : inbox'[i] \in {CancelTurn, turn'}
    <3>1. CASE inbox' = inbox
      BY <1>5, <3>1, Zenon DEF Calm
    <3>2. CASE inbox' = Append(inbox, turn')
      <4>1. IsSequence(inbox)
        BY <1>0, Zenon DEF DaemonInv, Queued
      <4>2. \A e : \A i \in 1 .. Len(Append(inbox, e)) :
              Append(inbox, e)[i] = e \/ \E j \in 1 .. Len(inbox) : Append(inbox, e)[i] = inbox[j]
        BY <4>1, AppendAll, ZenonT(30)
      <4> QED
        BY <1>5, <3>2, <4>2, Zenon DEF Calm
    <3> QED
      BY <1>1, <3>1, <3>2, Zenon
  <2>2. query' = NoID \/ phase' = "closing"
    BY <1>0, <1>1, <1>5, Zenon DEF Calm, DaemonInv
  <2> QED
    BY <2>1, <2>2, Zenon DEF InHand
<1>8. Bound' = NoID
  BY <1>1, Zenon DEF Bound
<1>9. \A f \in Transit' : ~IsRunning(f)
  BY <1>6, Zenon DEF AtWork
<1>10. OwnWork' /\ BoundOwn' /\ Drained'
  BY <1>1, <1>2, <1>3, <1>6, <1>8, <1>9, Zenon DEF OwnWork, BoundOwn, Drained
<1>11. EndsInPlace'
  <2> SUFFICES ASSUME NEW f \in Transit', IsFinal(f), f.turn \in {turn', NoID} PROVE Early(f)'
    BY Zenon DEF EndsInPlace, LastFrames
  <2>1. Proper(f, turn) /\ f.loop = Loop
    BY <1>0, <1>4, Zenon DEF FrameInv, IsFinal
  <2>2. f.turn \in 1 .. turn \/ f.turn = NoID
    BY <2>1, DaemonTurnAssumption, Zenon DEF Proper, About
  <2>3. f.turn = NoID
    BY <1>3, <2>2, Zenon
  <2> QED
    BY <1>8, <1>9, <2>3, Zenon DEF Early
<1>12. ChunkIds(out'[turn']) = {} /\ PassedIds(log'[turn']) = {}
  <2>1. out'[turn'] = <<>> /\ log'[turn'] = <<>>
    BY <1>0, <1>1, <1>3, Zenon DEF FlowInv, DaemonInv
  <2> QED
    BY <2>1, NoIds, Zenon
<1>13. Complete'
  BY <1>12, Zenon DEF Complete
<1> QED
  BY <1>7, <1>10, <1>11, <1>12, <1>13, Zenon DEF InTurn

(* In a turn, the promises of the turn are kept. *)
LEMMA TurnStep ==
  ASSUME OwnInv, PlainKinds, KnownControls, [Next]_vars
  PROVE  TurnInv'
<1> SUFFICES ASSUME pc' # "idle", turn' \notin haunted' PROVE InTurn'
  BY Zenon DEF TurnInv
<1>1. CASE SendTurn
  BY <1>1, SendStep, Zenon
<1>2. CASE ~SendTurn
  <2>1. turn' = turn /\ haunted' = haunted /\ pc # "idle"
    BY <1>2, TurnMoves, Zenon
  <2>2. InTurn
    BY <2>1, Zenon DEF OwnInv, TurnInv
  <2>3. ~(ReadError \/ ReadNothing \/ ReadPoisoned \/ DrainTimeout \/ DrainEnds)
        /\ ~(YieldCancelled \/ EnsureConnected \/ Connect)
    BY <2>1, Zenon DEF ReadError, ReadNothing, ReadPoisoned, DrainTimeout, DrainEnds,
       YieldCancelled, EnsureConnected, Connect, Return, Goto
  <2>4. CASE \/ IterStart \/ PeelFrame \/ PeelTimeout \/ PeelEnds \/ Top
             \/ ReadIgnored \/ ReadCancelled
    BY <2>2, <2>4, OverStep, Zenon
  <2>5. CASE ReadRunning
    BY <2>2, <2>5, RunningStep, Zenon
  <2>6. CASE ReadChunk
    BY <2>2, <2>6, YieldStep, Zenon
  <2>7. CASE ReadEnd
    BY <2>2, <2>7, EndReadStep, Zenon
  <2>8. CASE DrainFrame
    BY <2>2, <2>8, DrainStep, Zenon
  <2>9. CASE DaemonRuns \/ DaemonEnds \/ DaemonIdles
    BY <2>1, <2>2, <2>9, StatusStep, Zenon
  <2>10. CASE chunks < MaxChunks /\ \E k \in ChunkKinds[chunks + 1] : DaemonChunk(k)
    BY <2>1, <2>2, <2>10, SendsChunk, Zenon
  <2>11. CASE DaemonCancels
    BY <2>1, <2>2, <2>11, CancelStep, Zenon
  <2>12. CASE DaemonNoise
    BY <2>2, <2>12, NoiseStep, Zenon
  <2>13. CASE DaemonAdmits \/ CancelActiveTurn \/ CtxDone \/ UNCHANGED vars
    BY <2>1, <2>2, <2>13, SilentStep, Zenon
  <2>14. CASE Break
    BY <2>2, <2>14, BreakStep, Zenon
  <2> QED
    BY <1>2, <2>3, <2>4, <2>5, <2>6, <2>7, <2>8, <2>9, <2>10, <2>11, <2>12, <2>13,
       <2>14, ZenonT(30) DEF Next, IterStep, Daemon
<1> QED
  BY <1>1, <1>2, Zenon

(* A session after Connect *)
LEMMA OwnInit == ASSUME Init PROVE OwnInv
<1>1. /\ turn = 0 /\ pc = "idle" /\ it = NewIter /\ inbox = <<>> /\ query = NoID
      /\ phase = "none" /\ chunks = 0 /\ wire = <<>> /\ pending = <<>>
      /\ closed = {} /\ haunted = {}
      /\ log = [g \in Gens |-> <<>>] /\ result = [g \in Gens |-> NoResult]
  BY Zenon DEF Init
<1>2. FlowInv /\ EndInv
  BY FlowInit, EndInit, Zenon
<1>3. Transit = {}
  BY <1>1, NoneIn, Zenon DEF Transit
<1>4. NoResult.err = "none" /\ 1 .. Len(<<>>) = {} /\ NoID \in 0 .. 0 /\ 0 \in Nat
  BY DEF NoResult, NoID
<1>5. IsSequence(<<>>)
  BY <1>2, <1>1, Zenon DEF FlowInv, Flow, Numbered
<1>6. \A g \in Gens : log[g] = <<>> /\ result[g].err = "none"
  BY <1>1, <1>4, Zenon
<1>7. DaemonInv
  <2>1. Queued(inbox, turn, closed, query)
    BY <1>1, <1>4, <1>5, Zenon DEF Queued
  <2>2. DOMAIN log = Gens /\ \A g \in Gens : IsSequence(log[g])
    BY <1>1, <1>5, <1>6, Zenon
  <2> QED
    BY <1>1, <1>4, <1>6, <2>1, <2>2, Zenon DEF DaemonInv
<1>8. FrameInv /\ Calm
  BY <1>1, <1>3, <1>4, Zenon DEF FrameInv, Calm
<1>9. ResultInv
  BY <1>1, <1>6, Zenon DEF ResultInv
<1>10. CalmInv /\ TurnInv
  BY <1>1, <1>8, Zenon DEF CalmInv, TurnInv
<1>11. DoneInv
  BY <1>6 DEF DoneInv
<1> QED
  BY <1>2, <1>7, <1>8, <1>9, <1>10, <1>11, Zenon DEF OwnInv

(* A turn that returns with an end state was ended by a frame of its own,    *)
(* or by the idle that answers a cancel of it, and has yielded exactly the   *)
(* chunks sent about it that the filter lets through: whatever the number of *)
(* turns, chunks and faults, unless a turn left early may still be heard.    *)
THEOREM TurnsComplete ==
  ASSUME PlainKinds, KnownControls
  PROVE  Spec => []OwnTurnComplete
<1>1. Init => OwnInv
  BY OwnInit, Zenon
<1>2. OwnInv /\ [Next]_vars => OwnInv'
  <2> SUFFICES ASSUME OwnInv, [Next]_vars PROVE OwnInv'
    BY Zenon
  <2>1. FlowInv /\ EndInv /\ FrameInv /\ DaemonInv /\ ResultInv
    BY Zenon DEF OwnInv
  <2>2. FlowInv' /\ EndInv'
    BY <2>1, FlowStep, EndStep, Zenon
  <2>3. FrameInv'
    BY <2>1, FrameStep, Zenon
  <2>4. DaemonInv' /\ ResultInv'
    BY <2>1, DaemonInvStep, ResultInvStep, Zenon
  <2>5. CalmInv'
    BY CalmStep, Zenon
  <2>6. TurnInv'
    BY TurnStep, Zenon
  <2>7. DoneInv'
    BY DoneStep, Zenon
  <2> QED
    BY <2>2, <2>3, <2>4, <2>5, <2>6, <2>7, Zenon DEF OwnInv
<1>3. OwnInv => OwnTurnComplete
  BY Zenon DEF OwnInv, DoneInv, OwnEnd, OwnTurnComplete
<1> QED
  BY <1>1, <1>2, <1>3, PTL DEF Spec

=============================================================================
