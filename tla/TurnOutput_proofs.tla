------------------------- MODULE TurnOutput_proofs --------------------------
(***************************************************************************)
(* Proofs about TurnOutput, for any turns, keys, channels, messages,       *)
(* capacity and configuration:                                             *)
(*   - no broadcast meets a closed channel (NoPanic);                      *)
(*   - TurnOutput implements TurnContract (KeepsContract);                 *)
(*   - a subscriber gets the outputs of a turn in order (FedInOrder).      *)
(* None depends on what the classifier makes of a message.                 *)
(***************************************************************************)
EXTENDS TurnOutput, SequenceTheorems, TLAPS

-----------------------------------------------------------------------------
(* The broadcaster.                                                        *)

\* Registered channels are open and belong to one key, and a Broadcast has only
\* open channels ahead: no channel is closed while the read lock is held.
ChannelInv ==
  /\ scene.turns \subseteq Turns /\ scene.chans \subseteq Channels
  /\ subs \in [Keys -> SUBSET Channels]
  /\ left \in [Procs -> SUBSET Channels]
  /\ cur \in [Procs -> {cur[p] : p \in Procs}]
  /\ \A k \in Keys : subs[k] \subseteq open
  /\ \A k, j \in Keys : k # j => subs[k] \cap subs[j] = {}
  /\ open \subseteq used
  /\ \A p \in Procs : left[p] \subseteq open
  /\ \A p \in Procs : cur[p] = <<>> => left[p] = {}
  /\ panic = FALSE

\* A new broadcaster has no channels.
LEMMA ChannelInit == Init => ChannelInv
<1> SUFFICES ASSUME Init PROVE ChannelInv
  BY Zenon
<1>1. scene.turns \subseteq Turns /\ scene.chans \subseteq Channels
  BY OutputAssumption, Zenon DEF Init, SceneType
<1> QED
  BY <1>1, Zenon DEF Init, NewBroadcaster, ChannelInv

\* The steps of a turn.
LEMMA ChannelTurn ==
  ASSUME ChannelInv, NEW t \in Turns, Tell(t) \/ Deliver(t)
  PROVE  ChannelInv'
<1> USE DEF Turns
<1>0. scene' = scene
  BY Zenon DEF Tell, Deliver
<1>1. CASE Tell(t)
  <2>1. KeyOf[t] \in Keys
    BY OutputAssumption, Zenon
  <2>2. <<t, Len(shown[t]) + 1>> # <<>>
    BY Zenon
  <2>3. cur' \in [Procs -> {cur'[p] : p \in Procs}]
    BY <1>1, Zenon DEF Tell, BroadcastBegin, ChannelInv
  <2> QED
    BY <1>0, <1>1, <2>1, <2>2, <2>3, Zenon DEF Tell, BroadcastBegin, ChannelInv
<1>2. ASSUME NEW c \in Channels, BroadcastOffer(t, c)
      PROVE  ChannelInv'
  BY <1>0, <1>2, Zenon DEF BroadcastOffer, ChannelInv
<1>3. CASE BroadcastEnd(t)
  <2>1. cur' \in [Procs -> {cur'[p] : p \in Procs}]
    BY <1>3, Zenon DEF BroadcastEnd, ChannelInv
  <2> QED
    BY <1>0, <1>3, <2>1, Zenon DEF BroadcastEnd, ChannelInv
<1> QED
  BY <1>1, <1>2, <1>3, Zenon DEF Deliver

\* The steps of subscribers and of the application.
LEMMA ChannelSubscribers ==
  ASSUME ChannelInv, Subscribers
  PROVE  ChannelInv'
<1>0. scene' = scene
  BY Zenon DEF Subscribers
<1>1. ASSUME NEW k \in Keys, NEW c \in scene.chans, Subscribe(k, c)
      PROVE  ChannelInv'
  BY <1>0, <1>1 DEF Subscribe, Exclusive, ChannelInv
<1>2. ASSUME NEW k \in Keys, NEW c \in scene.chans, Unsubscribe(k, c)
      PROVE  ChannelInv'
  BY <1>0, <1>2, ZenonT(30) DEF Unsubscribe, Exclusive, CloseChannels, ChannelInv
<1>3. ASSUME NEW k \in Keys, Close(k)
      PROVE  ChannelInv'
  BY <1>0, <1>3, Zenon DEF Close, Exclusive, CloseChannels, ChannelInv
<1>4. CASE CloseAll
  BY <1>0, <1>4, ZenonT(30) DEF CloseAll, Exclusive, CloseChannels, ChannelInv
<1>5. ASSUME NEW c \in Channels, Consume(c)
      PROVE  ChannelInv'
  BY <1>0, <1>5, Zenon DEF Consume, ChannelInv
<1> QED
  BY <1>1, <1>2, <1>3, <1>4, <1>5, Zenon DEF Subscribers

\* The other steps leave the broadcaster alone.
LEMMA ChannelStep == ChannelInv /\ [Next]_vars => ChannelInv'
<1> SUFFICES ASSUME ChannelInv, [Next]_vars PROVE ChannelInv'
  BY Zenon
<1>1. CASE UNCHANGED <<bvars, scene>>
  BY <1>1, Zenon DEF bvars, ChannelInv
<1>2. ASSUME NEW t \in scene.turns,
             \/ NoConnection(t) \/ Enter(t) \/ Aborted(t) \/ Persist(t) \/ Leave(t)
             \/ \E cause \in Causes : Cut(t, cause)
             \/ \E m \in scene.messages : Frame(t, m)
      PROVE  UNCHANGED <<bvars, scene>>
  BY <1>2, Zenon DEF NoConnection, Enter, Aborted, Persist, Leave, Cut, Frame, Quiet
<1>3. ASSUME NEW t \in scene.turns, Tell(t) \/ Deliver(t)
      PROVE  ChannelInv'
  BY <1>3, ChannelTurn, Zenon DEF ChannelInv
<1> QED
  BY <1>1, <1>2, <1>3, ChannelSubscribers, Zenon DEF Next, Step, vars

(***************************************************************************)
(* No Broadcast sends on a closed channel and no channel is closed twice,  *)
(* however broadcasts, Subscribe, Unsubscribe, Close and CloseAll          *)
(* interleave (src/appkit/broadcaster.go).                                 *)
(***************************************************************************)
THEOREM BroadcastSafe == Spec => []NoPanic
<1>1. ChannelInv => NoPanic
  BY Zenon DEF ChannelInv, NoPanic
<1> QED
  BY <1>1, ChannelInit, ChannelStep, PTL DEF Spec

-----------------------------------------------------------------------------
(* The contract.                                                           *)

IsSequence(s) == \E S : s \in Seq(S)

PartialOut(o) == o.to = "key" /\ o.type \in Contract!Partial

\* What a turn that has decided still has to do: fragments, then its row unless it
\* is written, then the announcement.
Closing(s) ==
  LET n == Len(s) IN
  /\ s[n].to = "key" /\ s[n].type \in Contract!Terminal
  /\ n >= 2 => /\ s[n - 1].to = "store"
               /\ s[n - 1].type = s[n].type /\ s[n - 1].text = s[n].text
  /\ \A i \in 1 .. n - 2 : PartialOut(s[i])

NoRow(t) == \A i \in DOMAIN rows : rows[i].turn # t

\* The rows and announcements of a turn, by where it is.
TurnInv(t) ==
  /\ IsSequence(outs[t]) /\ IsSequence(shown[t])
  /\ pc[t] \in {"new", "loop"} =>
       /\ \A i \in 1 .. Len(outs[t]) : PartialOut(outs[t][i])
       /\ ~Contract!Announced(t)
       /\ NoRow(t)
  /\ pc[t] \notin {"new", "loop"} /\ outs[t] # <<>> =>
       /\ Closing(outs[t])
       /\ ~Contract!Announced(t)
       /\ Len(outs[t]) >= 2 => NoRow(t)
  /\ pc[t] \notin {"new", "loop"} /\ outs[t] = <<>> => Contract!Announced(t)

ContractInv ==
  /\ IsSequence(rows)
  /\ pc \in [Turns -> {"new", "loop", "ending", "done"}]
  /\ outs = [t \in Turns |-> outs[t]]
  /\ shown = [t \in Turns |-> shown[t]]
  /\ scene.turns \subseteq Turns
  /\ \A t \in Turns : TurnInv(t)

\* No turn has said anything yet.
LEMMA ContractStart == Init => ContractInv /\ Contract!ContractInit
<1> SUFFICES ASSUME Init PROVE ContractInv /\ Contract!ContractInit
  BY Zenon
<1>1. scene.turns \subseteq Turns
  BY OutputAssumption, Zenon DEF Init, SceneType
<1>2. IsSequence(<<>>)
  BY <<>> \in Seq({}), Zenon DEF IsSequence
<1>3. ASSUME NEW t \in Turns PROVE TurnInv(t)
  BY <1>2 DEF Init, TurnInv, NoRow, Contract!Announced
<1>4. ContractInv
  BY <1>1, <1>2, <1>3, Zenon DEF Init, ContractInv
<1>5. Contract!ContractInit
  BY Zenon DEF Init, Verdict, Contract!ContractInit
<1> QED
  BY <1>4, <1>5, Zenon

\* A sequence without its head.
LEMMA TailFacts ==
  ASSUME NEW s, IsSequence(s), s # <<>>
  PROVE  /\ IsSequence(Tail(s))
         /\ Len(s) \in Nat \ {0}
         /\ Len(Tail(s)) = Len(s) - 1
         /\ Head(s) = s[1]
         /\ \A i \in 1 .. Len(s) - 1 : Tail(s)[i] = s[i + 1]
         /\ Tail(s) = <<>> <=> Len(s) = 1
<1>1. PICK S : s \in Seq(S)
  BY Zenon DEF IsSequence
<1>2. Len(s) \in Nat \ {0} /\ Head(s) = s[1]
  BY <1>1, EmptySeq
<1>3. /\ Tail(s) \in Seq(S)
      /\ Len(Tail(s)) = Len(s) - 1
      /\ \A i \in 1 .. Len(Tail(s)) : Tail(s)[i] = s[i + 1]
  BY <1>1, HeadTailProperties, Zenon
<1>4. Tail(s) = <<>> <=> Len(Tail(s)) = 0
  BY <1>3, EmptySeq, Zenon
<1> QED
  BY <1>2, <1>3, <1>4 DEF IsSequence

\* One, two or more
LEMMA OneTwoMore == ASSUME NEW n \in Nat \ {0} PROVE n >= 3 \/ n = 2 \/ n = 1
OBVIOUS

\* A sequence with one more element.
LEMMA AppendFacts ==
  ASSUME NEW s, IsSequence(s), NEW e
  PROVE  /\ IsSequence(Append(s, e))
         /\ Append(s, e) # <<>>
         /\ Last(Append(s, e)) = e
         /\ DOMAIN Append(s, e) = 1 .. Len(s) + 1
         /\ \A i \in 1 .. Len(s) : Append(s, e)[i] = s[i]
         /\ Append(s, e)[Len(s) + 1] = e
         /\ DOMAIN s = 1 .. Len(s) /\ Len(s) \in Nat
<1>1. PICK S : s \in Seq(S)
  BY Zenon DEF IsSequence
<1>2. s \in Seq(S \cup {e})
  BY <1>1
<1>3. Append(s, e) \in Seq(S \cup {e})
  BY <1>2
<1> QED
  BY <1>2, <1>3 DEF IsSequence, Last

\* Fragments followed by a row and its announcement close a turn.
LEMMA ClosingFacts ==
  ASSUME NEW told, IsSequence(told), \A i \in 1 .. Len(told) : PartialOut(told[i]),
         NEW type \in Contract!Terminal, NEW text
  PROVE  LET s == told \o Finish(type, text)
         IN  /\ IsSequence(s) /\ s # <<>> /\ Len(s) >= 2
             /\ Closing(s)
             /\ Event(Last(s)).type = type
<1> DEFINE s == told \o Finish(type, text)
           F == {Out("store", type, text), Out("key", type, text)}
<1>1. PICK S : told \in Seq(S)
  BY Zenon DEF IsSequence
<1>2. /\ told \in Seq(S \cup F)
      /\ Finish(type, text) \in Seq(S \cup F)
      /\ Len(Finish(type, text)) = 2
      /\ Finish(type, text)[1] = Out("store", type, text)
      /\ Finish(type, text)[2] = Out("key", type, text)
  BY <1>1 DEF Finish
<1>3. /\ s \in Seq(S \cup F)
      /\ Len(told) \in Nat
      /\ Len(s) = Len(told) + 2
      /\ \A i \in 1 .. Len(told) : s[i] = told[i]
      /\ s[Len(told) + 1] = Out("store", type, text)
      /\ s[Len(told) + 2] = Out("key", type, text)
  <2>1. Len(told) \in Nat
    BY <1>2, LenProperties, Zenon
  <2>2. /\ s \in Seq(S \cup F)
        /\ Len(s) = Len(told) + Len(Finish(type, text))
        /\ \A i \in 1 .. Len(told) + Len(Finish(type, text)) :
             s[i] = IF i <= Len(told) THEN told[i] ELSE Finish(type, text)[i - Len(told)]
    BY <1>2, ConcatProperties, Zenon
  <2>3. /\ Len(Finish(type, text)) = 2
        /\ Finish(type, text)[1] = Out("store", type, text)
        /\ Finish(type, text)[2] = Out("key", type, text)
    BY <1>2, Zenon
  <2> HIDE DEF s, F
  <2>4. Len(s) = Len(told) + 2 /\ \A i \in 1 .. Len(told) : s[i] = told[i]
    BY <2>1, <2>2, <2>3
  <2>5. s[Len(told) + 1] = Finish(type, text)[1]
    BY <2>1, <2>2, <2>3
  <2>6. s[Len(told) + 2] = Finish(type, text)[2]
    BY <2>1, <2>2, <2>3
  <2> QED
    BY <2>1, <2>2, <2>3, <2>4, <2>5, <2>6, Zenon
<1>4. IsSequence(s) /\ s # <<>> /\ Len(s) >= 2
  BY <1>3 DEF IsSequence
<1>5. Closing(s)
  BY <1>3 DEF Closing, Out
<1>6. Event(Last(s)).type = type
  BY <1>3 DEF Event, Last, Out
<1> QED
  BY <1>4, <1>5, <1>6, Zenon

\* A turn that leaves its loop decides and is left with closing work.
LEMMA EndDecides ==
  ASSUME ContractInv, NEW t \in Turns, pc[t] \in {"new", "loop"},
         NEW what, IsSequence(what), what # <<>>, Len(what) >= 2, Closing(what),
         Event(Last(what)).type \in Contract!Terminal,
         End(t, what), UNCHANGED <<shown, rows, scene>>
  PROVE  ContractInv' /\ Contract!Decide(t)
<1>1. /\ outs' = [outs EXCEPT ![t] = what] /\ outs'[t] = what
      /\ pc' = [pc EXCEPT ![t] = "ending"] /\ pc'[t] = "ending"
      /\ \A u \in Turns \ {t} : outs'[u] = outs[u] /\ pc'[u] = pc[u]
      /\ shown' = shown /\ rows' = rows
  BY Zenon DEF ContractInv, End
<1>2. TurnInv(t)'
  BY <1>1 DEF ContractInv, TurnInv, NoRow, Contract!Announced
<1>3. ASSUME NEW u \in Turns \ {t} PROVE TurnInv(u)'
  BY <1>1 DEF ContractInv, TurnInv, NoRow, Contract!Announced
<1>4. ContractInv'
  <2>1. outs' = [u \in Turns |-> outs'[u]]
    BY <1>1, Zenon DEF ContractInv
  <2>2. pc' \in [Turns -> {"new", "loop", "ending", "done"}]
    BY <1>1, Zenon DEF ContractInv
  <2> QED
    BY <1>1, <1>2, <1>3, <2>1, <2>2, Zenon DEF ContractInv
<1>5. /\ Verdict[t] = Undecided
      /\ Verdict'[t] = Event(Last(what))
      /\ Verdict' = [Verdict EXCEPT ![t] = Verdict'[t]]
  <2>1. Verdict[t] = Undecided
    BY Zenon DEF Verdict
  <2>2. Verdict'[t] = Event(Last(what))
    BY <1>1, Zenon DEF Verdict
  <2>3. ASSUME NEW u \in Turns \ {t} PROVE Verdict'[u] = Verdict[u]
    BY <1>1 DEF Verdict
  <2>4. DOMAIN Verdict = Turns /\ DOMAIN Verdict' = Turns
    BY Zenon DEF Verdict
  <2>5. Verdict = [u \in Turns |-> Verdict[u]] /\ Verdict' = [u \in Turns |-> Verdict'[u]]
    BY Zenon DEF Verdict
  <2> HIDE DEF Verdict
  <2> QED
    BY <2>1, <2>2, <2>3, <2>4, <2>5, Zenon
<1>6. Contract!Decide(t)
  BY <1>1, <1>5, Zenon DEF Contract!Decide
<1> QED
  BY <1>4, <1>6, Zenon

\* The exits without fragments are closing work.
LEMMA FinishCloses ==
  ASSUME NEW type \in Contract!Terminal, NEW text
  PROVE  LET s == Finish(type, text) IN
         /\ IsSequence(s) /\ s # <<>> /\ Len(s) >= 2
         /\ Closing(s)
         /\ Event(Last(s)).type \in Contract!Terminal
<1>1. IsSequence(<<>>) /\ Len(<<>>) = 0
  BY <<>> \in Seq({}), Zenon DEF IsSequence
<1>2. Finish(type, text) \in Seq({Out("store", type, text), Out("key", type, text)})
  BY DEF Finish
<1>3. <<>> \o Finish(type, text) = Finish(type, text)
  BY <1>2, ConcatEmptySeq, Zenon
<1>4. \A i \in 1 .. Len(<<>>) : PartialOut(<<>>[i])
  BY <1>1
<1> HIDE DEF Finish
<1>5. LET s == <<>> \o Finish(type, text) IN
      /\ IsSequence(s) /\ s # <<>> /\ Len(s) >= 2
      /\ Closing(s)
      /\ Event(Last(s)).type = type
  BY <1>1, <1>4, ClosingFacts, Zenon
<1> QED
  BY <1>3, <1>5, Zenon

\* A frame: the turn decides, or says fragments and goes on.
LEMMA FrameContract ==
  ASSUME ContractInv, NEW t \in Turns, NEW m, Frame(t, m)
  PROVE  ContractInv' /\ (Contract!Decide(t) \/ UNCHANGED Contract!cvars)
<1> DEFINE r == Classify(m, acc[t], scene.treatIdle)
           x == Accumulate(acc[t], r.content)
           final == ResolveDeliverableFinalContent(r, x.text)
           early == final # <<>> /\ r.completion # {"status.idle"}
           told == Unless("thinking_step", r.step) \o Unless("delta", x.delta)
           same == UNCHANGED <<shown, rows, scene>>
<1>1. same /\ pc[t] = "loop"
  BY Zenon DEF Frame, Quiet, Ready
<1>2. IsSequence(told) /\ \A i \in 1 .. Len(told) : PartialOut(told[i])
  <2>1. \A type, text : type \in Contract!Partial =>
          /\ Unless(type, text) \in Seq({Out("key", type, text)})
          /\ \A i \in 1 .. Len(Unless(type, text)) : PartialOut(Unless(type, text)[i])
    <3> SUFFICES ASSUME NEW type \in Contract!Partial, NEW text
                 PROVE  /\ Unless(type, text) \in Seq({Out("key", type, text)})
                        /\ \A i \in 1 .. Len(Unless(type, text)) :
                             PartialOut(Unless(type, text)[i])
      BY Zenon
    <3>1. CASE text = <<>>
      <4>1. Unless(type, text) = <<>>
        BY <3>1, Zenon DEF Unless
      <4>2. <<>> \in Seq({Out("key", type, text)}) /\ Len(<<>>) = 0
        BY EmptySeq, Zenon
      <4> QED
        BY <4>1, <4>2
    <3>2. CASE text # <<>>
      <4>1. Unless(type, text) = <<Out("key", type, text)>>
        BY <3>2, Zenon DEF Unless
      <4>2. PartialOut(Out("key", type, text))
        BY Zenon DEF PartialOut, Out
      <4> QED
        BY <4>1, <4>2
    <3> QED
      BY <3>1, <3>2, Zenon
  <2> DEFINE p == Unless("thinking_step", r.step)
             q == Unless("delta", x.delta)
             S == {Out("key", "thinking_step", r.step), Out("key", "delta", x.delta)}
  <2>2. /\ p \in Seq(S) /\ \A i \in 1 .. Len(p) : PartialOut(p[i])
        /\ q \in Seq(S) /\ \A i \in 1 .. Len(q) : PartialOut(q[i])
    <3>0. "thinking_step" \in Contract!Partial /\ "delta" \in Contract!Partial
      BY Zenon DEF Contract!Partial
    <3> HIDE DEF r, x
    <3>1. /\ p \in Seq({Out("key", "thinking_step", r.step)})
          /\ \A i \in 1 .. Len(p) : PartialOut(p[i])
      BY <2>1, <3>0, Zenon
    <3>2. /\ q \in Seq({Out("key", "delta", x.delta)})
          /\ \A i \in 1 .. Len(q) : PartialOut(q[i])
      BY <2>1, <3>0, Zenon
    <3> HIDE DEF p, q
    <3>3. p \in Seq(S) /\ q \in Seq(S)
      BY <3>1, <3>2, SeqMonotonic, Zenon
    <3> QED
      BY <3>1, <3>2, <3>3, Zenon
  <2> HIDE DEF p, q, S
  <2>3. /\ p \o q \in Seq(S)
        /\ Len(p \o q) = Len(p) + Len(q)
        /\ \A i \in 1 .. Len(p) + Len(q) :
             (p \o q)[i] = IF i <= Len(p) THEN p[i] ELSE q[i - Len(p)]
    BY <2>2, ConcatProperties, Zenon
  <2>4. Len(p) \in Nat /\ Len(q) \in Nat
    BY <2>2, LenProperties, Zenon
  <2>5. \A i \in 1 .. Len(p \o q) : PartialOut((p \o q)[i])
    BY <2>2, <2>3, <2>4
  <2> QED
    BY <2>3, <2>5, Zenon DEF IsSequence, p, q
<1>3. \/ End(t, Failure)
      \/ End(t, told \o Finish("complete", final))
      \/ End(t, told \o Finish("complete", TrimSpace(x.text)))
      \/ End(t, told \o Failure)
      \/ outs' = [outs EXCEPT ![t] = told] /\ pc' = pc
  BY Zenon DEF Frame
<1>7. "complete" \in Contract!Terminal /\ "query_error" \in Contract!Terminal
  BY Zenon DEF Contract!Terminal
<1> HIDE DEF told, final, x, r
<1>4. CASE End(t, Failure)
  BY <1>1, <1>4, <1>7, EndDecides, FinishCloses, Zenon DEF Failure
<1>5. ASSUME NEW type \in Contract!Terminal, NEW text, End(t, told \o Finish(type, text))
      PROVE  ContractInv' /\ Contract!Decide(t)
  BY <1>1, <1>2, <1>5, EndDecides, ClosingFacts, Zenon
<1>6. CASE outs' = [outs EXCEPT ![t] = told] /\ pc' = pc
  <2>1. /\ outs'[t] = told
        /\ \A u \in Turns \ {t} : outs'[u] = outs[u]
        /\ shown' = shown /\ rows' = rows /\ scene' = scene
    BY <1>1, <1>6, Zenon DEF ContractInv
  <2>2. TurnInv(t)'
    BY <1>1, <1>2, <1>6, <2>1, Zenon DEF ContractInv, TurnInv, NoRow, Contract!Announced
  <2>3. ASSUME NEW u \in Turns \ {t} PROVE TurnInv(u)'
    BY <1>6, <2>1, Zenon DEF ContractInv, TurnInv, NoRow, Contract!Announced
  <2>4. ContractInv'
    BY <1>6, <2>1, <2>2, <2>3, Zenon DEF ContractInv
  <2>5. Verdict' = Verdict
    BY <1>1, <1>6, <2>1 DEF Verdict
  <2> QED
    BY <2>1, <2>4, <2>5, Zenon DEF Contract!cvars
<1> QED
  BY <1>3, <1>4, <1>5, <1>6, <1>7, Zenon DEF Failure

\* The row of a turn is written before its announcement and says the same.
LEMMA PersistContract ==
  ASSUME ContractInv, NEW t \in Turns, Persist(t)
  PROVE  ContractInv' /\ (Contract!Store(t) \/ UNCHANGED Contract!cvars)
<1> DEFINE s == outs[t]
           row == [turn |-> t, type |-> Head(s).type, text |-> Head(s).text]
<1>1. /\ IsSequence(s) /\ s # <<>> /\ Head(s).to = "store"
      /\ outs' = [outs EXCEPT ![t] = Tail(s)] /\ outs'[t] = Tail(s)
      /\ \A u \in Turns \ {t} : outs'[u] = outs[u]
      /\ pc' = pc /\ shown' = shown /\ scene' = scene
      /\ rows' = Append(rows, row) \/ rows' = rows
  BY Zenon DEF Persist, ContractInv, TurnInv
<1>2. /\ Len(s) \in Nat \ {0} /\ Len(Tail(s)) = Len(s) - 1 /\ Head(s) = s[1]
      /\ IsSequence(Tail(s))
      /\ \A i \in 1 .. Len(s) - 1 : Tail(s)[i] = s[i + 1]
      /\ Tail(s) = <<>> <=> Len(s) = 1
  BY <1>1, TailFacts, Zenon
<1>3. /\ pc[t] \notin {"new", "loop"}
      /\ Closing(s) /\ ~Contract!Announced(t)
      /\ Len(s) >= 2 => NoRow(t)
  BY <1>1, <1>2, SMTT(30) DEF ContractInv, TurnInv, PartialOut
<1>4. Len(s) = 2 /\ s[1].type = s[2].type /\ s[1].text = s[2].text
  <2> HIDE DEF s
  <2>1. s[1].to = "store"
    BY <1>1, <1>2, Zenon
  <2>2. Len(s) # 1
    BY <1>3, <2>1, Zenon DEF Closing
  <2>3. ASSUME Len(s) >= 3 PROVE FALSE
    BY <1>2, <1>3, <2>1, <2>3, SMTT(30) DEF Closing, PartialOut
  <2>4. Len(s) = 2
    BY <1>2, <2>2, <2>3, SMTT(30)
  <2> QED
    BY <1>3, <2>4 DEF Closing
<1>5. /\ Tail(s) # <<>> /\ Len(Tail(s)) = 1 /\ Tail(s)[1] = s[2]
      /\ Last(s) = s[2] /\ Last(Tail(s)) = s[2]
  BY <1>2, <1>4, SMTT(30) DEF Last
<1>6. Closing(Tail(s))
  <2>1. s[2].to = "key" /\ s[2].type \in Contract!Terminal
    BY <1>3, <1>4, Zenon DEF Closing
  <2> DEFINE u == Tail(s)
  <2>2. Len(u) = 1 /\ u[1] = s[2]
    BY <1>5, Zenon
  <2> HIDE DEF s, u
  <2>3. Closing(u)
    BY <2>1, <2>2 DEF Closing
  <2> QED
    BY <2>3, Zenon DEF u
<1>7. IsSequence(rows') /\ \A u \in Turns \ {t} : NoRow(u) => NoRow(u)'
  <2>1. CASE rows' = rows
    BY <2>1, Zenon DEF ContractInv, NoRow
  <2>2. CASE rows' = Append(rows, row)
    BY <2>2, AppendFacts DEF ContractInv, NoRow
  <2> QED
    BY <1>1, <2>1, <2>2, Zenon
<1>8. TurnInv(t)'
  <2>1. IsSequence(shown[t])
    BY Zenon DEF ContractInv, TurnInv
  <2>2. ~Contract!Announced(t)' /\ pc'[t] \notin {"new", "loop"}
    BY <1>1, <1>3, Zenon DEF Contract!Announced
  <2>3. /\ IsSequence(outs'[t]) /\ Closing(outs'[t])
        /\ outs'[t] # <<>> /\ Len(outs'[t]) = 1
    BY <1>1, <1>2, <1>5, <1>6, Zenon
  <2>4. IsSequence(outs'[t]) /\ IsSequence(shown'[t])
    BY <1>1, <2>1, <2>3, Zenon
  <2>5. ~(pc'[t] \in {"new", "loop"}) /\ outs'[t] # <<>>
    BY <2>2, <2>3, Zenon
  <2>6. Closing(outs'[t]) /\ ~Contract!Announced(t)' /\ ~(Len(outs'[t]) >= 2)
    BY <2>2, <2>3
  <2> QED
    BY <2>4, <2>5, <2>6, Zenon DEF TurnInv
<1>9. ASSUME NEW u \in Turns \ {t} PROVE TurnInv(u)'
  BY <1>1, <1>7, Zenon DEF ContractInv, TurnInv, Contract!Announced
<1>10. ContractInv'
  <2>1. outs' = [u \in Turns |-> outs'[u]]
    BY <1>1, Zenon DEF ContractInv
  <2> QED
    BY <1>1, <1>7, <1>8, <1>9, <2>1, Zenon DEF ContractInv
<1>11. Verdict' = Verdict /\ Verdict[t] = Event(s[2])
  BY <1>1, <1>3, <1>5 DEF Verdict
<1>12. CASE rows' = Append(rows, row)
  <2>1. Verdict[t].type = Head(s).type /\ Verdict[t].text = Head(s).text
    BY <1>2, <1>4, <1>11, SMTT(30) DEF Event
  <2>2. Verdict[t] # Undecided
    BY <1>3, <1>4, <1>11, SMTT(30) DEF Closing, Event, Undecided, Out, Contract!Terminal
  <2>3. Contract!Store(t)
    BY <1>1, <1>3, <1>4, <1>11, <1>12, <2>1, <2>2 DEF Contract!Store, NoRow
  <2> QED
    BY <1>10, <2>3, ZenonT(30)
<1>13. CASE rows' = rows
  BY <1>1, <1>10, <1>11, <1>13, Zenon DEF Contract!cvars
<1> QED
  BY <1>1, <1>12, <1>13, Zenon

\* A broadcast is a fragment or, when nothing is left, the announcement.
LEMMA TellContract ==
  ASSUME ContractInv, NEW t \in Turns, Tell(t)
  PROVE  ContractInv' /\ (Contract!Show(t) \/ Contract!Announce(t))
<1> DEFINE s == outs[t]
           e == Event(Head(s))
<1>1. /\ IsSequence(s) /\ s # <<>> /\ Head(s).to = "key" /\ IsSequence(shown[t])
      /\ outs' = [outs EXCEPT ![t] = Tail(s)] /\ outs'[t] = Tail(s)
      /\ shown' = [shown EXCEPT ![t] = Append(shown[t], e)]
      /\ shown'[t] = Append(shown[t], e)
      /\ \A u \in Turns \ {t} : outs'[u] = outs[u] /\ shown'[u] = shown[u]
      /\ pc' = pc /\ rows' = rows /\ scene' = scene
  BY Zenon DEF Tell, ContractInv, TurnInv
<1>2. /\ Len(s) \in Nat \ {0} /\ Len(Tail(s)) = Len(s) - 1 /\ Head(s) = s[1]
      /\ IsSequence(Tail(s))
      /\ \A i \in 1 .. Len(s) - 1 : Tail(s)[i] = s[i + 1]
      /\ Tail(s) = <<>> <=> Len(s) = 1
  BY <1>1, TailFacts, Zenon
<1>3. /\ IsSequence(shown'[t]) /\ shown'[t] # <<>>
      /\ Last(shown'[t]) = e /\ Contract!Last(shown'[t]) = e
  <2>1. IsSequence(shown'[t]) /\ shown'[t] # <<>> /\ Last(shown'[t]) = e
    BY <1>1, AppendFacts, SMTT(30)
  <2> QED
    BY <2>1, Zenon DEF Last, Contract!Last
<1>4. ~Contract!Announced(t)
  BY <1>1, Zenon DEF ContractInv, TurnInv
<1>5. ASSUME NEW u \in Turns \ {t} PROVE TurnInv(u)'
  BY <1>1, ZenonT(30) DEF ContractInv, TurnInv, NoRow, Contract!Announced
<1>6. ASSUME TurnInv(t)' PROVE ContractInv'
  <2>1. outs' = [u \in Turns |-> outs'[u]] /\ shown' = [u \in Turns |-> shown'[u]]
    BY <1>1, Zenon DEF ContractInv
  <2> QED
    BY <1>1, <1>5, <1>6, <2>1, Zenon DEF ContractInv
<1>7. e.type = Head(s).type /\ e.text = Head(s).text
  BY Zenon DEF Event
<1>8. CASE PartialOut(s[1]) /\ (pc[t] \in {"new", "loop"} \/ Len(s) >= 2)
  <2>1. e.type \in Contract!Partial
    BY <1>2, <1>7, <1>8, Zenon DEF PartialOut
  <2>2. ~Contract!Announced(t)'
    BY <1>3, <2>1, Zenon DEF Contract!Announced, Contract!Partial, Contract!Terminal
  <2>3. CASE pc[t] \in {"new", "loop"}
    <3>1. NoRow(t)' /\ \A i \in 1 .. Len(s) : PartialOut(s[i])
      BY <1>1, <2>3, Zenon DEF ContractInv, TurnInv, NoRow
    <3>2. \A i \in 1 .. Len(Tail(s)) : PartialOut(Tail(s)[i])
      <4> SUFFICES ASSUME NEW i \in 1 .. Len(Tail(s)) PROVE PartialOut(Tail(s)[i])
        BY Zenon
      <4>1. i \in 1 .. Len(s) - 1 /\ i + 1 \in 1 .. Len(s)
        BY <1>2
      <4> HIDE DEF s
      <4> QED
        BY <1>2, <3>1, <4>1, Zenon
    <3>3. IsSequence(outs'[t]) /\ \A i \in 1 .. Len(outs'[t]) : PartialOut(outs'[t][i])
      BY <1>1, <1>2, <3>2, Zenon
    <3>4. TurnInv(t)'
      BY <1>1, <1>3, <2>2, <2>3, <3>1, <3>3, ZenonT(30) DEF TurnInv
    <3>5. Verdict' = Verdict
      BY <1>1, <2>3 DEF Verdict
    <3> HIDE DEF e
    <3>8. Contract!Show(t)
      BY <1>1, <1>3, <1>4, <2>1, <3>5, Zenon DEF Contract!Show, Contract!ShowOne
    <3> QED
      BY <1>6, <3>4, <3>8, Zenon
  <2>4. CASE pc[t] \notin {"new", "loop"} /\ Len(s) >= 2
    <3>1. Closing(s) /\ NoRow(t)
      BY <1>1, <2>4, Zenon DEF ContractInv, TurnInv
    <3>2. Len(s) >= 3
      <4>1. s[1].to = "key"
        BY <1>8, Zenon DEF PartialOut
      <4> HIDE DEF s
      <4> QED
        BY <1>2, <2>4, <3>1, <4>1 DEF Closing
    <3>3. Closing(Tail(s)) /\ Last(Tail(s)) = Last(s) /\ Tail(s) # <<>>
      <4> DEFINE u == Tail(s)
                 n == Len(s)
      <4> HIDE DEF s
      <4>1. /\ n \in Nat /\ n >= 3 /\ Len(u) = n - 1 /\ u # <<>>
            /\ \A i \in 1 .. n - 1 : u[i] = s[i + 1]
        BY <1>2, <3>2, SMTT(30)
      <4>2. /\ s[n].to = "key" /\ s[n].type \in Contract!Terminal
            /\ s[n - 1].to = "store"
            /\ s[n - 1].type = s[n].type /\ s[n - 1].text = s[n].text
            /\ \A i \in 1 .. n - 2 : PartialOut(s[i])
        BY <3>1, <4>1 DEF Closing
      <4>3. Last(u) = u[Len(u)] /\ Last(s) = s[n]
        BY Zenon DEF Last
      <4> HIDE DEF u, n
      <4>4. u[n - 1] = s[n] /\ u[n - 2] = s[n - 1]
        BY <4>1
      <4>5. \A i \in 1 .. n - 3 : PartialOut(u[i])
        BY <4>1, <4>2, SMTT(30)
      <4>6. Closing(u)
        BY <4>1, <4>2, <4>4, <4>5 DEF Closing
      <4> QED
        BY <4>1, <4>3, <4>4, <4>6, Zenon DEF u
    <3>4. NoRow(t)'
      BY <1>1, <3>1, Zenon DEF NoRow
    <3>5. IsSequence(outs'[t]) /\ Closing(outs'[t]) /\ outs'[t] # <<>>
      BY <1>1, <1>2, <3>3, Zenon
    <3>6. TurnInv(t)'
      BY <1>1, <1>3, <2>2, <2>4, <3>4, <3>5, Zenon DEF TurnInv
    <3>7. Verdict' = Verdict
      <4>1. Event(Last(outs'[t])) = Event(Last(outs[t])) /\ outs'[t] # <<>> /\ outs[t] # <<>>
        BY <1>1, <3>3, Zenon
      <4>2. ASSUME NEW u \in Turns
            PROVE  (IF pc'[u] \in {"new", "loop"} THEN Undecided
                    ELSE IF outs'[u] # <<>> THEN Event(Last(outs'[u])) ELSE Last(shown'[u]))
                     = Verdict[u]
        <5>1. CASE u = t
          BY <1>1, <4>1, <5>1, Zenon DEF Verdict
        <5>2. CASE u # t
          <6>1. outs'[u] = outs[u] /\ shown'[u] = shown[u] /\ pc' = pc
            BY <1>1, <5>2, Zenon
          <6> QED
            BY <6>1, Zenon DEF Verdict
        <5> QED
          BY <5>1, <5>2, Zenon
      <4> QED
        BY <4>2, Zenon DEF Verdict
    <3> HIDE DEF e
    <3>8. Contract!Show(t)
      BY <1>1, <1>3, <1>4, <2>1, <3>7, Zenon DEF Contract!Show, Contract!ShowOne
    <3> QED
      BY <1>6, <3>6, <3>8, Zenon
  <2> QED
    BY <1>8, <2>3, <2>4, Zenon
<1>9. CASE pc[t] \notin {"new", "loop"} /\ Len(s) = 1
  <2>1. s[1].type \in Contract!Terminal /\ Last(s) = Head(s)
    <3>1. Closing(s)
      BY <1>1, <1>9, Zenon DEF ContractInv, TurnInv
    <3> QED
      BY <1>2, <1>9, <3>1, Zenon DEF Closing, Last
  <2>2. Contract!Announced(t)'
    BY <1>2, <1>3, <1>7, <2>1, Zenon DEF Contract!Announced
  <2>3. IsSequence(outs'[t]) /\ outs'[t] = <<>>
    BY <1>1, <1>2, <1>9, Zenon
  <2>4. TurnInv(t)'
    BY <1>1, <1>3, <1>9, <2>2, <2>3, ZenonT(30) DEF TurnInv
  <2>5. Verdict[t] = e /\ Verdict' = Verdict
    BY <1>1, <1>3, <1>9, <2>1, <2>3 DEF Verdict
  <2>6. e # Undecided
    BY <1>2, <1>7, <2>1, Zenon DEF Undecided, Event, Out, Contract!Terminal
  <2> QED
    BY <1>1, <1>4, <1>6, <2>4, <2>5, <2>6, Zenon DEF Contract!Announce, Contract!ShowOne
<1>10. \/ PartialOut(s[1]) /\ (pc[t] \in {"new", "loop"} \/ Len(s) >= 2)
       \/ pc[t] \notin {"new", "loop"} /\ Len(s) = 1
  <2>1. CASE pc[t] \in {"new", "loop"}
    BY <1>1, <1>2, <2>1, SMTT(30) DEF ContractInv, TurnInv
  <2>2. CASE pc[t] \notin {"new", "loop"}
    <3>1. Closing(s)
      BY <1>1, <2>2, Zenon DEF ContractInv, TurnInv
    <3> HIDE DEF s
    <3>2. CASE Len(s) >= 3
      BY <1>2, <3>1, <3>2, <2>2 DEF Closing
    <3>3. Len(s) # 2
      <4> SUFFICES ASSUME Len(s) = 2 PROVE FALSE
        BY Zenon
      <4>1. s[Len(s) - 1].to = "store"
        <5>1. Len(s) >= 2
          OBVIOUS
        <5> QED
          BY <3>1, <5>1, Zenon DEF Closing
      <4>2. Len(s) - 1 = 1
        OBVIOUS
      <4> QED
        BY <1>1, <1>2, <4>1, <4>2, Zenon
    <3>4. Len(s) >= 3 \/ Len(s) = 2 \/ Len(s) = 1
      BY <1>2, OneTwoMore, Zenon
    <3> QED
      BY <2>2, <3>2, <3>3, <3>4, Zenon
  <2> QED
    BY <2>1, <2>2, Zenon
<1> QED
  BY <1>8, <1>9, <1>10, Zenon

\* A step that says nothing and keeps every turn before or after its decision.
LEMMA SilentContract ==
  ASSUME ContractInv, NEW t \in Turns, UNCHANGED <<outs, shown, rows, scene>>,
         \/ pc' = pc
         \/ pc[t] = "new" /\ pc' = [pc EXCEPT ![t] = "loop"]
         \/ pc[t] = "ending" /\ pc' = [pc EXCEPT ![t] = "done"]
  PROVE  ContractInv' /\ UNCHANGED Contract!cvars
<1>1. /\ pc' \in [Turns -> {"new", "loop", "ending", "done"}]
      /\ \A u \in Turns : pc'[u] \in {"new", "loop"} <=> pc[u] \in {"new", "loop"}
  BY Zenon DEF ContractInv
<1>2. ASSUME NEW u \in Turns PROVE TurnInv(u)'
  BY <1>1, Zenon DEF ContractInv, TurnInv, NoRow, Contract!Announced
<1>3. ContractInv'
  BY <1>1, <1>2, Zenon DEF ContractInv
<1>4. Verdict' = Verdict
  BY <1>1, Zenon DEF Verdict
<1> QED
  BY <1>3, <1>4, Zenon DEF Contract!cvars

\* Every step of TurnOutput is a step of the contract or none.
LEMMA ContractStep ==
  ContractInv /\ [Next]_vars => ContractInv' /\ [Contract!ContractNext]_(Contract!cvars)
<1> SUFFICES ASSUME ContractInv, [Next]_vars
             PROVE  ContractInv' /\ [Contract!ContractNext]_(Contract!cvars)
  BY Zenon
<1>1. scene.turns \subseteq Turns
  BY Zenon DEF ContractInv
<1>2. "complete" \in Contract!Terminal /\ "query_error" \in Contract!Terminal
  BY Zenon DEF Contract!Terminal
<1>3. ASSUME NEW t \in Turns, NEW type \in Contract!Terminal, NEW text,
             pc[t] \in {"new", "loop"}, End(t, Finish(type, text)),
             UNCHANGED <<shown, rows, scene>>
      PROVE  ContractInv' /\ Contract!Decide(t)
  BY <1>3, EndDecides, FinishCloses, Zenon
<1>4. ASSUME NEW t \in Turns, NoConnection(t) \/ Aborted(t)
      PROVE  ContractInv' /\ Contract!Decide(t)
  BY <1>2, <1>3, <1>4, SMTT(30) DEF NoConnection, Aborted, Ready, Quiet, Failure
<1>5. ASSUME NEW t \in Turns, NEW cause \in Causes, Cut(t, cause)
      PROVE  ContractInv' /\ Contract!Decide(t)
  <2>1. \/ End(t, Finish("complete", acc[t]))
        \/ End(t, Finish("query_error", <<>>))
    BY <1>5, Zenon DEF Cut, Failure
  <2> QED
    BY <1>2, <1>3, <1>5, <2>1 DEF Cut, Ready, Quiet
<1>6. ASSUME NEW t \in Turns, Enter(t)
      PROVE  ContractInv' /\ (Contract!Decide(t) \/ UNCHANGED Contract!cvars)
  <2>1. CASE gate[KeyOf[t]] = NoTurn
    BY <1>6, <2>1, SilentContract, Zenon DEF Enter, Quiet
  <2>2. CASE gate[KeyOf[t]] # NoTurn
    BY <1>2, <1>3, <1>6, <2>2 DEF Enter, Quiet, Failure
  <2> QED
    BY <2>1, <2>2, Zenon
<1>7. ASSUME NEW t \in Turns, Leave(t)
      PROVE  ContractInv' /\ UNCHANGED Contract!cvars
  BY <1>7, SilentContract, Zenon DEF Leave
<1>8. ASSUME UNCHANGED <<tvars, scene>>
      PROVE  ContractInv' /\ UNCHANGED Contract!cvars
  <2>1. CASE Turns = {}
    BY <1>8, <2>1, Zenon DEF tvars, ContractInv, Verdict, Contract!cvars
  <2>2. CASE \E t : t \in Turns
    BY <1>8, <2>2, SilentContract, Zenon DEF tvars
  <2> QED
    BY <2>1, <2>2, Zenon
<1>9. ASSUME NEW t \in Turns, Deliver(t) \/ Subscribers
      PROVE  UNCHANGED <<tvars, scene>>
  BY <1>9, Zenon DEF Deliver, Subscribers
<1>10. ASSUME NEW t \in scene.turns,
              \/ NoConnection(t) \/ Enter(t) \/ Aborted(t) \/ Step(t)
              \/ \E cause \in Causes : Cut(t, cause)
              \/ \E m \in scene.messages : Frame(t, m)
       PROVE  ContractInv' /\ [Contract!ContractNext]_(Contract!cvars)
  <2>1. t \in Turns
    BY <1>1, Zenon
  <2>2. ContractInv' /\ (\/ Contract!Show(t) \/ Contract!Decide(t) \/ Contract!Store(t)
                         \/ Contract!Announce(t) \/ UNCHANGED Contract!cvars)
    <3>1. CASE NoConnection(t) \/ Aborted(t) \/ Enter(t) \/ Leave(t)
      BY <1>4, <1>6, <1>7, <2>1, <3>1, Zenon
    <3>2. CASE \E cause \in Causes : Cut(t, cause)
      BY <1>5, <2>1, <3>2, Zenon
    <3>3. CASE \E m \in scene.messages : Frame(t, m)
      BY <2>1, <3>3, FrameContract, Zenon
    <3>4. CASE Persist(t)
      BY <2>1, <3>4, PersistContract, Zenon
    <3>5. CASE Tell(t)
      BY <2>1, <3>5, TellContract, Zenon
    <3>6. CASE Deliver(t)
      BY <1>8, <1>9, <2>1, <3>6, Zenon
    <3> QED
      BY <1>10, <3>1, <3>2, <3>3, <3>4, <3>5, <3>6, Zenon DEF Step
  <2> QED
    BY <2>1, <2>2, Zenon DEF Contract!ContractNext
<1>11. CASE Subscribers
  BY <1>8, <1>11, Zenon DEF Subscribers
<1>12. CASE UNCHANGED vars
  BY <1>8, <1>12, Zenon DEF vars
<1> QED
  BY <1>10, <1>11, <1>12, Zenon DEF Next

(***************************************************************************)
(* TurnOutput implements TurnContract: whatever the daemon sends, however  *)
(* a turn ends and whoever subscribes, Execute announces one outcome per   *)
(* turn, after everything it streamed and after its row, which tells the   *)
(* same outcome (src/appkit/turn_runner.go).                               *)
(***************************************************************************)
THEOREM TurnsKeepContract == Spec => KeepsContract
<1> QED
  BY ContractStart, ContractStep, PTL DEF Spec, KeepsContract, Contract!ContractSpec

-----------------------------------------------------------------------------
(* What a subscriber is fed.                                               *)

\* The number of the last event of turn t that was offered to channel c.
Offered(c, t) == IF c \in left[t] THEN Len(shown[t]) - 1 ELSE Len(shown[t])

\* What channel c holds of turn t; a subscriber of the turn's key holds its last
\* event, or the last but one while the last has still to be offered to it.
FedTo(c, t) ==
  LET P == Places(c, t)
      n(i) == got[c][i][2]
  IN  /\ \A i \in P : n(i) <= Offered(c, t)
      /\ \A i, j \in P : i < j => n(i) < n(j)
      /\ c \notin lost => \A i, j \in P :
           i < j /\ (\A l \in P : l <= i \/ j <= l) => n(j) = n(i) + 1
      /\ \A k \in Keys : c \in subs[k] /\ P # {} =>
           /\ k = KeyOf[t]
           /\ c \notin lost => \E i \in P : n(i) = Offered(c, t)

\* A Broadcast carries the last event of its turn and goes to subscribers of the
\* turn's key only, since no one can leave or join while it runs.
FedInv ==
  /\ got \in [Channels -> Seq(Procs \X Nat)]
  /\ \A t \in Turns : cur[t] \in {<<>>, <<t, Len(shown[t])>>}
  /\ \A t \in Turns : left[t] \subseteq subs[KeyOf[t]]
  /\ \A c \in Channels \ used : got[c] = <<>>
  /\ \A c \in Channels, t \in Turns : FedTo(c, t)

\* One more event of p in channel c.
LEMMA PlacesAppended ==
  ASSUME NEW c \in Channels, NEW p \in Procs, NEW n \in Nat,
         got \in [Channels -> Seq(Procs \X Nat)],
         got' = [got EXCEPT ![c] = Append(@, <<p, n>>)]
  PROVE  /\ got' \in [Channels -> Seq(Procs \X Nat)]
         /\ Len(got[c]) \in Nat
         /\ got'[c][Len(got[c]) + 1] = <<p, n>>
         /\ \A i \in 1 .. Len(got[c]) : got'[c][i] = got[c][i]
         /\ \A t \in Turns : Places(c, t) \subseteq 1 .. Len(got[c])
         /\ \A t \in Turns \ {p} : Places(c, t)' = Places(c, t)
         /\ Places(c, p)' = Places(c, p) \cup {Len(got[c]) + 1}
<1> DEFINE s == got[c]
           m == Len(s)
<1>1. s \in Seq(Procs \X Nat) /\ <<p, n>> \in Procs \X Nat
  BY Zenon
<1>2. /\ Append(s, <<p, n>>) \in Seq(Procs \X Nat)
      /\ m \in Nat /\ DOMAIN s = 1 .. m
      /\ DOMAIN Append(s, <<p, n>>) = 1 .. m + 1
      /\ \A i \in 1 .. m : Append(s, <<p, n>>)[i] = s[i]
      /\ Append(s, <<p, n>>)[m + 1] = <<p, n>>
  BY <1>1
<1>3. got'[c] = Append(s, <<p, n>>) /\ got' \in [Channels -> Seq(Procs \X Nat)]
  BY <1>2, Zenon
<1> HIDE DEF s, m
<1>4. /\ DOMAIN got[c] = 1 .. m /\ DOMAIN got'[c] = 1 .. m + 1
      /\ \A i \in 1 .. m : got'[c][i] = got[c][i]
      /\ got'[c][m + 1] = <<p, n>>
  BY <1>2, <1>3, Zenon DEF s
<1>5. <<p, n>>[1] = p
  BY Zenon
<1>6. ASSUME NEW t \in Turns PROVE Places(c, t) \subseteq 1 .. m
  BY <1>4, Zenon DEF Places
<1>7. ASSUME NEW t \in Turns \ {p} PROVE Places(c, t)' = Places(c, t)
  BY <1>2, <1>4, <1>5 DEF Places
<1>8. Places(c, p)' = Places(c, p) \cup {m + 1}
  BY <1>2, <1>4, <1>5, SMTT(30) DEF Places
<1> QED
  BY <1>2, <1>3, <1>4, <1>6, <1>7, <1>8, Zenon DEF m, s

\* What a channel holds of a turn stays when the turn offers it nothing.
LEMMA FedKept ==
  ASSUME NEW c \in Channels, NEW t \in Turns, FedTo(c, t),
         Places(c, t)' = Places(c, t), \A i \in Places(c, t) : got'[c][i] = got[c][i],
         shown'[t] = shown[t],
         c \in lost => c \in lost',
         c \in left'[t] <=> c \in left[t],
         \A k \in Keys : c \in subs'[k] => c \in subs[k]
  PROVE  FedTo(c, t)'
<1> DEFINE P == Places(c, t)
<1>1. P' = P /\ Offered(c, t)' = Offered(c, t)
  BY Zenon DEF Offered
<1>2. \A i \in P : got'[c][i][2] = got[c][i][2]
  BY Zenon
<1> HIDE DEF P
<1>3. /\ \A i \in P : got'[c][i][2] <= Offered(c, t)
      /\ \A i, j \in P : i < j => got'[c][i][2] < got'[c][j][2]
  BY <1>2, Zenon DEF FedTo, P
<1>4. c \notin lost' => \A i, j \in P :
        i < j /\ (\A l \in P : l <= i \/ j <= l) => got'[c][j][2] = got'[c][i][2] + 1
  <2> SUFFICES ASSUME c \notin lost', NEW i \in P, NEW j \in P,
                      i < j, \A l \in P : l <= i \/ j <= l
               PROVE  got'[c][j][2] = got'[c][i][2] + 1
    BY Zenon
  <2>1. got[c][j][2] = got[c][i][2] + 1
    BY Zenon DEF FedTo, P
  <2>2. got'[c][j][2] = got[c][j][2] /\ got'[c][i][2] = got[c][i][2]
    BY <1>2, Zenon
  <2> QED
    BY <2>1, <2>2, Zenon
<1>5. \A k \in Keys : c \in subs'[k] /\ P # {} =>
        /\ k = KeyOf[t]
        /\ c \notin lost' => \E i \in P : got'[c][i][2] = Offered(c, t)
  BY <1>2, Zenon DEF FedTo, P
<1> QED
  BY <1>1, <1>3, <1>4, <1>5, ZenonT(60) DEF FedTo, P

\* The round of a Broadcast.
LEMMA FedOffer ==
  ASSUME ChannelInv, ContractInv, FedInv, NEW p \in Turns, NEW c \in Channels,
         BroadcastOffer(p, c), UNCHANGED <<tvars, scene>>
  PROVE  FedInv'
<1> USE DEF Turns
<1>1. /\ c \in left[p] /\ cur[p] # <<>> /\ cur[p] = <<p, Len(shown[p])>>
      /\ left' = [left EXCEPT ![p] = @ \ {c}]
      /\ subs' = subs /\ used' = used /\ cur' = cur /\ shown' = shown
  BY Zenon DEF BroadcastOffer, ChannelInv, FedInv, tvars
<1>2. Len(shown[p]) \in Nat
  <2>1. PICK S : shown[p] \in Seq(S)
    BY Zenon DEF ContractInv, TurnInv, IsSequence
  <2> QED
    BY <2>1
<1>3. /\ \A t \in Turns : left'[t] \subseteq left[t]
      /\ c \notin left'[p]
      /\ \A t \in Turns, d \in Channels :
           ~(t = p /\ d = c) => (d \in left'[t] <=> d \in left[t])
  BY <1>1, Zenon DEF ChannelInv
<1>4. c \in subs[KeyOf[p]] /\ c \in used /\ KeyOf[p] \in Keys
  BY <1>1, OutputAssumption, Zenon DEF FedInv, ChannelInv
<1>5. CASE unread[c] < Cap
  <2> DEFINE m == Len(got[c])
             N == Len(shown[p])
  <2>1. got' = [got EXCEPT ![c] = Append(@, <<p, N>>)] /\ lost' = lost
    BY <1>1, <1>5, Zenon DEF BroadcastOffer
  <2>2. /\ got' \in [Channels -> Seq(Procs \X Nat)]
        /\ m \in Nat
        /\ got'[c][m + 1] = <<p, N>>
        /\ \A i \in 1 .. m : got'[c][i] = got[c][i]
        /\ \A t \in Turns : Places(c, t) \subseteq 1 .. m
        /\ \A t \in Turns \ {p} : Places(c, t)' = Places(c, t)
        /\ Places(c, p)' = Places(c, p) \cup {m + 1}
    BY <1>2, <2>1, PlacesAppended, Zenon DEF FedInv
  <2>3. \A d \in Channels \ {c} : got'[d] = got[d]
    BY <2>1, Zenon DEF FedInv
  <2>4. ASSUME NEW d \in Channels, NEW t \in Turns, d # c
        PROVE  FedTo(d, t)'
    <3>1. Places(d, t)' = Places(d, t) /\ \A i \in Places(d, t) : got'[d][i] = got[d][i]
      BY <2>3, <2>4, Zenon DEF Places
    <3> QED
      BY <1>1, <1>3, <2>1, <2>4, <3>1, FedKept, Zenon DEF FedInv
  <2>5. ASSUME NEW t \in Turns \ {p} PROVE FedTo(c, t)'
    <3>1. Places(c, t)' = Places(c, t) /\ \A i \in Places(c, t) : got'[c][i] = got[c][i]
      BY <2>2, Zenon
    <3> QED
      BY <1>1, <1>3, <2>1, <3>1, FedKept, Zenon DEF FedInv
  <2>6. FedTo(c, p)'
    <3>1. Offered(c, p) = N - 1 /\ Offered(c, p)' = N
      BY <1>1, <1>2, <1>3, Zenon DEF Offered
    <3>2. /\ \A i \in Places(c, p) : got'[c][i] = got[c][i] /\ i < m + 1 /\ i \in Nat
          /\ got'[c][m + 1][2] = N
      BY <2>2, SMTT(30)
    <3>3. FedTo(c, p) /\ got \in [Channels -> Seq(Procs \X Nat)]
      BY Zenon DEF FedInv
    <3>4. \A i \in Places(c, p) : got[c][i][2] \in Nat /\ got[c][i][2] <= N - 1
      <4>1. \A i \in Places(c, p) : got[c][i] \in Procs \X Nat
        BY <3>3 DEF Places
      <4> QED
        BY <3>1, <3>3, <4>1, Zenon DEF FedTo
    <3>0. /\ \A i, j \in Places(c, p) : i < j => got[c][i][2] < got[c][j][2]
          /\ c \notin lost => \A i, j \in Places(c, p) :
               i < j /\ (\A l \in Places(c, p) : l <= i \/ j <= l)
                 => got[c][j][2] = got[c][i][2] + 1
      BY <3>3, Zenon DEF FedTo
    <3> HIDE DEF m, N
    <3>5. ASSUME NEW i \in Places(c, p)', NEW j \in Places(c, p)', i < j
          PROVE  got'[c][i][2] < got'[c][j][2]
      <4>1. i \in Places(c, p)
        BY <2>2, <3>2, <3>5
      <4>2. CASE j \in Places(c, p)
        BY <3>0, <3>2, <3>5, <4>1, <4>2, Zenon
      <4>3. CASE j = m + 1
        <5>1. got'[c][i][2] = got[c][i][2] /\ got'[c][j][2] = N
          BY <3>2, <4>1, <4>3, Zenon
        <5>2. got[c][i][2] \in Nat /\ got[c][i][2] <= N - 1 /\ N \in Nat
          BY <1>2, <3>4, <4>1, Zenon DEF N
        <5> QED
          BY <5>1, <5>2
      <4> QED
        BY <2>2, <4>2, <4>3, Zenon
    <3>6. ASSUME c \notin lost', NEW i \in Places(c, p)', NEW j \in Places(c, p)',
                 i < j, \A l \in Places(c, p)' : l <= i \/ j <= l
          PROVE  got'[c][j][2] = got'[c][i][2] + 1
      <4>1. i \in Places(c, p) /\ i <= m /\ c \notin lost
        BY <2>1, <2>2, <3>2, <3>6, SMTT(30)
      <4>2. CASE j \in Places(c, p)
        <5>1. \A l \in Places(c, p) : l <= i \/ j <= l
          BY <2>2, <3>6, Zenon
        <5>2. got[c][j][2] = got[c][i][2] + 1
          BY <3>0, <3>6, <4>1, <4>2, <5>1, Zenon
        <5> QED
          BY <3>2, <4>1, <4>2, <5>2, Zenon
      <4>3. CASE j = m + 1
        <5>1. PICK l \in Places(c, p) : got[c][l][2] = N - 1
          BY <1>4, <3>1, <3>3, <4>1, ZenonT(30) DEF FedTo
        <5>2. l <= i
          BY <2>2, <3>2, <3>6, <4>3, <5>1, SMTT(30)
        <5>3. got[c][l][2] <= got[c][i][2]
          <6>1. l = i \/ l < i
            BY <3>2, <4>1, <5>1, <5>2
          <6>2. l < i => got[c][l][2] < got[c][i][2]
            BY <3>0, <4>1, <5>1, Zenon
          <6>3. got[c][l][2] \in Nat /\ got[c][i][2] \in Nat
            BY <3>4, <4>1, <5>1, Zenon
          <6> QED
            BY <6>1, <6>2, <6>3, SMTT(30)
        <5>4. got[c][i][2] \in Nat /\ got[c][i][2] <= N - 1 /\ N \in Nat
          BY <1>2, <3>4, <4>1, Zenon DEF N
        <5>5. got[c][i][2] = N - 1
          BY <5>1, <5>3, <5>4
        <5>6. got'[c][i][2] = got[c][i][2] /\ got'[c][j][2] = N
          BY <3>2, <4>1, <4>3, Zenon
        <5> QED
          BY <5>4, <5>5, <5>6
      <4> QED
        BY <2>2, <3>6, <4>2, <4>3, ZenonT(30)
    <3>7. ASSUME NEW i \in Places(c, p)' PROVE got'[c][i][2] <= N
      <4>1. CASE i \in Places(c, p)
        BY <1>2, <3>2, <3>4, <4>1, SMTT(30) DEF N
      <4>2. CASE i = m + 1
        BY <1>2, <3>2, <4>2 DEF N
      <4> QED
        BY <2>2, <3>7, <4>1, <4>2, Zenon
    <3>8. ASSUME NEW k \in Keys, c \in subs'[k]
          PROVE  k = KeyOf[p]
      BY <1>1, <1>4, <3>8, Zenon DEF ChannelInv
    <3>9. \E i \in Places(c, p)' : got'[c][i][2] = N
      BY <2>2, <3>2, Zenon
    <3> QED
      BY <3>1, <3>5, <3>6, <3>7, <3>8, <3>9, Zenon DEF FedTo
  <2> QED
    BY <1>1, <1>3, <1>4, <2>2, <2>3, <2>4, <2>5, <2>6, SMTT(30) DEF FedInv
<1>6. CASE ~(unread[c] < Cap)
  <2>1. got' = got /\ lost' = lost \cup {c}
    BY <1>6, Zenon DEF BroadcastOffer
  <2>2. ASSUME NEW d \in Channels, NEW t \in Turns, ~(t = p /\ d = c)
        PROVE  FedTo(d, t)'
    <3>1. Places(d, t)' = Places(d, t) /\ \A i \in Places(d, t) : got'[d][i] = got[d][i]
      BY <2>1, Zenon DEF Places
    <3> QED
      BY <1>1, <1>3, <2>1, <2>2, <3>1, FedKept, Zenon DEF FedInv
  <2>3. FedTo(c, p)'
    <3>1. Offered(c, p) = Len(shown[p]) - 1 /\ Offered(c, p)' = Len(shown[p])
      BY <1>1, <1>2, <1>3, Zenon DEF Offered
    <3>2. Places(c, p)' = Places(c, p) /\ FedTo(c, p)
      BY <2>1, Zenon DEF Places, FedInv
    <3>3. \A i \in Places(c, p) : got[c][i][2] \in Nat
      <4>1. \A i \in Places(c, p) : got[c][i] \in Procs \X Nat
        BY SMTT(30) DEF Places, FedInv
      <4> QED
        BY <4>1, Zenon
    <3> QED
      BY <1>1, <1>2, <2>1, <3>1, <3>2, <3>3 DEF FedTo
  <2> QED
    BY <1>1, <1>3, <2>1, <2>2, <2>3, Zenon DEF FedInv
<1> QED
  BY <1>5, <1>6, Zenon

\* The beginning of a Broadcast.
LEMMA FedTell ==
  ASSUME ChannelInv, ContractInv, FedInv, NEW p \in Turns, Tell(p)
  PROVE  FedInv'
<1> USE DEF Turns
<1> DEFINE N == Len(shown[p])
<1>1. /\ cur[p] = <<>> /\ left[p] = {}
      /\ cur' = [cur EXCEPT ![p] = <<p, N + 1>>]
      /\ left' = [left EXCEPT ![p] = subs[KeyOf[p]]]
      /\ shown' = [shown EXCEPT ![p] = Append(@, Event(Head(outs[p])))]
      /\ subs' = subs /\ used' = used /\ got' = got /\ lost' = lost
  BY Zenon DEF Tell, BroadcastBegin, ChannelInv
<1>2. N \in Nat /\ Len(shown'[p]) = N + 1 /\ \A t \in Turns \ {p} : shown'[t] = shown[t]
  <2>1. PICK S : shown[p] \in Seq(S)
    BY Zenon DEF ContractInv, TurnInv, IsSequence
  <2>2. shown[p] \in Seq(S \cup {Event(Head(outs[p]))})
    BY <2>1
  <2>3. shown'[p] = Append(shown[p], Event(Head(outs[p])))
    BY <1>1, Zenon DEF ContractInv
  <2> QED
    BY <1>1, <2>2, <2>3 DEF ContractInv
<1>3. KeyOf[p] \in Keys
  BY OutputAssumption, Zenon
<1>4. /\ left'[p] = subs[KeyOf[p]] /\ cur'[p] = <<p, N + 1>>
      /\ \A t \in Turns \ {p} : left'[t] = left[t] /\ cur'[t] = cur[t]
  BY <1>1, Zenon DEF ChannelInv
<1> HIDE DEF N
<1>5. ASSUME NEW c \in Channels, NEW t \in Turns \ {p} PROVE FedTo(c, t)'
  <2>1. Places(c, t)' = Places(c, t) /\ \A i \in Places(c, t) : got'[c][i] = got[c][i]
    BY <1>1, Zenon DEF Places
  <2> QED
    BY <1>1, <1>2, <1>4, <2>1, FedKept, Zenon DEF FedInv
<1>6. ASSUME NEW c \in Channels PROVE FedTo(c, p)'
  <2>1. Places(c, p)' = Places(c, p) /\ FedTo(c, p)
    BY <1>1, Zenon DEF Places, FedInv
  <2>2. Offered(c, p) = N
    BY <1>1, <1>2, Zenon DEF Offered, N
  <2>3. Offered(c, p)' = IF c \in subs[KeyOf[p]] THEN N ELSE N + 1
    BY <1>2, <1>4 DEF Offered, N
  <2>4. \A i \in Places(c, p) : got[c][i][2] \in Nat
    <3>1. \A i \in Places(c, p) : got[c][i] \in Procs \X Nat
      <4>1. got[c] \in Seq(Procs \X Nat)
        BY Zenon DEF FedInv
      <4>2. \A i \in DOMAIN got[c] : got[c][i] \in Procs \X Nat
        BY <4>1
      <4> QED
        BY <4>2, Zenon DEF Places
    <3> QED
      BY <3>1, Zenon
  <2>5. /\ \A i \in Places(c, p) : got[c][i][2] <= N
        /\ \A i, j \in Places(c, p) : i < j => got[c][i][2] < got[c][j][2]
        /\ c \notin lost => \A i, j \in Places(c, p) :
             i < j /\ (\A l \in Places(c, p) : l <= i \/ j <= l)
               => got[c][j][2] = got[c][i][2] + 1
        /\ \A k \in Keys : c \in subs[k] /\ Places(c, p) # {} =>
             /\ k = KeyOf[p]
             /\ c \notin lost => \E i \in Places(c, p) : got[c][i][2] = N
    BY <2>1, <2>2, ZenonT(30) DEF FedTo
  <2>6. \A i \in Places(c, p) : got[c][i][2] <= Offered(c, p)'
    BY <1>2, <2>3, <2>4, <2>5
  <2>7. \A k \in Keys : c \in subs'[k] /\ Places(c, p) # {} =>
          /\ k = KeyOf[p]
          /\ c \notin lost' => \E i \in Places(c, p) : got[c][i][2] = Offered(c, p)'
    BY <1>1, <2>3, <2>5, Zenon
  <2> QED
    BY <1>1, <2>1, <2>5, <2>6, <2>7, ZenonT(30) DEF FedTo
<1>7. \A t \in Turns : cur'[t] \in {<<>>, <<t, Len(shown'[t])>>}
  BY <1>2, <1>4, Zenon DEF FedInv
<1>8. \A t \in Turns : left'[t] \subseteq subs'[KeyOf[t]]
  BY <1>1, <1>4, Zenon DEF FedInv
<1> QED
  BY <1>1, <1>5, <1>6, <1>7, <1>8 DEF FedInv

\* The end of a Broadcast, and every step that no channel notices.
LEMMA FedQuiet ==
  ASSUME FedInv, ContractInv,
         UNCHANGED <<got, subs, used, left, lost, shown>>,
         \A t \in Turns : cur'[t] \in {<<>>, cur[t]}
  PROVE  FedInv'
<1>1. ASSUME NEW c \in Channels, NEW t \in Turns PROVE FedTo(c, t)'
  <2>1. Places(c, t)' = Places(c, t) /\ \A i \in Places(c, t) : got'[c][i] = got[c][i]
    BY Zenon DEF Places
  <2> QED
    BY <2>1, FedKept, Zenon DEF FedInv
<1> QED
  BY <1>1, Zenon DEF FedInv

\* Subscribers come and go only while no Broadcast runs.
LEMMA FedSubscribers ==
  ASSUME ChannelInv, ContractInv, FedInv, Subscribers
  PROVE  FedInv'
<1> USE DEF Turns
<1>0. shown' = shown
  BY Zenon DEF Subscribers, tvars
<1>1. ASSUME NEW k \in Keys, NEW c \in scene.chans, Subscribe(k, c)
      PROVE  FedInv'
  <2>1. /\ c \in Channels /\ got[c] = <<>>
        /\ subs' = [subs EXCEPT ![k] = @ \cup {c}]
        /\ used' = used \cup {c}
        /\ UNCHANGED <<got, left, cur, lost>>
    BY <1>1, Zenon DEF Subscribe, ChannelInv, FedInv
  <2>2. \A j \in Keys : subs[j] \subseteq subs'[j] /\ subs'[j] \subseteq subs[j] \cup {c}
    BY <2>1, Zenon DEF ChannelInv
  <2>3. ASSUME NEW d \in Channels \ {c}, NEW t \in Turns PROVE FedTo(d, t)'
    <3>1. Places(d, t)' = Places(d, t) /\ \A i \in Places(d, t) : got'[d][i] = got[d][i]
      BY <2>1, Zenon DEF Places
    <3> QED
      BY <1>0, <2>1, <2>2, <3>1, FedKept, Zenon DEF FedInv
  <2>4. ASSUME NEW t \in Turns PROVE FedTo(c, t)'
    <3>1. Places(c, t)' = {}
      BY <2>1 DEF Places
    <3> QED
      BY <3>1, Zenon DEF FedTo
  <2>5. \A t \in Turns : KeyOf[t] \in Keys
    BY OutputAssumption, Zenon
  <2> QED
    BY <1>0, <2>1, <2>2, <2>3, <2>4, <2>5, Zenon DEF FedInv
<1>2. ASSUME Exclusive, \A k \in Keys : subs'[k] \subseteq subs[k],
             UNCHANGED <<used, got, left, cur, lost>>
      PROVE  FedInv'
  <2>1. \A t \in Turns : left'[t] = {}
    BY <1>2, Zenon DEF Exclusive, ChannelInv
  <2>2. ASSUME NEW c \in Channels, NEW t \in Turns PROVE FedTo(c, t)'
    <3>1. Places(c, t)' = Places(c, t) /\ \A i \in Places(c, t) : got'[c][i] = got[c][i]
      BY <1>2, Zenon DEF Places
    <3> QED
      BY <1>0, <1>2, <3>1, FedKept, Zenon DEF FedInv
  <2> QED
    BY <1>0, <1>2, <2>1, <2>2, Zenon DEF FedInv
<1>3. ASSUME NEW k \in Keys,
             Close(k) \/ \E c \in scene.chans : Unsubscribe(k, c)
      PROVE  FedInv'
  <2>1. Exclusive /\ UNCHANGED <<used, got, left, cur, lost>>
    BY <1>3, Zenon DEF Close, Unsubscribe, CloseChannels
  <2>2. \A j \in Keys : subs'[j] \subseteq subs[j]
    BY <1>3, Zenon DEF Close, Unsubscribe, ChannelInv
  <2> QED
    BY <1>2, <2>1, <2>2, Zenon
<1>4. CASE CloseAll
  <2>1. Exclusive /\ UNCHANGED <<used, got, left, cur, lost>>
    BY <1>4, Zenon DEF CloseAll, CloseChannels
  <2>2. \A j \in Keys : subs'[j] \subseteq subs[j]
    BY <1>4, Zenon DEF CloseAll, ChannelInv
  <2> QED
    BY <1>2, <2>1, <2>2, Zenon
<1>5. ASSUME NEW c \in Channels, Consume(c)
      PROVE  FedInv'
  BY <1>0, <1>5, FedQuiet, Zenon DEF Consume
<1> QED
  BY <1>1, <1>3, <1>4, <1>5, Zenon DEF Subscribers

\* Nothing has been broadcast yet.
LEMMA FedInit == Init => FedInv
<1> SUFFICES ASSUME Init PROVE FedInv
  BY Zenon
<1> USE DEF Turns
<1>1. /\ got = [c \in Channels |-> <<>>] /\ \A t \in Turns : cur[t] = <<>> /\ left[t] = {}
  BY Zenon DEF Init, NewBroadcaster
<1>2. <<>> \in Seq(Procs \X Nat)
  OBVIOUS
<1>3. ASSUME NEW c \in Channels, NEW t \in Turns PROVE FedTo(c, t)
  <2>1. Places(c, t) = {}
    BY <1>1 DEF Places
  <2> QED
    BY <2>1, ZenonT(30) DEF FedTo
<1> QED
  BY <1>1, <1>2, <1>3, Zenon DEF FedInv

LEMMA FedStep == ChannelInv /\ ContractInv /\ FedInv /\ [Next]_vars => FedInv'
<1> SUFFICES ASSUME ChannelInv, ContractInv, FedInv, [Next]_vars PROVE FedInv'
  BY Zenon
<1>1. CASE UNCHANGED <<bvars, shown>>
  BY <1>1, FedQuiet, Zenon DEF bvars
<1>2. ASSUME NEW t \in scene.turns,
             \/ NoConnection(t) \/ Enter(t) \/ Aborted(t) \/ Persist(t) \/ Leave(t)
             \/ \E cause \in Causes : Cut(t, cause)
             \/ \E m \in scene.messages : Frame(t, m)
      PROVE  UNCHANGED <<bvars, shown>>
  BY <1>2, Zenon DEF NoConnection, Enter, Aborted, Persist, Leave, Cut, Frame, Quiet
<1>3. ASSUME NEW t \in scene.turns, Tell(t)
      PROVE  FedInv'
  BY <1>3, FedTell, Zenon DEF ChannelInv
<1>4. ASSUME NEW t \in scene.turns, Deliver(t)
      PROVE  FedInv'
  <2>1. t \in Turns /\ UNCHANGED <<tvars, scene>>
    BY <1>4, Zenon DEF ChannelInv, Deliver
  <2>2. CASE BroadcastEnd(t)
    <3>1. \A u \in Turns : cur'[u] \in {<<>>, cur[u]}
      BY <2>1, <2>2, Zenon DEF BroadcastEnd, ChannelInv, Turns
    <3> QED
      BY <2>1, <2>2, <3>1, FedQuiet, Zenon DEF BroadcastEnd, tvars
  <2>3. ASSUME NEW c \in Channels, BroadcastOffer(t, c) PROVE FedInv'
    BY <2>1, <2>3, FedOffer, Zenon
  <2> QED
    BY <1>4, <2>2, <2>3, Zenon DEF Deliver
<1> QED
  BY <1>1, <1>2, <1>3, <1>4, FedSubscribers, Zenon DEF Next, Step, vars, tvars

(***************************************************************************)
(* A subscriber gets the events of the turns of its key only, each turn's  *)
(* in the order they were broadcast and without a gap unless its channel   *)
(* was once full, however broadcasts of several turns, Subscribe,          *)
(* Unsubscribe, Close and CloseAll interleave (src/appkit/broadcaster.go). *)
(***************************************************************************)
THEOREM SubscribersFed == Spec => []FedInOrder
<1>1. ChannelInv /\ FedInv => FedInOrder
  <2> SUFFICES ASSUME ChannelInv, FedInv, NEW c \in Channels, NEW t \in Turns
               PROVE  FedTo(c, t) /\ (cur[t] = <<>> => Offered(c, t) = Len(shown[t]))
    BY DEF FedInOrder, FedTo
  <2>1. FedTo(c, t)
    BY Zenon DEF FedInv
  <2>2. cur[t] = <<>> => left[t] = {}
    BY Zenon DEF ChannelInv, Turns
  <2> QED
    BY <2>1, <2>2, ZenonT(30) DEF Offered
<1>2. ContractInv /\ [Next]_vars => ContractInv'
  BY ContractStep, Zenon
<1> QED
  BY <1>1, <1>2, ChannelInit, ChannelStep, ContractStart, FedInit, FedStep, PTL DEF Spec

=============================================================================
