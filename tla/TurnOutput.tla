----------------------------- MODULE TurnOutput -----------------------------
(***************************************************************************)
(* What a turn shows and stores (src/appkit/turn_runner.go): runTurn       *)
(* classifies each message, accumulates the reply, broadcasts fragments    *)
(* and, when the turn is over, writes one row to the store and broadcasts  *)
(* the outcome.  Turns of one app key share its subscribers; a turn that   *)
(* finds the QueryGate taken reports its failure to them as well.          *)
(*                                                                         *)
(* When a frame ends a turn is TurnBoundary's decision (module             *)
(* TurnStream); here it is the flag "ends" of the message.  Messages that  *)
(* runTurn discards before it is armed show nothing and are left out.      *)
(***************************************************************************)
EXTENDS Classifier, Broadcaster

CONSTANTS
  KeyOf,       \* per turn: its app key.  The turns are the Procs
  NoTurn,      \* the gate of a key is free
  Messages,    \* the decoded messages a stream delivers
  Scenes       \* the situations looked at, see SceneType

Turns == Procs
Causes == {"query_timeout", "idle_timeout", "stream_closed"}

\* A situation: the turns, channels and messages that occur, a bound on the
\* messages, and the configuration: the causes that soft-complete a turn, and
\* TreatStatusIdleAsComplete without GateTurnEndSignals.
SceneType ==
  [turns : SUBSET Turns, chans : SUBSET Channels, messages : SUBSET Messages,
   frames : Nat, soft : SUBSET Causes, treatIdle : BOOLEAN]

ASSUME OutputAssumption ==
  /\ KeyOf \in [Turns -> Keys]
  /\ NoTurn \notin Turns
  /\ Scenes \subseteq SceneType

VARIABLES
  gate,     \* QueryGate: per key the turn in flight, or NoTurn
  pc,       \* per turn: "new", "loop", "ending" or "done"
  acc,      \* per turn: assistantContent
  outs,     \* per turn: rows and events it is about to write and broadcast
  shown,    \* per turn: the events [type, text] it has broadcast
  rows,     \* the store's rows [turn, type, text]
  frames,   \* messages read so far
  fed,      \* history: per turn, how many runes the daemon sent it
  scene     \* the situation

tvars == <<gate, pc, acc, outs, shown, rows, frames, fed>>
vars == <<bvars, tvars, scene>>

\* An output: to subscribers or to the store, of the type of its event.
Out(to, type, text) == [to |-> to, type |-> type, text |-> text]
Event(o) == [type |-> o.type, text |-> o.text]

Init ==
  /\ NewBroadcaster
  /\ gate = [k \in Keys |-> NoTurn]
  /\ pc = [t \in Turns |-> "new"]
  /\ acc = [t \in Turns |-> <<>>]
  /\ outs = [t \in Turns |-> <<>>]
  /\ shown = [t \in Turns |-> <<>>]
  /\ rows = <<>>
  /\ frames = 0
  /\ fed = [t \in Turns |-> 0]
  /\ scene \in Scenes

\* Mutant of Finish: the outcome is broadcast before its row is stored.
FinishToldFirst(type, text) == <<Out("key", type, text), Out("store", type, text)>>

\* completeTurn and the error exits: first the row, then the broadcast.
Finish(type, text) == <<Out("store", type, text), Out("key", type, text)>>
Failure == Finish("query_error", <<>>)

End(t, what) ==
  /\ outs' = [outs EXCEPT ![t] = what]
  /\ pc' = [pc EXCEPT ![t] = "ending"]

Quiet == UNCHANGED <<bvars, scene, shown, rows>>

\* Execute: pool.Acquire fails
NoConnection(t) ==
  /\ pc[t] = "new"
  /\ End(t, Failure)
  /\ UNCHANGED <<gate, acc, frames, fed>>
  /\ Quiet

\* Execute: gate.Acquire
Enter(t) ==
  /\ pc[t] = "new"
  /\ IF gate[KeyOf[t]] = NoTurn
     THEN /\ gate' = [gate EXCEPT ![KeyOf[t]] = t]
          /\ pc' = [pc EXCEPT ![t] = "loop"]
          /\ outs' = outs
     ELSE gate' = gate /\ End(t, Failure)
  /\ UNCHANGED <<acc, frames, fed>>
  /\ Quiet

\* runTurn may take its next step: nothing is left to write or broadcast.
Ready(t) == pc[t] = "loop" /\ outs[t] = <<>> /\ cur[t] = <<>>

\* SendMessage fails, or the turn's context is cancelled
Aborted(t) ==
  /\ Ready(t)
  /\ End(t, Failure)
  /\ UNCHANGED <<gate, acc, frames, fed>>
  /\ Quiet

\* A timeout (finishTimeout), or the event channel is closed
Cut(t, cause) ==
  /\ Ready(t)
  /\ End(t, IF cause \in scene.soft /\ TrimSpace(acc[t]) # <<>>
            THEN Finish("complete", acc[t]) ELSE Failure)
  /\ UNCHANGED <<gate, acc, frames, fed>>
  /\ Quiet

\* strings.HasPrefix
HasPrefix(s, prefix) == Len(prefix) <= Len(s) /\ SubSeq(s, 1, Len(prefix)) = prefix

\* Mutant of Accumulate: text that is appended is not broadcast.
AccumulateSilently(old, content) ==
  IF HasPrefix(content, old)
  THEN [text |-> content, delta |-> SubSeq(content, Len(old) + 1, Len(content))]
  ELSE [text |-> old \o content, delta |-> <<>>]

\* Content that repeats what is there and goes on replaces it, else it is appended.
Accumulate(old, content) ==
  IF content = <<>> THEN [text |-> old, delta |-> <<>>]
  ELSE IF HasPrefix(content, old)
  THEN [text |-> content, delta |-> SubSeq(content, Len(old) + 1, Len(content))]
  ELSE [text |-> old \o content, delta |-> content]

\* An output that runTurn broadcasts only if it has text.
Unless(type, text) == IF text = <<>> THEN <<>> ELSE <<Out("key", type, text)>>

\* One message of the stream
Frame(t, m) ==
  LET r == Classify(m, acc[t], scene.treatIdle)
      a == Accumulate(acc[t], r.content)
      final == ResolveDeliverableFinalContent(r, a.text)
      early == final # <<>> /\ r.completion # {"status.idle"}
      told == Unless("thinking_step", r.step) \o Unless("delta", a.delta)
  IN  /\ Ready(t)
      /\ frames < scene.frames
      /\ frames' = frames + 1
      /\ fed' = [fed EXCEPT ![t] = @ + Len(m.text)]
      /\ IF r.terminal = "failed"
         THEN End(t, Failure) /\ acc' = acc
         ELSE /\ acc' = [acc EXCEPT ![t] = a.text]
              /\ CASE early -> End(t, told \o Finish("complete", final))
                   [] ~early /\ m.ends ->
                        End(t, told \o (IF IsSubstantiveAssistantReply(a.text)
                                        THEN Finish("complete", TrimSpace(a.text))
                                        ELSE Failure))
                   [] OTHER -> outs' = [outs EXCEPT ![t] = told] /\ pc' = pc
      /\ UNCHANGED gate
      /\ Quiet

\* persistResponse, persistFailed: an error of the store is only logged.
Persist(t) ==
  /\ outs[t] # <<>>
  /\ Head(outs[t]).to = "store"
  /\ cur[t] = <<>>
  /\ outs' = [outs EXCEPT ![t] = Tail(@)]
  /\ \/ rows' = Append(rows, [turn |-> t, type |-> Head(outs[t]).type,
                              text |-> Head(outs[t]).text])
     \/ rows' = rows
  /\ UNCHANGED <<bvars, scene, gate, pc, acc, shown, frames, fed>>

\* broadcastDelta, broadcastThinkingStep, broadcastComplete, broadcastError
Tell(t) ==
  /\ outs[t] # <<>>
  /\ Head(outs[t]).to = "key"
  /\ BroadcastBegin(t, KeyOf[t], <<t, Len(shown[t]) + 1>>)
  /\ shown' = [shown EXCEPT ![t] = Append(@, Event(Head(outs[t])))]
  /\ outs' = [outs EXCEPT ![t] = Tail(@)]
  /\ UNCHANGED <<scene, gate, pc, acc, rows, frames, fed>>

\* Execute returns; its deferred gate.Release runs if it had the gate.
Leave(t) ==
  /\ pc[t] = "ending"
  /\ outs[t] = <<>>
  /\ cur[t] = <<>>
  /\ pc' = [pc EXCEPT ![t] = "done"]
  /\ acc' = [acc EXCEPT ![t] = <<>>]
  /\ gate' = [gate EXCEPT ![KeyOf[t]] = IF @ = t THEN NoTurn ELSE @]
  /\ UNCHANGED <<bvars, scene, outs, shown, rows, frames, fed>>

Deliver(t) ==
  /\ (\E c \in Channels : BroadcastOffer(t, c)) \/ BroadcastEnd(t)
  /\ UNCHANGED <<tvars, scene>>

Step(t) == Persist(t) \/ Tell(t) \/ Deliver(t) \/ Leave(t)

Subscribers ==
  /\ \/ \E k \in Keys, c \in scene.chans : Subscribe(k, c) \/ Unsubscribe(k, c)
     \/ \E k \in Keys : Close(k)
     \/ CloseAll
     \/ \E c \in Channels : Consume(c)
  /\ UNCHANGED <<tvars, scene>>

Next ==
  \/ \E t \in scene.turns :
       \/ NoConnection(t) \/ Enter(t) \/ Aborted(t) \/ Step(t)
       \/ \E cause \in Causes : Cut(t, cause)
       \/ \E m \in scene.messages : Frame(t, m)
  \/ Subscribers

Spec == Init /\ [][Next]_vars

\* A goroutine that has work does it, and a turn's query timer runs out.
Fairness == \A t \in Turns : WF_vars(Step(t)) /\ WF_vars(Cut(t, "query_timeout"))

LiveSpec == Spec /\ Fairness

-----------------------------------------------------------------------------
\* The state is well formed: what a turn still has to say is empty once it is done.
TypeOK ==
  /\ BroadcasterTypeOK
  /\ gate \in [Keys -> Turns \cup {NoTurn}]
  /\ pc \in [Turns -> {"new", "loop", "ending", "done"}]
  /\ frames \in 0 .. scene.frames
  /\ \A t \in Turns : pc[t] = "done" => outs[t] = <<>> /\ cur[t] = <<>>
  /\ scene \in Scenes

\* Broadcasts that run beside Unsubscribe, Close and CloseAll never send on a
\* closed channel, and no channel is closed twice (either would panic).
NoPanic == ~panic

\* The places of the events of turn t among those channel c was sent.
Places(c, t) == {i \in DOMAIN got[c] : got[c][i][1] = t}

\* A subscriber of a key gets the events of each turn of that key, and of no
\* other, in the order the turn broadcast them.  Unless its channel was once full
\* it gets, from its first event of a turn on, every one up to the last.
FedInOrder ==
  \A c \in Channels, t \in Turns :
    LET P == Places(c, t)
        n(i) == got[c][i][2]
    IN  /\ \A i, j \in P : i < j => n(i) < n(j)
        /\ c \notin lost => \A i, j \in P :
             i < j /\ (\A l \in P : l <= i \/ j <= l) => n(j) = n(i) + 1
        /\ \A k \in Keys : c \in subs[k] /\ P # {} =>
             /\ k = KeyOf[t]
             /\ c \notin lost /\ cur[t] = <<>> => \E i \in P : n(i) = Len(shown[t])

\* The text a subscriber puts together from the fragments of a turn.
Streamed(t) ==
  LET joined[i \in 0 .. Len(shown[t])] ==
        IF i = 0 THEN <<>>
        ELSE joined[i - 1] \o
             (IF shown[t][i].type = "delta" THEN shown[t][i].text ELSE <<>>)
  IN  joined[Len(shown[t])]

\* s ends with suffix.
IsSuffix(suffix, s) ==
  /\ Len(suffix) <= Len(s)
  /\ SubSeq(s, Len(s) - Len(suffix) + 1, Len(s)) = suffix

\* The reply that "complete" carries was streamed: whoever joined the fragments of
\* the turn sees it at the end of the joined text, up to white space, although
\* fragments replace or extend each other and the reply is picked by phase.
ReplyStreamed ==
  \A t \in Turns : \A i \in DOMAIN shown[t] :
    shown[t][i].type = "complete" =>
      /\ TrimSpace(shown[t][i].text) # <<>>
      /\ IsSuffix(TrimSpace(shown[t][i].text), TrimSpace(Streamed(t)))

\* The text of a turn is never longer than what the daemon sent for it, with the
\* default classifier configuration: nothing is accumulated twice.
NothingRepeated == \A t \in Turns : ~scene.treatIdle => Len(acc[t]) <= fed[t]

\* With TreatStatusIdleAsComplete as well (not checked: an idle repeats the text).
NothingRepeatedEver == \A t \in Turns : Len(acc[t]) <= fed[t]

Last(s) == s[Len(s)]

\* A turn has decided once it has left the loop; the verdict is the last thing it
\* says or has said.
Undecided == Event(Out("key", "delta", <<>>))
Verdict ==
  [t \in Turns |-> IF pc[t] \in {"new", "loop"} THEN Undecided
                   ELSE IF outs[t] # <<>> THEN Event(Last(outs[t])) ELSE Last(shown[t])]

Contract == INSTANCE TurnContract WITH verdict <- Verdict

\* TurnOutput implements TurnContract: every turn announces exactly one outcome,
\* after all it streamed and after its one row, which tells the same outcome and
\* the same text, whichever exit of Execute, runTurn or finishTimeout it takes.
KeepsContract == Contract!ContractSpec

\* A turn in its loop returns, although no subscriber ever reads its channel: a
\* full channel is skipped and never waited for.
TurnsReturn == \A t \in Turns : pc[t] = "loop" ~> pc[t] = "done"

=============================================================================
