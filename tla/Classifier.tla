----------------------------- MODULE Classifier -----------------------------
(***************************************************************************)
(* EventClassifier (src/appkit/classifier.go, thinking_step.go): what one  *)
(* decoded message means for the turn that reads it.                       *)
(*                                                                         *)
(* A text is a sequence of runes of which only Blank is white space.  A    *)
(* message is a record:                                                    *)
(*   type   its Go type: "event", "envelope", "error" or "status"          *)
(*   mode   of an event: "messages" or "custom"; of an envelope its type,  *)
(*          of a status its state                                          *)
(*   has    the patterns the event's namespace or data type contains,      *)
(*          phases among them.  "reported" stands for EventFinalReport     *)
(*          itself, "step" for a type on the thinking-step allowlist,      *)
(*          "turn_end" for data IsTurnEndCustomData accepts                *)
(*   mtype  of a message payload: "chunk" (a streaming type), "ai" (a      *)
(*          terminal type or none) or "other"                              *)
(*   phase  of a message payload, or NoPhase                               *)
(*   text   what the content extractors find in it, possibly empty         *)
(***************************************************************************)
EXTENDS Integers, Sequences

CONSTANTS
  Blank,                \* the white-space rune
  NoPhase,              \* a payload without phase
  LoopPhases,           \* isLoopAssistantPhase
  DeliverablePhases,    \* ClassifierConfig.DeliverablePhases
  MinDeliverableRunes   \* ClassifierConfig.MinDeliverableRunes

ASSUME ClassifierAssumption ==
  /\ MinDeliverableRunes \in Nat \ {0}
  /\ NoPhase \notin LoopPhases \cup DeliverablePhases

TrimSpace(s) ==
  LET inked == {i \in DOMAIN s : s[i] # Blank}
      first == CHOOSE i \in inked : \A j \in inked : i <= j
      last == CHOOSE i \in inked : \A j \in inked : i >= j
  IN  IF inked = {} THEN <<>> ELSE SubSeq(s, first, last)

IsSubstantiveAssistantReply(s) == Len(TrimSpace(s)) >= MinDeliverableRunes

Result(content, step, terminal, completion) ==
  [content |-> content, step |-> step, terminal |-> terminal, completion |-> completion]

continueResult(content) == Result(content, <<>>, "continue", {})
deliverableResult(content, completion) == Result(content, <<>>, "deliverable", completion)
failedResult == Result(<<>>, <<>>, "failed", {})
thinkingStepResult(step) == Result(<<>>, TrimSpace(step), "continue", {})

\* The length cut of a long line is layout; a blank line is no step.
extractThinkingStep(m) == "step" \in m.has /\ TrimSpace(m.text) # <<>>

\* A payload with text: only a whole message of a deliverable phase that is long
\* enough completes; everything else is text to accumulate.
MessageResult(m) ==
  LET final == /\ m.mtype # "chunk"
               /\ m.phase \in LoopPhases \/ m.mtype = "ai"
               /\ m.phase \in DeliverablePhases
               /\ IsSubstantiveAssistantReply(m.text)
      unphased == m.phase = NoPhase /\ m.mtype = "ai" /\ TrimSpace(m.text) # <<>>
  IN  CASE final    -> deliverableResult(m.text, {"message", m.phase})
        [] unphased -> continueResult(TrimSpace(m.text))
        [] OTHER    -> continueResult(m.text)

isFinalOutputEvent(m) == m.has \cap ({"final_report"} \cup DeliverablePhases) # {}

\* Events told apart by namespace, in the order of the code's tests.
DataResult(m) ==
  LET texted(pats) == m.text # <<>> /\ m.has \cap pats # {}
  IN  IF texted({"output", "responded"}) /\ isFinalOutputEvent(m)
      THEN deliverableResult(m.text, m.has)
      ELSE IF texted({"output", "responded", "completed"}) THEN continueResult(m.text)
      ELSE IF texted({"final_report"}) THEN deliverableResult(m.text, m.has)
      ELSE IF "error" \in m.has THEN failedResult
      ELSE IF "stream" \in m.has THEN continueResult(m.text)
      ELSE continueResult(<<>>)

\* processChatEvent as TurnRunner calls it, through Classify: the gate is nil, so
\* a turn end never completes here and an idle does unless GateTurnEndSignals.
Classify(m, accumulated, treatIdle) ==
  CASE m.type = "event" ->
         IF m.mode # "messages" /\ "replayed" \in m.has THEN continueResult(<<>>)
         ELSE IF m.mode # "messages" /\ extractThinkingStep(m) THEN thinkingStepResult(m.text)
         ELSE IF m.mode = "custom" /\ "turn_end" \in m.has THEN continueResult(<<>>)
         ELSE IF m.mode # "messages" THEN DataResult(m)
         ELSE IF m.text # <<>> THEN MessageResult(m)
         ELSE continueResult(<<>>)
    [] m.type = "envelope" -> IF m.mode = "error" THEN failedResult ELSE continueResult(<<>>)
    [] m.type = "error" -> failedResult
    [] m.type = "status" ->
         IF treatIdle /\ m.mode = "idle" /\ IsSubstantiveAssistantReply(accumulated)
         THEN deliverableResult(TrimSpace(accumulated), {"status.idle"})
         ELSE continueResult(<<>>)

IsDeliverableCompletionEvent(c) ==
  \/ c \cap {"status.idle", "reported"} # {}
  \/ "message" \in c /\ c \cap DeliverablePhases # {}
  \/ {"output", "responded"} \subseteq c

\* The reply of a deliverable result, <<>> when there is none.
ResolveDeliverableFinalContent(r, accumulated) ==
  IF ~(r.terminal = "deliverable" /\ IsDeliverableCompletionEvent(r.completion)) THEN <<>>
  ELSE IF TrimSpace(r.content) # <<>> THEN TrimSpace(r.content)
  ELSE IF IsSubstantiveAssistantReply(accumulated) THEN TrimSpace(accumulated)
  ELSE <<>>

=============================================================================
