---------------------------- MODULE TurnContract ----------------------------
(***************************************************************************)
(* What TurnRunner promises about a turn to those who watch it: "The       *)
(* response is broadcast via the SSE broadcaster and persisted via the     *)
(* LoopSessionStore" (src/appkit/turn_runner.go, Execute).  A turn shows   *)
(* progress, reaches one verdict, stores at most one row, which agrees     *)
(* with the verdict, and announces the verdict once; nothing of it is      *)
(* shown afterwards.                                                       *)
(***************************************************************************)
EXTENDS Sequences

CONSTANTS Turns, Undecided

VARIABLES
  shown,     \* per turn: the outputs [type, text] it has broadcast
  rows,      \* the stored rows [turn, type, text]
  verdict    \* per turn: its outcome, an output of a terminal type

cvars == <<shown, rows, verdict>>

Partial == {"delta", "thinking_step"}
Terminal == {"complete", "query_error"}

Last(s) == s[Len(s)]

Announced(t) == shown[t] # <<>> /\ Last(shown[t]).type \in Terminal

ContractInit ==
  /\ shown = [t \in Turns |-> <<>>]
  /\ rows = <<>>
  /\ verdict = [t \in Turns |-> Undecided]

ShowOne(t, o) == shown' = [shown EXCEPT ![t] = Append(@, o)]

Show(t) ==
  /\ ~Announced(t)
  /\ shown'[t] # <<>>
  /\ Last(shown'[t]).type \in Partial
  /\ ShowOne(t, Last(shown'[t]))
  /\ UNCHANGED <<rows, verdict>>

Decide(t) ==
  /\ verdict[t] = Undecided
  /\ verdict'[t].type \in Terminal
  /\ verdict' = [verdict EXCEPT ![t] = verdict'[t]]
  /\ UNCHANGED <<shown, rows>>

Store(t) ==
  /\ verdict[t] # Undecided
  /\ ~Announced(t)
  /\ \A i \in DOMAIN rows : rows[i].turn # t
  /\ rows' = Append(rows, [turn |-> t, type |-> verdict[t].type, text |-> verdict[t].text])
  /\ UNCHANGED <<shown, verdict>>

Announce(t) ==
  /\ verdict[t] # Undecided
  /\ ~Announced(t)
  /\ ShowOne(t, verdict[t])
  /\ UNCHANGED <<rows, verdict>>

ContractNext == \E t \in Turns : Show(t) \/ Decide(t) \/ Store(t) \/ Announce(t)

ContractSpec == ContractInit /\ [][ContractNext]_cvars

=============================================================================
