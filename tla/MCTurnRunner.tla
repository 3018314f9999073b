---------------------------- MODULE MCTurnRunner ----------------------------
(* Instances of TurnRunner for TLC: turns t1, t2, t3 and cancellers x1, x2. *)
EXTENDS TurnRunner, TLC

CONSTANTS t1, t2, t3, x1, x2

(* Three turns; a turn and two cancels; three turns and a cancel, which share *)
(* one connection.                                                            *)
Crowd == {t1, t2, t3, x1}
MCScenes == {{t1, t2, t3}, {t1, x1, x2}, {t2, x1, x2}, Crowd}
MCConnsIn == [s \in MCScenes |-> IF s = Crowd THEN 1 ELSE 2]

(* Two turns of Execute *)
MCBusyScenes == {{t1, t2}}
MCBusyConnsIn == [s \in MCBusyScenes |-> 1]

=============================================================================
