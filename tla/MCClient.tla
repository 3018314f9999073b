------------------------------ MODULE MCClient ------------------------------
(* Instances of Client for TLC: a closer k1 and a sender s1. *)
EXTENDS Client, TLC

CONSTANTS k1, s1

(* One connection with a closer and write errors; three connections, each    *)
(* made when the reader of the last one has ended.                           *)
Once == [dials |-> 1, closers |-> {k1}, errors |-> TRUE, wait |-> FALSE]
Reconnects == [dials |-> 3, closers |-> {}, errors |-> FALSE, wait |-> TRUE]
MCScenes == {Once, Reconnects}

(* One connection whose writes may fail *)
Broken == [dials |-> 1, closers |-> {}, errors |-> TRUE, wait |-> FALSE]
MCBrokenScenes == {Broken}

=============================================================================
