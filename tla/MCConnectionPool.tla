-------------------------- MODULE MCConnectionPool --------------------------
(* Instances of ConnectionPool for TLC. *)
EXTENDS ConnectionPool, TLC

CONSTANTS c1, c2, k1, k2

(* One caller passes every key; the other shares one of them. *)
Shared == {<<c1, k1>>, <<c2, k1>>, <<c2, k2>>}

(* Each caller has a key of its own. *)
OwnKey == {<<c1, k1>>, <<c2, k2>>}

MCUses == {Shared, OwnKey}

=============================================================================
