------------------------------- MODULE MCRpc -------------------------------
(* Instances of Rpc for TLC: calls r1 of RequestResponse, r2 of LoopDetach *)
(* and r3 of LoopSubscribe.                                                *)
EXTENDS Rpc, TLC

CONSTANTS r1, r2, r3

=============================================================================
