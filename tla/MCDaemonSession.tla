-------------------------- MODULE MCDaemonSession ---------------------------
(* Instances of DaemonSession for TLC. *)
EXTENDS DaemonSession, TLC

CONSTANTS r1, r2

(* Calls of App, of Close, and of the two goroutines on the sidecar *)
Budget(a, c, n, m) == (App :> a) @@ (Closer :> c) @@ (r1 :> n) @@ (r2 :> m)

MCBudgets ==
  {Budget(3, 0, 1, 0), Budget(2, 0, 1, 1), Budget(2, 1, 0, 0), Budget(0, 1, 1, 1)}

(* App alone *)
MCAppBudget == {Budget(3, 0, 0, 0)}

=============================================================================
