-------------------------- MODULE TurnRunner_proofs --------------------------
(***************************************************************************)
(* Proofs about TurnRunner for every set of turns and cancellers: the gate *)
(* admits one turn and one more per Cancel, keeps no reservation of a turn *)
(* that is over, and tells the daemon before it cancels a context; and a   *)
(* turn that timed out leaves no query behind.                             *)
(***************************************************************************)
EXTENDS TurnRunner, FiniteSetTheorems, TLAPS

(* Turns in flight whose reservation is not the gate's *)
Orphans == {t \in Turns : InFlight(t) /\ t # cancels}

(* What the gate and the cancellers know of each other: only a handler      *)
(* reserves without a sender, so a Cancel that took the reservation of an   *)
(* Execute also took a sender, and has called it before cancel().           *)
CancelOrder ==
  /\ \A t \in Turns : pc[t] \in {"check", "replace"} => t \in Reserved
  /\ cancels \in Turns \ Reserved => sendCancels # NoTurn
  /\ \A x \in Cancellers :
       /\ cpc[x] = "idle" => took[x].cancel = NoTurn
       /\ took[x].cancel \in Turns \ Reserved =>
            /\ cpc[x] = "tell" => took[x].sendCancel # NoTurn
            /\ cpc[x] = "local" => took[x].cancel \in told

OrphansBounded == Cardinality(Orphans) <= Cardinality(Taken)

GateInv ==
  TypeOK /\ NoStaleReservation /\ CancelOrder /\ ToldFirst /\ OrphansBounded

-----------------------------------------------------------------------------
(* The steps of the calls that leave the gate, the pool and the daemon alone, *)
(* and so only move a turn from one place to another.                         *)
Moves(t) ==
  \/ GateBusy(t) \/ ReserveBusy(t) \/ Execute(t) \/ ExecuteReserved(t)
  \/ NotReserved(t) \/ PoolFails(t) \/ SendFails(t) \/ TurnEnds(t)
  \/ StreamClosed(t) \/ TurnCancelled(t)

(* Every state of the runner is well typed. *)
LEMMA TypeStep == TypeOK /\ [Next]_vars => TypeOK'
<1> SUFFICES ASSUME TypeOK, [Next]_vars PROVE TypeOK'
  BY Zenon
<1> USE TurnAssumption DEF TypeOK, Conns, NoConn
<1>1. ASSUME NEW t \in Turns, Moves(t) PROVE TypeOK'
  <2>1. /\ UNCHANGED <<gateVars, cancelled, conn, cancelVars, poolVars, daemonVars>>
        /\ \E to \in PCs : Goto(t, to)
        /\ outcome' = outcome \/ \E what \in Outcomes : outcome' = [outcome EXCEPT ![t] = what]
    BY <1>1, Zenon DEF Moves, GateBusy, ReserveBusy, Execute, ExecuteReserved, NotReserved,
       PoolFails, SendFails, TurnEnds, StreamClosed, TurnCancelled, Goto, Finish,
       PCs, Outcomes
  <2>2. pc' \in [Turns -> PCs] /\ outcome' \in [Turns -> Outcomes]
    <3>1. PICK to \in PCs : pc' = [pc EXCEPT ![t] = to]
      BY <2>1, Zenon DEF Goto
    <3>2. pc' \in [Turns -> PCs]
      BY <3>1, Zenon
    <3>3. ASSUME NEW what \in Outcomes, outcome' = [outcome EXCEPT ![t] = what]
          PROVE outcome' \in [Turns -> Outcomes]
      BY <3>3, Zenon
    <3> QED
      BY <2>1, <3>2, <3>3, Zenon
  <2> QED
    BY <2>1, <2>2, Zenon DEF gateVars, cancelVars, poolVars, daemonVars
<1>2. ASSUME NEW t \in Turns,
             GateAcquire(t) \/ Reserve(t) \/ ReplaceCancel(t) \/ SetSendCancel(t)
               \/ Release(t)
      PROVE TypeOK'
  BY <1>2, ZenonT(60) DEF GateAcquire, Reserve, ReplaceCancel, SetSendCancel, Release, Goto, PCs,
     gateVars, turnVars, cancelVars, poolVars, daemonVars
<1>3. ASSUME NEW t \in Turns, PoolReuse(t) \/ PoolConnect(t) PROVE TypeOK'
  <2>1. AfterPool(t) \in PCs
    BY Zenon DEF AfterPool, PCs
  <2>2. CASE PoolReuse(t)
    BY <2>1, <2>2, Zenon DEF PoolReuse, Live, Goto, gateVars, cancelVars, poolVars, daemonVars
  <2>3. CASE PoolConnect(t)
    <3>1. conns' \in 1 .. MaxConns
      <4>1. ConnsIn[scene] \in 0 .. MaxConns
        BY TurnAssumption, Zenon
      <4> QED
        BY <2>3, <4>1 DEF PoolConnect
    <3>2. /\ up' \in [Conns -> BOOLEAN] /\ conn' \in [Turns -> Conns \cup {NoConn}]
          /\ pc' \in [Turns -> PCs]
      BY <2>1, <2>3, <3>1, Zenon DEF PoolConnect, Goto
    <3> QED
      BY <2>3, <3>1, <3>2 DEF PoolConnect, gateVars, cancelVars, daemonVars
  <2> QED
    BY <1>3, <2>2, <2>3, Zenon
<1>4. ASSUME NEW c, NEW msg \in Messages, Send(c, msg)
      PROVE wire' \in [Conns -> Seq(Messages)]
  <2>1. CASE c \in Conns
    <3>1. Append(wire[c], msg) \in Seq(Messages)
      BY <2>1
    <3> QED
      BY <1>4, <2>1, <3>1, Zenon DEF Send
  <2>2. CASE c \notin Conns
    BY <1>4, <2>2, Zenon DEF Send
  <2> QED
    BY <2>1, <2>2, Zenon
<1>5. ASSUME NEW t \in Turns, SendInput(t) \/ Timeout(t) PROVE TypeOK'
  <2>1. Input(t) \in Messages /\ Stop \in Messages
    BY Zenon DEF Messages
  <2>2. Send(conn[t], Input(t)) \/ Send(conn[t], Stop)
    BY <1>5, Zenon DEF SendInput, Timeout
  <2>3. wire' \in [Conns -> Seq(Messages)]
    BY <1>4, <2>1, <2>2, Zenon
  <2>4. pc' \in [Turns -> PCs] /\ outcome' \in [Turns -> Outcomes]
    <3>1. CASE SendInput(t)
      BY <3>1, Zenon DEF SendInput, Goto, PCs
    <3>2. CASE Timeout(t)
      BY <3>2, Zenon DEF Timeout, Goto, Finish, PCs, Outcomes
    <3> QED
      BY <1>5, <3>1, <3>2, Zenon
  <2> QED
    BY <1>5, <2>3, <2>4, SMTT(30) DEF SendInput, Timeout, gateVars, cancelVars, poolVars
<1>6. ASSUME NEW c \in Conns, Closes(c)
      PROVE /\ up' \in [Conns -> BOOLEAN]
            /\ wire' \in [Conns -> Seq(Messages)]
            /\ running' \in Turns \cup {NoTurn}
            /\ started' \subseteq Turns
  BY <1>6 DEF Closes
<1>7. ASSUME NEW t \in Turns, BusyRelease(t) PROVE TypeOK'
  <2>1. /\ up' \in [Conns -> BOOLEAN]
        /\ wire' \in [Conns -> Seq(Messages)]
        /\ running' \in Turns \cup {NoTurn}
        /\ started' \subseteq Turns
    BY <1>6, <1>7, Zenon DEF BusyRelease, daemonVars
  <2> QED
    BY <1>7, <2>1, Zenon DEF BusyRelease, Goto, Finish, gateVars, cancelVars, PCs, Outcomes
<1>8. ASSUME NEW x \in Cancellers, CancelTake(x) \/ CancelLocal(x) PROVE TypeOK'
  <2>1. CASE CancelTake(x)
    <3>1. took' \in [Cancellers -> [cancel : Turns \cup {NoTurn},
                                    sendCancel : Turns \cup {NoTurn}]]
      BY <2>1, Zenon DEF CancelTake
    <3> QED
      BY <2>1, <3>1, Zenon DEF CancelTake, turnVars, poolVars, daemonVars
  <2>2. CASE CancelLocal(x)
    <3>1. cancelled' \subseteq Turns
      BY <2>2 DEF CancelLocal
    <3> QED
      BY <2>2, <3>1, Zenon DEF CancelLocal, gateVars, poolVars, daemonVars
  <2> QED
    BY <1>8, <2>1, <2>2, Zenon
<1>9. ASSUME NEW x \in Cancellers, CancelTell(x) PROVE TypeOK'
  <2>1. wire' \in [Conns -> Seq(Messages)]
    <3>1. Stop \in Messages
      BY Zenon DEF Messages
    <3>2. wire' = wire \/ Send(conn[took[x].sendCancel], Stop)
      BY <1>9, Zenon DEF CancelTell
    <3> QED
      BY <1>4, <3>1, <3>2, Zenon
  <2>2. told' \subseteq Turns
    <3>1. took[x].cancel \in Turns \cup {NoTurn} /\ took[x].sendCancel \in Turns \cup {NoTurn}
      BY Zenon
    <3>2. \/ told' = told
          \/ /\ took[x].sendCancel # NoTurn
             /\ told' = told \cup ({took[x].sendCancel, took[x].cancel} \ {NoTurn})
      BY <1>9, Zenon DEF CancelTell
    <3> QED
      BY <3>1, <3>2
  <2> QED
    BY <1>9, <2>1, <2>2, Zenon DEF CancelTell, gateVars, turnVars, poolVars
<1>10. ASSUME NEW c \in Conns, DaemonRead(c) PROVE TypeOK'
  <2>1. Head(wire[c]) \in Messages /\ Tail(wire[c]) \in Seq(Messages)
    BY <1>10, SMTT(30) DEF DaemonRead
  <2>2. Head(wire[c]).kind = "input" => Head(wire[c]).turn \in Turns
    BY <2>1 DEF Messages, Input, Stop
  <2>3. wire' \in [Conns -> Seq(Messages)]
    BY <1>10, <2>1, Zenon DEF DaemonRead
  <2>4. running' \in Turns \cup {NoTurn} /\ started' \subseteq Turns
    BY <1>10, <2>2, Zenon DEF DaemonRead
  <2> QED
    BY <1>10, <2>3, <2>4, ZenonT(30) DEF DaemonRead, gateVars, turnVars, cancelVars, poolVars
<1>11. ASSUME NEW c \in Conns, Drop(c) PROVE TypeOK'
  BY <1>6, <1>11, Zenon DEF Drop, gateVars, turnVars, cancelVars
<1>12. CASE DaemonFinish
  BY <1>12, Zenon DEF DaemonFinish, gateVars, turnVars, cancelVars, poolVars
<1>13. CASE UNCHANGED vars
  BY <1>13, Zenon DEF vars, gateVars, turnVars, cancelVars, poolVars, daemonVars
<1> QED
  BY <1>1, <1>2, <1>3, <1>5, <1>7, <1>8, <1>9, <1>10, <1>11, <1>12, <1>13, ZenonT(30)
     DEF Next, TurnStep, RunnerStep, CancelStep, Moves

-----------------------------------------------------------------------------
(* The other steps of a call that leave the gate alone *)
Works(t) ==
  \/ Moves(t) \/ PoolReuse(t) \/ PoolConnect(t) \/ SendInput(t) \/ Timeout(t)
  \/ BusyRelease(t)

(* The steps that are no call's *)
Outside ==
  \/ \E c \in Conns : DaemonRead(c) \/ Drop(c)
  \/ DaemonFinish
  \/ UNCHANGED vars

(* A call that leaves the gate alone stays in flight or leaves it without    *)
(* the reservation, and enters it nowhere.                                   *)
LEMMA WorksFacts ==
  ASSUME TypeOK, NoStaleReservation, CancelOrder, NEW t \in Turns, Works(t)
  PROVE  /\ UNCHANGED <<cancels, sendCancels, cancelled, cancelVars>>
         /\ \A s \in Turns : InFlight(s)' => InFlight(s)
         /\ cancels # NoTurn => InFlight(cancels)'
         /\ \A s \in Turns : pc'[s] \in {"check", "replace"} => s \in Reserved
<1>0. pc \in [Turns -> PCs] /\ cancels \in Turns \cup {NoTurn}
  BY Zenon DEF TypeOK
<1> USE <1>0 DEF NoStaleReservation, InFlight, gateVars, turnVars, cancelVars,
            Goto, Finish, CancelOrder
<1>1. CASE Moves(t)
  <2>1. UNCHANGED <<cancels, sendCancels, cancelled, cancelVars>>
    BY <1>1, Zenon DEF Moves, GateBusy, ReserveBusy, Execute, ExecuteReserved, NotReserved,
       PoolFails, SendFails, TurnEnds, StreamClosed, TurnCancelled
  <2> DEFINE Fits(to) ==
        /\ pc' = [pc EXCEPT ![t] = to]
        /\ to \notin {"check", "replace"}
        /\ (to \in {"sender", "send", "stream", "release"} \/ (to = "pool" /\ t \in Reserved))
             => InFlight(t)
        /\ t = cancels => (to = "release" \/ (to = "pool" /\ t \in Reserved))
  <2>2. GateBusy(t) => Fits("busy")
    BY TurnAssumption, Zenon DEF GateBusy
  <2>3. ReserveBusy(t) \/ NotReserved(t) => Fits("over")
    BY TurnAssumption, Zenon DEF ReserveBusy, NotReserved
  <2>4. Execute(t) \/ ExecuteReserved(t) => Fits("pool")
    BY TurnAssumption, Zenon DEF Execute, ExecuteReserved
  <2>5. PoolFails(t) => Fits("over") \/ Fits("release")
    BY TurnAssumption, Zenon DEF PoolFails
  <2>6. SendFails(t) \/ TurnEnds(t) \/ StreamClosed(t) \/ TurnCancelled(t) => Fits("release")
    <3>1. SendFails(t) \/ TurnEnds(t) \/ StreamClosed(t) \/ TurnCancelled(t) =>
            pc' = [pc EXCEPT ![t] = "release"] /\ pc[t] \in {"send", "stream"}
      BY Zenon DEF SendFails, TurnEnds, StreamClosed, TurnCancelled
    <3> QED
      BY <3>1, Zenon
  <2>7. PICK to : Fits(to)
    BY <1>1, <2>2, <2>3, <2>4, <2>5, <2>6, Zenon DEF Moves
  <2>8. pc'[t] = to /\ \A s \in Turns \ {t} : pc'[s] = pc[s]
    BY <2>7, Zenon
  <2>9. \A s \in Turns : InFlight(s)' => InFlight(s)
    <3>1. InFlight(t)' => InFlight(t)
      BY <2>7, <2>8, Zenon
    <3>2. \A s \in Turns \ {t} : InFlight(s)' => InFlight(s)
      BY <2>8, Zenon
    <3> QED
      BY <3>1, <3>2, Zenon
  <2>10. cancels # NoTurn => InFlight(cancels)'
    <3>1. CASE cancels = t
      BY <2>1, <2>7, <2>8, <3>1, Zenon
    <3>2. CASE cancels # t
      BY <2>1, <2>8, <3>2, Zenon
    <3> QED
      BY <3>1, <3>2, Zenon
  <2>11. \A s \in Turns : pc'[s] \in {"check", "replace"} => s \in Reserved
    BY <2>7, <2>8, Zenon
  <2> QED
    BY <2>1, <2>9, <2>10, <2>11, Zenon
<1>2. CASE PoolReuse(t) \/ PoolConnect(t)
  BY <1>2, SMTT(30) DEF PoolReuse, PoolConnect, AfterPool
<1>3. CASE SendInput(t) \/ Timeout(t) \/ BusyRelease(t)
  BY <1>3 DEF SendInput, Timeout, BusyRelease
<1> QED
  BY <1>1, <1>2, <1>3, Zenon DEF Works

(* The gate's own operations, and the cancellers' *)
GateOps(t) ==
  \/ GateAcquire(t) \/ Reserve(t) \/ ReplaceCancel(t) \/ SetSendCancel(t)
  \/ Release(t)

(* Every step is one of these. *)
LEMMA Steps ==
  ASSUME [Next]_vars
  PROVE  \/ \E t \in Turns : Works(t) \/ GateOps(t)
         \/ \E x \in Cancellers : CancelTake(x) \/ CancelTell(x) \/ CancelLocal(x)
         \/ Outside
BY Zenon DEF Next, TurnStep, RunnerStep, CancelStep, Works, Moves, GateOps, Outside

(* What is outside the calls touches neither the gate nor a call. *)
LEMMA OutsideFacts ==
  ASSUME Outside
  PROVE  UNCHANGED <<cancels, sendCancels, cancelled, pc, cpc, took, told>>
BY Zenon DEF Outside, DaemonRead, Drop, DaemonFinish, vars, gateVars, turnVars, cancelVars

(* A reservation belongs to a turn in flight, and a sender to a reservation. *)
LEMMA ReservationStep ==
  ASSUME TypeOK, NoStaleReservation, CancelOrder, [Next]_vars
  PROVE  NoStaleReservation'
<1>0. pc \in [Turns -> PCs] /\ cancels \in Turns \cup {NoTurn} /\ NoTurn \notin Turns
  BY TurnAssumption, Zenon DEF TypeOK
<1>1. ASSUME NEW t \in Turns, Works(t) PROVE NoStaleReservation'
  BY <1>1, WorksFacts, Zenon DEF NoStaleReservation
<1>2. ASSUME NEW t \in Turns, GateOps(t) PROVE NoStaleReservation'
  BY <1>0, <1>2, Zenon DEF GateOps, GateAcquire, Reserve, ReplaceCancel, SetSendCancel,
     Release, Goto, NoStaleReservation, InFlight, gateVars
<1>3. ASSUME NEW x \in Cancellers, CancelTake(x) \/ CancelTell(x) \/ CancelLocal(x)
      PROVE NoStaleReservation'
  BY <1>3, Zenon DEF CancelTake, CancelTell, CancelLocal, NoStaleReservation, InFlight,
     gateVars, turnVars
<1>4. CASE Outside
  BY <1>4, OutsideFacts, Zenon DEF NoStaleReservation, InFlight
<1> QED
  BY <1>1, <1>2, <1>3, <1>4, Steps, Zenon

(* Senders follow reservations, and cancellers follow both. *)
LEMMA CancelOrderStep ==
  ASSUME TypeOK, NoStaleReservation, CancelOrder, ToldFirst, [Next]_vars
  PROVE  CancelOrder' /\ ToldFirst'
<1>0. /\ pc \in [Turns -> PCs] /\ cancels \in Turns \cup {NoTurn} /\ NoTurn \notin Turns
      /\ cpc \in [Cancellers -> {"idle", "tell", "local", "over"}]
      /\ took \in [Cancellers -> [cancel : Turns \cup {NoTurn},
                                  sendCancel : Turns \cup {NoTurn}]]
  BY TurnAssumption, Zenon DEF TypeOK
<1>1. ASSUME NEW t \in Turns, Works(t) PROVE CancelOrder' /\ ToldFirst'
  <2>1. /\ UNCHANGED <<cancels, sendCancels, cancelled, cpc, took, told>>
        /\ \A s \in Turns : pc'[s] \in {"check", "replace"} => s \in Reserved
    BY <1>1, WorksFacts, Zenon DEF cancelVars
  <2> QED
    BY <2>1, Zenon DEF CancelOrder, ToldFirst
<1>2. ASSUME NEW t \in Turns, GateOps(t) PROVE CancelOrder' /\ ToldFirst'
  <2>1. UNCHANGED <<cancelled, cpc, took, told>>
    BY <1>2, Zenon DEF GateOps, GateAcquire, Reserve, ReplaceCancel, SetSendCancel, Release,
       cancelVars
  <2>2. \A s \in Turns : pc'[s] \in {"check", "replace"} => s \in Reserved
    BY <1>0, <1>2, ZenonT(30) DEF GateOps, GateAcquire, Reserve, ReplaceCancel, SetSendCancel, Release,
       Goto, CancelOrder
  <2>3. cancels' \in Turns \ Reserved => sendCancels' # NoTurn
    BY <1>0, <1>2, Zenon DEF GateOps, GateAcquire, Reserve, ReplaceCancel, SetSendCancel, Release,
       CancelOrder
  <2> QED
    BY <2>1, <2>2, <2>3, Zenon DEF CancelOrder, ToldFirst
<1>3. ASSUME NEW x \in Cancellers, CancelTake(x) PROVE CancelOrder' /\ ToldFirst'
  <2>1. UNCHANGED <<pc, cancelled, told>>
    BY <1>3, Zenon DEF CancelTake, turnVars
  <2>2. /\ took' = [took EXCEPT ![x] = [cancel |-> cancels, sendCancel |-> sendCancels]]
        /\ cpc'[x] \in {"tell", "over"} /\ \A y \in Cancellers \ {x} : cpc'[y] = cpc[y]
        /\ cancels' = NoTurn
    BY <1>0, <1>3, Zenon DEF CancelTake
  <2>3. /\ took'[x].cancel = cancels /\ took'[x].sendCancel = sendCancels
        /\ \A y \in Cancellers \ {x} : took'[y] = took[y]
    BY <1>0, <2>2, Zenon
  <2> QED
    BY <1>0, <2>1, <2>2, <2>3 DEF CancelOrder, ToldFirst
<1>4. ASSUME NEW x \in Cancellers, CancelTell(x) PROVE CancelOrder' /\ ToldFirst'
  <2>1. UNCHANGED <<cancels, sendCancels, pc, cancelled, took>>
    BY <1>4, Zenon DEF CancelTell, gateVars, turnVars
  <2>2. /\ cpc[x] = "tell" /\ cpc'[x] = "local"
        /\ \A y \in Cancellers \ {x} : cpc'[y] = cpc[y]
        /\ told \subseteq told'
        /\ took[x].sendCancel # NoTurn /\ took[x].cancel # NoTurn => took[x].cancel \in told'
    BY <1>0, <1>4, Zenon DEF CancelTell
  <2> QED
    BY <1>0, <2>1, <2>2 DEF CancelOrder, ToldFirst
<1>5. ASSUME NEW x \in Cancellers, CancelLocal(x) PROVE CancelOrder' /\ ToldFirst'
  <2>1. /\ UNCHANGED <<cancels, sendCancels, pc, told, took>>
        /\ cpc[x] = "local" /\ cpc'[x] = "over"
        /\ \A y \in Cancellers \ {x} : cpc'[y] = cpc[y]
        /\ cancelled' = cancelled \cup ({took[x].cancel} \ {NoTurn})
    BY <1>0, <1>5, Zenon DEF CancelLocal, gateVars
  <2>2. took[x].cancel \in Turns \cup {NoTurn}
    BY <1>0, Zenon
  <2> QED
    BY <1>0, <2>1, <2>2 DEF CancelOrder, ToldFirst
<1>6. CASE Outside
  BY <1>6, OutsideFacts, Zenon DEF CancelOrder, ToldFirst
<1> QED
  BY <1>1, <1>2, <1>3, <1>4, <1>5, <1>6, Steps, Zenon

-----------------------------------------------------------------------------
(* Swapping one member of a finite set for another adds none. *)
LEMMA SwapCardinality ==
  ASSUME NEW S, IsFiniteSet(S), NEW a \in S, NEW b
  PROVE  /\ IsFiniteSet((S \ {a}) \cup {b})
         /\ Cardinality((S \ {a}) \cup {b}) <= Cardinality(S)
<1>1. IsFiniteSet(S \ {a}) /\ Cardinality(S \ {a}) = Cardinality(S) - 1
  BY FS_RemoveElement, Zenon
<1>2. /\ IsFiniteSet((S \ {a}) \cup {b})
      /\ \/ Cardinality((S \ {a}) \cup {b}) = Cardinality(S \ {a})
         \/ Cardinality((S \ {a}) \cup {b}) = Cardinality(S \ {a}) + 1
  BY <1>1, FS_AddElement, Zenon
<1>3. Cardinality(S) \in Nat
  BY FS_CardinalityType, Zenon
<1> QED
  BY <1>1, <1>2, <1>3

(* A step that only loses orphans, or swaps one, and loses no taken          *)
(* reservation keeps the bound.                                              *)
LEMMA OrphansLost ==
  ASSUME OrphansBounded, Orphans' \subseteq Orphans, Taken' = Taken
  PROVE  OrphansBounded'
<1>1. IsFiniteSet(Orphans) /\ IsFiniteSet(Taken)
  BY TurnAssumption, FS_Subset, Zenon DEF Orphans, Taken
<1>2. IsFiniteSet(Orphans') /\ Cardinality(Orphans') <= Cardinality(Orphans)
  BY <1>1, FS_Subset, Zenon
<1>3. Cardinality(Orphans) \in Nat /\ Cardinality(Taken) \in Nat /\ Cardinality(Orphans') \in Nat
  BY <1>1, <1>2, FS_CardinalityType, Zenon
<1>4. Cardinality(Taken') = Cardinality(Taken)
  BY Zenon
<1> QED
  BY <1>2, <1>3, <1>4 DEF OrphansBounded

(* The same when one orphan goes and a turn loses its reservation. *)
LEMMA OrphansSwapped ==
  ASSUME OrphansBounded, Taken' = Taken,
         NEW a \in Orphans, NEW b, Orphans' \subseteq (Orphans \ {a}) \cup {b}
  PROVE  OrphansBounded'
<1>1. IsFiniteSet(Orphans) /\ IsFiniteSet(Taken)
  BY TurnAssumption, FS_Subset, Zenon DEF Orphans, Taken
<1> DEFINE Swapped == (Orphans \ {a}) \cup {b}
<1>2. IsFiniteSet(Swapped) /\ Cardinality(Swapped) <= Cardinality(Orphans)
  BY <1>1, SwapCardinality, Zenon
<1>3. IsFiniteSet(Orphans') /\ Cardinality(Orphans') <= Cardinality(Swapped)
  BY <1>2, FS_Subset, Zenon
<1> HIDE DEF Swapped
<1>4. /\ Cardinality(Orphans) \in Nat /\ Cardinality(Taken) \in Nat
      /\ Cardinality(Orphans') \in Nat /\ Cardinality(Swapped) \in Nat
  BY <1>1, <1>2, <1>3, FS_CardinalityType, Zenon
<1>5. Cardinality(Taken') = Cardinality(Taken)
  BY Zenon
<1> QED
  BY <1>2, <1>3, <1>4, <1>5 DEF OrphansBounded

(* A Cancel that takes a reservation makes one more orphan. *)
LEMMA OrphansTaken ==
  ASSUME TypeOK, CancelOrder, OrphansBounded, NEW x \in Cancellers, CancelTake(x),
         cancels # NoTurn
  PROVE  OrphansBounded'
<1>1. IsFiniteSet(Orphans) /\ IsFiniteSet(Taken)
  BY TurnAssumption, FS_Subset, Zenon DEF Orphans, Taken
<1>2. pc' = pc /\ cancels' = NoTurn /\ took'[x].cancel = cancels
      /\ \A y \in Cancellers \ {x} : took'[y] = took[y]
  BY Zenon DEF CancelTake, TypeOK, turnVars
<1>3. x \notin Taken
  BY Zenon DEF CancelTake, CancelOrder, Taken
<1>4. Taken' = Taken \cup {x}
  BY <1>2, Zenon DEF Taken
<1>5. Orphans' \subseteq Orphans \cup {cancels}
  BY <1>2, Zenon DEF Orphans, InFlight
<1>6. Cardinality(Taken') = Cardinality(Taken) + 1
  BY <1>1, <1>3, <1>4, FS_AddElement, Zenon
<1> DEFINE More == Orphans \cup {cancels}
<1>7. /\ IsFiniteSet(More)
      /\ Cardinality(More) = Cardinality(Orphans) \/ Cardinality(More) = Cardinality(Orphans) + 1
  BY <1>1, FS_AddElement, Zenon
<1>8. IsFiniteSet(Orphans') /\ Cardinality(Orphans') <= Cardinality(More)
  BY <1>5, <1>7, FS_Subset, Zenon
<1> HIDE DEF More
<1>9. /\ Cardinality(Orphans) \in Nat /\ Cardinality(Taken) \in Nat
      /\ Cardinality(Orphans') \in Nat /\ Cardinality(More) \in Nat
  BY <1>1, <1>7, <1>8, FS_CardinalityType, Zenon
<1> QED
  BY <1>6, <1>7, <1>8, <1>9 DEF OrphansBounded

(* A turn becomes an orphan when a Cancel takes its reservation, or in place *)
(* of an orphan that deletes or replaces it.                                *)
LEMMA OrphansStep ==
  ASSUME TypeOK, NoStaleReservation, CancelOrder, OrphansBounded, [Next]_vars
  PROVE  OrphansBounded'
<1>0. pc \in [Turns -> PCs] /\ cancels \in Turns \cup {NoTurn} /\ NoTurn \notin Turns
  BY TurnAssumption, Zenon DEF TypeOK
<1>1. ASSUME NEW t \in Turns, Works(t) PROVE OrphansBounded'
  <2>1. Orphans' \subseteq Orphans /\ Taken' = Taken
    BY <1>1, WorksFacts, Zenon DEF Orphans, Taken, cancelVars
  <2> QED
    BY <2>1, OrphansLost, Zenon
<1>2. ASSUME NEW t \in Turns, GateOps(t) PROVE OrphansBounded'
  <2>1. Taken' = Taken
    BY <1>2, Zenon DEF GateOps, GateAcquire, Reserve, ReplaceCancel, SetSendCancel, Release,
       cancelVars, Taken
  <2>2. CASE GateAcquire(t) \/ Reserve(t) \/ SetSendCancel(t)
    <3>1. Orphans' \subseteq Orphans
      BY <1>0, <2>2 DEF GateAcquire, Reserve, SetSendCancel, Goto, Orphans, InFlight
    <3> QED
      BY <2>1, <3>1, OrphansLost, Zenon
  <2>3. ASSUME ReplaceCancel(t) \/ Release(t),
               cancels = NoTurn \/ cancels = t
        PROVE OrphansBounded'
    <3>1. Orphans' \subseteq Orphans
      BY <1>0, <2>3, Zenon DEF ReplaceCancel, Release, Goto, Orphans, InFlight
    <3> QED
      BY <2>1, <3>1, OrphansLost, Zenon
  <2>4. ASSUME ReplaceCancel(t) \/ Release(t),
               cancels # NoTurn, cancels # t
        PROVE OrphansBounded'
    <3>1. t \in Orphans
      BY <2>4, Zenon DEF ReplaceCancel, Release, Orphans, InFlight
    <3>2. Orphans' \subseteq (Orphans \ {t}) \cup {cancels}
      BY <1>0, <2>4, Zenon DEF ReplaceCancel, Release, Goto, Orphans, InFlight
    <3> QED
      BY <2>1, <3>1, <3>2, OrphansSwapped, Zenon
  <2> QED
    BY <1>2, <2>2, <2>3, <2>4, Zenon DEF GateOps
<1>3. ASSUME NEW x \in Cancellers, CancelTake(x) PROVE OrphansBounded'
  <2>1. CASE cancels # NoTurn
    BY <1>3, <2>1, OrphansTaken, Zenon
  <2>2. CASE cancels = NoTurn
    <3>1. Orphans' \subseteq Orphans
      BY <1>3, <2>2, Zenon DEF CancelTake, turnVars, Orphans, InFlight
    <3>2. took[x].cancel = NoTurn /\ took'[x].cancel = NoTurn
          /\ \A y \in Cancellers \ {x} : took'[y] = took[y]
      BY <1>3, <2>2, Zenon DEF CancelTake, CancelOrder, TypeOK
    <3>3. Taken' = Taken
      BY <3>2, Zenon DEF Taken
    <3> QED
      BY <3>1, <3>3, OrphansLost, Zenon
  <2> QED
    BY <2>1, <2>2, Zenon
<1>4. ASSUME NEW x \in Cancellers, CancelTell(x) \/ CancelLocal(x) PROVE OrphansBounded'
  <2>1. Orphans' \subseteq Orphans /\ Taken' = Taken
    BY <1>4, Zenon DEF CancelTell, CancelLocal, gateVars, turnVars, Orphans, InFlight, Taken
  <2> QED
    BY <2>1, OrphansLost, Zenon
<1>5. CASE Outside
  <2>1. Orphans' \subseteq Orphans /\ Taken' = Taken
    BY <1>5, OutsideFacts, Zenon DEF Orphans, InFlight, Taken
  <2> QED
    BY <2>1, OrphansLost, Zenon
<1> QED
  BY <1>1, <1>2, <1>3, <1>4, <1>5, Steps, Zenon

-----------------------------------------------------------------------------
(* The new gate satisfies the invariant, every step keeps it, so it holds. *)
LEMMA GateStart == Init => GateInv
<1> SUFFICES ASSUME Init PROVE GateInv
  BY Zenon
<1>1. TypeOK
  BY TurnAssumption DEF Init, TypeOK, PCs, Outcomes, Conns, NoConn
<1>2. NoStaleReservation /\ CancelOrder /\ ToldFirst
  BY TurnAssumption, Zenon DEF Init, NoStaleReservation, CancelOrder, ToldFirst
<1>3. Orphans = {} /\ Taken = {}
  BY Zenon DEF Init, Orphans, InFlight, Taken
<1> QED
  BY <1>1, <1>2, <1>3, FS_EmptySet DEF GateInv, OrphansBounded

(* Each conjunct is kept by the lemma about it. *)
LEMMA GateStep == GateInv /\ [Next]_vars => GateInv'
BY TypeStep, ReservationStep, CancelOrderStep, OrphansStep, Zenon DEF GateInv

(* GateInv is an invariant of the runner. *)
LEMMA GateInvariant == Spec => []GateInv
BY GateStart, GateStep, PTL DEF Spec

(* One turn holds the gate; the others in flight are orphans. *)
LEMMA FlightBound == GateInv => SingleFlight
<1> SUFFICES ASSUME GateInv PROVE SingleFlight
  BY Zenon
<1> DEFINE Flying == {t \in Turns : InFlight(t)}
<1> DEFINE More == Orphans \cup {cancels}
<1>1. IsFiniteSet(Orphans) /\ IsFiniteSet(Taken) /\ IsFiniteSet(Flying)
  BY TurnAssumption, FS_Subset, Zenon DEF Orphans, Taken
<1>2. Flying \subseteq More
  BY Zenon DEF Orphans
<1>3. /\ IsFiniteSet(More)
      /\ Cardinality(More) = Cardinality(Orphans) \/ Cardinality(More) = Cardinality(Orphans) + 1
  BY <1>1, FS_AddElement, Zenon
<1>4. Cardinality(Flying) <= Cardinality(More)
  BY <1>2, <1>3, FS_Subset, Zenon
<1>5. /\ Cardinality(Orphans) \in Nat /\ Cardinality(Taken) \in Nat
      /\ Cardinality(Flying) \in Nat /\ Cardinality(More) \in Nat
  BY <1>1, <1>3, FS_CardinalityType, Zenon
<1>6. Cardinality(Orphans) <= Cardinality(Taken)
  BY Zenon DEF GateInv, OrphansBounded
<1> HIDE DEF More, Flying
<1>7. Cardinality(Flying) <= 1 + Cardinality(Taken)
  BY <1>3, <1>4, <1>5, <1>6
<1> QED
  BY <1>7, Zenon DEF SingleFlight, Flying

-----------------------------------------------------------------------------
(* What is under way to the daemon.  A turn writes its input once, to its own *)
(* connection; a connection that is down carries nothing and runs nothing;    *)
(* and behind the input of a turn that timed out, read or unread, comes a     *)
(* request to stop.                                                           *)
Linked == {"gate", "busy", "replace", "sender", "send", "stream"}
Begun == {"stream", "release", "over"}

Connected ==
  \A t \in Turns :
    /\ pc[t] \in Linked => conn[t] \in Conns
    /\ outcome[t] = "timeout" => pc[t] \in {"release", "over"} /\ conn[t] \in Conns

InputsOwn ==
  /\ \A c \in Conns : \A i \in DOMAIN wire[c] : \A t \in Turns :
       wire[c][i] = Input(t) => conn[t] = c /\ pc[t] \in Begun
  /\ running # NoTurn => conn[running] \in Conns /\ pc[running] \in Begun

DownIsSilent ==
  /\ \A c \in Conns : ~up[c] => wire[c] = <<>>
  /\ running # NoTurn => up[conn[running]]

(* A request to stop that the daemon reads after the first n messages *)
StopAfter(c, n) == \E j \in DOMAIN wire[c] : j > n /\ wire[c][j] = Stop

StopFollows ==
  \A t \in Turns : outcome[t] = "timeout" =>
    /\ running = t => StopAfter(conn[t], 0)
    /\ \A i \in DOMAIN wire[conn[t]] :
         wire[conn[t]][i] = Input(t) => StopAfter(conn[t], i)

WireInv == Connected /\ InputsOwn /\ DownIsSilent /\ StopFollows

(* A step that writes nothing, reads nothing and ends no turn by a timeout: *)
(* turns go on, none gets a connection.                                     *)
Quiet ==
  /\ UNCHANGED <<up, wire, running, conn>>
  /\ \A t \in Turns :
       /\ pc[t] \in Begun => pc'[t] \in Begun
       /\ pc[t] \in {"release", "over"} => pc'[t] \in {"release", "over"}
       /\ pc'[t] \in Linked => pc[t] \in Linked
       /\ outcome'[t] = "timeout" => outcome[t] = "timeout"

(* Most steps are quiet. *)
LEMMA QuietSteps ==
  ASSUME TypeOK,
         \/ \E t \in Turns : Moves(t) \/ GateOps(t)
         \/ \E x \in Cancellers : CancelTake(x) \/ CancelLocal(x)
         \/ UNCHANGED vars
  PROVE  Quiet
<1>0. pc \in [Turns -> PCs] /\ outcome \in [Turns -> Outcomes]
  BY Zenon DEF TypeOK
<1>1. ASSUME NEW t \in Turns, Moves(t) PROVE Quiet
  <2>1. UNCHANGED <<up, wire, running, conn>>
    BY <1>1, Zenon DEF Moves, GateBusy, ReserveBusy, Execute, ExecuteReserved, NotReserved,
       PoolFails, SendFails, TurnEnds, StreamClosed, TurnCancelled, poolVars, daemonVars
  <2> DEFINE Goes(to) ==
        /\ pc' = [pc EXCEPT ![t] = to]
        /\ pc[t] \notin {"release", "over"}
        /\ pc[t] \in Begun => to \in Begun
        /\ to \in Linked => pc[t] \in Linked
  <2>2. GateBusy(t) => Goes("busy")
    BY Zenon DEF GateBusy, Goto, Begun, Linked
  <2>3. ReserveBusy(t) \/ NotReserved(t) => Goes("over")
    BY Zenon DEF ReserveBusy, NotReserved, Finish, Goto, Begun, Linked
  <2>4. Execute(t) \/ ExecuteReserved(t) => Goes("pool")
    BY Zenon DEF Execute, ExecuteReserved, Goto, Begun, Linked
  <2>5. PoolFails(t) => Goes("over") \/ Goes("release")
    BY Zenon DEF PoolFails, Finish, Goto, Begun, Linked
  <2>6. SendFails(t) \/ TurnEnds(t) \/ StreamClosed(t) \/ TurnCancelled(t) => Goes("release")
    <3>1. SendFails(t) \/ TurnEnds(t) \/ StreamClosed(t) \/ TurnCancelled(t) =>
            pc' = [pc EXCEPT ![t] = "release"] /\ pc[t] \in {"send", "stream"}
      BY Zenon DEF SendFails, TurnEnds, StreamClosed, TurnCancelled, Finish, Goto
    <3> QED
      BY <3>1, Zenon DEF Begun, Linked
  <2>7. PICK to : Goes(to)
    BY <1>1, <2>2, <2>3, <2>4, <2>5, <2>6, Zenon DEF Moves
  <2>8. pc'[t] = to /\ \A s \in Turns \ {t} : pc'[s] = pc[s]
    BY <1>0, <2>7, Zenon
  <2>9. outcome' = outcome \/ \E what \in Outcomes \ {"timeout"} :
                                 outcome' = [outcome EXCEPT ![t] = what]
    BY <1>1, Zenon DEF Moves, GateBusy, ReserveBusy, Execute, ExecuteReserved, NotReserved,
       PoolFails, SendFails, TurnEnds, StreamClosed, TurnCancelled, Finish, Outcomes
  <2>10. \A s \in Turns : outcome'[s] = "timeout" => outcome[s] = "timeout"
    BY <1>0, <2>9, Zenon
  <2> QED
    BY <2>1, <2>7, <2>8, <2>10, Zenon DEF Quiet
<1>2. ASSUME NEW t \in Turns, GateOps(t) PROVE Quiet
  <2>1. UNCHANGED <<up, wire, running, conn, outcome>>
    BY <1>2, Zenon DEF GateOps, GateAcquire, Reserve, ReplaceCancel, SetSendCancel, Release,
       poolVars, daemonVars
  <2>2. \/ /\ pc[t] \in {"gate", "replace", "sender"}
           /\ pc' = [pc EXCEPT ![t] = "send"] \/ pc' = [pc EXCEPT ![t] = "sender"]
        \/ pc[t] = "idle" /\ pc' = [pc EXCEPT ![t] = "check"]
        \/ pc[t] = "release" /\ pc' = [pc EXCEPT ![t] = "over"]
    BY <1>2, Zenon DEF GateOps, GateAcquire, Reserve, ReplaceCancel, SetSendCancel, Release, Goto
  <2> QED
    BY <1>0, <2>1, <2>2, Zenon DEF Quiet, Begun, Linked
<1>3. ASSUME NEW x \in Cancellers, CancelTake(x) \/ CancelLocal(x) PROVE Quiet
  BY <1>3, Zenon DEF CancelTake, CancelLocal, turnVars, poolVars, daemonVars, Quiet
<1>4. CASE UNCHANGED vars
  BY <1>4, Zenon DEF vars, turnVars, poolVars, daemonVars, Quiet
<1> QED
  BY <1>1, <1>2, <1>3, <1>4, Zenon

(* They change nothing that WireInv tells. *)
LEMMA QuietKeeps == WireInv /\ TypeOK /\ Quiet => WireInv'
<1> SUFFICES ASSUME WireInv, TypeOK, Quiet PROVE WireInv'
  BY Zenon
<1>1. Connected'
  BY Zenon DEF WireInv, Connected, Quiet
<1>2. InputsOwn'
  BY DEF WireInv, InputsOwn, Quiet, TypeOK
<1>3. DownIsSilent'
  BY Zenon DEF WireInv, DownIsSilent, Quiet
<1>4. StopFollows'
  BY Zenon DEF WireInv, StopFollows, StopAfter, Quiet
<1> QED
  BY <1>1, <1>2, <1>3, <1>4, Zenon DEF WireInv

(* Stop is nobody's input, and inputs tell their turns apart. *)
LEMMA MessageFacts ==
  /\ Stop \in Messages
  /\ \A t \in Turns : Input(t) \in Messages /\ Input(t) # Stop
  /\ \A s, t \in Turns : Input(s) = Input(t) => s = t
  /\ \A m \in Messages : m.kind = "input" => m.turn \in Turns /\ m = Input(m.turn)
  /\ \A m \in Messages : m.kind = "cancel" => m = Stop
BY DEF Stop, Input, Messages

(* Writing to a connection that is up adds a message behind the others. *)
LEMMA WriteFacts ==
  ASSUME TypeOK, NEW c \in Conns, NEW m \in Messages, up[c], Send(c, m)
  PROVE  /\ \A d \in Conns \ {c} : wire'[d] = wire[d]
         /\ DOMAIN wire'[c] = 1 .. Len(wire[c]) + 1
         /\ DOMAIN wire[c] = 1 .. Len(wire[c]) /\ Len(wire[c]) \in Nat
         /\ wire'[c][Len(wire[c]) + 1] = m
         /\ \A i \in 1 .. Len(wire[c]) : wire'[c][i] = wire[c][i]
<1>1. wire \in [Conns -> Seq(Messages)] /\ wire[c] \in Seq(Messages)
  BY Zenon DEF TypeOK
<1>2. wire' = [wire EXCEPT ![c] = Append(@, m)]
  BY Zenon DEF Send
<1>3. wire'[c] = Append(wire[c], m) /\ \A d \in Conns \ {c} : wire'[d] = wire[d]
  BY <1>1, <1>2, Zenon
<1> QED
  BY <1>1, <1>3

(* A request to stop that is under way stays under way when one writes. *)
LEMMA StopStays ==
  ASSUME TypeOK, NEW c \in Conns, NEW m \in Messages, up[c], Send(c, m),
         NEW d \in Conns, NEW n \in Nat, StopAfter(d, n)
  PROVE  StopAfter(d, n)'
<1>1. CASE d = c
  <2>1. PICK j \in DOMAIN wire[c] : j > n /\ wire[c][j] = Stop
    BY <1>1, Zenon DEF StopAfter
  <2>2. j \in DOMAIN wire'[c] /\ wire'[c][j] = Stop
    BY <2>1, WriteFacts, SMTT(30)
  <2> QED
    BY <1>1, <2>1, <2>2, Zenon DEF StopAfter
<1>2. CASE d # c
  BY <1>2, WriteFacts, ZenonT(30) DEF StopAfter
<1> QED
  BY <1>1, <1>2, Zenon

(* A request to stop may be written at any time. *)
LEMMA StopWritten ==
  ASSUME TypeOK, WireInv, NEW c \in Conns, up[c], Send(c, Stop),
         UNCHANGED <<up, running, conn>>,
         \A t \in Turns :
           /\ pc[t] \in Begun => pc'[t] \in Begun
           /\ pc[t] \in {"release", "over"} => pc'[t] \in {"release", "over"}
           /\ pc'[t] \in Linked => pc[t] \in Linked
           /\ outcome'[t] = "timeout" =>
                outcome[t] = "timeout" \/ (conn[t] = c /\ pc'[t] \in {"release", "over"})
  PROVE  WireInv'
<1>0. Connected /\ InputsOwn /\ DownIsSilent /\ StopFollows /\ Stop \in Messages
  BY MessageFacts, Zenon DEF WireInv
<1>1. Connected'
  BY <1>0, Zenon DEF Connected
<1>2. InputsOwn'
  <2>1. ASSUME NEW d \in Conns, NEW i \in DOMAIN wire'[d], NEW t \in Turns,
               wire'[d][i] = Input(t)
        PROVE  i \in DOMAIN wire[d] /\ wire[d][i] = Input(t)
    <3>1. CASE d # c
      BY <1>0, <2>1, <3>1, WriteFacts, SMTT(30)
    <3>2. CASE d = c
      BY <1>0, <2>1, <3>2, WriteFacts, MessageFacts, SMTT(30)
    <3> QED
      BY <3>1, <3>2, Zenon
  <2>2. running # NoTurn => running \in Turns
    BY Zenon DEF TypeOK
  <2> QED
    BY <1>0, <2>1, <2>2 DEF InputsOwn
<1>3. DownIsSilent'
  BY <1>0, WriteFacts DEF DownIsSilent
<1>4. ASSUME NEW t \in Turns, outcome'[t] = "timeout"
      PROVE  /\ running' = t => StopAfter(conn[t], 0)'
             /\ \A i \in DOMAIN wire'[conn[t]] :
                  wire'[conn[t]][i] = Input(t) => StopAfter(conn[t], i)'
  <2>1. CASE conn[t] = c
    <3>1. \A n \in 0 .. Len(wire[c]) : StopAfter(c, n)'
      BY <1>0, WriteFacts, SMTT(30) DEF StopAfter
    <3>2. \A i \in DOMAIN wire'[c] : wire'[c][i] = Input(t) => i \in 1 .. Len(wire[c])
      BY <1>0, WriteFacts, MessageFacts, SMTT(30)
    <3>3. 0 \in 0 .. Len(wire[c])
      BY <1>0, WriteFacts, SMTT(30)
    <3> QED
      BY <2>1, <3>1, <3>2, <3>3, SMTT(30)
  <2>2. CASE conn[t] # c
    <3>1. outcome[t] = "timeout" /\ conn[t] \in Conns
      BY <1>0, <1>4, <2>2, Zenon DEF Connected
    <3>2. wire'[conn[t]] = wire[conn[t]]
      BY <1>0, <2>2, <3>1, WriteFacts, Zenon
    <3> QED
      BY <1>0, <3>1, <3>2 DEF StopFollows, StopAfter
  <2> QED
    BY <2>1, <2>2, Zenon
<1>5. StopFollows'
  BY <1>4, Zenon DEF StopFollows
<1> QED
  BY <1>1, <1>2, <1>3, <1>5, Zenon DEF WireInv

(* runTurn writes its input behind what is there. *)
LEMMA InputWritten ==
  ASSUME TypeOK, WireInv, NEW t \in Turns, SendInput(t)
  PROVE  WireInv'
<1>0. /\ Connected /\ InputsOwn /\ DownIsSilent /\ StopFollows
      /\ Input(t) \in Messages
      /\ pc \in [Turns -> PCs] /\ running \in Turns \cup {NoTurn}
  BY MessageFacts, Zenon DEF WireInv, TypeOK
<1> DEFINE c == conn[t]
<1>1. /\ c \in Conns /\ up[c] /\ Send(c, Input(t))
      /\ UNCHANGED <<up, running, conn, outcome>>
      /\ outcome[t] # "timeout"
  BY <1>0, Zenon DEF SendInput, Connected, Linked, poolVars
<1>2. pc'[t] = "stream" /\ pc[t] = "send" /\ \A s \in Turns \ {t} : pc'[s] = pc[s]
  BY <1>0, Zenon DEF SendInput, Goto
<1> HIDE DEF c
<1>3. Connected'
  BY <1>0, <1>1, <1>2, Zenon DEF Connected, Linked, c
<1>4. ASSUME NEW d \in Conns, NEW i \in DOMAIN wire'[d], NEW s \in Turns,
             wire'[d][i] = Input(s)
      PROVE  (i \in DOMAIN wire[d] /\ wire[d][i] = Input(s)) \/ (s = t /\ d = c)
  <2>1. CASE d # c
    BY <1>0, <1>1, <1>4, <2>1, WriteFacts, ZenonT(30)
  <2>2. CASE d = c
    BY <1>0, <1>1, <1>4, <2>2, WriteFacts, MessageFacts, SMTT(30)
  <2> QED
    BY <2>1, <2>2, Zenon
<1>5. InputsOwn'
  <2>1. \A s \in Turns : pc[s] \in Begun => pc'[s] \in Begun
    BY <1>2, Zenon DEF Begun
  <2>2. ASSUME NEW d \in Conns, NEW i \in DOMAIN wire'[d], NEW s \in Turns,
               wire'[d][i] = Input(s)
        PROVE  conn'[s] = d /\ pc'[s] \in Begun
    BY <1>0, <1>1, <1>2, <1>4, <2>1, <2>2, SMTT(30) DEF InputsOwn, Begun, c
  <2> QED
    BY <1>0, <1>1, <2>1, <2>2, Zenon DEF InputsOwn
<1>6. DownIsSilent'
  BY <1>0, <1>1, WriteFacts, Zenon DEF DownIsSilent
<1>7. ASSUME NEW s \in Turns, outcome'[s] = "timeout"
      PROVE  /\ running' = s => StopAfter(conn[s], 0)'
             /\ \A i \in DOMAIN wire'[conn[s]] :
                  wire'[conn[s]][i] = Input(s) => StopAfter(conn[s], i)'
  <2>1. outcome[s] = "timeout" /\ s # t /\ conn[s] \in Conns
    BY <1>0, <1>1, <1>7, Zenon DEF Connected
  <2>2. \A n \in Nat : StopAfter(conn[s], n) => StopAfter(conn[s], n)'
    BY <1>0, <1>1, <2>1, StopStays, Zenon
  <2>3. DOMAIN wire[conn[s]] \subseteq Nat
    BY <2>1 DEF TypeOK
  <2> QED
    BY <1>0, <1>1, <1>4, <2>1, <2>2, <2>3, Zenon DEF StopFollows
<1>8. StopFollows'
  BY <1>1, <1>7, Zenon DEF StopFollows
<1> QED
  BY <1>3, <1>5, <1>6, <1>8, Zenon DEF WireInv

(* A timer fires: runTurn tells the daemon to stop, if it can, and gives up. *)
LEMMA TimeoutKeeps ==
  ASSUME TypeOK, WireInv, NEW t \in Turns, Timeout(t)
  PROVE  WireInv'
<1>0. /\ Connected /\ InputsOwn /\ DownIsSilent /\ StopFollows
      /\ pc \in [Turns -> PCs] /\ outcome \in [Turns -> Outcomes]
  BY Zenon DEF WireInv, TypeOK
<1>1. /\ conn[t] \in Conns /\ Send(conn[t], Stop) /\ pc[t] = "stream"
      /\ UNCHANGED <<up, running, conn>>
  BY <1>0, Zenon DEF Timeout, Connected, Linked, poolVars
<1>2. /\ pc'[t] = "release" /\ \A s \in Turns \ {t} : pc'[s] = pc[s]
      /\ \A s \in Turns \ {t} : outcome'[s] = outcome[s]
  BY <1>0, Zenon DEF Timeout, Finish, Goto
<1>3. \A s \in Turns :
        /\ pc[s] \in Begun => pc'[s] \in Begun
        /\ pc[s] \in {"release", "over"} => pc'[s] \in {"release", "over"}
        /\ pc'[s] \in Linked => pc[s] \in Linked
        /\ outcome'[s] = "timeout" =>
             outcome[s] = "timeout" \/ (s = t /\ pc'[s] \in {"release", "over"})
  BY <1>1, <1>2, Zenon DEF Begun, Linked
<1>4. CASE up[conn[t]]
  BY <1>1, <1>3, <1>4, StopWritten, Zenon
<1>5. CASE ~up[conn[t]]
  <2>1. wire' = wire /\ wire[conn[t]] = <<>> /\ running # t
    BY <1>0, <1>1, <1>5, TurnAssumption, Zenon DEF Send, DownIsSilent
  <2>2. Connected'
    BY <1>0, <1>1, <1>3, ZenonT(30) DEF Connected
  <2>3. InputsOwn'
    BY <1>0, <1>1, <1>3, <2>1 DEF InputsOwn, TypeOK
  <2>4. DownIsSilent'
    BY <1>0, <1>1, <2>1, ZenonT(30) DEF DownIsSilent
  <2>5. StopFollows'
    BY <1>0, <1>1, <1>3, <2>1 DEF StopFollows, StopAfter
  <2> QED
    BY <2>2, <2>3, <2>4, <2>5, Zenon DEF WireInv
<1> QED
  BY <1>4, <1>5, Zenon

(* Cancel calls the sender it took. *)
LEMMA TellKeeps ==
  ASSUME TypeOK, WireInv, NEW x \in Cancellers, CancelTell(x)
  PROVE  WireInv'
<1>1. UNCHANGED <<up, running, conn, pc, outcome>>
  BY Zenon DEF CancelTell, turnVars, poolVars
<1>2. \/ wire' = wire
      \/ \E c \in Conns : up[c] /\ Send(c, Stop)
  <2>1. wire' = wire \/ Send(conn[took[x].sendCancel], Stop)
    BY Zenon DEF CancelTell
  <2>2. ASSUME NEW c, Send(c, Stop), c \notin Conns PROVE wire' = wire
    BY <2>2 DEF Send, TypeOK
  <2>3. ASSUME NEW c, Send(c, Stop), ~up[c] PROVE wire' = wire
    BY <2>3, Zenon DEF Send
  <2> QED
    BY <2>1, <2>2, <2>3, Zenon
<1>3. CASE wire' = wire
  BY <1>1, <1>3, QuietKeeps, Zenon DEF Quiet
<1>4. ASSUME NEW c \in Conns, up[c], Send(c, Stop) PROVE WireInv'
  BY <1>1, <1>4, StopWritten, Zenon
<1> QED
  BY <1>2, <1>3, <1>4, Zenon

(* A connection closes: what it carried and the query it brought are gone. *)
LEMMA ClosesKeeps ==
  ASSUME TypeOK, WireInv, NEW c \in Conns, Closes(c), conn' = conn,
         \A t \in Turns :
           /\ pc[t] \in Begun => pc'[t] \in Begun
           /\ pc[t] \in {"release", "over"} => pc'[t] \in {"release", "over"}
           /\ pc'[t] \in Linked => pc[t] \in Linked
           /\ outcome'[t] = "timeout" => outcome[t] = "timeout"
  PROVE  WireInv'
<1>0. /\ Connected /\ InputsOwn /\ DownIsSilent /\ StopFollows
      /\ up \in [Conns -> BOOLEAN] /\ wire \in [Conns -> Seq(Messages)]
      /\ running \in Turns \cup {NoTurn}
  BY Zenon DEF WireInv, TypeOK
<1>1. /\ wire'[c] = <<>> /\ \A d \in Conns \ {c} : wire'[d] = wire[d]
      /\ up'[c] = FALSE /\ \A d \in Conns \ {c} : up'[d] = up[d]
      /\ running' = running \/ running' = NoTurn
      /\ running' # NoTurn => conn[running] # c
  BY <1>0, Zenon DEF Closes
<1>2. Connected'
  BY <1>0, Zenon DEF Connected
<1>3. InputsOwn'
  <2>1. \A d \in Conns : \A i \in DOMAIN wire'[d] : d # c
    BY <1>1
  <2> QED
    BY <1>0, <1>1, <2>1, SMTT(30) DEF InputsOwn
<1>4. DownIsSilent'
  BY <1>0, <1>1, Zenon DEF DownIsSilent, InputsOwn
<1>5. ASSUME NEW t \in Turns, outcome'[t] = "timeout"
      PROVE  /\ running' = t => StopAfter(conn[t], 0)'
             /\ \A i \in DOMAIN wire'[conn[t]] :
                  wire'[conn[t]][i] = Input(t) => StopAfter(conn[t], i)'
  <2>1. outcome[t] = "timeout" /\ conn[t] \in Conns
    BY <1>0, <1>5, ZenonT(30) DEF Connected
  <2>2. CASE conn[t] = c
    BY <1>1, <2>2, TurnAssumption, SMTT(30)
  <2>3. CASE conn[t] # c
    BY <1>0, <1>1, <2>1, <2>3, TurnAssumption, SMTT(30) DEF StopFollows, StopAfter
  <2> QED
    BY <2>2, <2>3, Zenon
<1>6. StopFollows'
  BY <1>5, Zenon DEF StopFollows
<1> QED
  BY <1>2, <1>3, <1>4, <1>6, Zenon DEF WireInv

(* The daemon reads the first message of a connection. *)
LEMMA ReadKeeps ==
  ASSUME TypeOK, WireInv, NEW c \in Conns, DaemonRead(c)
  PROVE  WireInv'
<1>0. /\ Connected /\ InputsOwn /\ DownIsSilent /\ StopFollows
      /\ wire \in [Conns -> Seq(Messages)] /\ wire[c] \in Seq(Messages)
      /\ running \in Turns \cup {NoTurn} /\ NoTurn \notin Turns
  BY TurnAssumption, Zenon DEF WireInv, TypeOK
<1> DEFINE m == Head(wire[c])
<1>1. /\ wire[c] # <<>> /\ wire'[c] = Tail(wire[c])
      /\ \A d \in Conns \ {c} : wire'[d] = wire[d]
      /\ UNCHANGED <<pc, outcome, conn, up>>
  BY <1>0, Zenon DEF DaemonRead, turnVars, poolVars
<1>2. /\ m \in Messages /\ m = wire[c][1] /\ Len(wire[c]) \in Nat \ {0}
      /\ DOMAIN wire[c] = 1 .. Len(wire[c])
      /\ DOMAIN wire'[c] = 1 .. Len(wire[c]) - 1
      /\ \A i \in 1 .. Len(wire[c]) - 1 : wire'[c][i] = wire[c][i + 1]
  BY <1>0, <1>1
<1>3. \/ /\ running = NoTurn /\ running' \in Turns /\ m = Input(running')
         /\ conn[running'] = c /\ pc[running'] \in Begun
      \/ m = Stop /\ running' = NoTurn
  <2>1. CASE m.kind = "input" /\ running = NoTurn /\ running' = m.turn
    <3>1. running' \in Turns /\ m = Input(running')
      BY <1>2, <2>1, MessageFacts, Zenon
    <3>2. 1 \in DOMAIN wire[c]
      BY <1>2
    <3> QED
      BY <1>0, <1>2, <2>1, <3>1, <3>2, SMTT(30) DEF InputsOwn
  <2>2. CASE m.kind = "cancel" /\ running' = NoTurn
    BY <1>2, <2>2, MessageFacts, Zenon
  <2> QED
    BY <2>1, <2>2, Zenon DEF DaemonRead
<1> HIDE DEF m
<1>4. Connected'
  BY <1>0, <1>1, Zenon DEF Connected
<1>5. ASSUME NEW d \in Conns, NEW i \in DOMAIN wire'[d]
      PROVE  \E k \in DOMAIN wire[d] :
               wire'[d][i] = wire[d][k]
  <2>1. CASE d = c
    <3>1. i + 1 \in DOMAIN wire[c] /\ wire'[c][i] = wire[c][i + 1]
      BY <1>2, <1>5, <2>1, SMTT(30)
    <3> QED
      BY <2>1, <3>1, Zenon
  <2>2. CASE d # c
    BY <1>1, <1>5, <2>2, Zenon
  <2> QED
    BY <2>1, <2>2, Zenon
<1>6. InputsOwn'
  BY <1>0, <1>1, <1>3, <1>5 DEF InputsOwn
<1>7. DownIsSilent'
  BY <1>0, <1>1, <1>3, Zenon DEF DownIsSilent
<1>8. ASSUME NEW n \in Nat, StopAfter(c, n + 1) PROVE StopAfter(c, n)'
  <2>1. PICK j \in DOMAIN wire[c] : j > n + 1 /\ wire[c][j] = Stop
    BY <1>8, Zenon DEF StopAfter
  <2>2. j - 1 \in DOMAIN wire'[c] /\ j - 1 > n /\ wire'[c][j - 1] = Stop
    BY <1>2, <2>1, SMTT(30)
  <2> QED
    BY <2>2, Zenon DEF StopAfter
<1>9. ASSUME NEW t \in Turns, outcome'[t] = "timeout"
      PROVE  /\ running' = t => StopAfter(conn[t], 0)'
             /\ \A i \in DOMAIN wire'[conn[t]] :
                  wire'[conn[t]][i] = Input(t) => StopAfter(conn[t], i)'
  <2>1. outcome[t] = "timeout" /\ conn[t] \in Conns
    BY <1>0, <1>1, <1>9, Zenon DEF Connected
  <2>2. CASE conn[t] = c
    <3>1. running' = t => wire[c][1] = Input(t) /\ 1 \in DOMAIN wire[c]
      BY <1>0, <1>2, <1>3, SMTT(30)
    <3>2. running' = t => StopAfter(c, 0 + 1)
      BY <1>0, <2>1, <2>2, <3>1, SMTT(30) DEF StopFollows
    <3>3. ASSUME NEW i \in DOMAIN wire'[c], wire'[c][i] = Input(t)
          PROVE  StopAfter(c, i + 1) /\ i \in Nat
      BY <1>0, <1>2, <2>1, <2>2, <3>3, SMTT(30) DEF StopFollows
    <3>4. running' = t => StopAfter(c, 0)'
      BY <1>8, <3>2, Zenon
    <3>5. \A i \in DOMAIN wire'[c] : wire'[c][i] = Input(t) => StopAfter(c, i)'
      BY <1>8, <3>3, ZenonT(30)
    <3> QED
      BY <1>1, <2>2, <3>4, <3>5, ZenonT(30)
  <2>3. CASE conn[t] # c
    <3>1. running' # t
      BY <1>0, <1>3, <2>3, Zenon
    <3> QED
      BY <1>0, <1>1, <2>1, <2>3, <3>1 DEF StopFollows, StopAfter
  <2> QED
    BY <2>2, <2>3, Zenon
<1>10. StopFollows'
  BY <1>1, <1>9, Zenon DEF StopFollows
<1> QED
  BY <1>4, <1>6, <1>7, <1>10, Zenon DEF WireInv

(* pool.Acquire gives a connection to a turn that has written nothing. *)
LEMMA PoolKeeps ==
  ASSUME TypeOK, WireInv, NEW t \in Turns, PoolReuse(t) \/ PoolConnect(t)
  PROVE  WireInv'
<1>0. /\ Connected /\ InputsOwn /\ DownIsSilent /\ StopFollows
      /\ pc \in [Turns -> PCs] /\ conn \in [Turns -> Conns \cup {NoConn}]
      /\ up \in [Conns -> BOOLEAN] /\ running \in Turns \cup {NoTurn}
  BY Zenon DEF WireInv, TypeOK
<1>1. /\ pc[t] = "pool" /\ pc'[t] \notin Begun
      /\ \A s \in Turns \ {t} : pc'[s] = pc[s] /\ conn'[s] = conn[s]
      /\ UNCHANGED <<wire, running, outcome>>
  BY <1>0, Zenon DEF PoolReuse, PoolConnect, Goto, AfterPool, Begun, daemonVars
<1>2. conn'[t] \in Conns /\ \A c \in Conns : up[c] => up'[c]
  <2>1. CASE PoolReuse(t)
    BY <1>0, <2>1, Zenon DEF PoolReuse, Live, poolVars, TypeOK
  <2>2. CASE PoolConnect(t)
    <3>1. conns' \in Conns
      BY <2>2, TurnAssumption, SMTT(30) DEF PoolConnect, Conns, TypeOK
    <3> QED
      BY <1>0, <2>2, <3>1, ZenonT(30) DEF PoolConnect
  <2> QED
    BY <2>1, <2>2, Zenon
<1>3. /\ running # t /\ outcome[t] # "timeout"
      /\ \A c \in Conns : \A i \in DOMAIN wire[c] : wire[c][i] # Input(t)
  BY <1>0, <1>1, TurnAssumption DEF InputsOwn, Connected, Begun
<1>4. Connected'
  BY <1>0, <1>1, <1>2, <1>3, ZenonT(30) DEF Connected
<1>5. InputsOwn'
  BY <1>0, <1>1, <1>3 DEF InputsOwn
<1>6. DownIsSilent'
  BY <1>0, <1>1, <1>2, <1>3, ZenonT(30) DEF DownIsSilent, InputsOwn
<1>7. StopFollows'
  <2>1. ASSUME NEW s \in Turns, outcome'[s] = "timeout" PROVE conn'[s] = conn[s]
    BY <1>1, <1>3, <2>1, Zenon
  <2> QED
    BY <1>0, <1>1, <2>1 DEF StopFollows, StopAfter
<1> QED
  BY <1>4, <1>5, <1>6, <1>7, Zenon DEF WireInv

(* Every step keeps what is under way in order. *)
LEMMA WireStep == TypeOK /\ WireInv /\ [Next]_vars => WireInv'
<1> SUFFICES ASSUME TypeOK, WireInv, [Next]_vars PROVE WireInv'
  BY Zenon
<1>1. ASSUME \/ \E t \in Turns : Moves(t) \/ GateOps(t)
             \/ \E x \in Cancellers : CancelTake(x) \/ CancelLocal(x)
             \/ UNCHANGED vars
      PROVE  WireInv'
  BY <1>1, QuietSteps, QuietKeeps, Zenon
<1>2. ASSUME NEW t \in Turns, BusyRelease(t) PROVE WireInv'
  <2>1. /\ conn' = conn
        /\ \A s \in Turns :
             /\ pc[s] \in Begun => pc'[s] \in Begun
             /\ pc[s] \in {"release", "over"} => pc'[s] \in {"release", "over"}
             /\ pc'[s] \in Linked => pc[s] \in Linked
             /\ outcome'[s] = "timeout" => outcome[s] = "timeout"
    BY <1>2, Zenon DEF BusyRelease, Finish, Goto, Begun, Linked, TypeOK
  <2>2. CASE cur = NoConn
    BY <1>2, <2>1, <2>2, QuietKeeps, Zenon DEF BusyRelease, Quiet, daemonVars
  <2>3. CASE cur # NoConn
    BY <1>2, <2>1, <2>3, ClosesKeeps, Zenon DEF BusyRelease, TypeOK
  <2> QED
    BY <2>2, <2>3, Zenon
<1>3. ASSUME NEW c \in Conns, Drop(c) PROVE WireInv'
  <2>1. UNCHANGED <<conn, pc, outcome>> /\ Closes(c)
    BY <1>3, Zenon DEF Drop, turnVars
  <2> QED
    BY <2>1, ClosesKeeps, Zenon
<1>4. CASE DaemonFinish
  <2>1. running' = NoTurn /\ UNCHANGED <<up, wire, conn, pc, outcome>>
    BY <1>4, Zenon DEF DaemonFinish, turnVars, poolVars
  <2>2. Connected' /\ InputsOwn' /\ DownIsSilent'
    BY <2>1 DEF WireInv, Connected, InputsOwn, DownIsSilent
  <2>3. StopFollows'
    BY <2>1, TurnAssumption, ZenonT(30) DEF WireInv, StopFollows, StopAfter
  <2> QED
    BY <2>2, <2>3, Zenon DEF WireInv
<1> QED
  BY <1>1, <1>2, <1>3, <1>4, Steps, PoolKeeps, InputWritten, TimeoutKeeps, TellKeeps, ReadKeeps, Zenon
     DEF Works, Outside

(* GateInv and WireInv are invariants of the runner. *)
LEMMA RunnerInvariant == Spec => [](GateInv /\ WireInv)
<1>1. Init => WireInv
  BY TurnAssumption DEF Init, WireInv, Connected, InputsOwn, DownIsSilent, StopFollows, Linked
<1>2. GateInv => TypeOK
  BY Zenon DEF GateInv
<1> QED
  BY <1>1, <1>2, GateStart, GateStep, WireStep, PTL DEF Spec

(* However many turns and Cancels race for a key, the turns in flight       *)
(* outnumber the Cancels that took a reservation by one at most: without    *)
(* Cancel, QueryGate is single-flight.                                      *)
THEOREM GateBoundsFlight == Spec => []SingleFlight
BY GateInvariant, FlightBound, PTL

(* QueryGate never keeps the key for a turn that is over.                   *)
THEOREM NoReservationLeft == Spec => []NoStaleReservation
<1>1. GateInv => NoStaleReservation
  BY Zenon DEF GateInv
<1> QED
  BY <1>1, GateInvariant, PTL

(* QueryGate.Cancel has told the daemon before it cancels the context of a  *)
(* turn of Execute, whatever the other calls do in between.                 *)
THEOREM DaemonToldFirst == Spec => []ToldFirst
<1>1. GateInv => ToldFirst
  BY Zenon DEF GateInv
<1> QED
  BY <1>1, GateInvariant, PTL

(* A turn that runTurn gave up at a timeout leaves no query of its own at   *)
(* the daemon, once the daemon has read what was written: the request to    *)
(* stop goes behind the input on the same connection, whatever the other    *)
(* turns, the Cancels and the network do.                                   *)
THEOREM TimeoutsStop == Spec => []TimeoutStops
<1>1. GateInv /\ WireInv => TimeoutStops
  BY DEF GateInv, WireInv, StopFollows, StopAfter, TimeoutStops
<1> QED
  BY <1>1, RunnerInvariant, PTL

=============================================================================
