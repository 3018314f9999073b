------------------------ MODULE ConnectionPool_proofs ------------------------
(***************************************************************************)
(* Proofs about ConnectionPool, for any number of callers, keys and slots. *)
(***************************************************************************)
EXTENDS ConnectionPool, FiniteSetTheorems, TLAPS

(***************************************************************************)
(* Every step of every caller, and every drop of a connection, keeps the   *)
(* pool's maps, the channel and the callers' locals well typed.            *)
(***************************************************************************)
LEMMA TypeStep == TypeOK /\ [Next]_vars => TypeOK'
<1> SUFFICES ASSUME TypeOK, [Next]_vars PROVE TypeOK'
  BY Zenon
<1> USE PoolAssumption
<1> USE DEF SlotIDs, LoopIDs, NoSlot, NoLoop, Links, PCs, AcquirePCs,
            ReleasePCs, StopPCs, TypeOK, Goto, CallRelease, slotVars,
            linkVars, callVars
<1>1. ASSUME NEW c \in Callers, NEW k \in AppKeys, Acquire(c, k) PROVE TypeOK'
  BY <1>1, SMTT(30) DEF Acquire
<1>2. ASSUME NEW c \in Callers, NEW k \in AppKeys, Release(c, k) PROVE TypeOK'
  BY <1>2, SMTT(30) DEF Release
<1>3. ASSUME NEW c \in Callers, StopCollect(c) PROVE TypeOK'
  <2>1. ActiveSet \subseteq SlotIDs
    BY DEF ActiveSet
  <2> QED
    BY <1>3, <2>1, SMTT(30) DEF StopCollect
<1>4. ASSUME NEW c \in Callers, Done(c) PROVE TypeOK'
  BY <1>4, Zenon DEF Done
<1>5. ASSUME NEW c \in Callers, CheckStale(c) PROVE TypeOK'
  BY <1>5, ZenonT(20) DEF CheckStale
<1>6. ASSUME NEW c \in Callers, Reuse(c) PROVE TypeOK'
  BY <1>6, Zenon DEF Reuse
<1>7. ASSUME NEW c \in Callers, IdleTooLong(c) PROVE TypeOK'
  BY <1>7, Zenon DEF IdleTooLong
<1>8. ASSUME NEW c \in Callers, NoReuse(c) PROVE TypeOK'
  BY <1>8, Zenon DEF NoReuse
<1>9. ASSUME NEW c \in Callers, PullNothing(c) PROVE TypeOK'
  BY <1>9, Zenon DEF PullNothing
<1>10. ASSUME NEW c \in Callers, NEW s \in SlotIDs, Pull(c, s) PROVE TypeOK'
  BY <1>10, Zenon DEF Pull
<1>11. ASSUME NEW c \in Callers, Track(c) PROVE TypeOK'
  BY <1>11, Zenon DEF Track
<1>12. ASSUME NEW c \in Callers, NEW l \in LoopIDs \cup {NoLoop},
              LoopIDFor(c, l)
       PROVE  TypeOK'
  BY <1>12, Zenon DEF LoopIDFor
<1>13. ASSUME NEW c \in Callers, Connect(c) PROVE TypeOK'
  BY <1>13, Zenon DEF Connect
<1>14. ASSUME NEW c \in Callers, ConnectFails(c) PROVE TypeOK'
  BY <1>14, Zenon DEF ConnectFails
<1>15. ASSUME NEW c \in Callers, ReattachConnect(c) PROVE TypeOK'
  BY <1>15, Zenon DEF ReattachConnect
<1>16. ASSUME NEW c \in Callers, ReattachProbe(c) PROVE TypeOK'
  BY <1>16, Zenon DEF ReattachProbe
<1>17. ASSUME NEW c \in Callers, ReattachFails(c) PROVE TypeOK'
  BY <1>17, Zenon DEF ReattachFails
<1>18. ASSUME NEW c \in Callers, Bootstrap(c) PROVE TypeOK'
  BY <1>18, SMTT(30) DEF Bootstrap
<1>19. ASSUME NEW c \in Callers, BootstrapFails(c) PROVE TypeOK'
  BY <1>19, Zenon DEF BootstrapFails
<1>20. ASSUME NEW c \in Callers, StartReader(c) PROVE TypeOK'
  BY <1>20, ZenonT(20) DEF StartReader
<1>21. ASSUME NEW c \in Callers, NEW l \in LoopIDs \cup {NoLoop},
              CreateSession(c, l)
       PROVE  TypeOK'
  BY <1>21, Zenon DEF CreateSession
<1>22. ASSUME NEW c \in Callers, Bind(c) PROVE TypeOK'
  BY <1>22, Zenon DEF Bind
<1>23. ASSUME NEW c \in Callers, Detach(c) PROVE TypeOK'
  BY <1>23, ZenonT(30) DEF Detach
<1>24. ASSUME NEW c \in Callers, DetachNothing(c) PROVE TypeOK'
  BY <1>24, Zenon DEF DetachNothing
<1>25. ASSUME NEW c \in Callers, CloseSlot(c) PROVE TypeOK'
  BY <1>25, Zenon DEF CloseSlot, Closed
<1>26. ASSUME NEW c \in Callers, ReturnSlot(c) PROVE TypeOK'
  BY <1>26, SMTT(30) DEF ReturnSlot
<1>27. ASSUME NEW c \in Callers, NEW s \in SlotIDs, StopClose(c, s)
       PROVE  TypeOK'
  BY <1>27, Zenon DEF StopClose, Closed
<1>28. ASSUME NEW c \in Callers, StopClosed(c) PROVE TypeOK'
  BY <1>28, ZenonT(20) DEF StopClosed
<1>29. ASSUME NEW c \in Callers, NEW s \in SlotIDs, StopDrain(c, s)
       PROVE  TypeOK'
  BY <1>29, ZenonT(20) DEF StopDrain, Closed
<1>30. ASSUME NEW c \in Callers, StopDone(c) PROVE TypeOK'
  BY <1>30, ZenonT(20) DEF StopDone
<1>31. ASSUME NEW s \in SlotIDs, Drop(s) PROVE TypeOK'
  BY <1>31, Zenon DEF Drop
<1>32. CASE UNCHANGED vars
  BY <1>32, Zenon DEF vars
<1> QED
  BY <1>1, <1>2, <1>3, <1>4, <1>5, <1>6, <1>7, <1>8, <1>9, <1>10, <1>11,
     <1>12, <1>13, <1>14, <1>15, <1>16, <1>17, <1>18, <1>19, <1>20, <1>21,
     <1>22, <1>23, <1>24, <1>25, <1>26, <1>27, <1>28, <1>29, <1>30, <1>31,
     <1>32, ZenonT(20) DEF Next, Call, Step

(***************************************************************************)
(* The pool starts well typed and stays so: Spec => []TypeOK.              *)
(***************************************************************************)
THEOREM TypeCorrect == Spec => []TypeOK
<1>1. Init => TypeOK
  BY PoolAssumption DEF Init, TypeOK, SlotIDs, LoopIDs, NoSlot, NoLoop, Links,
     PCs, AcquirePCs, ReleasePCs, StopPCs
<1> QED
  BY <1>1, TypeStep, PTL DEF Spec

-----------------------------------------------------------------------------
(* The inductive invariant *)

(* Slots are born once and are idle, released or stopped, never two of them. *)
SlotsApart ==
  /\ pool \cup released \cup drained \subseteq Born
  /\ pool \cap (released \cup drained) = {}
  /\ released \cap drained = {}

(* A slot that was never pulled is as newSlot made it. *)
UnpulledFresh ==
  \A s \in SlotIDs : s \in pool \/ s >= nextSlotID =>
    link[s] = "new" /\ registry[s] = NoKey /\ loopID[s] = NoLoop

(* Recorded connections are pulled slots, a different one for each key. *)
ActiveHeld ==
  /\ \A k \in AppKeys : activeSlots[k] # NoSlot => activeSlots[k] \in Held
  /\ \A j, k \in AppKeys :
       activeSlots[j] = activeSlots[k] /\ activeSlots[j] # NoSlot => j = k

(* A caller works on a slot that has been pulled. *)
CallerSlots ==
  \A c \in Callers :
    /\ Using(c) /\ conn[c] # NoSlot => conn[c] \in Born \ pool
    /\ Using(c) /\ pc[c] \notin {"stale?", "reuse?"} => conn[c] # NoSlot

(* Between the pull and the entry into activeSlots the slot is the caller's *)
(* alone.                                                                   *)
TrackExclusive ==
  \A c \in Callers : pc[c] = "track" =>
    /\ conn[c] \in Held
    /\ \A k \in AppKeys : activeSlots[k] # conn[c]
    /\ \A d \in Callers : d # c /\ pc[d] = "track" => conn[d] # conn[c]

(* Stop closes only slots it took out of the maps. *)
StoppingDrained == \A c \in Callers : stopping[c] \subseteq drained

(* Each released slot has been replaced, or a Release still owes its        *)
(* replacement.                                                             *)
ReturnsOwed ==
  Cardinality(released) + PoolSize = nextSlotID - 1 + Cardinality(Releasing)

PoolInv ==
  /\ TypeOK
  /\ SlotsApart
  /\ UnpulledFresh
  /\ ActiveHeld
  /\ CallerSlots
  /\ KeyIsolation
  /\ TrackExclusive
  /\ StoppingDrained
  /\ ReturnsOwed

(***************************************************************************)
(* A step that stays within one call: the caller moves on, the maps and    *)
(* the channel do not change, and at most the slot it works on is touched. *)
(***************************************************************************)
Advance(c) ==
  /\ UNCHANGED <<slotVars, key, conn, stopping, released, drained>>
  /\ \A d \in Callers \ {c} : pc'[d] = pc[d]
  /\ pc'[c] # "track"
  /\ Using(c)' => Using(c) /\ (pc'[c] # "reuse?" => conn[c] # NoSlot)
  /\ pc'[c] \in {"close", "return"} <=> pc[c] \in {"close", "return"}
  /\ \A s \in SlotIDs : s \in pool \/ s >= nextSlotID =>
       link'[s] = link[s] /\ loopID'[s] = loopID[s]

(***************************************************************************)
(* Every step of Acquire, Release and Stop that neither pulls, records,    *)
(* detaches, returns nor collects a slot is an Advance.                    *)
(***************************************************************************)
LEMMA StepsAdvance ==
  ASSUME PoolInv, NEW c \in Callers,
         \/ Done(c) \/ CheckStale(c) \/ Reuse(c)
         \/ IdleTooLong(c) \/ NoReuse(c) \/ PullNothing(c)
         \/ Connect(c) \/ ConnectFails(c) \/ ReattachConnect(c)
         \/ ReattachProbe(c) \/ ReattachFails(c) \/ Bootstrap(c)
         \/ BootstrapFails(c) \/ StartReader(c) \/ Bind(c)
         \/ DetachNothing(c) \/ CloseSlot(c) \/ StopClosed(c)
         \/ StopDone(c)
         \/ \E l \in LoopIDs \cup {NoLoop} : LoopIDFor(c, l) \/ CreateSession(c, l)
  PROVE  Advance(c)
<1> USE DEF PoolInv, TypeOK, CallerSlots, Advance, Using, Born, SlotIDs, NoSlot,
            AcquirePCs, Goto, CallRelease, slotVars, linkVars
<1>1. CASE Done(c)
  BY <1>1, ZenonT(30) DEF Done
<1>2. CASE CheckStale(c)
  BY <1>2 DEF CheckStale
<1>3. CASE Reuse(c)
  BY <1>3, Zenon DEF Reuse
<1>4. CASE IdleTooLong(c)
  BY <1>4, Zenon DEF IdleTooLong
<1>5. CASE NoReuse(c)
  BY <1>5, Zenon DEF NoReuse
<1>6. CASE PullNothing(c)
  BY <1>6, Zenon DEF PullNothing
<1>7. ASSUME NEW l \in LoopIDs \cup {NoLoop}, LoopIDFor(c, l) PROVE Advance(c)
  BY <1>7, Zenon DEF LoopIDFor
<1>8. CASE Connect(c)
  BY <1>8, SMTT(30) DEF Connect
<1>9. CASE ConnectFails(c)
  BY <1>9, SMTT(30) DEF ConnectFails
<1>10. CASE ReattachConnect(c)
  BY <1>10 DEF ReattachConnect
<1>11. CASE ReattachProbe(c)
  BY <1>11, Zenon DEF ReattachProbe
<1>12. CASE ReattachFails(c)
  BY <1>12, Zenon DEF ReattachFails
<1>13. CASE Bootstrap(c)
  BY <1>13, Zenon DEF Bootstrap
<1>14. CASE BootstrapFails(c)
  BY <1>14, ZenonT(30) DEF BootstrapFails
<1>15. CASE StartReader(c)
  BY <1>15, SMTT(30) DEF StartReader
<1>16. ASSUME NEW l \in LoopIDs \cup {NoLoop}, CreateSession(c, l) PROVE Advance(c)
  BY <1>16, SMTT(30) DEF CreateSession
<1>17. CASE Bind(c)
  BY <1>17, SMTT(30) DEF Bind
<1>18. CASE DetachNothing(c)
  BY <1>18, SMTT(30) DEF DetachNothing
<1>19. CASE CloseSlot(c)
  BY <1>19 DEF CloseSlot, Closed
<1>20. CASE StopClosed(c)
  BY <1>20, Zenon DEF StopClosed
<1>21. CASE StopDone(c)
  BY <1>21, Zenon DEF StopDone
<1> QED
  BY <1>1, <1>2, <1>3, <1>4, <1>5, <1>6, <1>7, <1>8, <1>9, <1>10, <1>11,
     <1>12, <1>13, <1>14, <1>15, <1>16, <1>17, <1>18, <1>19, <1>20, <1>21, ZenonT(30)

(* Slots are numbered from 1. *)
LEMMA SlotNumbers == NoSlot \notin SlotIDs /\ NoSlot \notin Held
BY DEF NoSlot, SlotIDs, Held, Born

(* A connection stays with its key when no caller starts to use one and      *)
(* activeSlots gains nothing.                                                *)
LEMMA IsolationKept ==
  ASSUME KeyIsolation,
         \A d \in Callers : Using(d)' => Using(d) /\ conn'[d] = conn[d] /\ key'[d] = key[d],
         \A k \in AppKeys : activeSlots'[k] \in {activeSlots[k], NoSlot}
  PROVE  KeyIsolation'
<1>1. ASSUME NEW c \in Callers, NEW d \in Callers,
             Using(c)', Using(d)', conn'[c] = conn'[d], conn'[c] # NoSlot
      PROVE  key'[c] = key'[d]
  BY <1>1, ZenonT(30) DEF KeyIsolation
<1>2. ASSUME NEW c \in Callers, NEW k \in AppKeys,
             Using(c)', conn'[c] = activeSlots'[k], conn'[c] # NoSlot
      PROVE  key'[c] = k
  <2>1. conn[c] = activeSlots[k] /\ conn[c] # NoSlot /\ Using(c)
    BY <1>2, Zenon
  <2> QED
    BY <1>2, <2>1, Zenon DEF KeyIsolation
<1> QED
  BY <1>1, <1>2, Zenon DEF KeyIsolation

(* A pulled slot stays its caller's when no caller pulls one and activeSlots *)
(* gains nothing.                                                            *)
LEMMA PulledKept ==
  ASSUME TrackExclusive,
         \A d \in Callers : pc'[d] = "track" =>
           pc[d] = "track" /\ conn'[d] = conn[d] /\ (conn[d] \in Held => conn[d] \in Held'),
         \A k \in AppKeys : activeSlots'[k] \in {activeSlots[k], NoSlot}
  PROVE  TrackExclusive'
<1> SUFFICES ASSUME NEW c \in Callers, pc'[c] = "track"
             PROVE  /\ conn'[c] \in Held'
                    /\ \A k \in AppKeys : activeSlots'[k] # conn'[c]
                    /\ \A d \in Callers : d # c /\ pc'[d] = "track" => conn'[d] # conn'[c]
  BY Zenon DEF TrackExclusive
<1>1. /\ conn'[c] = conn[c] /\ conn[c] \in Held /\ conn[c] \in Held'
      /\ \A k \in AppKeys : activeSlots[k] # conn[c]
      /\ \A d \in Callers : d # c /\ pc[d] = "track" => conn[d] # conn[c]
  BY Zenon DEF TrackExclusive
<1> QED
  BY <1>1, SlotNumbers, Zenon

(***************************************************************************)
(* An Advance of any caller keeps the slots where they are.                *)
(***************************************************************************)
LEMMA AdvanceKeeps ==
  ASSUME PoolInv, TypeOK', NEW c \in Callers, Advance(c)
  PROVE  PoolInv'
<1> USE DEF PoolInv, TypeOK, Advance, slotVars, Born, Held
<1>1. SlotsApart'
  BY Zenon DEF SlotsApart
<1>2. UnpulledFresh'
  BY ZenonT(20) DEF UnpulledFresh
<1>3. ActiveHeld'
  BY ZenonT(20) DEF ActiveHeld
<1>4. CallerSlots'
  BY SMTT(30) DEF CallerSlots, Using, AcquirePCs
<1>5. KeyIsolation'
  <2>1. KeyIsolation
    BY Zenon
  <2>2. \A d \in Callers : Using(d)' => Using(d) /\ conn'[d] = conn[d] /\ key'[d] = key[d]
    BY ZenonT(30) DEF Using, AcquirePCs
  <2>3. \A j \in AppKeys : activeSlots'[j] \in {activeSlots[j], NoSlot}
    BY Zenon
  <2> QED
    BY <2>1, <2>2, <2>3, IsolationKept, Zenon
<1>6. TrackExclusive'
  <2>1. TrackExclusive
    BY Zenon
  <2>2. \A d \in Callers : pc'[d] = "track" => pc[d] = "track" /\ conn'[d] = conn[d]
    BY Zenon
  <2>3. \A d \in Callers : conn[d] \in Held => conn[d] \in Held'
    BY Zenon
  <2>4. \A j \in AppKeys : activeSlots'[j] \in {activeSlots[j], NoSlot}
    BY Zenon
  <2> QED
    BY <2>1, <2>2, <2>3, <2>4, PulledKept, Zenon
<1>7. StoppingDrained'
  BY Zenon DEF StoppingDrained
<1>8. ReturnsOwed'
  <2>1. Releasing' = Releasing
    BY Zenon DEF Releasing
  <2> QED
    BY <2>1, Zenon DEF ReturnsOwed
<1> QED
  BY <1>1, <1>2, <1>3, <1>4, <1>5, <1>6, <1>7, <1>8, Zenon

(* All sets of slots and the set of releasing callers are finite. *)
LEMMA FinitePool ==
  ASSUME TypeOK
  PROVE  /\ IsFiniteSet(Releasing) /\ Cardinality(Releasing) \in Nat
         /\ \A S \in SUBSET SlotIDs : IsFiniteSet(S) /\ Cardinality(S) \in Nat
<1>1. IsFiniteSet(SlotIDs)
  BY PoolAssumption, FS_Interval DEF SlotIDs
<1>2. Releasing \subseteq Callers /\ IsFiniteSet(Callers)
  BY PoolAssumption, Zenon DEF Releasing
<1> QED
  BY <1>1, <1>2, FS_Subset, FS_CardinalityType, Zenon

(* Acquire's first read keeps PoolInv: what it read is active for its key. *)
LEMMA AcquireKeeps ==
  ASSUME PoolInv, TypeOK', NEW c \in Callers, NEW k \in AppKeys, Acquire(c, k)
  PROVE  PoolInv'
<1> USE PoolAssumption
<1> USE DEF PoolInv, TypeOK, Born, Held, SlotIDs, NoSlot, Goto, CallRelease,
            slotVars, linkVars, callVars, Acquire
<1>1. SlotsApart'
  BY Zenon DEF SlotsApart
<1>2. UnpulledFresh'
  BY Zenon DEF UnpulledFresh, SlotsApart, CallerSlots, Using, AcquirePCs
<1>3. ActiveHeld'
  BY ZenonT(30) DEF ActiveHeld, SlotsApart
<1>4. CallerSlots'
  BY DEF CallerSlots, ActiveHeld, Using, AcquirePCs
<1>5. KeyIsolation'
  <2>1. /\ KeyIsolation /\ conn'[c] = activeSlots[k] /\ key'[c] = k /\ activeSlots' = activeSlots
        /\ \A d \in Callers \ {c} : pc'[d] = pc[d] /\ conn'[d] = conn[d] /\ key'[d] = key[d]
    BY ZenonT(30)
  <2>2. \A i, j \in AppKeys : activeSlots[i] = activeSlots[j] /\ activeSlots[i] # NoSlot => i = j
    BY Zenon DEF ActiveHeld
  <2> HIDE DEF PoolInv, TypeOK, Acquire, NoSlot
  <2>3. ASSUME NEW d \in Callers \ {c} PROVE Using(d)' => Using(d)
    BY <2>1, Zenon DEF Using
  <2>4. ASSUME NEW d \in Callers, NEW e \in Callers,
               Using(d)', Using(e)', conn'[d] = conn'[e], conn'[d] # NoSlot
        PROVE  key'[d] = key'[e]
    BY <2>1, <2>3, <2>4 DEF KeyIsolation
  <2>5. ASSUME NEW d \in Callers, NEW j \in AppKeys,
               Using(d)', conn'[d] = activeSlots[j], conn'[d] # NoSlot
        PROVE  key'[d] = j
    BY <2>1, <2>2, <2>3, <2>5 DEF KeyIsolation
  <2> QED
    BY <2>1, <2>4, <2>5, ZenonT(30) DEF KeyIsolation
<1>6. TrackExclusive'
  <2>1. TrackExclusive
    BY Zenon
  <2>2. \A d \in Callers : pc'[d] = "track" => pc[d] = "track" /\ conn'[d] = conn[d]
    BY Zenon
  <2>3. \A d \in Callers : conn[d] \in Held => conn[d] \in Held'
    BY Zenon
  <2>4. \A j \in AppKeys : activeSlots'[j] \in {activeSlots[j], NoSlot}
    BY Zenon
  <2> QED
    BY <2>1, <2>2, <2>3, <2>4, PulledKept, Zenon
<1>7. StoppingDrained'
  BY Zenon DEF StoppingDrained
<1>8. ReturnsOwed'
  <2>1. Releasing' = Releasing
    BY Zenon DEF Releasing
  <2> QED
    BY <2>1, Zenon DEF ReturnsOwed
<1> QED
  BY <1>1, <1>2, <1>3, <1>4, <1>5, <1>6, <1>7, <1>8, ZenonT(20)

(* Entering Release keeps PoolInv: the caller works on no slot yet. *)
LEMMA ReleaseKeeps ==
  ASSUME PoolInv, TypeOK', NEW c \in Callers, NEW k \in AppKeys, Release(c, k)
  PROVE  PoolInv'
<1> USE PoolAssumption
<1> USE DEF PoolInv, TypeOK, Born, Held, SlotIDs, NoSlot, Goto, CallRelease,
            slotVars, linkVars, callVars, Release
<1>1. SlotsApart'
  BY Zenon DEF SlotsApart
<1>2. UnpulledFresh'
  BY Zenon DEF UnpulledFresh, SlotsApart, CallerSlots, Using, AcquirePCs
<1>3. ActiveHeld'
  BY Zenon DEF ActiveHeld, SlotsApart
<1>4. CallerSlots'
  BY ZenonT(20) DEF CallerSlots, ActiveHeld, Using, AcquirePCs
<1>5. KeyIsolation'
  <2>1. KeyIsolation
    BY Zenon
  <2>2. \A d \in Callers : Using(d)' => Using(d) /\ conn'[d] = conn[d] /\ key'[d] = key[d]
    BY Zenon DEF Using, AcquirePCs
  <2>3. \A j \in AppKeys : activeSlots'[j] \in {activeSlots[j], NoSlot}
    BY Zenon
  <2> QED
    BY <2>1, <2>2, <2>3, IsolationKept, Zenon
<1>6. TrackExclusive'
  <2>1. TrackExclusive
    BY Zenon
  <2>2. \A d \in Callers : pc'[d] = "track" => pc[d] = "track" /\ conn'[d] = conn[d]
    BY Zenon
  <2>3. \A d \in Callers : conn[d] \in Held => conn[d] \in Held'
    BY Zenon
  <2>4. \A j \in AppKeys : activeSlots'[j] \in {activeSlots[j], NoSlot}
    BY Zenon
  <2> QED
    BY <2>1, <2>2, <2>3, <2>4, PulledKept, Zenon
<1>7. StoppingDrained'
  BY Zenon DEF StoppingDrained
<1>8. ReturnsOwed'
  <2>1. Releasing' = Releasing
    BY Zenon DEF Releasing
  <2> QED
    BY <2>1, Zenon DEF ReturnsOwed
<1> QED
  BY <1>1, <1>2, <1>3, <1>4, <1>5, <1>6, <1>7, <1>8, ZenonT(20)

(* Stop's emptying of the maps keeps PoolInv: what it takes was held. *)
LEMMA StopCollectKeeps ==
  ASSUME PoolInv, TypeOK', NEW c \in Callers, StopCollect(c)
  PROVE  PoolInv'
<1> USE PoolAssumption
<1> USE DEF PoolInv, TypeOK, Born, Held, SlotIDs, NoSlot, Goto, CallRelease,
            slotVars, linkVars, callVars, StopCollect, ActiveSet
<1>1. SlotsApart'
  <2>1. ActiveSet \subseteq Held
    BY DEF ActiveHeld
  <2> HIDE DEF ActiveSet
  <2> QED
    BY <2>1, ZenonT(30) DEF SlotsApart
<1>2. UnpulledFresh'
  BY Zenon DEF UnpulledFresh, SlotsApart, CallerSlots, Using, AcquirePCs
<1>3. ActiveHeld'
  BY Zenon DEF ActiveHeld, SlotsApart
<1>4. CallerSlots'
  BY ZenonT(20) DEF CallerSlots, ActiveHeld, Using, AcquirePCs
<1>5. KeyIsolation'
  <2>1. KeyIsolation
    BY Zenon
  <2>2. \A d \in Callers : Using(d)' => Using(d) /\ conn'[d] = conn[d] /\ key'[d] = key[d]
    BY ZenonT(30) DEF Using, AcquirePCs
  <2>3. \A j \in AppKeys : activeSlots'[j] \in {activeSlots[j], NoSlot}
    BY Zenon
  <2> QED
    BY <2>1, <2>2, <2>3, IsolationKept, Zenon
<1>6. TrackExclusive'
  BY SMTT(30) DEF TrackExclusive, ActiveHeld, CallerSlots, Using, AcquirePCs
<1>7. StoppingDrained'
  BY DEF StoppingDrained
<1>8. ReturnsOwed'
  <2>1. Releasing' = Releasing
    BY Zenon DEF Releasing
  <2> QED
    BY <2>1, Zenon DEF ReturnsOwed
<1> QED
  BY <1>1, <1>2, <1>3, <1>4, <1>5, <1>6, <1>7, <1>8, ZenonT(30)

(* Pulling a slot keeps PoolInv: nobody else works on an idle slot. *)
LEMMA PullKeeps ==
  ASSUME PoolInv, TypeOK', NEW c \in Callers, NEW s \in SlotIDs, Pull(c, s)
  PROVE  PoolInv'
<1> USE PoolAssumption
<1> USE DEF PoolInv, TypeOK, Born, Held, SlotIDs, NoSlot, Goto, CallRelease,
            slotVars, linkVars, callVars, Pull
<1>1. SlotsApart'
  BY Zenon DEF SlotsApart
<1>2. UnpulledFresh'
  BY Zenon DEF UnpulledFresh, SlotsApart, CallerSlots, Using, AcquirePCs
<1>3. ActiveHeld'
  BY ZenonT(30) DEF ActiveHeld, SlotsApart
<1>4. CallerSlots'
  BY SMTT(30) DEF CallerSlots, ActiveHeld, SlotsApart, Using, AcquirePCs
<1>5. KeyIsolation'
  BY SMTT(30) DEF KeyIsolation, ActiveHeld, CallerSlots, Using, AcquirePCs
<1>6. TrackExclusive'
  BY DEF TrackExclusive, ActiveHeld, SlotsApart, CallerSlots, Using, AcquirePCs
<1>7. StoppingDrained'
  BY Zenon DEF StoppingDrained
<1>8. ReturnsOwed'
  <2>1. Releasing' = Releasing
    BY Zenon DEF Releasing
  <2> QED
    BY <2>1, Zenon DEF ReturnsOwed
<1> QED
  BY <1>1, <1>2, <1>3, <1>4, <1>5, <1>6, <1>7, <1>8, ZenonT(30)

(* Recording a slot keeps PoolInv, even when it overwrites another one. *)
LEMMA TrackKeeps ==
  ASSUME PoolInv, TypeOK', NEW c \in Callers, Track(c)
  PROVE  PoolInv'
<1> USE PoolAssumption
<1> USE DEF PoolInv, TypeOK, Born, Held, SlotIDs, NoSlot, Goto, CallRelease,
            slotVars, linkVars, callVars, Track
<1>1. SlotsApart'
  BY Zenon DEF SlotsApart
<1>2. UnpulledFresh'
  BY SMTT(30) DEF UnpulledFresh, TrackExclusive, SlotsApart
<1>3. ActiveHeld'
  BY SMTT(30) DEF ActiveHeld, SlotsApart, TrackExclusive
<1>4. CallerSlots'
  BY SMTT(30) DEF CallerSlots, ActiveHeld, Using, AcquirePCs
<1>5. KeyIsolation'
  BY SMTT(30) DEF KeyIsolation, ActiveHeld, CallerSlots, Using, AcquirePCs
<1>6. TrackExclusive'
  BY DEF TrackExclusive, ActiveHeld, CallerSlots, Using, AcquirePCs
<1>7. StoppingDrained'
  BY Zenon DEF StoppingDrained
<1>8. ReturnsOwed'
  <2>1. Releasing' = Releasing
    BY Zenon DEF Releasing
  <2> QED
    BY <2>1, Zenon DEF ReturnsOwed
<1> QED
  BY <1>1, <1>2, <1>3, <1>4, <1>5, <1>6, <1>7, <1>8, ZenonT(20)

(* Release's locked part keeps PoolInv: the slot becomes owed. *)
LEMMA DetachKeeps ==
  ASSUME PoolInv, TypeOK', NEW c \in Callers, Detach(c)
  PROVE  PoolInv'
<1> USE PoolAssumption
<1> USE DEF PoolInv, TypeOK, Born, Held, SlotIDs, NoSlot, Goto, CallRelease,
            slotVars, linkVars, callVars, Detach
<1>1. SlotsApart'
  <2>1. PICK s \in Held : released' = released \cup {s}
    BY Zenon DEF ActiveHeld
  <2>2. UNCHANGED <<pool, nextSlotID, drained>>
    BY Zenon
  <2>3. SlotsApart
    BY ZenonT(30)
  <2> HIDE DEF Detach, PoolInv, TypeOK
  <2> QED
    BY <2>1, <2>2, <2>3, Zenon DEF SlotsApart
<1>2. UnpulledFresh'
  BY SMTT(30) DEF UnpulledFresh, ActiveHeld
<1>3. ActiveHeld'
  BY SMTT(30) DEF ActiveHeld, SlotsApart
<1>4. CallerSlots'
  BY SMTT(30) DEF CallerSlots, ActiveHeld, Using, AcquirePCs
<1>5. KeyIsolation'
  BY SMTT(30) DEF KeyIsolation, ActiveHeld, CallerSlots, Using, AcquirePCs
<1>6. TrackExclusive'
  BY DEF TrackExclusive, ActiveHeld, CallerSlots, Using, AcquirePCs
<1>7. StoppingDrained'
  BY Zenon DEF StoppingDrained
<1>8. ReturnsOwed'
  <2> DEFINE s == activeSlots[key[c]]
  <2>1. s \in SlotIDs /\ s \notin released
    BY Zenon DEF ActiveHeld
  <2>2. Cardinality(released') = Cardinality(released) + 1
    BY <2>1, FinitePool, FS_AddElement, ZenonT(30)
  <2>3. Releasing' = Releasing \cup {c} /\ c \notin Releasing
    BY DEF Releasing
  <2>4. Cardinality(Releasing') = Cardinality(Releasing) + 1
    BY <2>3, FinitePool, FS_AddElement, Zenon
  <2> QED
    <3>1. nextSlotID' = nextSlotID /\ nextSlotID \in Int /\ PoolSize \in Int
      BY SMTT(30)
    <3>2. Cardinality(released) \in Int /\ Cardinality(Releasing) \in Int
      BY FinitePool, SMTT(30)
    <3> HIDE DEF Detach, PoolInv, TypeOK
    <3>3. ReturnsOwed
      BY Zenon DEF PoolInv
    <3> QED
      BY <2>2, <2>4, <3>1, <3>2, <3>3, SMTT(30) DEF ReturnsOwed
<1> QED
  BY <1>1, <1>2, <1>3, <1>4, <1>5, <1>6, <1>7, <1>8, ZenonT(30)

(* Release's return of a fresh slot keeps PoolInv: it pays what was owed. *)
LEMMA ReturnSlotKeeps ==
  ASSUME PoolInv, TypeOK', NEW c \in Callers, ReturnSlot(c)
  PROVE  PoolInv'
<1> USE PoolAssumption
<1> USE DEF PoolInv, TypeOK, Born, Held, SlotIDs, NoSlot, Goto, CallRelease,
            slotVars, linkVars, callVars, ReturnSlot
<1>1. SlotsApart'
  BY SMTT(30) DEF SlotsApart
<1>2. UnpulledFresh'
  BY SMTT(30) DEF UnpulledFresh, SlotsApart, CallerSlots, Using, AcquirePCs
<1>3. ActiveHeld'
  BY SMTT(30) DEF ActiveHeld, SlotsApart
<1>4. CallerSlots'
  BY DEF CallerSlots, ActiveHeld, Using, AcquirePCs
<1>5. KeyIsolation'
  <2>1. KeyIsolation
    BY Zenon
  <2>2. \A d \in Callers : Using(d)' => Using(d) /\ conn'[d] = conn[d] /\ key'[d] = key[d]
    BY ZenonT(30) DEF Using, AcquirePCs
  <2>3. \A j \in AppKeys : activeSlots'[j] \in {activeSlots[j], NoSlot}
    BY Zenon
  <2> QED
    BY <2>1, <2>2, <2>3, IsolationKept, Zenon
<1>6. TrackExclusive'
  <2>1. Held \subseteq Held'
    BY DEF SlotsApart
  <2>2. \A d \in Callers : pc'[d] = "track" => pc[d] = "track"
    BY Zenon
  <2> HIDE DEF Held
  <2> QED
    BY <2>1, <2>2, SMTT(30) DEF TrackExclusive
<1>7. StoppingDrained'
  BY ZenonT(30) DEF StoppingDrained
<1>8. ReturnsOwed'
  <2>1. Releasing' = Releasing \ {c} /\ c \in Releasing
    BY Zenon DEF Releasing
  <2>2. Cardinality(Releasing') = Cardinality(Releasing) - 1
    BY <2>1, FinitePool, FS_RemoveElement, Zenon
  <2> QED
    BY <2>2, FinitePool, SMTT(30) DEF ReturnsOwed
<1> QED
  BY <1>1, <1>2, <1>3, <1>4, <1>5, <1>6, <1>7, <1>8, ZenonT(30)

(* Stop's closing of a collected connection keeps PoolInv. *)
LEMMA StopCloseKeeps ==
  ASSUME PoolInv, TypeOK', NEW c \in Callers, NEW s \in SlotIDs, StopClose(c, s)
  PROVE  PoolInv'
<1> USE PoolAssumption
<1> USE DEF PoolInv, TypeOK, Born, Held, SlotIDs, NoSlot, Goto, CallRelease,
            slotVars, linkVars, callVars, StopClose, Closed
<1>1. SlotsApart'
  BY Zenon DEF SlotsApart
<1>2. UnpulledFresh'
  BY Zenon DEF UnpulledFresh, SlotsApart, StoppingDrained
<1>3. ActiveHeld'
  BY Zenon DEF ActiveHeld, SlotsApart
<1>4. CallerSlots'
  BY Zenon DEF CallerSlots, ActiveHeld, Using, AcquirePCs
<1>5. KeyIsolation'
  <2>1. KeyIsolation
    BY Zenon
  <2>2. \A d \in Callers : Using(d)' => Using(d) /\ conn'[d] = conn[d] /\ key'[d] = key[d]
    BY ZenonT(30) DEF Using, AcquirePCs
  <2>3. \A j \in AppKeys : activeSlots'[j] \in {activeSlots[j], NoSlot}
    BY Zenon
  <2> QED
    BY <2>1, <2>2, <2>3, IsolationKept, Zenon
<1>6. TrackExclusive'
  <2>1. TrackExclusive
    BY Zenon
  <2>2. \A d \in Callers : pc'[d] = "track" => pc[d] = "track" /\ conn'[d] = conn[d]
    BY Zenon
  <2>3. \A d \in Callers : conn[d] \in Held => conn[d] \in Held'
    BY ZenonT(30)
  <2>4. \A j \in AppKeys : activeSlots'[j] \in {activeSlots[j], NoSlot}
    BY Zenon
  <2> QED
    BY <2>1, <2>2, <2>3, <2>4, PulledKept, Zenon
<1>7. StoppingDrained'
  BY DEF StoppingDrained
<1>8. ReturnsOwed'
  <2>1. Releasing' = Releasing
    BY Zenon DEF Releasing
  <2> QED
    BY <2>1, Zenon DEF ReturnsOwed
<1> QED
  BY <1>1, <1>2, <1>3, <1>4, <1>5, <1>6, <1>7, <1>8, ZenonT(20)

(* Stop's draining of the channel keeps PoolInv. *)
LEMMA StopDrainKeeps ==
  ASSUME PoolInv, TypeOK', NEW c \in Callers, NEW s \in SlotIDs, StopDrain(c, s)
  PROVE  PoolInv'
<1> USE PoolAssumption
<1> USE DEF PoolInv, TypeOK, Born, Held, SlotIDs, NoSlot, Goto, CallRelease,
            slotVars, linkVars, callVars, StopDrain, Closed
<1>1. SlotsApart'
  BY DEF SlotsApart
<1>2. UnpulledFresh'
  BY ZenonT(30) DEF UnpulledFresh, SlotsApart, CallerSlots, Using, AcquirePCs
<1>3. ActiveHeld'
  BY DEF ActiveHeld, SlotsApart
<1>4. CallerSlots'
  BY Zenon DEF CallerSlots, ActiveHeld, Using, AcquirePCs
<1>5. KeyIsolation'
  <2>1. KeyIsolation
    BY Zenon
  <2>2. \A d \in Callers : Using(d)' => Using(d) /\ conn'[d] = conn[d] /\ key'[d] = key[d]
    BY ZenonT(30) DEF Using, AcquirePCs
  <2>3. \A j \in AppKeys : activeSlots'[j] \in {activeSlots[j], NoSlot}
    BY Zenon
  <2> QED
    BY <2>1, <2>2, <2>3, IsolationKept, Zenon
<1>6. TrackExclusive'
  <2>1. TrackExclusive
    BY Zenon
  <2>2. \A d \in Callers : pc'[d] = "track" => pc[d] = "track" /\ conn'[d] = conn[d]
    BY Zenon
  <2>3. \A d \in Callers : conn[d] \in Held => conn[d] \in Held'
    BY Zenon
  <2>4. \A j \in AppKeys : activeSlots'[j] \in {activeSlots[j], NoSlot}
    BY Zenon
  <2> QED
    BY <2>1, <2>2, <2>3, <2>4, PulledKept, Zenon
<1>7. StoppingDrained'
  BY Zenon DEF StoppingDrained
<1>8. ReturnsOwed'
  <2>1. Releasing' = Releasing
    BY Zenon DEF Releasing
  <2> QED
    BY <2>1, Zenon DEF ReturnsOwed
<1> QED
  BY <1>1, <1>2, <1>3, <1>4, <1>5, <1>6, <1>7, <1>8, ZenonT(20)

(* A dropped connection keeps PoolInv: fresh clients have none to lose. *)
LEMMA DropKeeps ==
  ASSUME PoolInv, TypeOK', NEW s \in SlotIDs, Drop(s)
  PROVE  PoolInv'
<1> USE PoolAssumption
<1> USE DEF PoolInv, TypeOK, Born, Held, SlotIDs, NoSlot, Goto, CallRelease,
            slotVars, linkVars, callVars, Drop
<1>1. SlotsApart'
  BY Zenon DEF SlotsApart
<1>2. UnpulledFresh'
  BY ZenonT(20) DEF UnpulledFresh, SlotsApart, CallerSlots, Using, AcquirePCs
<1>3. ActiveHeld'
  BY Zenon DEF ActiveHeld, SlotsApart
<1>4. CallerSlots'
  BY ZenonT(20) DEF CallerSlots, ActiveHeld, Using, AcquirePCs
<1>5. KeyIsolation'
  <2>1. KeyIsolation
    BY Zenon
  <2>2. \A d \in Callers : Using(d)' => Using(d) /\ conn'[d] = conn[d] /\ key'[d] = key[d]
    BY Zenon DEF Using, AcquirePCs
  <2>3. \A j \in AppKeys : activeSlots'[j] \in {activeSlots[j], NoSlot}
    BY Zenon
  <2> QED
    BY <2>1, <2>2, <2>3, IsolationKept, Zenon
<1>6. TrackExclusive'
  <2>1. TrackExclusive
    BY Zenon
  <2>2. \A d \in Callers : pc'[d] = "track" => pc[d] = "track" /\ conn'[d] = conn[d]
    BY Zenon
  <2>3. \A d \in Callers : conn[d] \in Held => conn[d] \in Held'
    BY Zenon
  <2>4. \A j \in AppKeys : activeSlots'[j] \in {activeSlots[j], NoSlot}
    BY Zenon
  <2> QED
    BY <2>1, <2>2, <2>3, <2>4, PulledKept, Zenon
<1>7. StoppingDrained'
  BY Zenon DEF StoppingDrained
<1>8. ReturnsOwed'
  <2>1. Releasing' = Releasing
    BY Zenon DEF Releasing
  <2> QED
    BY <2>1, Zenon DEF ReturnsOwed
<1> QED
  BY <1>1, <1>2, <1>3, <1>4, <1>5, <1>6, <1>7, <1>8, ZenonT(20)

(***************************************************************************)
(* PoolInv is inductive: every step of every caller, and every dropped     *)
(* connection, preserves it.                                               *)
(***************************************************************************)
LEMMA PoolInvStep == PoolInv /\ [Next]_vars => PoolInv'
<1> SUFFICES ASSUME PoolInv, [Next]_vars PROVE PoolInv'
  BY Zenon
<1>1. TypeOK'
  BY TypeStep, Zenon DEF PoolInv
<1>2. ASSUME NEW c \in Callers, Call(c) PROVE PoolInv'
  BY <1>1, <1>2, AcquireKeeps, ReleaseKeeps, StopCollectKeeps, StepsAdvance,
     AdvanceKeeps, Zenon DEF Call
<1>3. ASSUME NEW c \in Callers, Step(c) PROVE PoolInv'
  BY <1>1, <1>3, PullKeeps, TrackKeeps, DetachKeeps, ReturnSlotKeeps,
     StopCloseKeeps, StopDrainKeeps, StepsAdvance, AdvanceKeeps, Zenon DEF Step
<1>4. ASSUME NEW s \in SlotIDs, Drop(s) PROVE PoolInv'
  BY <1>1, <1>4, DropKeeps, Zenon
<1>5. CASE UNCHANGED vars
  BY <1>1, <1>5 DEF vars, slotVars, linkVars, callVars, PoolInv, SlotsApart,
     UnpulledFresh, ActiveHeld, CallerSlots, KeyIsolation, TrackExclusive,
     StoppingDrained, ReturnsOwed, Releasing, Born, Held, Using
<1> QED
  BY <1>2, <1>3, <1>4, <1>5, Zenon DEF Next

(* A new pool satisfies PoolInv. *)
LEMMA PoolInvInit == Init => PoolInv
<1> SUFFICES ASSUME Init PROVE PoolInv
  BY Zenon
<1> USE PoolAssumption DEF Init, SlotIDs, NoSlot, NoLoop, Born, Held, Using,
        AcquirePCs
<1>1. TypeOK
  BY DEF TypeOK, LoopIDs, Links, PCs, ReleasePCs, StopPCs
<1>2. SlotsApart /\ UnpulledFresh
  BY DEF SlotsApart, UnpulledFresh
<1>3. ActiveHeld /\ CallerSlots /\ KeyIsolation
  BY Zenon DEF ActiveHeld, CallerSlots, KeyIsolation
<1>4. TrackExclusive /\ StoppingDrained
  BY Zenon DEF TrackExclusive, StoppingDrained
<1>5. ReturnsOwed
  <2>1. Releasing = {} /\ released = {}
    BY Zenon DEF Releasing
  <2> QED
    BY <2>1, FS_EmptySet DEF ReturnsOwed
<1> QED
  BY <1>1, <1>2, <1>3, <1>4, <1>5, Zenon DEF PoolInv

(* PoolInv holds throughout. *)
LEMMA PoolInvariant == Spec => []PoolInv
  BY PoolInvInit, PoolInvStep, PTL DEF Spec

-----------------------------------------------------------------------------
(* What the invariant gives *)

(***************************************************************************)
(* A connection is never shared between AppKeys, however many callers race *)
(* for the same key, fail, or stop the pool.                               *)
(***************************************************************************)
THEOREM KeysIsolated == Spec => []KeyIsolation
<1>1. PoolInv => KeyIsolation
  BY Zenon DEF PoolInv
<1> QED
  BY <1>1, PoolInvariant, PTL

(***************************************************************************)
(* The slots in the channel are always fresh clients.                      *)
(***************************************************************************)
THEOREM IdleFresh == Spec => []IdleSlotsFresh
<1>1. PoolInv => IdleSlotsFresh
  BY Zenon DEF PoolInv, TypeOK, UnpulledFresh, IdleSlotsFresh
<1> QED
  BY <1>1, PoolInvariant, PTL

(* The counting argument: born slots are idle, held, released or drained. *)
LEMMA Counting == PoolInv => SlotConservation
<1> SUFFICES ASSUME PoolInv PROVE SlotConservation
  BY Zenon
<1>1. TypeOK /\ SlotsApart /\ ReturnsOwed
  BY Zenon DEF PoolInv
<1> DEFINE Gone == pool \cup released \cup drained
<1>2. Born \subseteq SlotIDs /\ IsFiniteSet(Born)
      /\ Cardinality(Born) = nextSlotID - 1
  BY <1>1, PoolAssumption, FS_Interval DEF TypeOK, Born, SlotIDs
<1>3. /\ IsFiniteSet(pool) /\ Cardinality(pool) \in Nat
      /\ IsFiniteSet(released) /\ Cardinality(released) \in Nat
      /\ IsFiniteSet(drained) /\ Cardinality(drained) \in Nat
      /\ Cardinality(Releasing) \in Nat /\ Cardinality(Held) \in Nat
  BY <1>1, <1>2, FinitePool, Zenon DEF TypeOK, Held
<1>4. /\ IsFiniteSet(pool \cup released)
      /\ Cardinality(pool \cup released) = Cardinality(pool) + Cardinality(released)
  <2>1. pool \cap released = {}
    BY <1>1, Zenon DEF SlotsApart
  <2>2. /\ IsFiniteSet(pool \cup released)
        /\ Cardinality(pool \cup released) =
             Cardinality(pool) + Cardinality(released)
               - Cardinality(pool \cap released)
    BY <1>3, FS_Union, Zenon
  <2>3. Cardinality(pool \cap released) = 0
    BY <2>1, FS_EmptySet, Zenon
  <2> QED
    BY <1>3, <2>2, <2>3
<1>5. Cardinality(Gone) = Cardinality(pool) + Cardinality(released)
                            + Cardinality(drained)
  <2>1. (pool \cup released) \cap drained = {}
    BY <1>1, Zenon DEF SlotsApart
  <2>2. Cardinality(Gone) = Cardinality(pool \cup released)
          + Cardinality(drained) - Cardinality((pool \cup released) \cap drained)
    BY <1>3, <1>4, FS_Union, Zenon
  <2>3. Cardinality((pool \cup released) \cap drained) = 0
    BY <2>1, FS_EmptySet, Zenon
  <2> HIDE DEF Gone
  <2> QED
    BY <1>3, <1>4, <2>2, <2>3
<1>6. Cardinality(Held) = Cardinality(Born) - Cardinality(Gone)
  <2>1. Held = Born \ Gone /\ Born \cap Gone = Gone
    BY <1>1, Zenon DEF Held, SlotsApart
  <2>2. Cardinality(Born \ Gone) = Cardinality(Born) - Cardinality(Born \cap Gone)
    BY <1>2, FS_Difference, Zenon
  <2> QED
    BY <2>1, <2>2, Zenon
<1>7. nextSlotID \in Int /\ PoolSize \in Int
  BY <1>1, PoolAssumption DEF TypeOK
<1>8. Cardinality(released) + PoolSize
        = nextSlotID - 1 + Cardinality(Releasing)
  BY <1>1, Zenon DEF ReturnsOwed
<1>9. Cardinality(pool) + Cardinality(Held) + Cardinality(drained)
        + Cardinality(Releasing) = PoolSize
  <2> HIDE DEF Gone
  <2> QED
    BY <1>2, <1>3, <1>5, <1>6, <1>7, <1>8
<1> QED
  BY <1>1, <1>9, Zenon DEF SlotConservation, SlotsApart

(***************************************************************************)
(* Capacity is conserved: idle, held, stopped and owed slots always add up *)
(* to PoolSize.                                                            *)
(***************************************************************************)
THEOREM CapacityConserved == Spec => []SlotConservation
  BY PoolInvariant, Counting, PTL

(***************************************************************************)
(* Release never finds the channel full: the slot it owes is still counted *)
(* in PoolSize, so there is room for it.                                   *)
(***************************************************************************)
THEOREM ReturnAlwaysFits == Spec => []ReturnNeverBlocked
<1>1. PoolInv => ReturnNeverBlocked
  <2> SUFFICES ASSUME PoolInv, NEW c \in Callers, pc[c] = "return"
               PROVE  Cardinality(pool) < PoolSize
    BY Zenon DEF ReturnNeverBlocked
  <2>1. TypeOK /\ SlotConservation
    BY Counting, Zenon DEF PoolInv
  <2>2. c \in Releasing
    BY Zenon DEF Releasing
  <2>3. Cardinality(Releasing) # 0 /\ Cardinality(Releasing) \in Nat
    BY <2>1, <2>2, FinitePool, FS_EmptySet, Zenon
  <2>4. /\ Cardinality(pool) \in Nat /\ Cardinality(Held) \in Nat
        /\ Cardinality(drained) \in Nat
    <3>1. Held \subseteq SlotIDs
      BY <2>1, PoolAssumption DEF TypeOK, Held, Born, SlotIDs
    <3> QED
      BY <2>1, <3>1, FinitePool, Zenon DEF TypeOK
  <2> QED
    BY <2>1, <2>3, <2>4, PoolAssumption DEF SlotConservation
<1> QED
  BY <1>1, PoolInvariant, PTL

-----------------------------------------------------------------------------
(* One active connection per key *)

(* A call works on the link of its slot. *)
Working(c) ==
  pc[c] \in {"track", "lookup", "connect", "reattach", "probe", "reconnect",
             "bootstrap", "stream", "restream"}

(* Nobody will bring the connection of slot s up again. *)
Dead(s) == link[s] = "down" /\ \A c \in Callers : Working(c) => conn[c] # s

(* Somebody is at work on the slot recorded for key k, or about to detach it. *)
Attended(k) ==
  \E c \in Callers :
    \/ (Working(c) \/ pc[c] \in {"save", "bind"}) /\ conn[c] = activeSlots[k]
    \/ pc[c] = "detach" /\ key[c] = k

(* The calls pass the keys they may pass. *)
OwnKeys ==
  \A c \in Callers : pc[c] \notin {"idle", "stop", "drain"} => <<c, key[c]>> \in uses

(* The registry tells of the recorded connection of a key, and of dropped   *)
(* ones that another has replaced.                                          *)
Recorded ==
  \A s \in SlotIDs : registry[s] # NoKey => activeSlots[registry[s]] = s \/ Dead(s)

(* What a call of Acquire or Release knows of the entry of its key *)
EntryKnown(c) ==
  LET s == activeSlots[key[c]] IN
  /\ pc[c] \in {"stale?", "reuse?"} => s \in {conn[c], NoSlot}
  /\ pc[c] \in {"pull", "track"} => s = NoSlot \/ Dead(s)
  /\ pc[c] \in {"close", "return"} => s = NoSlot

(* A recorded connection nobody works on is live or down for good, and has  *)
(* its loop when it is live.                                                *)
Settled(k) ==
  \/ activeSlots[k] = NoSlot
  \/ Attended(k)
  \/ link[activeSlots[k]] = "down"
  \/ link[activeSlots[k]] = "live" /\ loopID[activeSlots[k]] # NoLoop

(* The slot a call works on has been dialled, and the loop it binds is one. *)
Prepared(c) ==
  /\ pc[c] \in {"probe", "bootstrap", "stream", "restream", "save", "bind"} =>
       link[conn[c]] # "new"
  /\ pc[c] \in {"reattach", "probe", "restream", "stream", "save", "bind"} =>
       loop[c] # NoLoop
  /\ pc[c] \in {"save", "bind"} => link[conn[c]] # "up"
  /\ pc[c] \in {"stale?", "reuse?"} /\ conn[c] # NoSlot /\ IsLive(conn[c]) =>
       loopID[conn[c]] # NoLoop
  /\ pc[c] = "have" => loopID[conn[c]] # NoLoop

CallersFit == \A c \in Callers : EntryKnown(c) /\ Prepared(c)

KeysSettled == \A k \in AppKeys : Settled(k)

OwnInv == KeysOwned => OwnKeys /\ Recorded /\ CallersFit /\ KeysSettled

(* What OwnInv says where the keys are owned *)
Facts == PoolInv /\ KeysOwned /\ OwnKeys /\ Recorded /\ CallersFit /\ KeysSettled

(* With a key to itself, a caller has the slots of that key to itself. *)
LEMMA Alone ==
  ASSUME PoolInv, KeysOwned, OwnKeys, NEW c \in Callers, NEW d \in Callers
  PROVE  /\ /\ pc[c] \notin {"idle", "stop", "drain"} /\ pc[d] \notin {"idle", "stop", "drain"}
            /\ key[c] = key[d]
            => c = d
         /\ /\ Using(c) /\ Using(d) /\ conn[c] = conn[d] /\ conn[c] # NoSlot
            => c = d
<1>1. ASSUME NEW k, <<c, k>> \in uses, <<d, k>> \in uses PROVE c = d
  <2>1. <<c, k>>[1] = c /\ <<c, k>>[2] = k /\ <<d, k>>[1] = d /\ <<d, k>>[2] = k
    BY Zenon
  <2> QED
    BY <1>1, <2>1, Zenon DEF KeysOwned
<1>2. ASSUME pc[c] \notin {"idle", "stop", "drain"}, pc[d] \notin {"idle", "stop", "drain"},
             key[c] = key[d]
      PROVE  c = d
  BY <1>1, <1>2, Zenon DEF OwnKeys
<1>3. ASSUME Using(c), Using(d), conn[c] = conn[d], conn[c] # NoSlot PROVE c = d
  <2>1. key[c] = key[d]
    BY <1>3, Zenon DEF PoolInv, KeyIsolation
  <2> QED
    BY <1>2, <1>3, <2>1, Zenon DEF Using, AcquirePCs
<1> QED
  BY <1>2, <1>3, Zenon

(* Links fall at any time, and rise only where c works. *)
LinkStep(c) ==
  /\ \A s \in SlotIDs :
       \/ link'[s] = link[s]
       \/ link'[s] = "down"
       \/ Working(c) /\ s = conn[c] /\ link'[s] \in {"up", "live"}
  /\ \A s \in SlotIDs : loopID[s] # NoLoop => loopID'[s] # NoLoop

(* A step of c that changes neither map: it takes up no new slot, and leaves *)
(* the slot it works on to itself, to a Release, or ready.                   *)
Plain(c) ==
  /\ UNCHANGED <<activeSlots, registry, key, conn, uses>>
  /\ \A d \in Callers \ {c} : pc'[d] = pc[d] /\ loop'[d] = loop[d]
  /\ LinkStep(c)
  /\ pc'[c] \notin {"idle", "stop", "drain"} => pc[c] \notin {"idle", "stop", "drain"}
  /\ Working(c)' => Working(c)
  /\ Working(c) \/ pc[c] \in {"save", "bind"} =>
       \/ Working(c)' \/ pc'[c] \in {"save", "bind", "detach"}
       \/ pc[c] = "bind" /\ loopID'[conn[c]] # NoLoop
  /\ pc[c] = "detach" => activeSlots[key[c]] = NoSlot

PlainStep(c) ==
  \/ Done(c) \/ CheckStale(c) \/ Reuse(c) \/ IdleTooLong(c) \/ NoReuse(c)
  \/ PullNothing(c) \/ Connect(c) \/ ConnectFails(c) \/ ReattachConnect(c)
  \/ ReattachProbe(c) \/ ReattachFails(c) \/ Bootstrap(c) \/ BootstrapFails(c)
  \/ StartReader(c) \/ Bind(c) \/ DetachNothing(c) \/ CloseSlot(c)
  \/ ReturnSlot(c) \/ StopClosed(c) \/ StopDone(c)
  \/ \E l \in LoopIDs \cup {NoLoop} : LoopIDFor(c, l) \/ CreateSession(c, l)

(* Every step of the calls but those on the maps is plain. *)
LEMMA PlainSteps ==
  ASSUME Facts, UNCHANGED uses, NEW c \in Callers, PlainStep(c)
  PROVE  Plain(c)
<1>0. /\ pc \in [Callers -> PCs] /\ loop \in [Callers -> LoopIDs \cup {NoLoop}]
      /\ link \in [SlotIDs -> Links] /\ loopID \in [SlotIDs -> LoopIDs \cup {NoLoop}]
      /\ after[c] \in {"idle", "pull"}
      /\ Prepared(c)
  BY Zenon DEF Facts, PoolInv, TypeOK, CallersFit
<1> USE <1>0 DEF Plain, Working, LinkStep, Goto, CallRelease, slotVars, linkVars
<1>1. CASE Done(c)
  BY <1>1, Zenon DEF Done
<1>2. CASE CheckStale(c)
  BY <1>2, Zenon DEF CheckStale
<1>3. CASE Reuse(c)
  BY <1>3, Zenon DEF Reuse
<1>4. CASE IdleTooLong(c)
  BY <1>4, Zenon DEF IdleTooLong
<1>5. CASE NoReuse(c)
  BY <1>5, Zenon DEF NoReuse
<1>6. CASE PullNothing(c)
  BY <1>6, Zenon DEF PullNothing
<1>7. ASSUME NEW l \in LoopIDs \cup {NoLoop}, LoopIDFor(c, l) PROVE Plain(c)
  BY <1>7, Zenon DEF LoopIDFor
<1>8. CASE Connect(c)
  BY <1>8, Zenon DEF Connect
<1>9. CASE ConnectFails(c)
  BY <1>9, Zenon DEF ConnectFails
<1>10. CASE ReattachConnect(c)
  BY <1>10, Zenon DEF ReattachConnect
<1>11. CASE ReattachProbe(c)
  BY <1>11, Zenon DEF ReattachProbe
<1>12. CASE ReattachFails(c)
  BY <1>12, Zenon DEF ReattachFails
<1>13. CASE Bootstrap(c)
  BY <1>13, Zenon DEF Bootstrap
<1>14. CASE BootstrapFails(c)
  BY <1>14, Zenon DEF BootstrapFails
<1>15. CASE StartReader(c)
  BY <1>15, Zenon DEF StartReader
<1>16. ASSUME NEW l \in LoopIDs \cup {NoLoop}, CreateSession(c, l) PROVE Plain(c)
  BY <1>16, Zenon DEF CreateSession
<1>17. CASE Bind(c)
  <2>1. conn[c] \in SlotIDs
    BY <1>17, Zenon DEF Bind, Facts, PoolInv, TypeOK, CallerSlots, Using, AcquirePCs
  <2> QED
    BY <1>17, <2>1, Zenon DEF Bind, Prepared
<1>18. CASE DetachNothing(c)
  BY <1>18, Zenon DEF DetachNothing
<1>19. CASE CloseSlot(c)
  BY <1>19, Zenon DEF CloseSlot, Closed
<1>20. CASE ReturnSlot(c)
  BY <1>20, Zenon DEF ReturnSlot
<1>21. CASE StopClosed(c) \/ StopDone(c)
  BY <1>21, Zenon DEF StopClosed, StopDone
<1> QED
  BY <1>1, <1>2, <1>3, <1>4, <1>5, <1>6, <1>7, <1>8, <1>9, <1>10, <1>11, <1>12,
     <1>13, <1>14, <1>15, <1>16, <1>17, <1>18, <1>19, <1>20, <1>21, ZenonT(20) DEF PlainStep

(* No plain step brings a slot back to life. *)
LEMMA DeadStays ==
  ASSUME TypeOK, NEW c \in Callers, Plain(c), NEW s \in SlotIDs, Dead(s)
  PROVE  Dead(s)'
<1>1. link[s] = "down" /\ ~(Working(c) /\ s = conn[c])
  BY Zenon DEF Dead
<1>2. link'[s] = "down"
  BY <1>1, Zenon DEF Plain, LinkStep
<1>3. ASSUME NEW d \in Callers, Working(d)' PROVE Working(d) /\ conn'[d] = conn[d]
  BY <1>3, Zenon DEF Plain, Working
<1> QED
  BY <1>2, <1>3, Zenon DEF Dead

(* The caller of a plain step knows what it has to of its key's entry. *)
LEMMA PlainEntry ==
  ASSUME Facts, UNCHANGED uses, NEW c \in Callers, PlainStep(c)
  PROVE  EntryKnown(c)'
<1>0. /\ pc \in [Callers -> PCs] /\ TypeOK /\ key[c] \in AppKeys
      /\ activeSlots[key[c]] \in SlotIDs \cup {NoSlot} /\ NoSlot \notin SlotIDs
      /\ Plain(c) /\ EntryKnown(c) /\ after[c] \in {"idle", "pull"}
  BY PlainSteps, SMTT(30) DEF Facts, PoolInv, TypeOK, CallersFit, NoSlot, SlotIDs
<1> DEFINE s == activeSlots[key[c]]
<1>1. UNCHANGED <<activeSlots, key, conn>> /\ (s \in SlotIDs /\ Dead(s) => Dead(s)')
  BY <1>0, DeadStays, Zenon DEF Plain
<1>2. CASE CheckStale(c)
  BY <1>0, <1>1, <1>2, Zenon DEF CheckStale, CallRelease, Goto, EntryKnown
<1>3. CASE NoReuse(c)
  <2>1. pc[c] = "reuse?" /\ pc'[c] = "pull" /\ s \in {conn[c], NoSlot}
    BY <1>0, <1>3, Zenon DEF NoReuse, Goto, EntryKnown
  <2>2. ASSUME s # NoSlot PROVE Dead(s)
    <3>1. conn[c] = s /\ ~IsLive(s) /\ Using(c)
      BY <1>3, <2>1, <2>2, Zenon DEF NoReuse, Using, AcquirePCs
    <3>2. ASSUME NEW d \in Callers, Using(d), conn[d] = s PROVE d = c
      BY <2>2, <3>1, <3>2, Alone, Zenon DEF Facts
    <3>3. ASSUME NEW d \in Callers, pc[d] = "detach", key[d] = key[c] PROVE FALSE
      BY <2>1, <3>3, Alone, Zenon DEF Facts
    <3>4. ~Working(c) /\ pc[c] \notin {"save", "bind"}
      BY <2>1, Zenon DEF Working
    <3>5. \A d \in Callers : Working(d) \/ pc[d] \in {"save", "bind"} => Using(d)
      BY Zenon DEF Working, Using, AcquirePCs
    <3>6. ~Attended(key[c])
      BY <3>2, <3>3, <3>4, <3>5, Zenon DEF Attended
    <3>7. link[s] = "down"
      BY <1>0, <2>2, <3>1, <3>6, Zenon DEF Facts, KeysSettled, Settled, IsLive
    <3> QED
      BY <3>2, <3>4, <3>5, <3>7, Zenon DEF Dead
  <2>3. s = NoSlot \/ Dead(s)'
    BY <1>0, <1>1, <2>2, Zenon
  <2> QED
    BY <1>1, <2>1, <2>3, Zenon DEF EntryKnown
<1>4. CASE DetachNothing(c) \/ CloseSlot(c) \/ ReturnSlot(c)
  <2>1. s = NoSlot /\ pc'[c] \in {"return", "idle", "pull"}
    BY <1>0, <1>4, Zenon DEF DetachNothing, CloseSlot, ReturnSlot, Goto, EntryKnown
  <2> QED
    BY <1>1, <2>1, Zenon DEF EntryKnown
<1>5. ASSUME pc'[c] \notin {"stale?", "reuse?", "pull", "track", "close", "return"}
      PROVE  EntryKnown(c)'
  BY <1>5, Zenon DEF EntryKnown
<1>6. ASSUME \/ Done(c) \/ Reuse(c) \/ IdleTooLong(c)
             \/ PullNothing(c) \/ Connect(c) \/ ConnectFails(c) \/ ReattachConnect(c)
             \/ ReattachProbe(c) \/ ReattachFails(c) \/ Bootstrap(c) \/ BootstrapFails(c)
             \/ StartReader(c) \/ Bind(c) \/ StopClosed(c) \/ StopDone(c)
             \/ \E l \in LoopIDs \cup {NoLoop} : LoopIDFor(c, l) \/ CreateSession(c, l)
      PROVE  pc'[c] \notin {"stale?", "reuse?", "pull", "track", "close", "return"}
  BY <1>0, <1>6, ZenonT(20) DEF Done, Reuse, IdleTooLong, PullNothing, Connect, ConnectFails,
     ReattachConnect, ReattachProbe, ReattachFails, Bootstrap, BootstrapFails, StartReader,
     Bind, StopClosed, StopDone, LoopIDFor, CreateSession, Goto, CallRelease
<1> QED
  BY <1>2, <1>3, <1>4, <1>5, <1>6, Zenon DEF PlainStep

(* The caller of a plain step is prepared for its next one. *)
LEMMA PlainPrepared ==
  ASSUME Facts, UNCHANGED uses, NEW c \in Callers, PlainStep(c)
  PROVE  Prepared(c)'
<1>0. /\ pc \in [Callers -> PCs] /\ loop \in [Callers -> LoopIDs \cup {NoLoop}]
      /\ link \in [SlotIDs -> Links] /\ loopID \in [SlotIDs -> LoopIDs \cup {NoLoop}]
      /\ after[c] \in {"idle", "pull"} /\ NoLoop \notin LoopIDs
      /\ Prepared(c)
      /\ conn' = conn
      /\ Using(c) /\ conn[c] # NoSlot => conn[c] \in SlotIDs
      /\ Using(c) /\ pc[c] \notin {"stale?", "reuse?"} => conn[c] # NoSlot
  BY PlainSteps DEF Plain, Facts, PoolInv, TypeOK, CallersFit, CallerSlots, NoLoop, LoopIDs
<1> USE <1>0 DEF Prepared, IsLive, Goto, CallRelease, slotVars, linkVars, Using, AcquirePCs
<1>1. CASE Done(c) \/ CheckStale(c) \/ IdleTooLong(c) \/ NoReuse(c) \/ PullNothing(c)
  BY <1>1, ZenonT(20) DEF Done, CheckStale, IdleTooLong, NoReuse, PullNothing
<1>2. CASE Reuse(c)
  BY <1>2, Zenon DEF Reuse
<1>3. ASSUME NEW l \in LoopIDs \cup {NoLoop}, LoopIDFor(c, l) PROVE Prepared(c)'
  BY <1>3, Zenon DEF LoopIDFor
<1>4. CASE Connect(c)
  BY <1>4, Zenon DEF Connect
<1>5. CASE ReattachConnect(c)
  BY <1>5, Zenon DEF ReattachConnect
<1>6. CASE ReattachProbe(c)
  BY <1>6, Zenon DEF ReattachProbe
<1>7. CASE Bootstrap(c)
  BY <1>7, Zenon DEF Bootstrap
<1>8. CASE StartReader(c)
  BY <1>8, Zenon DEF StartReader
<1>9. ASSUME NEW l \in LoopIDs \cup {NoLoop}, CreateSession(c, l) PROVE Prepared(c)'
  BY <1>9, Zenon DEF CreateSession
<1>10. CASE Bind(c)
  BY <1>10, Zenon DEF Bind
<1>11. CASE ConnectFails(c) \/ ReattachFails(c) \/ BootstrapFails(c)
  BY <1>11, Zenon DEF ConnectFails, ReattachFails, BootstrapFails
<1>12. CASE DetachNothing(c) \/ CloseSlot(c) \/ ReturnSlot(c) \/ StopClosed(c) \/ StopDone(c)
  BY <1>12, Zenon DEF DetachNothing, CloseSlot, ReturnSlot, StopClosed, StopDone
<1> QED
  BY <1>1, <1>2, <1>3, <1>4, <1>5, <1>6, <1>7, <1>8, <1>9, <1>10, <1>11, <1>12, Zenon DEF PlainStep

(* What the other callers rely on is not touched by a plain step of c. *)
LEMMA PlainKeeps ==
  ASSUME Facts, UNCHANGED uses, NEW c \in Callers, PlainStep(c)
  PROVE  OwnKeys' /\ Recorded' /\ CallersFit' /\ KeysSettled'
<1>0. /\ TypeOK /\ Plain(c)
      /\ UNCHANGED <<activeSlots, registry, key, conn, uses>>
      /\ \A d \in Callers \ {c} : pc'[d] = pc[d] /\ loop'[d] = loop[d]
      /\ LinkStep(c)
  BY PlainSteps, Zenon DEF Plain, Facts, PoolInv
<1>1. OwnKeys'
  BY <1>0, Zenon DEF OwnKeys, Facts, Plain
<1>2. Recorded'
  BY <1>0, DeadStays, Zenon DEF Recorded, Facts
<1>3. ASSUME NEW d \in Callers \ {c} PROVE EntryKnown(d)'
  <2>1. EntryKnown(d)
    BY Zenon DEF Facts, CallersFit
  <2>2. activeSlots[key[d]] \in SlotIDs \cup {NoSlot}
    BY <1>0, Zenon DEF TypeOK
  <2> QED
    BY <1>0, <2>1, <2>2, DeadStays, Zenon DEF EntryKnown
<1>4. ASSUME NEW d \in Callers \ {c} PROVE Prepared(d)'
  <2>1. Prepared(d) /\ (Using(d) /\ conn[d] # NoSlot => conn[d] \in SlotIDs)
        /\ (Using(d) /\ pc[d] \notin {"stale?", "reuse?"} => conn[d] # NoSlot)
    BY <1>0, Zenon DEF Facts, CallersFit, PoolInv, CallerSlots, TypeOK
  <2>2. ~(Working(c) /\ Using(d) /\ conn[c] = conn[d] /\ conn[d] # NoSlot)
    <3>1. Working(c) => Using(c)
      BY Zenon DEF Working, Using, AcquirePCs
    <3> QED
      BY <3>1, Alone, Zenon DEF Facts
  <2>3. ASSUME Using(d), conn[d] # NoSlot
        PROVE  /\ link'[conn[d]] = link[conn[d]] \/ link'[conn[d]] = "down"
               /\ loopID[conn[d]] # NoLoop => loopID'[conn[d]] # NoLoop
    BY <1>0, <2>1, <2>2, <2>3, Zenon DEF LinkStep
  <2> QED
    BY <1>0, <2>1, <2>3, Zenon DEF Prepared, IsLive, Using, AcquirePCs
<1>5. CallersFit'
  BY <1>3, <1>4, PlainEntry, PlainPrepared, Zenon DEF CallersFit
<1>6. ASSUME NEW k \in AppKeys PROVE Settled(k)'
  <2> DEFINE s == activeSlots[k]
  <2>0. Settled(k) /\ s \in SlotIDs \cup {NoSlot}
    BY <1>0, Zenon DEF Facts, KeysSettled, TypeOK
  <2>1. CASE s = NoSlot
    BY <1>0, <2>1, Zenon DEF Settled
  <2>2. ASSUME s # NoSlot, NEW d \in Callers,
               \/ (Working(d) \/ pc[d] \in {"save", "bind"}) /\ conn[d] = s
               \/ pc[d] = "detach" /\ key[d] = k
        PROVE  Settled(k)'
    <3>1. CASE d # c
      BY <1>0, <2>2, <3>1, Zenon DEF Settled, Attended, Working
    <3>2. CASE d = c /\ pc[c] = "detach"
      BY <1>0, <2>2, <3>2, Zenon DEF Plain, Working
    <3>3. CASE d = c /\ pc[c] # "detach"
      <4>1. (Working(c) \/ pc[c] \in {"save", "bind"}) /\ conn[c] = s /\ key[c] = k
        BY <2>2, <3>3, Zenon DEF Facts, PoolInv, KeyIsolation, Using, AcquirePCs, Working
      <4>2. CASE Working(c)' \/ pc'[c] \in {"save", "bind", "detach"}
        BY <1>0, <4>1, <4>2, Zenon DEF Settled, Attended
      <4>3. CASE pc[c] = "bind" /\ loopID'[conn[c]] # NoLoop
        <5>1. link[s] # "new" /\ link[s] # "up" /\ link[s] \in Links
          BY <1>0, <2>0, <2>2, <4>1, <4>3, Zenon DEF Facts, CallersFit, Prepared, TypeOK
        <5>2. link'[s] = link[s] \/ link'[s] = "down"
          BY <1>0, <2>0, <2>2, <4>3, Zenon DEF LinkStep, Working
        <5> QED
          BY <1>0, <4>1, <4>3, <5>1, <5>2, Zenon DEF Settled, Links
      <4> QED
        BY <1>0, <4>1, <4>2, <4>3, Zenon DEF Plain
    <3> QED
      BY <3>1, <3>2, <3>3, Zenon
  <2>3. CASE s # NoSlot /\ ~Attended(k)
    <3>1. link'[s] = link[s] \/ link'[s] = "down"
      BY <1>0, <2>0, <2>3, Zenon DEF LinkStep, Attended
    <3>2. loopID[s] # NoLoop => loopID'[s] # NoLoop
      BY <1>0, <2>0, <2>3, Zenon DEF LinkStep
    <3> QED
      BY <1>0, <2>0, <2>3, <3>1, <3>2, Zenon DEF Settled
  <2> QED
    BY <2>1, <2>2, <2>3, Zenon DEF Attended
<1>7. KeysSettled'
  BY <1>6, Zenon DEF KeysSettled
<1> QED
  BY <1>1, <1>2, <1>5, <1>7, Zenon

(* A connection drops, or Stop closes one that is no longer recorded. *)
LEMMA FallKeeps ==
  ASSUME Facts, UNCHANGED <<activeSlots, registry, key, conn, uses, pc, loop, loopID>>,
         \A s \in SlotIDs : link'[s] = link[s] \/ link'[s] = "down"
  PROVE  OwnKeys' /\ Recorded' /\ CallersFit' /\ KeysSettled'
<1>0. TypeOK
  BY Zenon DEF Facts, PoolInv
<1>1. \A s \in SlotIDs : Dead(s) => Dead(s)'
  BY Zenon DEF Dead, Working
<1>2. OwnKeys' /\ Recorded'
  BY <1>1, Zenon DEF Facts, OwnKeys, Recorded
<1>3. ASSUME NEW c \in Callers PROVE EntryKnown(c)'
  <2>1. EntryKnown(c) /\ activeSlots[key[c]] \in SlotIDs \cup {NoSlot}
    BY <1>0, Zenon DEF Facts, CallersFit, TypeOK
  <2> QED
    BY <1>1, <2>1, Zenon DEF EntryKnown
<1>4. ASSUME NEW c \in Callers PROVE Prepared(c)'
  <2>1. Prepared(c) /\ (Using(c) /\ conn[c] # NoSlot => conn[c] \in SlotIDs)
        /\ (Using(c) /\ pc[c] \notin {"stale?", "reuse?"} => conn[c] # NoSlot)
    BY <1>0, Zenon DEF Facts, CallersFit, PoolInv, CallerSlots, TypeOK
  <2>2. Using(c) /\ conn[c] # NoSlot => link'[conn[c]] = link[conn[c]] \/ link'[conn[c]] = "down"
    BY <2>1, Zenon
  <2> QED
    BY <2>1, <2>2, Zenon DEF Prepared, IsLive, Using, AcquirePCs
<1>5. ASSUME NEW k \in AppKeys PROVE Settled(k)'
  <2>1. Settled(k) /\ activeSlots[k] \in SlotIDs \cup {NoSlot}
    BY <1>0, Zenon DEF Facts, KeysSettled, TypeOK
  <2>2. Attended(k) => Attended(k)'
    BY Zenon DEF Attended, Working
  <2> QED
    BY <2>1, <2>2, Zenon DEF Settled
<1> QED
  BY <1>2, <1>3, <1>4, <1>5, Zenon DEF CallersFit, KeysSettled

(* Acquire starts: it reads the entry of its key, which nobody attends. *)
LEMMA AcquireOwn ==
  ASSUME Facts, UNCHANGED uses, NEW c \in Callers, NEW k \in AppKeys, <<c, k>> \in uses,
         Acquire(c, k)
  PROVE  OwnKeys' /\ Recorded' /\ CallersFit' /\ KeysSettled'
<1>0. TypeOK
  BY Zenon DEF Facts, PoolInv
<1>1. /\ pc[c] = "idle" /\ pc'[c] = "stale?" /\ key'[c] = k /\ conn'[c] = activeSlots[k]
      /\ \A d \in Callers \ {c} : pc'[d] = pc[d] /\ key'[d] = key[d] /\ conn'[d] = conn[d]
      /\ UNCHANGED <<activeSlots, registry, link, loopID, loop>>
  BY <1>0, Zenon DEF Acquire, Goto, TypeOK, slotVars, linkVars
<1>2. \A s \in SlotIDs : Dead(s) => Dead(s)'
  BY <1>1, Zenon DEF Dead, Working
<1>3. OwnKeys' /\ Recorded'
  BY <1>1, <1>2, Zenon DEF Facts, OwnKeys, Recorded
<1>4. ASSUME NEW j \in AppKeys, Attended(j) PROVE Attended(j)'
  <2>1. PICK d \in Callers :
          \/ (Working(d) \/ pc[d] \in {"save", "bind"}) /\ conn[d] = activeSlots[j]
          \/ pc[d] = "detach" /\ key[d] = j
    BY <1>4, Zenon DEF Attended
  <2>2. d # c
    BY <1>1, <2>1, Zenon DEF Working
  <2> QED
    BY <1>1, <2>1, <2>2, Zenon DEF Attended, Working
<1>5. KeysSettled'
  BY <1>1, <1>4, Zenon DEF Facts, KeysSettled, Settled
<1>6. ~Attended(k) \/ activeSlots[k] = NoSlot
  <2> SUFFICES ASSUME activeSlots[k] # NoSlot, NEW d \in Callers,
                      \/ (Working(d) \/ pc[d] \in {"save", "bind"}) /\ conn[d] = activeSlots[k]
                      \/ pc[d] = "detach" /\ key[d] = k
               PROVE  FALSE
    BY ZenonT(30) DEF Attended
  <2>1. key[d] = k /\ pc[d] \notin {"idle", "stop", "drain"}
    BY DEF Facts, PoolInv, KeyIsolation, Using, AcquirePCs, Working
  <2>2. <<d, k>> \in uses
    BY <2>1, Zenon DEF Facts, OwnKeys
  <2>3. <<c, k>>[1] = c /\ <<c, k>>[2] = k /\ <<d, k>>[1] = d /\ <<d, k>>[2] = k
    BY Zenon
  <2>4. c = d
    BY <2>2, <2>3, Zenon DEF Facts, KeysOwned
  <2> QED
    BY <1>1, <2>1, <2>4, Zenon
<1>7. Prepared(c)' /\ EntryKnown(c)'
  <2>1. Settled(k)
    BY Zenon DEF Facts, KeysSettled
  <2> QED
    BY <1>1, <1>6, <2>1, Zenon DEF Prepared, EntryKnown, IsLive, Settled
<1>8. ASSUME NEW d \in Callers \ {c} PROVE Prepared(d)' /\ EntryKnown(d)'
  <2>1. Prepared(d) /\ EntryKnown(d) /\ activeSlots[key[d]] \in SlotIDs \cup {NoSlot}
    BY <1>0, Zenon DEF Facts, CallersFit, TypeOK
  <2> QED
    BY <1>1, <1>2, <2>1, Zenon DEF Prepared, EntryKnown, IsLive
<1> QED
  BY <1>3, <1>5, <1>7, <1>8, Zenon DEF CallersFit

(* Release starts. *)
LEMMA ReleaseOwn ==
  ASSUME Facts, UNCHANGED uses, NEW c \in Callers, NEW k \in AppKeys, <<c, k>> \in uses,
         Release(c, k)
  PROVE  OwnKeys' /\ Recorded' /\ CallersFit' /\ KeysSettled'
<1>0. TypeOK
  BY Zenon DEF Facts, PoolInv
<1>1. /\ pc[c] \in {"idle", "have"} /\ pc'[c] = "detach" /\ key'[c] = k
      /\ \A d \in Callers \ {c} : pc'[d] = pc[d] /\ key'[d] = key[d]
      /\ UNCHANGED <<activeSlots, registry, link, loopID, loop, conn>>
  BY <1>0, Zenon DEF Release, CallRelease, Goto, TypeOK, slotVars, linkVars
<1>2. \A s \in SlotIDs : Dead(s) => Dead(s)'
  BY <1>1, Zenon DEF Dead, Working
<1>3. OwnKeys' /\ Recorded'
  BY <1>1, <1>2, Zenon DEF Facts, OwnKeys, Recorded
<1>4. ASSUME NEW j \in AppKeys, Attended(j) PROVE Attended(j)'
  <2>1. PICK d \in Callers :
          \/ (Working(d) \/ pc[d] \in {"save", "bind"}) /\ conn[d] = activeSlots[j]
          \/ pc[d] = "detach" /\ key[d] = j
    BY <1>4, Zenon DEF Attended
  <2>2. d # c
    BY <1>1, <2>1, Zenon DEF Working
  <2> QED
    BY <1>1, <2>1, <2>2, Zenon DEF Attended, Working
<1>5. KeysSettled'
  BY <1>1, <1>4, Zenon DEF Facts, KeysSettled, Settled
<1>6. Prepared(c)' /\ EntryKnown(c)'
  BY <1>1, Zenon DEF Prepared, EntryKnown
<1>7. ASSUME NEW d \in Callers \ {c} PROVE Prepared(d)' /\ EntryKnown(d)'
  <2>1. Prepared(d) /\ EntryKnown(d) /\ activeSlots[key[d]] \in SlotIDs \cup {NoSlot}
    BY <1>0, Zenon DEF Facts, CallersFit, TypeOK
  <2> QED
    BY <1>1, <1>2, <2>1, Zenon DEF Prepared, EntryKnown, IsLive
<1> QED
  BY <1>3, <1>5, <1>6, <1>7, Zenon DEF CallersFit

(* Stop empties the maps; the slots others work on are recorded no more. *)
LEMMA StopOwn ==
  ASSUME Facts, UNCHANGED uses, NEW c \in Callers, StopCollect(c)
  PROVE  OwnKeys' /\ Recorded' /\ CallersFit' /\ KeysSettled'
<1>0. TypeOK
  BY Zenon DEF Facts, PoolInv
<1>1. /\ pc[c] = "idle" /\ pc'[c] = "stop"
      /\ \A d \in Callers \ {c} : pc'[d] = pc[d]
      /\ UNCHANGED <<link, loopID, loop, conn, key>>
      /\ \A k \in AppKeys : activeSlots'[k] = NoSlot
      /\ \A s \in SlotIDs : registry'[s] # NoKey => registry'[s] = registry[s] /\ s \notin ActiveSet
  BY <1>0, Zenon DEF StopCollect, Goto, TypeOK, linkVars
<1>2. \A s \in SlotIDs : Dead(s) => Dead(s)'
  BY <1>1, Zenon DEF Dead, Working
<1>3. OwnKeys'
  BY <1>1, Zenon DEF Facts, OwnKeys
<1>4. Recorded'
  <2> SUFFICES ASSUME NEW s \in SlotIDs, registry'[s] # NoKey PROVE Dead(s)'
    BY ZenonT(30) DEF Recorded
  <2>1. registry[s] \in AppKeys /\ activeSlots[registry[s]] # s
    BY <1>0, <1>1 DEF TypeOK, ActiveSet, SlotIDs, NoSlot
  <2> QED
    BY <1>1, <1>2, <2>1, Zenon DEF Facts, Recorded
<1>5. KeysSettled'
  BY <1>1, Zenon DEF KeysSettled, Settled
<1>6. Prepared(c)' /\ EntryKnown(c)'
  BY <1>1, Zenon DEF Prepared, EntryKnown
<1>7. ASSUME NEW d \in Callers \ {c} PROVE Prepared(d)' /\ EntryKnown(d)'
  <2>1. Prepared(d) /\ key[d] \in AppKeys
    BY <1>0, Zenon DEF Facts, CallersFit, TypeOK
  <2> QED
    BY <1>1, <2>1, Zenon DEF Prepared, EntryKnown, IsLive
<1> QED
  BY <1>3, <1>4, <1>5, <1>6, <1>7, Zenon DEF CallersFit

(* Acquire pulls a slot that is in no map. *)
LEMMA PullOwn ==
  ASSUME Facts, UNCHANGED uses, NEW c \in Callers, NEW s \in SlotIDs, Pull(c, s)
  PROVE  OwnKeys' /\ Recorded' /\ CallersFit' /\ KeysSettled'
<1>0. TypeOK
  BY Zenon DEF Facts, PoolInv
<1>1. /\ pc[c] = "pull" /\ pc'[c] = "track" /\ conn'[c] = s /\ s \in pool
      /\ \A d \in Callers \ {c} : pc'[d] = pc[d] /\ conn'[d] = conn[d]
      /\ UNCHANGED <<activeSlots, registry, link, loopID, loop, key>>
  BY <1>0, ZenonT(30) DEF Pull, Goto, TypeOK, linkVars
<1>2. registry[s] = NoKey /\ \A k \in AppKeys : activeSlots[k] # s
  <2>1. registry[s] = NoKey
    BY <1>1, Zenon DEF Facts, PoolInv, UnpulledFresh
  <2>2. s # NoSlot /\ s \notin Held
    BY <1>1, SlotNumbers, Zenon DEF Held
  <2> QED
    BY <2>1, <2>2, Zenon DEF Facts, PoolInv, ActiveHeld
<1>3. \A t \in SlotIDs \ {s} : Dead(t) => Dead(t)'
  BY <1>1, Zenon DEF Dead, Working
<1>4. OwnKeys'
  BY <1>1, Zenon DEF Facts, OwnKeys
<1>5. Recorded'
  BY <1>1, <1>2, <1>3, Zenon DEF Facts, Recorded
<1>6. ASSUME NEW j \in AppKeys, Attended(j) PROVE Attended(j)'
  <2>1. PICK d \in Callers :
          \/ (Working(d) \/ pc[d] \in {"save", "bind"}) /\ conn[d] = activeSlots[j]
          \/ pc[d] = "detach" /\ key[d] = j
    BY <1>6, Zenon DEF Attended
  <2>2. d # c
    BY <1>1, <2>1, Zenon DEF Working
  <2> QED
    BY <1>1, <2>1, <2>2, Zenon DEF Attended, Working
<1>7. KeysSettled'
  BY <1>1, <1>6, Zenon DEF Facts, KeysSettled, Settled
<1>8. ASSUME NEW d \in Callers PROVE EntryKnown(d)'
  <2>1. EntryKnown(d) /\ key[d] \in AppKeys /\ activeSlots[key[d]] \in (SlotIDs \ {s}) \cup {NoSlot}
    BY <1>0, <1>2, Zenon DEF Facts, CallersFit, TypeOK
  <2>2. CASE d = c
    BY <1>1, <1>3, <2>1, <2>2, Zenon DEF EntryKnown
  <2>3. CASE d # c
    BY <1>1, <1>3, <2>1, <2>3, Zenon DEF EntryKnown
  <2> QED
    BY <2>2, <2>3, Zenon
<1>9. ASSUME NEW d \in Callers PROVE Prepared(d)'
  <2>1. Prepared(d)
    BY Zenon DEF Facts, CallersFit
  <2> QED
    BY <1>1, <2>1, Zenon DEF Prepared, IsLive
<1> QED
  BY <1>4, <1>5, <1>7, <1>8, <1>9, Zenon DEF CallersFit

(* Acquire records its slot; the entry it may overwrite is dead. *)
LEMMA TrackOwn ==
  ASSUME Facts, UNCHANGED uses, NEW c \in Callers, Track(c)
  PROVE  OwnKeys' /\ Recorded' /\ CallersFit' /\ KeysSettled'
<1>0. TypeOK /\ EntryKnown(c) /\ conn[c] \in SlotIDs /\ key[c] \in AppKeys /\ NoSlot \notin SlotIDs
  BY SMTT(30) DEF Facts, PoolInv, CallersFit, Track, CallerSlots, Using, AcquirePCs, TypeOK, NoSlot, SlotIDs
<1>1. /\ pc[c] = "track" /\ pc'[c] = "lookup"
      /\ \A d \in Callers \ {c} : pc'[d] = pc[d]
      /\ UNCHANGED <<conn, link, loopID, loop, key>>
      /\ activeSlots'[key[c]] = conn[c] /\ registry'[conn[c]] = key[c]
      /\ \A k \in AppKeys \ {key[c]} : activeSlots'[k] = activeSlots[k]
      /\ \A s \in SlotIDs \ {conn[c]} : registry'[s] = registry[s]
  BY <1>0, Zenon DEF Track, Goto, TypeOK, linkVars
<1>2. \A s \in SlotIDs : Dead(s) => Dead(s)'
  BY <1>1, Zenon DEF Dead, Working
<1>3. OwnKeys'
  BY <1>1, Zenon DEF Facts, OwnKeys
<1>4. Recorded'
  <2> SUFFICES ASSUME NEW s \in SlotIDs, registry'[s] # NoKey
               PROVE  activeSlots'[registry'[s]] = s \/ Dead(s)'
    BY Zenon DEF Recorded
  <2>1. CASE s = conn[c]
    BY <1>1, <2>1, Zenon
  <2>2. CASE s # conn[c]
    <3>1. registry'[s] = registry[s] /\ registry[s] \in AppKeys
      BY <1>0, <1>1, <2>2, ZenonT(20) DEF TypeOK
    <3>2. activeSlots[registry[s]] = s \/ Dead(s)
      BY <3>1, Zenon DEF Facts, Recorded
    <3>3. activeSlots[key[c]] = s => Dead(s)
      BY <1>0, <1>1, Zenon DEF EntryKnown
    <3> QED
      BY <1>1, <1>2, <3>1, <3>2, <3>3, Zenon
  <2> QED
    BY <2>1, <2>2, Zenon
<1>5. ASSUME NEW j \in AppKeys PROVE Settled(j)'
  <2>1. CASE j = key[c]
    <3>1. Working(c)' /\ conn'[c] = activeSlots'[j]
      BY <1>1, <2>1, Zenon DEF Working
    <3> QED
      BY <3>1, Zenon DEF Settled, Attended
  <2>2. CASE j # key[c]
    <3>1. activeSlots'[j] = activeSlots[j] /\ Settled(j)
      BY <1>1, <2>2, Zenon DEF Facts, KeysSettled
    <3>2. ASSUME Attended(j) PROVE Attended(j)'
      <4>1. PICK d \in Callers :
              \/ (Working(d) \/ pc[d] \in {"save", "bind"}) /\ conn[d] = activeSlots[j]
              \/ pc[d] = "detach" /\ key[d] = j
        BY <3>2, Zenon DEF Attended
      <4>2. \/ (Working(d)' \/ pc'[d] \in {"save", "bind"}) /\ conn'[d] = activeSlots'[j]
            \/ pc'[d] = "detach" /\ key'[d] = j
        BY <1>1, <3>1, <4>1, Zenon DEF Working
      <4> QED
        BY <4>2, Zenon DEF Attended
    <3> QED
      BY <1>1, <3>1, <3>2, Zenon DEF Settled
  <2> QED
    BY <2>1, <2>2, Zenon
<1>6. ASSUME NEW d \in Callers PROVE EntryKnown(d)'
  <2>1. CASE d = c
    BY <1>1, <2>1, Zenon DEF EntryKnown
  <2>2. CASE d # c /\ pc[d] \in {"idle", "stop", "drain"}
    BY <1>1, <2>2, Zenon DEF EntryKnown
  <2>3. CASE d # c /\ pc[d] \notin {"idle", "stop", "drain"}
    <3>1. key[d] # key[c] /\ key[d] \in AppKeys
      BY <1>0, <1>1, <2>3, Alone, Zenon DEF Facts, TypeOK
    <3>2. activeSlots'[key[d]] = activeSlots[key[d]]
          /\ activeSlots[key[d]] \in SlotIDs \cup {NoSlot} /\ EntryKnown(d)
      BY <1>0, <1>1, <3>1, Zenon DEF TypeOK, Facts, CallersFit
    <3> QED
      BY <1>1, <1>2, <2>3, <3>2, Zenon DEF EntryKnown
  <2> QED
    BY <2>1, <2>2, <2>3, Zenon
<1>7. ASSUME NEW d \in Callers PROVE Prepared(d)'
  <2>1. Prepared(d)
    BY Zenon DEF Facts, CallersFit
  <2> QED
    BY <1>1, <2>1, Zenon DEF Prepared, IsLive
<1> QED
  BY <1>3, <1>4, <1>5, <1>6, <1>7, Zenon DEF CallersFit, KeysSettled

(* Release takes the entry of its key out of both maps. *)
LEMMA DetachOwn ==
  ASSUME Facts, UNCHANGED uses, NEW c \in Callers, Detach(c)
  PROVE  OwnKeys' /\ Recorded' /\ CallersFit' /\ KeysSettled'
<1> DEFINE o == activeSlots[key[c]]
<1>0. TypeOK /\ o \in SlotIDs /\ key[c] \in AppKeys
  BY Zenon DEF Facts, PoolInv, Detach, TypeOK
<1>1. /\ pc[c] = "detach" /\ pc'[c] = "close" /\ conn'[c] = o
      /\ \A d \in Callers \ {c} : pc'[d] = pc[d] /\ conn'[d] = conn[d]
      /\ UNCHANGED <<link, loopID, loop, key>>
      /\ activeSlots'[key[c]] = NoSlot /\ registry'[o] = NoKey
      /\ \A k \in AppKeys \ {key[c]} : activeSlots'[k] = activeSlots[k]
      /\ \A s \in SlotIDs \ {o} : registry'[s] = registry[s]
  BY <1>0, Zenon DEF Detach, Goto, TypeOK, linkVars
<1> HIDE DEF o
<1>2. \A s \in SlotIDs : Dead(s) => Dead(s)'
  BY <1>1, Zenon DEF Dead, Working
<1>3. OwnKeys'
  BY <1>1, ZenonT(30) DEF Facts, OwnKeys
<1>4. Recorded'
  <2> SUFFICES ASSUME NEW s \in SlotIDs, registry'[s] # NoKey
               PROVE  activeSlots'[registry'[s]] = s \/ Dead(s)'
    BY Zenon DEF Recorded
  <2>1. s # o /\ registry'[s] = registry[s] /\ registry[s] \in AppKeys
    BY <1>0, <1>1 DEF TypeOK
  <2>2. activeSlots[registry[s]] = s \/ Dead(s)
    BY <2>1, Zenon DEF Facts, Recorded
  <2> QED
    BY <1>1, <1>2, <2>1, <2>2, SMTT(30) DEF o
<1>5. ASSUME NEW j \in AppKeys PROVE Settled(j)'
  <2>1. CASE j = key[c]
    BY <1>1, <2>1, Zenon DEF Settled
  <2>2. CASE j # key[c]
    <3>1. activeSlots'[j] = activeSlots[j] /\ Settled(j)
      BY <1>1, <2>2, Zenon DEF Facts, KeysSettled
    <3>2. ASSUME Attended(j) PROVE Attended(j)'
      <4>1. PICK d \in Callers :
              \/ (Working(d) \/ pc[d] \in {"save", "bind"}) /\ conn[d] = activeSlots[j]
              \/ pc[d] = "detach" /\ key[d] = j
        BY <3>2, Zenon DEF Attended
      <4>2. d # c
        BY <1>1, <2>2, <4>1, Zenon DEF Working
      <4> QED
        BY <1>1, <3>1, <4>1, <4>2, Zenon DEF Attended, Working
    <3> QED
      BY <1>1, <3>1, <3>2, Zenon DEF Settled
  <2> QED
    BY <2>1, <2>2, Zenon
<1>6. ASSUME NEW d \in Callers PROVE EntryKnown(d)'
  <2>1. CASE d = c
    BY <1>1, <2>1, Zenon DEF EntryKnown
  <2>2. CASE d # c /\ pc[d] \in {"idle", "stop", "drain"}
    BY <1>1, <2>2, Zenon DEF EntryKnown
  <2>3. CASE d # c /\ pc[d] \notin {"idle", "stop", "drain"}
    <3>1. key[d] # key[c] /\ key[d] \in AppKeys
      BY <1>0, <1>1, <2>3, Alone, Zenon DEF Facts, TypeOK
    <3>2. activeSlots'[key[d]] = activeSlots[key[d]]
          /\ activeSlots[key[d]] \in SlotIDs \cup {NoSlot} /\ EntryKnown(d)
      BY <1>0, <1>1, <3>1, Zenon DEF TypeOK, Facts, CallersFit
    <3> QED
      BY <1>1, <1>2, <2>3, <3>2, Zenon DEF EntryKnown
  <2> QED
    BY <2>1, <2>2, <2>3, Zenon
<1>7. ASSUME NEW d \in Callers PROVE Prepared(d)'
  <2>1. Prepared(d)
    BY Zenon DEF Facts, CallersFit
  <2> QED
    BY <1>1, <2>1, Zenon DEF Prepared, IsLive
<1> QED
  BY <1>3, <1>4, <1>5, <1>6, <1>7, Zenon DEF CallersFit, KeysSettled

(* Every step of every caller keeps OwnInv. *)
LEMMA OwnStep == PoolInv /\ OwnInv /\ [Next]_vars => OwnInv'
<1> SUFFICES ASSUME PoolInv, OwnInv, [Next]_vars, KeysOwned'
             PROVE  OwnKeys' /\ Recorded' /\ CallersFit' /\ KeysSettled'
  BY Zenon DEF OwnInv
<1>0. UNCHANGED uses /\ Facts /\ TypeOK
  <2>1. UNCHANGED uses
    BY Zenon DEF Next, vars
  <2> QED
    BY <2>1, Zenon DEF OwnInv, Facts, KeysOwned, PoolInv
<1> DEFINE Goal == OwnKeys' /\ Recorded' /\ CallersFit' /\ KeysSettled'
<1>1. ASSUME NEW c \in Callers, Call(c) PROVE Goal
  BY <1>0, <1>1, AcquireOwn, ReleaseOwn, StopOwn, PlainKeeps, Zenon DEF Call, PlainStep
<1>2. ASSUME NEW c \in Callers, NEW s \in SlotIDs, StopClose(c, s) \/ StopDrain(c, s) PROVE Goal
  <2>1. /\ UNCHANGED <<activeSlots, registry, key, conn, pc, loop, loopID>>
        /\ \A t \in SlotIDs : link'[t] = link[t] \/ link'[t] = "down"
    BY <1>0, <1>2, ZenonT(20) DEF StopClose, StopDrain, Closed, slotVars, callVars, TypeOK
  <2> QED
    BY <1>0, <2>1, FallKeeps, Zenon
<1>3. ASSUME NEW s \in SlotIDs, Drop(s) PROVE Goal
  <2>1. /\ UNCHANGED <<activeSlots, registry, key, conn, pc, loop, loopID>>
        /\ \A t \in SlotIDs : link'[t] = link[t] \/ link'[t] = "down"
    BY <1>0, <1>3, Zenon DEF Drop, slotVars, callVars, TypeOK
  <2> QED
    BY <1>0, <2>1, FallKeeps, Zenon
<1>4. CASE UNCHANGED vars
  BY <1>0, <1>4, FallKeeps, Zenon DEF vars, slotVars, linkVars, callVars
<1>5. ASSUME NEW c \in Callers, Step(c) PROVE Goal
  BY <1>0, <1>2, <1>5, PullOwn, TrackOwn, DetachOwn, PlainKeeps, Zenon DEF Step, PlainStep
<1> QED
  BY <1>1, <1>3, <1>4, <1>5, Zenon DEF Next

(* OwnInv holds throughout. *)
LEMMA OwnInvariant == Spec => [](PoolInv /\ OwnInv)
<1>1. Init => OwnInv
  BY PoolAssumption DEF Init, OwnInv, OwnKeys, Recorded, CallersFit, KeysSettled, EntryKnown,
     Prepared, Settled
<1> QED
  BY <1>1, PoolInvInit, PoolInvStep, OwnStep, PTL DEF Spec

(***************************************************************************)
(* "One active per AppKey": where no two callers use the same key, the     *)
(* registry knows of one live connection per key at most, though Acquire   *)
(* may overwrite the entry of a connection that drops between its two      *)
(* looks at it.                                                            *)
(***************************************************************************)
THEOREM OneActive == Spec => []OneActivePerKey
<1>1. PoolInv /\ OwnInv => OneActivePerKey
  <2> SUFFICES ASSUME PoolInv, OwnInv, KeysOwned, NEW s \in SlotIDs, NEW t \in SlotIDs,
                      IsLive(s), IsLive(t), registry[s] = registry[t], registry[s] # NoKey
               PROVE  s = t
    BY Zenon DEF OneActivePerKey
  <2>1. ~Dead(s) /\ ~Dead(t)
    BY Zenon DEF Dead, IsLive
  <2> QED
    BY <2>1, Zenon DEF OwnInv, Recorded
<1> QED
  BY <1>1, OwnInvariant, PTL

(***************************************************************************)
(* Where no two callers use the same key, the connection Acquire returns   *)
(* has the loop id that TurnRunner addresses the turn to.                  *)
(***************************************************************************)
THEOREM LoopKnown == Spec => []ReturnedLoopKnown
<1>1. OwnInv => ReturnedLoopKnown
  BY Zenon DEF OwnInv, CallersFit, Prepared, ReturnedLoopKnown
<1> QED
  BY <1>1, OwnInvariant, PTL

=============================================================================
