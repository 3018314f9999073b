--------------------------- MODULE ConnectionPool ---------------------------
(***************************************************************************)
(* appkit.ConnectionPool (src/appkit/pool.go): PoolSize connection slots,  *)
(* handed out per AppKey.                                                  *)
(*                                                                         *)
(* Every goroutine that calls Acquire, Release or Stop is a Caller with a  *)
(* program counter; a step is what the code does between two points where  *)
(* another goroutine can run (a lock, a channel operation, a round trip to *)
(* the daemon).  A slot (pooledConn) is its slotID.  Slots in the pool     *)
(* channel are interchangeable, so the channel is the set `pool'.          *)
(*                                                                         *)
(* Abstracted: the spelling of loop ids, lastUsed (the idle-too-long test  *)
(* is a free choice), and the daemon and the store, which accept or refuse *)
(* at will.                                                                *)
(***************************************************************************)
EXTENDS Integers, FiniteSets

CONSTANTS
  Callers,      \* goroutines using the pool
  AppKeys,      \* product session keys
  Uses,         \* ways to share keys: sets of <<caller, key it may pass>>
  NoKey,        \* registry has no entry for the slot
  PoolSize,     \* PoolConfig.PoolSize
  MaxSlotID,    \* bound: slot ids newSlot may hand out
  MaxLoopID,    \* bound: loops the daemon may create
  MaxCalls      \* bound: API calls made by all callers together

ASSUME PoolAssumption ==
  /\ PoolSize \in Nat \ {0}
  /\ MaxSlotID \in Nat /\ MaxSlotID >= PoolSize
  /\ MaxLoopID \in Nat
  /\ MaxCalls \in Nat
  /\ Uses \subseteq SUBSET (Callers \X AppKeys)
  /\ AppKeys # {} /\ NoKey \notin AppKeys
  /\ IsFiniteSet(Callers)

SlotIDs == 1 .. MaxSlotID
LoopIDs == 1 .. MaxLoopID
NoSlot == 0
NoLoop == 0

VARIABLES
  uses,         \* the application's way to share keys
  pool,         \* slots waiting in the channel p.pool
  activeSlots,  \* p.activeSlots: AppKey -> slot
  registry,     \* p.registry: slotID -> AppKey
  nextSlotID,   \* p.nextSlotID
  link,         \* per slot: state of its client's connection
  loopID,       \* per slot: conn.loopID
  store,        \* LoopSessionStore: AppKey -> loop id
  nextLoop,     \* next loop id the daemon will create
  pc,           \* per caller: where it is
  key,          \* per caller: the appKey argument
  conn,         \* per caller: `existing', then the slot it works on
  loop,         \* per caller: the local loopID of Acquire
  after,        \* per caller: where Release returns to
  stopping,     \* per caller: slots Stop collected and still has to close
  calls,        \* API calls made so far
  released,     \* history: slots Release took out of activeSlots
  drained       \* history: slots Stop took out of circulation

slotVars == <<pool, activeSlots, registry, nextSlotID>>
linkVars == <<link, loopID, store, nextLoop>>
callVars == <<pc, key, conn, loop, after, stopping, calls>>
vars == <<uses, slotVars, linkVars, callVars, released, drained>>

(***************************************************************************)
(* link[s]: "new" the client never connected; "up" connected, no event     *)
(* reader yet; "live" connected and ReceiveMessages feeds eventCh; "down"  *)
(* closed or dropped.                                                      *)
(***************************************************************************)
Links == {"new", "up", "live", "down"}

AcquirePCs == {"stale?", "reuse?", "pull", "track", "lookup", "connect",
               "reattach", "probe", "reconnect", "bootstrap", "stream", "restream",
               "save", "bind", "have"}
ReleasePCs == {"detach", "close", "return"}
StopPCs == {"stop", "drain"}
PCs == {"idle"} \cup AcquirePCs \cup ReleasePCs \cup StopPCs

TypeOK ==
  /\ pool \subseteq SlotIDs
  /\ activeSlots \in [AppKeys -> SlotIDs \cup {NoSlot}]
  /\ registry \in [SlotIDs -> AppKeys \cup {NoKey}]
  /\ nextSlotID \in 1 .. MaxSlotID + 1
  /\ link \in [SlotIDs -> Links]
  /\ loopID \in [SlotIDs -> LoopIDs \cup {NoLoop}]
  /\ store \in [AppKeys -> LoopIDs \cup {NoLoop}]
  /\ nextLoop \in Nat \ {0}
  /\ pc \in [Callers -> PCs]
  /\ key \in [Callers -> AppKeys]
  /\ conn \in [Callers -> SlotIDs \cup {NoSlot}]
  /\ loop \in [Callers -> LoopIDs \cup {NoLoop}]
  /\ after \in [Callers -> {"idle", "pull"}]
  /\ stopping \in [Callers -> SUBSET SlotIDs]
  /\ calls \in Nat
  /\ released \subseteq SlotIDs
  /\ drained \subseteq SlotIDs

(***************************************************************************)
(* NewConnectionPool: PoolSize fresh slots in the channel.                 *)
(***************************************************************************)
Init ==
  /\ uses \in Uses
  /\ pool = 1 .. PoolSize
  /\ activeSlots = [k \in AppKeys |-> NoSlot]
  /\ registry = [s \in SlotIDs |-> NoKey]
  /\ nextSlotID = PoolSize + 1
  /\ link = [s \in SlotIDs |-> "new"]
  /\ loopID = [s \in SlotIDs |-> NoLoop]
  /\ store = [k \in AppKeys |-> NoLoop]
  /\ nextLoop = 1
  /\ pc = [c \in Callers |-> "idle"]
  /\ key = [c \in Callers |-> CHOOSE k \in AppKeys : TRUE]
  /\ conn = [c \in Callers |-> NoSlot]
  /\ loop = [c \in Callers |-> NoLoop]
  /\ after = [c \in Callers |-> "idle"]
  /\ stopping = [c \in Callers |-> {}]
  /\ calls = 0
  /\ released = {}
  /\ drained = {}

Goto(c, to) == pc' = [pc EXCEPT ![c] = to]

(* isConnected() and eventStreamLive() *)
IsLive(s) == link[s] = "live"

(* Enter Release(appKey) and continue at `to' when it returns. *)
CallRelease(c, to) ==
  /\ Goto(c, "detach")
  /\ after' = [after EXCEPT ![c] = to]

-----------------------------------------------------------------------------
(* Acquire *)

(* Mutant of Acquire: step 1, the look for a previous connection, left out. *)
AcquireBlind(c, k) ==
  /\ pc[c] = "idle"
  /\ calls < MaxCalls
  /\ Goto(c, "pull")
  /\ key' = [key EXCEPT ![c] = k]
  /\ calls' = calls + 1
  /\ UNCHANGED <<slotVars, linkVars, conn, loop, after, stopping, released,
                 drained>>

(* The call, and the RLocked read of activeSlots[appKey]. *)
Acquire(c, k) ==
  /\ pc[c] = "idle"
  /\ calls < MaxCalls
  /\ Goto(c, "stale?")
  /\ key' = [key EXCEPT ![c] = k]
  /\ conn' = [conn EXCEPT ![c] = activeSlots[k]]
  /\ calls' = calls + 1
  /\ UNCHANGED <<slotVars, linkVars, loop, after, stopping, released, drained>>

(* A previous connection that is not live is released first. *)
CheckStale(c) ==
  /\ pc[c] = "stale?"
  /\ IF conn[c] # NoSlot /\ ~IsLive(conn[c])
       THEN CallRelease(c, "pull")
       ELSE Goto(c, "reuse?") /\ after' = after
  /\ UNCHANGED <<slotVars, linkVars, key, conn, loop, stopping, calls,
                 released, drained>>

(* A live previous connection is returned, or released if idle too long.   *)
(* The liveness is read a second time here.                                *)
Reuse(c) ==
  /\ pc[c] = "reuse?"
  /\ conn[c] # NoSlot /\ IsLive(conn[c])
  /\ Goto(c, "have")
  /\ UNCHANGED <<slotVars, linkVars, key, conn, loop, after, stopping, calls,
                 released, drained>>

IdleTooLong(c) ==
  /\ pc[c] = "reuse?"
  /\ conn[c] # NoSlot /\ IsLive(conn[c])
  /\ CallRelease(c, "pull")
  /\ UNCHANGED <<slotVars, linkVars, key, conn, loop, stopping, calls,
                 released, drained>>

NoReuse(c) ==
  /\ pc[c] = "reuse?"
  /\ ~(conn[c] # NoSlot /\ IsLive(conn[c]))
  /\ Goto(c, "pull")
  /\ UNCHANGED <<slotVars, linkVars, key, conn, loop, after, stopping, calls,
                 released, drained>>

(* The select: a slot from the channel, or an error when ctx is done or    *)
(* the channel is empty.                                                   *)
Pull(c, s) ==
  /\ pc[c] = "pull"
  /\ s \in pool
  /\ pool' = pool \ {s}
  /\ conn' = [conn EXCEPT ![c] = s]
  /\ Goto(c, "track")
  /\ UNCHANGED <<activeSlots, registry, nextSlotID, linkVars, key, loop,
                 after, stopping, calls, released, drained>>

(* Mutant of PullNothing: the select has no default and waits. *)
PullWaits(c) == FALSE

PullNothing(c) ==
  /\ pc[c] = "pull"
  /\ Goto(c, "idle")
  /\ UNCHANGED <<slotVars, linkVars, key, conn, loop, after, stopping, calls,
                 released, drained>>

(* Under p.mu: enter the slot in activeSlots and registry. *)
Track(c) ==
  /\ pc[c] = "track"
  /\ activeSlots' = [activeSlots EXCEPT ![key[c]] = conn[c]]
  /\ registry' = [registry EXCEPT ![conn[c]] = key[c]]
  /\ Goto(c, "lookup")
  /\ UNCHANGED <<pool, nextSlotID, linkVars, key, conn, loop, after, stopping,
                 calls, released, drained>>

(* loopIDFor asks the store; an error or a placeholder reads as no loop. *)
LoopIDFor(c, l) ==
  /\ pc[c] = "lookup"
  /\ l \in {NoLoop, store[key[c]]}
  /\ loop' = [loop EXCEPT ![c] = l]
  /\ Goto(c, IF l = NoLoop THEN "connect" ELSE "reattach")
  /\ UNCHANGED <<slotVars, linkVars, key, conn, after, stopping, calls,
                 released, drained>>

(* client.Connect, for a fresh bootstrap and again after a failed          *)
(* reattach.                                                               *)
Connect(c) ==
  /\ pc[c] \in {"connect", "reconnect"}
  /\ link' = [link EXCEPT ![conn[c]] = "up"]
  /\ Goto(c, "bootstrap")
  /\ UNCHANGED <<slotVars, loopID, store, nextLoop, key, conn, loop, after,
                 stopping, calls, released, drained>>

(* Connect fails: Release and return the error.  A failed dial leaves what *)
(* the client had before, a failed handshake a closed client; no step of   *)
(* the pool tells these apart.                                             *)
ConnectFails(c) ==
  /\ pc[c] \in {"connect", "reconnect"}
  /\ link' = [link EXCEPT ![conn[c]] = "down"]
  /\ CallRelease(c, "idle")
  /\ UNCHANGED <<slotVars, loopID, store, nextLoop, key, conn, loop,
                 stopping, calls, released, drained>>

(* resumeAndReattach: Connect, then ReattachAndProbe on the open           *)
(* connection.  If either fails Acquire connects again and bootstraps.     *)
ReattachConnect(c) ==
  /\ pc[c] = "reattach"
  /\ link' = [link EXCEPT ![conn[c]] = "up"]
  /\ Goto(c, "probe")
  /\ UNCHANGED <<slotVars, loopID, store, nextLoop, key, conn, loop, after,
                 stopping, calls, released, drained>>

ReattachProbe(c) ==
  /\ pc[c] = "probe"
  /\ link[conn[c]] = "up"
  /\ Goto(c, "restream")
  /\ UNCHANGED <<slotVars, linkVars, key, conn, loop, after, stopping, calls,
                 released, drained>>

ReattachFails(c) ==
  /\ pc[c] \in {"reattach", "probe"}
  /\ Goto(c, "reconnect")
  /\ UNCHANGED <<slotVars, linkVars, key, conn, loop, after, stopping, calls,
                 released, drained>>

(* bootstrapNew up to startReader: loop_new and subscribe over an open     *)
(* connection.                                                             *)
Bootstrap(c) ==
  /\ pc[c] = "bootstrap"
  /\ link[conn[c]] = "up"
  /\ nextLoop \in LoopIDs
  /\ loop' = [loop EXCEPT ![c] = nextLoop]
  /\ nextLoop' = nextLoop + 1
  /\ Goto(c, "stream")
  /\ UNCHANGED <<slotVars, link, loopID, store, key, conn, after, stopping,
                 calls, released, drained>>

BootstrapFails(c) ==
  /\ pc[c] = "bootstrap"
  /\ CallRelease(c, "idle")
  /\ UNCHANGED <<slotVars, linkVars, key, conn, loop, stopping, calls,
                 released, drained>>

(* startReader: ReceiveMessages fails on a closed client, and Acquire goes *)
(* on without an event stream.                                             *)
StartReader(c) ==
  /\ pc[c] \in {"stream", "restream"}
  /\ link' = [link EXCEPT ![conn[c]] = IF @ = "up" THEN "live" ELSE @]
  /\ Goto(c, IF pc[c] = "stream" THEN "save" ELSE "bind")
  /\ UNCHANGED <<slotVars, loopID, store, nextLoop, key, conn, loop, after,
                 stopping, calls, released, drained>>

(* store.CreateSession; its failure is only logged. *)
CreateSession(c, l) ==
  /\ pc[c] = "save"
  /\ l \in {loop[c], store[key[c]]}
  /\ store' = [store EXCEPT ![key[c]] = l]
  /\ Goto(c, "bind")
  /\ UNCHANGED <<slotVars, link, loopID, nextLoop, key, conn, loop, after,
                 stopping, calls, released, drained>>

(* Write the loop id into the slot and return it. *)
Bind(c) ==
  /\ pc[c] = "bind"
  /\ loopID' = [loopID EXCEPT ![conn[c]] = loop[c]]
  /\ Goto(c, "have")
  /\ UNCHANGED <<slotVars, link, store, nextLoop, key, conn, loop, after,
                 stopping, calls, released, drained>>

(* The caller is done with the connection and leaves it in the pool. *)
Done(c) ==
  /\ pc[c] = "have"
  /\ Goto(c, "idle")
  /\ UNCHANGED <<slotVars, linkVars, key, conn, loop, after, stopping, calls,
                 released, drained>>

-----------------------------------------------------------------------------
(* Release and ResetSession *)

Release(c, k) ==
  /\ pc[c] \in {"idle", "have"}
  /\ calls < MaxCalls
  /\ CallRelease(c, "idle")
  /\ key' = [key EXCEPT ![c] = k]
  /\ calls' = calls + 1
  /\ UNCHANGED <<slotVars, linkVars, conn, loop, stopping, released, drained>>

(* Under p.mu: take the slot out of both maps. *)
Detach(c) ==
  /\ pc[c] = "detach"
  /\ activeSlots[key[c]] # NoSlot
  /\ activeSlots' = [activeSlots EXCEPT ![key[c]] = NoSlot]
  /\ registry' = [registry EXCEPT ![activeSlots[key[c]]] = NoKey]
  /\ conn' = [conn EXCEPT ![c] = activeSlots[key[c]]]
  /\ released' = released \cup {activeSlots[key[c]]}
  /\ Goto(c, "close")
  /\ UNCHANGED <<pool, nextSlotID, linkVars, key, loop, after, stopping,
                 calls, drained>>

DetachNothing(c) ==
  /\ pc[c] = "detach"
  /\ activeSlots[key[c]] = NoSlot
  /\ Goto(c, after[c])
  /\ UNCHANGED <<slotVars, linkVars, key, conn, loop, after, stopping, calls,
                 released, drained>>

(* client.Close: does nothing to a client that has no connection. *)
Closed(l) == IF l \in {"up", "live"} THEN "down" ELSE l

CloseSlot(c) ==
  /\ pc[c] = "close"
  /\ link' = [link EXCEPT ![conn[c]] = Closed(@)]
  /\ Goto(c, "return")
  /\ UNCHANGED <<slotVars, loopID, store, nextLoop, key, conn, loop, after,
                 stopping, calls, released, drained>>

(* Mutant of ReturnSlot: the released slot itself goes back. *)
ReturnSameSlot(c) ==
  /\ pc[c] = "return"
  /\ pool' = pool \cup {conn[c]}
  /\ Goto(c, after[c])
  /\ UNCHANGED <<activeSlots, registry, nextSlotID, linkVars, key, conn, loop,
                 after, stopping, calls, released, drained>>

(* newSlot, then a send that gives the slot up when the channel is full.   *)
(* Nobody else sees the new slot before it is sent, so this is one step.   *)
ReturnSlot(c) ==
  /\ pc[c] = "return"
  /\ nextSlotID \in SlotIDs
  /\ nextSlotID' = nextSlotID + 1
  /\ pool' = IF Cardinality(pool) < PoolSize
               THEN pool \cup {nextSlotID} ELSE pool
  /\ Goto(c, after[c])
  /\ UNCHANGED <<activeSlots, registry, linkVars, key, conn, loop, after,
                 stopping, calls, released, drained>>

-----------------------------------------------------------------------------
(* Stop *)

(* The connections recorded in activeSlots. *)
ActiveSet == {activeSlots[k] : k \in AppKeys} \ {NoSlot}

(* Mutant of StopCollect: the maps are copied, not emptied. *)
StopCopy(c) ==
  /\ pc[c] = "idle"
  /\ calls < MaxCalls
  /\ stopping' = [stopping EXCEPT ![c] = ActiveSet]
  /\ drained' = drained \cup ActiveSet
  /\ Goto(c, "stop")
  /\ calls' = calls + 1
  /\ UNCHANGED <<slotVars, linkVars, key, conn, loop, after, released>>

(* Under p.mu: empty both maps into the local list. *)
StopCollect(c) ==
  /\ pc[c] = "idle"
  /\ calls < MaxCalls
  /\ stopping' = [stopping EXCEPT ![c] = ActiveSet]
  /\ registry' = [s \in SlotIDs |-> IF s \in ActiveSet THEN NoKey
                                                       ELSE registry[s]]
  /\ drained' = drained \cup ActiveSet
  /\ activeSlots' = [k \in AppKeys |-> NoSlot]
  /\ Goto(c, "stop")
  /\ calls' = calls + 1
  /\ UNCHANGED <<pool, nextSlotID, linkVars, key, conn, loop, after, released>>

StopClose(c, s) ==
  /\ pc[c] = "stop"
  /\ s \in stopping[c]
  /\ link' = [link EXCEPT ![s] = Closed(@)]
  /\ stopping' = [stopping EXCEPT ![c] = @ \ {s}]
  /\ UNCHANGED <<slotVars, loopID, store, nextLoop, pc, key, conn, loop,
                 after, calls, released, drained>>

StopClosed(c) ==
  /\ pc[c] = "stop"
  /\ stopping[c] = {}
  /\ Goto(c, "drain")
  /\ UNCHANGED <<slotVars, linkVars, key, conn, loop, after, stopping, calls,
                 released, drained>>

(* Take idle slots out of the channel until it is empty. *)
StopDrain(c, s) ==
  /\ pc[c] = "drain"
  /\ s \in pool
  /\ pool' = pool \ {s}
  /\ link' = [link EXCEPT ![s] = Closed(@)]
  /\ drained' = drained \cup {s}
  /\ UNCHANGED <<activeSlots, registry, nextSlotID, loopID, store, nextLoop,
                 callVars, released>>

StopDone(c) ==
  /\ pc[c] = "drain"
  /\ pool = {}
  /\ Goto(c, "idle")
  /\ UNCHANGED <<slotVars, linkVars, key, conn, loop, after, stopping, calls,
                 released, drained>>

-----------------------------------------------------------------------------
(* The connection of a slot drops: its reader ends and Disconnected fires. *)
Drop(s) ==
  /\ link[s] \in {"up", "live"}
  /\ link' = [link EXCEPT ![s] = "down"]
  /\ UNCHANGED <<slotVars, loopID, store, nextLoop, callVars, released,
                 drained>>

Call(c) ==
  \/ \E k \in AppKeys :
       <<c, k>> \in uses /\ (Acquire(c, k) \/ Release(c, k))
  \/ StopCollect(c)
  \/ Done(c)

Step(c) ==
  \/ CheckStale(c) \/ Reuse(c) \/ IdleTooLong(c) \/ NoReuse(c)
  \/ PullNothing(c) \/ Track(c)
  \/ \E s \in SlotIDs : Pull(c, s) \/ StopClose(c, s) \/ StopDrain(c, s)
  \/ \E l \in LoopIDs \cup {NoLoop} : LoopIDFor(c, l) \/ CreateSession(c, l)
  \/ Connect(c) \/ ConnectFails(c)
  \/ ReattachConnect(c) \/ ReattachProbe(c) \/ ReattachFails(c)
  \/ Bootstrap(c) \/ BootstrapFails(c) \/ StartReader(c) \/ Bind(c)
  \/ Detach(c) \/ DetachNothing(c) \/ CloseSlot(c) \/ ReturnSlot(c)
  \/ StopClosed(c) \/ StopDone(c)

Next ==
  /\ \/ \E c \in Callers : Call(c) \/ Step(c)
     \/ \E s \in SlotIDs : Drop(s)
  /\ UNCHANGED uses

(* A goroutine inside a pool call keeps running: nothing in Acquire,       *)
(* Release or Stop waits for another caller.                               *)
Fairness == \A c \in Callers : WF_vars(Step(c) /\ UNCHANGED uses)

Spec == Init /\ [][Next]_vars
LiveSpec == Spec /\ Fairness

-----------------------------------------------------------------------------
(* Properties *)

(* Slots created so far, and those pulled and not yet given back. *)
Born == 1 .. nextSlotID - 1
Held == Born \ (pool \cup released \cup drained)
Releasing == {c \in Callers : pc[c] \in {"close", "return"}}

(***************************************************************************)
(* Capacity is conserved: whatever Acquire, Release and Stop do to each    *)
(* other, slots idle, pulled, stopped, or owed by a Release in progress    *)
(* add up to PoolSize.  Release gives back exactly one slot for each it    *)
(* detached, though two callers may race for the same AppKey.              *)
(***************************************************************************)
SlotConservation ==
  /\ pool \cap (released \cup drained) = {}
  /\ released \cap drained = {}
  /\ Cardinality(pool) + Cardinality(Held) + Cardinality(drained)
       + Cardinality(Releasing) = PoolSize

(***************************************************************************)
(* The channel always has room for the slot Release puts back: the branch  *)
(* "pool full when returning slot", which would lose it, is never taken.   *)
(***************************************************************************)
ReturnNeverBlocked ==
  \A c \in Callers : pc[c] = "return" => Cardinality(pool) < PoolSize

(***************************************************************************)
(* An idle slot is a fresh client: it was never connected and no AppKey's  *)
(* loop is bound to it, so Acquire cannot inherit another session's state. *)
(***************************************************************************)
IdleSlotsFresh ==
  \A s \in pool : link[s] = "new" /\ registry[s] = NoKey /\ loopID[s] = NoLoop

(* Program points at which conn[c] is a slot the caller works on. *)
Using(c) == pc[c] \in (AcquirePCs \ {"pull"}) \cup {"close", "return"}

(***************************************************************************)
(* A connection is never shared between AppKeys: two callers that hold the *)
(* same slot hold it for the same key, and the slot recorded active for a  *)
(* key is held by no caller of another key.                                *)
(***************************************************************************)
KeyIsolation ==
  /\ \A c, d \in Callers :
       Using(c) /\ Using(d) /\ conn[c] = conn[d] /\ conn[c] # NoSlot
         => key[c] = key[d]
  /\ \A c \in Callers, k \in AppKeys :
       Using(c) /\ conn[c] = activeSlots[k] /\ conn[c] # NoSlot => key[c] = k

(* No two callers use the same key. *)
KeysOwned == \A u, v \in uses : u[2] = v[2] => u[1] = v[1]

(***************************************************************************)
(* At most one live connection is recorded for an AppKey ("one active per  *)
(* AppKey") when no two callers use the same key.                          *)
(***************************************************************************)
OneActivePerKey ==
  KeysOwned => \A s, t \in SlotIDs :
    IsLive(s) /\ IsLive(t) /\ registry[s] = registry[t] /\ registry[s] # NoKey
      => s = t

(***************************************************************************)
(* The connection Acquire returns knows its loop, which TurnRunner reads   *)
(* with getLoopID to address the turn, when no two callers use the same    *)
(* key.                                                                    *)
(***************************************************************************)
ReturnedLoopKnown ==
  KeysOwned => \A c \in Callers : pc[c] = "have" => loopID[conn[c]] # NoLoop

(***************************************************************************)
(* Acquire releases a dropped previous connection before it enters a new   *)
(* slot, so that no slot is overwritten in activeSlots and lost.           *)
(***************************************************************************)
TrackOverwritesNothing ==
  \A c \in Callers : pc[c] = "track" => activeSlots[key[c]] = NoSlot

(***************************************************************************)
(* Acquire, Release and Stop return: no caller waits for another, even     *)
(* with the pool exhausted or connections dropping.                        *)
(***************************************************************************)
CallsReturn ==
  \A c \in Callers : []<>(pc[c] \in {"idle", "have"})

=============================================================================
