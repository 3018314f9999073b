---------------------------- MODULE Broadcaster -----------------------------
(***************************************************************************)
(* SSEBroadcaster (src/appkit/broadcaster.go): the subscribers of a key    *)
(* and their bounded channels.  Broadcast holds the read lock while it     *)
(* offers its event to one channel after the other, so several broadcasts  *)
(* interleave; Subscribe, Unsubscribe, Close and CloseAll hold the write   *)
(* lock from first to last line and are one step each.                     *)
(*                                                                         *)
(* An event is <<process, n>>: the n-th event that process broadcasts.     *)
(***************************************************************************)
EXTENDS Integers, Sequences

CONSTANTS
  Procs,      \* goroutines that broadcast
  Keys,       \* app keys
  Channels,   \* subscriber channels, each made by one Subscribe
  Cap         \* capacity of a channel (100 in the code)

ASSUME BroadcasterAssumption == Cap \in Nat \ {0}

VARIABLES
  subs,     \* b.subscribers: per key the registered channels
  open,     \* channels made and not closed
  used,     \* channels made
  got,      \* per channel: the events sent into it, oldest first
  unread,   \* per channel: how many of these its consumer has not taken
  left,     \* per process: the channels its Broadcast has still to offer to
  cur,      \* per process: the event of its Broadcast, <<>> outside of one
  lost,     \* history: channels that were full when offered an event
  panic     \* history: a send on, or a close of, a closed channel

bvars == <<subs, open, used, got, unread, left, cur, lost, panic>>

BroadcasterTypeOK ==
  /\ subs \in [Keys -> SUBSET Channels]
  /\ open \in SUBSET Channels
  /\ used \in SUBSET Channels
  /\ got \in [Channels -> Seq(Procs \X Nat)]
  /\ unread \in [Channels -> 0 .. Cap]
  /\ left \in [Procs -> SUBSET Channels]
  /\ cur \in [Procs -> (Procs \X Nat) \cup {<<>>}]
  /\ lost \in SUBSET Channels
  /\ panic \in BOOLEAN

\* NewSSEBroadcaster
NewBroadcaster ==
  /\ subs = [k \in Keys |-> {}]
  /\ open = {} /\ used = {} /\ lost = {}
  /\ got = [c \in Channels |-> <<>>]
  /\ unread = [c \in Channels |-> 0]
  /\ left = [p \in Procs |-> {}]
  /\ cur = [p \in Procs |-> <<>>]
  /\ panic = FALSE

\* mu.Lock: no Broadcast holds the read lock.
Exclusive == \A p \in Procs : cur[p] = <<>>

Subscribe(k, c) ==
  /\ Exclusive
  /\ c \notin used
  /\ subs' = [subs EXCEPT ![k] = @ \cup {c}]
  /\ open' = open \cup {c}
  /\ used' = used \cup {c}
  /\ UNCHANGED <<got, unread, left, cur, lost, panic>>

\* close(ch) for each channel of a set.
CloseChannels(C) ==
  /\ open' = open \ C
  /\ panic' = (panic \/ ~(C \subseteq open))
  /\ UNCHANGED <<used, got, unread, left, cur, lost>>

\* Mutant of Unsubscribe: it does not wait for the broadcasts under way.
UnsubscribeUnlocked(k, c) ==
  /\ c \in used
  /\ CloseChannels(subs[k] \cap {c})
  /\ subs' = [subs EXCEPT ![k] = @ \ {c}]

\* A channel that is not among the key's subscribers is left alone.
Unsubscribe(k, c) ==
  /\ Exclusive
  /\ c \in used
  /\ CloseChannels(subs[k] \cap {c})
  /\ subs' = [subs EXCEPT ![k] = @ \ {c}]

Close(k) ==
  /\ Exclusive
  /\ CloseChannels(subs[k])
  /\ subs' = [subs EXCEPT ![k] = {}]

CloseAll ==
  /\ Exclusive
  /\ CloseChannels(UNION {subs[k] : k \in Keys})
  /\ subs' = [k \in Keys |-> {}]

\* Broadcast: take the read lock and start to range over the key's channels.
BroadcastBegin(p, k, e) ==
  /\ cur[p] = <<>>
  /\ cur' = [cur EXCEPT ![p] = e]
  /\ left' = [left EXCEPT ![p] = subs[k]]
  /\ UNCHANGED <<subs, open, used, got, unread, lost, panic>>

\* Mutant of BroadcastOffer: it waits for room in a full channel.
BroadcastOfferWaits(p, c) ==
  /\ c \in left[p]
  /\ unread[c] < Cap
  /\ left' = [left EXCEPT ![p] = @ \ {c}]
  /\ panic' = (panic \/ c \notin open)
  /\ got' = [got EXCEPT ![c] = Append(@, cur[p])]
  /\ unread' = [unread EXCEPT ![c] = @ + 1]
  /\ UNCHANGED <<subs, open, used, lost, cur>>

\* One round of the range, in any order: send if there is room, else skip.
BroadcastOffer(p, c) ==
  /\ c \in left[p]
  /\ left' = [left EXCEPT ![p] = @ \ {c}]
  /\ panic' = (panic \/ c \notin open)
  /\ IF unread[c] < Cap
     THEN /\ got' = [got EXCEPT ![c] = Append(@, cur[p])]
          /\ unread' = [unread EXCEPT ![c] = @ + 1]
          /\ lost' = lost
     ELSE lost' = lost \cup {c} /\ UNCHANGED <<got, unread>>
  /\ UNCHANGED <<subs, open, used, cur>>

\* Mutant of BroadcastEnd: it ends before every channel had its offer.
BroadcastEndFirst(p) ==
  /\ cur[p] # <<>>
  /\ cur' = [cur EXCEPT ![p] = <<>>]
  /\ left' = [left EXCEPT ![p] = {}]
  /\ UNCHANGED <<subs, open, used, got, unread, lost, panic>>

\* Broadcast returns and the read lock is released.
BroadcastEnd(p) ==
  /\ cur[p] # <<>>
  /\ left[p] = {}
  /\ cur' = [cur EXCEPT ![p] = <<>>]
  /\ UNCHANGED <<subs, open, used, got, unread, left, lost, panic>>

\* The consumer takes an event, also from a closed channel that holds some.
Consume(c) ==
  /\ unread[c] > 0
  /\ unread' = [unread EXCEPT ![c] = @ - 1]
  /\ UNCHANGED <<subs, open, used, got, left, cur, lost, panic>>

=============================================================================
