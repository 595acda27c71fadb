----------------------------- MODULE TileSocket -----------------------------
(***************************************************************************)
(* The traffic socket: TrafficConsumer (traffic/consumers.py) between its  *)
(* client and the groups of the channel layer.                             *)
(*                                                                         *)
(* Channels runs one handler of a consumer at a time, for the next frame   *)
(* of the client or the next message of its channel, and what happens      *)
(* elsewhere interleaves at every await.  A handler that raises, on a      *)
(* geohash that makes no group name or on a send to a client that has      *)
(* gone, ends the consumer without disconnect(); so does the end of its    *)
(* process (Die).  The layer then keeps the memberships until they expire, *)
(* as it lets expire those of an open socket that last too long.           *)
(*                                                                         *)
(* A geohash is any JSON value.  Groups are named by how it prints and     *)
(* subscribed_tiles compares it by ==: 1 and "1" share a group and are two *)
(* tiles, 1 and 1.0 are one tile and have two groups.  The producer of     *)
(* updates is the one that the consumer's docstring asks for.              *)
(***************************************************************************)
EXTENDS Integers, Sequences, FiniteSets, SequencesExt

CONSTANTS
  Sockets,     \* connections, each with its channel
  Geohashes,   \* values clients send
  Group,       \* f"tile_{geohash}" of each
  Tile,        \* what == makes of each
  Capacity,    \* messages the layer keeps for a channel
  Null,        \* no geohash
  MaxUpdates   \* bound on the updates broadcast

Groups == {Group[g] : g \in Geohashes}

ASSUME GeohashAssumption ==
  DOMAIN Group = Geohashes /\ DOMAIN Tile = Geohashes /\ Null \notin Geohashes
ASSUME BoundAssumption == Capacity \in Nat \ {0} /\ MaxUpdates \in Nat

VARIABLES
  pc,                \* where each consumer is
  subscribed_tiles,  \* what it holds to be its tiles
  geohash,           \* what the handler at work is about
  left,              \* tiles disconnect() has still to leave
  groups,            \* the channel layer: channels by group
  queue,             \* the channel layer: updates by channel, oldest first
  updates,           \* history: number of updates broadcast
  sent,              \* history: updates sent down each socket
  owed,              \* history: updates of its tiles the layer had room for
  amid,              \* history: updates broadcast while it was not idly open
  named,             \* history: geohashes the frames of each socket named
  lapsed             \* history: sockets that lost a membership to expiry

vars == <<pc, subscribed_tiles, geohash, left, groups, queue, updates, sent, owed, amid,
          named, lapsed>>

InGroups(c) == {x \in Groups : c \in groups[x]}
GroupsOf(gs) == {Group[g] : g \in gs}

\* set.add keeps the element it has; set.discard takes out what equals.
Same(g) == {h \in Geohashes : Tile[h] = Tile[g]}
Added_Never(tiles, g) == tiles
Added(tiles, g) == IF tiles \cap Same(g) = {} THEN tiles \cup {g} ELSE tiles
Discarded_Never(tiles, g) == tiles
Discarded(tiles, g) == tiles \ Same(g)

GroupAdd(c, x) == groups' = [groups EXCEPT ![x] = @ \cup {c}]
GroupDiscard_Never(c, x) == UNCHANGED groups
GroupDiscard(c, x) == groups' = [groups EXCEPT ![x] = @ \ {c}]

Goto(c, where) == pc' = [pc EXCEPT ![c] = where]
Serving(c) == pc[c] \notin {"none", "closed", "dead"}

-----------------------------------------------------------------------------

Init ==
  /\ pc = [c \in Sockets |-> "none"]
  /\ subscribed_tiles = [c \in Sockets |-> {}]
  /\ geohash = [c \in Sockets |-> Null]
  /\ left = [c \in Sockets |-> {}]
  /\ groups = [x \in Groups |-> {}]
  /\ queue = [c \in Sockets |-> <<>>]
  /\ updates = 0
  /\ sent = [c \in Sockets |-> {}]
  /\ owed = [c \in Sockets |-> {}]
  /\ amid = [c \in Sockets |-> {}]
  /\ named = [c \in Sockets |-> {}]
  /\ lapsed = {}

\* connect(): the token is good, or the socket is closed with 4001.
Connect(c) ==
  /\ pc[c] = "none"
  /\ \E where \in {"open", "closed"} : Goto(c, where)
  /\ UNCHANGED <<subscribed_tiles, geohash, left, groups, queue, updates, sent, owed, amid, named, lapsed>>

\* tile:subscribe: group_add, then the set.
SubscribeGroup(c, g) ==
  /\ pc[c] = "open"
  /\ Goto(c, "subscribe")
  /\ geohash' = [geohash EXCEPT ![c] = g]
  /\ named' = [named EXCEPT ![c] = @ \cup {g}]
  /\ GroupAdd(c, Group[g])
  /\ UNCHANGED <<subscribed_tiles, left, queue, updates, sent, owed, amid, lapsed>>

SubscribeTile(c) ==
  /\ pc[c] = "subscribe"
  /\ Goto(c, "open")
  /\ geohash' = [geohash EXCEPT ![c] = Null]
  /\ subscribed_tiles' = [subscribed_tiles EXCEPT ![c] = Added(@, geohash[c])]
  /\ UNCHANGED <<left, groups, queue, updates, sent, owed, amid, named, lapsed>>

\* tile:unsubscribe: group_discard, then the set.
UnsubscribeGroup(c, g) ==
  /\ pc[c] = "open"
  /\ Goto(c, "unsubscribe")
  /\ geohash' = [geohash EXCEPT ![c] = g]
  /\ named' = [named EXCEPT ![c] = @ \cup {g}]
  /\ GroupDiscard(c, Group[g])
  /\ UNCHANGED <<subscribed_tiles, left, queue, updates, sent, owed, amid, lapsed>>

UnsubscribeTile(c) ==
  /\ pc[c] = "unsubscribe"
  /\ Goto(c, "open")
  /\ geohash' = [geohash EXCEPT ![c] = Null]
  /\ subscribed_tiles' = [subscribed_tiles EXCEPT ![c] = Discarded(@, geohash[c])]
  /\ UNCHANGED <<left, groups, queue, updates, sent, owed, amid, named, lapsed>>

\* traffic_update: the channel's next message goes down the socket.
TrafficUpdate_NotSent(c) ==
  /\ pc[c] = "open"
  /\ queue[c] # <<>>
  /\ queue' = [queue EXCEPT ![c] = Tail(@)]
  /\ UNCHANGED <<pc, subscribed_tiles, geohash, left, groups, updates, sent, owed, amid, named, lapsed>>
TrafficUpdate(c) ==
  /\ pc[c] = "open"
  /\ queue[c] # <<>>
  /\ queue' = [queue EXCEPT ![c] = Tail(@)]
  /\ sent' = [sent EXCEPT ![c] = @ \cup {Head(queue[c])}]
  /\ UNCHANGED <<pc, subscribed_tiles, geohash, left, groups, updates, owed, amid, named, lapsed>>

\* disconnect(): over a copy of the set, one await per tile.
Disconnect(c) ==
  /\ pc[c] = "open"
  /\ Goto(c, "disconnect")
  /\ left' = [left EXCEPT ![c] = subscribed_tiles[c]]
  /\ UNCHANGED <<subscribed_tiles, geohash, groups, queue, updates, sent, owed, amid, named, lapsed>>

LeaveGroup(c) ==
  /\ pc[c] = "disconnect"
  /\ \E g \in left[c] :
       /\ left' = [left EXCEPT ![c] = @ \ {g}]
       /\ GroupDiscard(c, Group[g])
  /\ UNCHANGED <<pc, subscribed_tiles, geohash, queue, updates, sent, owed, amid, named, lapsed>>

Closed(c) ==
  /\ pc[c] = "disconnect"
  /\ left[c] = {}
  /\ Goto(c, "closed")
  /\ UNCHANGED <<subscribed_tiles, geohash, left, groups, queue, updates, sent, owed, amid, named, lapsed>>

Die(c) ==
  /\ Serving(c)
  /\ Goto(c, "dead")
  /\ geohash' = [geohash EXCEPT ![c] = Null]
  /\ left' = [left EXCEPT ![c] = {}]
  /\ UNCHANGED <<subscribed_tiles, groups, queue, updates, sent, owed, amid, named, lapsed>>

\* The layer lets a membership expire (group_expiry).
GroupExpiry(c, x) ==
  /\ c \in groups[x]
  /\ GroupDiscard(c, x)
  /\ lapsed' = lapsed \cup {c}
  /\ UNCHANGED <<pc, subscribed_tiles, geohash, left, queue, updates, sent, owed, amid, named>>

\* group_send: to each channel of the group that is not full.
HasRoom_OffByOne(c) == Len(queue[c]) <= Capacity
HasRoom(c) == Len(queue[c]) < Capacity

GroupSend(x) ==
  LET nr == updates + 1
      roomy == {c \in Sockets : HasRoom(c)}
  IN  /\ updates < MaxUpdates
      /\ updates' = nr
      /\ queue' = [c \in Sockets |->
                     IF c \in groups[x] \cap roomy THEN Append(queue[c], nr) ELSE queue[c]]
      /\ owed' = [c \in Sockets |->
                    IF c \in roomy /\ pc[c] = "open" /\ x \in GroupsOf(subscribed_tiles[c])
                    THEN owed[c] \cup {nr} ELSE owed[c]]
      /\ amid' = [c \in Sockets |-> IF pc[c] # "open" THEN amid[c] \cup {nr} ELSE amid[c]]
      /\ UNCHANGED <<pc, subscribed_tiles, geohash, left, groups, sent, named, lapsed>>

Serve(c) ==
  \/ \E g \in Geohashes : SubscribeGroup(c, g) \/ UnsubscribeGroup(c, g)
  \/ SubscribeTile(c)
  \/ UnsubscribeTile(c)
  \/ TrafficUpdate(c)
  \/ Disconnect(c)
  \/ LeaveGroup(c)
  \/ Closed(c)

Next ==
  \/ \E c \in Sockets : Connect(c) \/ Serve(c) \/ Die(c)
  \/ \E c \in Sockets, x \in Groups : GroupExpiry(c, x)
  \/ \E x \in Groups : GroupSend(x)

Spec == Init /\ [][Next]_vars

\* The consumer's event loop runs a handler to its end, and await_many_dispatch
\* turns to the channel in every round: frames cannot starve it.
Fairness ==
  \A c \in Sockets :
    /\ WF_vars(SubscribeTile(c)) /\ WF_vars(UnsubscribeTile(c))
    /\ WF_vars(LeaveGroup(c)) /\ WF_vars(Closed(c))
    /\ SF_vars(TrafficUpdate(c))

FairSpec == Spec /\ Fairness

-----------------------------------------------------------------------------
\* Types: a socket is about one geohash exactly while it joins or leaves a
\* group, and no channel holds more than the layer keeps.
TypeOK ==
  /\ pc \in [Sockets -> {"none", "open", "subscribe", "unsubscribe", "disconnect", "closed", "dead"}]
  /\ subscribed_tiles \in [Sockets -> SUBSET Geohashes]
  /\ geohash \in [Sockets -> Geohashes \cup {Null}]
  /\ \A c \in Sockets : geohash[c] # Null <=> pc[c] \in {"subscribe", "unsubscribe"}
  /\ left \in [Sockets -> SUBSET Geohashes]
  /\ groups \in [Groups -> SUBSET Sockets]
  /\ queue \in [Sockets -> Seq(1..updates)]
  /\ \A c \in Sockets : Len(queue[c]) <= Capacity
  /\ updates \in 0..MaxUpdates
  /\ sent \in [Sockets -> SUBSET (1..updates)]
  /\ owed \in [Sockets -> SUBSET (1..updates)]
  /\ amid \in [Sockets -> SUBSET (1..updates)]
  /\ named \in [Sockets -> SUBSET Geohashes]
  /\ lapsed \subseteq Sockets

\* Of the values a socket's frames named, those that print as group x are equal
\* to each other and to no others.  Values that confuse printing and == spoil
\* the groups they touch only; a plain socket named none.
Clean(c, x) ==
  \A g, h \in named[c] : Group[g] = x => (Group[h] = x <=> Tile[h] = Tile[g])
Plain(c) == \A g, h \in named[c] : Group[g] = Group[h] <=> Tile[g] = Tile[h]

\* What the consumer thinks it is subscribed to is what the channel layer
\* sends it, whenever no frame is being handled, on every clean group: it is in
\* none that its tiles do not name and, unless a membership of the socket
\* expired, in all that they do.  What else it named makes no difference.
TilesMatchGroups ==
  \A c \in Sockets : pc[c] = "open" =>
    \A x \in {y \in Groups : Clean(c, y)} :
      /\ c \in groups[x] => x \in GroupsOf(subscribed_tiles[c])
      /\ c \notin lapsed => (x \in GroupsOf(subscribed_tiles[c]) => c \in groups[x])

\* A socket that was disconnected cleanly is in no clean group any more: no
\* update is queued for a channel nobody reads.
ClosedLeavesNothing ==
  \A c \in Sockets : pc[c] = "closed" => \A x \in InGroups(c) : ~Clean(c, x)

\* "so they only receive updates for map tiles they're viewing": a socket gets
\* those, sooner or later, and gets them all as far as its channel had room.
\* Updates broadcast while it joins or leaves a tile may go either way.
SentWhatIsOwed ==
  \A c \in Sockets :
    Plain(c) /\ c \notin lapsed => (sent[c] \cup ToSet(queue[c])) \ amid[c] = owed[c]

\* No update waits for ever in the channel of a socket that stays open,
\* however busy the client keeps it with frames.
QueuedIsSent ==
  \A c \in Sockets : \A nr \in 1..MaxUpdates :
    (nr \in ToSet(queue[c]) /\ pc[c] = "open")
      ~> (nr \in sent[c] \/ pc[c] \in {"disconnect", "closed", "dead"})
=============================================================================
