-------------------------- MODULE TileSocketProofs --------------------------
(***************************************************************************)
(* Proofs about TileSocket, for every set of sockets and geohash values,   *)
(* whatever of them print alike or are equal, and every capacity.          *)
(***************************************************************************)
EXTENDS TileSocket, TLAPS

\* Everything a socket is about was named by a frame of it.
NamedInv ==
  \A c \in Sockets :
    /\ subscribed_tiles[c] \subseteq named[c]
    /\ left[c] \subseteq named[c]
    /\ geohash[c] # Null => geohash[c] \in named[c]
    /\ pc[c] = "none" => named[c] = {}

\* The groups a socket should be in at each point of its handlers.
Expected(c) ==
  CASE pc[c] = "open"        -> GroupsOf(subscribed_tiles[c])
    [] pc[c] = "subscribe"   -> GroupsOf(subscribed_tiles[c]) \cup {Group[geohash[c]]}
    [] pc[c] = "unsubscribe" -> GroupsOf(subscribed_tiles[c]) \ {Group[geohash[c]]}
    [] pc[c] = "disconnect"  -> GroupsOf(left[c])
    [] OTHER                 -> {}

\* It is in no other clean group, and in all clean ones of them as long as it
\* serves frames and none of its memberships expired.
InNoOther(c) ==
  pc[c] # "dead" => \A x \in InGroups(c) : Clean(c, x) => x \in Expected(c)
InAll(c) ==
  pc[c] \in {"open", "subscribe", "unsubscribe"} /\ c \notin lapsed =>
    \A x \in Expected(c) : Clean(c, x) => x \in InGroups(c)

MemberInv == \A c \in Sockets : InNoOther(c) /\ InAll(c)

IInv == TypeOK /\ NamedInv /\ MemberInv /\ SentWhatIsOwed

\* What a step leaves alone of the sockets it is not about.
Untouched(c) ==
  /\ pc'[c] = pc[c] /\ subscribed_tiles'[c] = subscribed_tiles[c]
  /\ geohash'[c] = geohash[c] /\ left'[c] = left[c] /\ named'[c] = named[c]
  /\ InGroups(c)' = InGroups(c)

-----------------------------------------------------------------------------
\* Geohashes, tiles and groups.

LEMMA GroupsOfIn ==
  ASSUME NEW gs \in SUBSET Geohashes
  PROVE  GroupsOf(gs) \subseteq Groups
  BY DEF GroupsOf, Groups

\* A clean group comes and goes with the tiles that name it, whatever other
\* values the socket named.
LEMMA AddedGroups ==
  ASSUME NEW c \in Sockets, NEW x, Clean(c, x), NEW g \in named[c],
         named[c] \subseteq Geohashes, NEW gs, gs \subseteq named[c]
  PROVE  x \in GroupsOf(Added(gs, g)) <=> x \in GroupsOf(gs) \/ x = Group[g]
<1>1. CASE gs \cap Same(g) = {}
  BY <1>1 DEF Added, GroupsOf
<1>2. CASE gs \cap Same(g) # {}
  <2>1. PICK h \in gs : Tile[h] = Tile[g]
    BY <1>2 DEF Same
  <2>2. x = Group[g] => Group[h] = x
    BY <2>1 DEF Clean
  <2>3. QED
    BY <1>2, <2>1, <2>2 DEF Added, GroupsOf
<1>3. QED
  BY <1>1, <1>2

LEMMA DiscardedGroups ==
  ASSUME NEW c \in Sockets, NEW x, Clean(c, x), NEW g \in named[c],
         named[c] \subseteq Geohashes, NEW gs, gs \subseteq named[c]
  PROVE  x \in GroupsOf(Discarded(gs, g)) <=> x \in GroupsOf(gs) /\ x # Group[g]
<1>1. \A h \in gs : Group[h] = x => (h \in Same(g) <=> Group[g] = x)
  BY DEF Same, Clean
<1>2. QED
  BY <1>1 DEF Discarded, GroupsOf

\* A plain socket has clean groups only.
LEMMA PlainClean ==
  ASSUME NEW c \in Sockets, Plain(c), NEW x
  PROVE  Clean(c, x)
  BY DEF Plain, Clean

\* The layer's two operations.
LEMMA AddEffect ==
  ASSUME TypeOK, NEW c \in Sockets, NEW x \in Groups, GroupAdd(c, x)
  PROVE  /\ groups' \in [Groups -> SUBSET Sockets]
         /\ InGroups(c)' = InGroups(c) \cup {x}
         /\ \A d \in Sockets \ {c} : InGroups(d)' = InGroups(d)
<1>1. /\ groups' \in [Groups -> SUBSET Sockets]
      /\ groups'[x] = groups[x] \cup {c}
      /\ \A y \in Groups \ {x} : groups'[y] = groups[y]
  BY DEF GroupAdd, TypeOK
<1>2. QED
  BY <1>1 DEF InGroups

LEMMA DiscardEffect ==
  ASSUME TypeOK, NEW c \in Sockets, NEW x \in Groups, GroupDiscard(c, x)
  PROVE  /\ groups' \in [Groups -> SUBSET Sockets]
         /\ InGroups(c)' = InGroups(c) \ {x}
         /\ \A d \in Sockets \ {c} : InGroups(d)' = InGroups(d)
<1>1. /\ groups' \in [Groups -> SUBSET Sockets]
      /\ groups'[x] = groups[x] \ {c}
      /\ \A y \in Groups \ {x} : groups'[y] = groups[y]
  BY DEF GroupDiscard, TypeOK
<1>2. QED
  BY <1>1 DEF InGroups

\* The elements of a channel.
LEMMA QueueAppend ==
  ASSUME NEW n \in Nat, NEW q \in Seq(1..n)
  PROVE  /\ Append(q, n + 1) \in Seq(1..(n + 1))
         /\ Len(Append(q, n + 1)) = Len(q) + 1
         /\ ToSet(Append(q, n + 1)) = ToSet(q) \cup {n + 1}
         /\ q \in Seq(1..(n + 1)) /\ ToSet(q) \subseteq 1..n
<1> DEFINE p == Append(q, n + 1)
<1>1. /\ Len(p) = Len(q) + 1 /\ Len(q) \in Nat
      /\ \A i \in 1..Len(q) : p[i] = q[i] /\ q[i] \in 1..n
      /\ p[Len(q) + 1] = n + 1
      /\ DOMAIN p = 1..(Len(q) + 1) /\ DOMAIN q = 1..Len(q)
  OBVIOUS
<1>2. q \in Seq(1..(n + 1))
  <2>1. \A i \in 1..Len(q) : q[i] \in 1..(n + 1)
    BY <1>1
  <2>2. QED
    BY <2>1
<1>3. p \in Seq(1..(n + 1))
  BY <1>2
<1> HIDE DEF p
<1>4. ToSet(p) = ToSet(q) \cup {n + 1}
  <2>1. ASSUME NEW i \in DOMAIN p PROVE p[i] \in ToSet(q) \cup {n + 1}
    BY <1>1 DEF ToSet
  <2>2. ASSUME NEW i \in DOMAIN q PROVE q[i] \in ToSet(p)
    BY <1>1 DEF ToSet
  <2>3. n + 1 \in ToSet(p)
    BY <1>1 DEF ToSet
  <2>4. QED
    BY <2>1, <2>2, <2>3 DEF ToSet
<1>5. ToSet(q) \subseteq 1..n
  BY <1>1 DEF ToSet
<1>6. QED
  BY <1>1, <1>2, <1>3, <1>4, <1>5 DEF p

LEMMA QueueTail ==
  ASSUME NEW S, NEW q \in Seq(S), q # <<>>
  PROVE  /\ Tail(q) \in Seq(S) /\ Len(Tail(q)) = Len(q) - 1
         /\ Head(q) \in S /\ ToSet(q) = ToSet(Tail(q)) \cup {Head(q)}
<1>1. /\ Tail(q) \in Seq(S) /\ Len(q) \in Nat /\ Len(q) > 0
      /\ Len(Tail(q)) = Len(q) - 1 /\ Head(q) = q[1] /\ q[1] \in S
      /\ DOMAIN q = 1..Len(q) /\ DOMAIN Tail(q) = 1..(Len(q) - 1)
      /\ \A i \in 1..(Len(q) - 1) : Tail(q)[i] = q[i + 1]
  OBVIOUS
<1>2. \A i \in 2..Len(q) : q[i] = Tail(q)[i - 1] /\ i - 1 \in DOMAIN Tail(q)
  BY <1>1
<1>3. ASSUME NEW i \in DOMAIN q PROVE q[i] \in ToSet(Tail(q)) \cup {Head(q)}
  <2>1. i = 1 \/ i \in 2..Len(q)
    BY <1>1
  <2>2. QED
    BY <1>1, <1>2, <2>1 DEF ToSet
<1>4. ASSUME NEW i \in DOMAIN Tail(q) PROVE Tail(q)[i] \in ToSet(q)
  BY <1>1 DEF ToSet
<1>5. Head(q) \in ToSet(q)
  BY <1>1 DEF ToSet
<1>6. QED
  BY <1>1, <1>3, <1>4, <1>5 DEF ToSet

-----------------------------------------------------------------------------
\* Types.

LEMMA TypeInit == Init => TypeOK
<1> SUFFICES ASSUME Init PROVE TypeOK
  OBVIOUS
<1>1. \A c \in Sockets : queue[c] \in Seq(1..updates) /\ Len(queue[c]) = 0
  BY DEF Init
<1>2. queue \in [Sockets -> Seq(1..updates)]
  BY <1>1 DEF Init
<1>3. QED
  BY <1>1, <1>2, GeohashAssumption, BoundAssumption DEF Init, TypeOK

LEMMA TypeStep == TypeOK /\ [Next]_vars => TypeOK'
<1> SUFFICES ASSUME TypeOK, [Next]_vars PROVE TypeOK'
  OBVIOUS
<1> USE GeohashAssumption, BoundAssumption
<1>1. ASSUME NEW c \in Sockets, Connect(c) PROVE TypeOK'
  BY <1>1 DEF Connect, Goto, TypeOK
<1>2. ASSUME NEW c \in Sockets, NEW g \in Geohashes, SubscribeGroup(c, g) PROVE TypeOK'
  <2>1. groups' \in [Groups -> SUBSET Sockets]
    BY <1>2, AddEffect DEF SubscribeGroup, Groups
  <2>2. QED
    BY <1>2, <2>1 DEF SubscribeGroup, Goto, TypeOK
<1>3. ASSUME NEW c \in Sockets, SubscribeTile(c) PROVE TypeOK'
  <2>1. Added(subscribed_tiles[c], geohash[c]) \in SUBSET Geohashes
    BY <1>3 DEF SubscribeTile, Added, TypeOK
  <2>2. QED
    BY <1>3, <2>1 DEF SubscribeTile, Goto, TypeOK
<1>4. ASSUME NEW c \in Sockets, NEW g \in Geohashes, UnsubscribeGroup(c, g) PROVE TypeOK'
  <2>1. groups' \in [Groups -> SUBSET Sockets]
    BY <1>4, DiscardEffect DEF UnsubscribeGroup, Groups
  <2>2. QED
    BY <1>4, <2>1 DEF UnsubscribeGroup, Goto, TypeOK
<1>5. ASSUME NEW c \in Sockets, UnsubscribeTile(c) PROVE TypeOK'
  <2>1. Discarded(subscribed_tiles[c], geohash[c]) \in SUBSET Geohashes
    BY <1>5 DEF Discarded, TypeOK
  <2>2. QED
    BY <1>5, <2>1 DEF UnsubscribeTile, Goto, TypeOK
<1>6. ASSUME NEW c \in Sockets, TrafficUpdate(c) PROVE TypeOK'
  <2>1. queue[c] \in Seq(1..updates) /\ queue[c] # <<>>
    BY <1>6 DEF TrafficUpdate, TypeOK
  <2>2. /\ Tail(queue[c]) \in Seq(1..updates) /\ Head(queue[c]) \in 1..updates
        /\ Len(Tail(queue[c])) = Len(queue[c]) - 1 /\ Len(queue[c]) \in Nat
    <3> DEFINE S == 1..updates
    <3>1. queue[c] \in Seq(S) /\ queue[c] # <<>>
      BY <2>1
    <3> HIDE DEF S
    <3>2. /\ Tail(queue[c]) \in Seq(S) /\ Head(queue[c]) \in S
          /\ Len(Tail(queue[c])) = Len(queue[c]) - 1
      BY <3>1, QueueTail
    <3>3. QED
      BY <3>1, <3>2 DEF S
  <2>3. Len(Tail(queue[c])) <= Capacity
    BY <2>2 DEF TypeOK
  <2>4. queue' \in [Sockets -> Seq(1..updates)] /\ \A d \in Sockets : Len(queue'[d]) <= Capacity
    BY <1>6, <2>2, <2>3 DEF TrafficUpdate, TypeOK
  <2>5. sent' \in [Sockets -> SUBSET (1..updates)]
    BY <1>6, <2>2 DEF TrafficUpdate, TypeOK
  <2>6. QED
    BY <1>6, <2>4, <2>5 DEF TrafficUpdate, TypeOK
<1>7. ASSUME NEW c \in Sockets, Disconnect(c) PROVE TypeOK'
  BY <1>7 DEF Disconnect, Goto, TypeOK
<1>8. ASSUME NEW c \in Sockets, LeaveGroup(c) PROVE TypeOK'
  <2>1. PICK g \in left[c] : /\ left' = [left EXCEPT ![c] = @ \ {g}]
                             /\ GroupDiscard(c, Group[g])
    BY <1>8 DEF LeaveGroup
  <2>2. g \in Geohashes /\ Group[g] \in Groups
    BY DEF TypeOK, Groups
  <2>3. groups' \in [Groups -> SUBSET Sockets]
    BY <2>1, <2>2, DiscardEffect
  <2>4. QED
    BY <1>8, <2>1, <2>3 DEF LeaveGroup, TypeOK
<1>9. ASSUME NEW c \in Sockets, Closed(c) PROVE TypeOK'
  BY <1>9 DEF Closed, Goto, TypeOK
<1>10. ASSUME NEW c \in Sockets, Die(c) PROVE TypeOK'
  BY <1>10 DEF Die, Goto, TypeOK
<1>11. ASSUME NEW c \in Sockets, NEW x \in Groups, GroupExpiry(c, x) PROVE TypeOK'
  <2>1. groups' \in [Groups -> SUBSET Sockets]
    BY <1>11, DiscardEffect DEF GroupExpiry
  <2>2. QED
    BY <1>11, <2>1 DEF GroupExpiry, TypeOK
<1>12. ASSUME NEW x \in Groups, GroupSend(x) PROVE TypeOK'
  <2>1. updates \in Nat /\ updates' = updates + 1 /\ updates' \in 0..MaxUpdates
    BY <1>12 DEF GroupSend, TypeOK
  <2>2. ASSUME NEW d \in Sockets
        PROVE  queue'[d] \in Seq(1..updates') /\ Len(queue'[d]) <= Capacity
    <3>1. queue[d] \in Seq(1..updates) /\ Len(queue[d]) <= Capacity
      BY DEF TypeOK
    <3>2. /\ Append(queue[d], updates + 1) \in Seq(1..(updates + 1))
          /\ Len(Append(queue[d], updates + 1)) = Len(queue[d]) + 1
          /\ queue[d] \in Seq(1..(updates + 1))
      BY <2>1, <3>1, QueueAppend
    <3>3. \/ queue'[d] = queue[d]
          \/ HasRoom(d) /\ queue'[d] = Append(queue[d], updates + 1)
      BY <1>12 DEF GroupSend
    <3>4. CASE queue'[d] = queue[d]
      BY <2>1, <3>1, <3>2, <3>4
    <3>5. CASE HasRoom(d) /\ queue'[d] = Append(queue[d], updates + 1)
      <4>1. Len(queue[d]) < Capacity /\ Len(queue[d]) \in Nat
        BY <3>1, <3>5 DEF HasRoom
      <4>2. QED
        BY <2>1, <3>2, <3>5, <4>1
    <3>6. QED
      BY <3>3, <3>4, <3>5
  <2>3. queue' = [d \in Sockets |-> queue'[d]]
    BY <1>12 DEF GroupSend
  <2>4. queue' \in [Sockets -> Seq(1..updates')]
    BY <2>2, <2>3
  <2>5. 1..updates \subseteq 1..updates' /\ updates + 1 \in 1..updates'
    BY <2>1
  <2>6. owed' \in [Sockets -> SUBSET (1..updates')] /\ amid' \in [Sockets -> SUBSET (1..updates')]
    BY <1>12, <2>5 DEF GroupSend, TypeOK
  <2>7. sent' \in [Sockets -> SUBSET (1..updates')]
    BY <1>12, <2>5 DEF GroupSend, TypeOK
  <2>8. QED
    BY <1>12, <2>1, <2>2, <2>4, <2>6, <2>7 DEF GroupSend, TypeOK
<1>13. CASE UNCHANGED vars
  BY <1>13 DEF vars, TypeOK
<1>14. QED
  BY <1>1, <1>2, <1>3, <1>4, <1>5, <1>6, <1>7, <1>8, <1>9, <1>10, <1>11, <1>12, <1>13
  DEF Next, Serve

-----------------------------------------------------------------------------
\* Groups.

\* A socket the step is not about keeps its membership, also when it loses the
\* warrant of an unexpired one.
LEMMA UntouchedKeeps ==
  ASSUME NEW c \in Sockets, InNoOther(c), InAll(c), Untouched(c), lapsed \subseteq lapsed'
  PROVE  InNoOther(c)' /\ InAll(c)'
<1>1. Expected(c)' = Expected(c)
  BY DEF Untouched, Expected
<1>2. \A x : Clean(c, x)' <=> Clean(c, x)
  BY DEF Untouched, Clean
<1>3. QED
  BY <1>1, <1>2 DEF Untouched, InNoOther, InAll

LEMMA NamedStep == TypeOK /\ NamedInv /\ [Next]_vars => NamedInv'
<1> SUFFICES ASSUME TypeOK, NamedInv, [Next]_vars PROVE NamedInv'
  OBVIOUS
<1>1. ASSUME NEW c \in Sockets, Connect(c) PROVE NamedInv'
  BY <1>1 DEF Connect, Goto, TypeOK, NamedInv
<1>2. ASSUME NEW c \in Sockets, NEW g \in Geohashes, SubscribeGroup(c, g) PROVE NamedInv'
  BY <1>2 DEF SubscribeGroup, Goto, TypeOK, NamedInv
<1>3. ASSUME NEW c \in Sockets, SubscribeTile(c) PROVE NamedInv'
  <2>1. Added(subscribed_tiles[c], geohash[c]) \subseteq named[c]
    BY <1>3 DEF SubscribeTile, Added, TypeOK, NamedInv
  <2>2. QED
    BY <1>3, <2>1 DEF SubscribeTile, Goto, TypeOK, NamedInv
<1>4. ASSUME NEW c \in Sockets, NEW g \in Geohashes, UnsubscribeGroup(c, g) PROVE NamedInv'
  BY <1>4 DEF UnsubscribeGroup, Goto, TypeOK, NamedInv
<1>5. ASSUME NEW c \in Sockets, UnsubscribeTile(c) PROVE NamedInv'
  <2>1. Discarded(subscribed_tiles[c], geohash[c]) \subseteq named[c]
    BY DEF Discarded, NamedInv
  <2>2. QED
    BY <1>5, <2>1 DEF UnsubscribeTile, Goto, TypeOK, NamedInv
<1>6. ASSUME NEW c \in Sockets, TrafficUpdate(c) PROVE NamedInv'
  BY <1>6 DEF TrafficUpdate, NamedInv
<1>7. ASSUME NEW c \in Sockets, Disconnect(c) PROVE NamedInv'
  BY <1>7 DEF Disconnect, Goto, TypeOK, NamedInv
<1>8. ASSUME NEW c \in Sockets, LeaveGroup(c) PROVE NamedInv'
  BY <1>8 DEF LeaveGroup, TypeOK, NamedInv
<1>9. ASSUME NEW c \in Sockets, Closed(c) PROVE NamedInv'
  BY <1>9 DEF Closed, Goto, TypeOK, NamedInv
<1>10. ASSUME NEW c \in Sockets, Die(c) PROVE NamedInv'
  BY <1>10 DEF Die, Goto, TypeOK, NamedInv
<1>11. ASSUME NEW c \in Sockets, NEW x \in Groups, GroupExpiry(c, x) PROVE NamedInv'
  BY <1>11 DEF GroupExpiry, NamedInv
<1>12. ASSUME NEW x \in Groups, GroupSend(x) PROVE NamedInv'
  BY <1>12 DEF GroupSend, NamedInv
<1>13. CASE UNCHANGED vars
  BY <1>13 DEF vars, NamedInv
<1>14. QED
  BY <1>1, <1>2, <1>3, <1>4, <1>5, <1>6, <1>7, <1>8, <1>9, <1>10, <1>11, <1>12, <1>13
  DEF Next, Serve

\* Where only the socket c moves, c alone has to be shown.
LEMMA OneMoves ==
  ASSUME MemberInv, lapsed \subseteq lapsed', NEW c \in Sockets,
         \A d \in Sockets \ {c} : Untouched(d), InNoOther(c)', InAll(c)'
  PROVE  MemberInv'
<1>1. \A d \in Sockets \ {c} : InNoOther(d)' /\ InAll(d)'
  BY UntouchedKeeps DEF MemberInv
<1>2. QED
  BY <1>1 DEF MemberInv

LEMMA MemberStep == TypeOK /\ NamedInv /\ MemberInv /\ [Next]_vars => MemberInv'
<1> SUFFICES ASSUME TypeOK, NamedInv, MemberInv, [Next]_vars PROVE MemberInv'
  OBVIOUS
<1>0. \A c \in Sockets : InNoOther(c) /\ InAll(c)
  BY DEF MemberInv
<1>1. ASSUME NEW c \in Sockets, Connect(c) PROVE MemberInv'
  <2>1. \A d \in Sockets : InGroups(d)' = InGroups(d)
    BY <1>1 DEF Connect, InGroups
  <2>2. \A d \in Sockets \ {c} : Untouched(d)
    BY <1>1, <2>1 DEF Connect, Goto, TypeOK, Untouched
  <2>3. pc[c] = "none" /\ named[c] = {} /\ subscribed_tiles[c] = {}
    BY <1>1 DEF Connect, NamedInv
  <2>4. InGroups(c) = {}
    BY <1>0, <2>3 DEF InNoOther, Clean, Expected, GroupsOf
  <2>5. pc'[c] \in {"open", "closed"} /\ subscribed_tiles'[c] = {}
    BY <1>1, <2>3 DEF Connect, Goto, TypeOK
  <2>6. Expected(c)' = {}
    BY <2>5 DEF Expected, GroupsOf
  <2>7. InNoOther(c)' /\ InAll(c)'
    BY <2>1, <2>4, <2>6 DEF InNoOther, InAll
  <2>8. QED
    BY <1>1, <2>2, <2>7, OneMoves DEF Connect
<1>2. ASSUME NEW c \in Sockets, NEW g \in Geohashes, SubscribeGroup(c, g) PROVE MemberInv'
  <2>1. /\ InGroups(c)' = InGroups(c) \cup {Group[g]}
        /\ \A d \in Sockets \ {c} : InGroups(d)' = InGroups(d)
    BY <1>2, AddEffect DEF SubscribeGroup, Groups
  <2>2. \A d \in Sockets \ {c} : Untouched(d)
    BY <1>2, <2>1 DEF SubscribeGroup, Goto, TypeOK, Untouched
  <2>3. /\ pc[c] = "open" /\ pc'[c] = "subscribe" /\ geohash'[c] = g
        /\ subscribed_tiles'[c] = subscribed_tiles[c] /\ lapsed' = lapsed
        /\ named[c] \subseteq named'[c]
    BY <1>2 DEF SubscribeGroup, Goto, TypeOK
  <2>4. \A x : Clean(c, x)' => Clean(c, x)
    BY <2>3 DEF Clean
  <2>5. Expected(c)' = Expected(c) \cup {Group[g]}
    BY <2>3 DEF Expected, GroupsOf
  <2>6. InNoOther(c)' /\ InAll(c)'
    BY <1>0, <2>1, <2>3, <2>4, <2>5 DEF InNoOther, InAll
  <2>7. QED
    BY <2>2, <2>3, <2>6, OneMoves
<1>3. ASSUME NEW c \in Sockets, SubscribeTile(c) PROVE MemberInv'
  <2>1. \A d \in Sockets : InGroups(d)' = InGroups(d)
    BY <1>3 DEF SubscribeTile, InGroups
  <2>2. \A d \in Sockets \ {c} : Untouched(d)
    BY <1>3, <2>1 DEF SubscribeTile, Goto, TypeOK, Untouched
  <2>3. /\ pc[c] = "subscribe" /\ pc'[c] = "open" /\ lapsed' = lapsed /\ named' = named
        /\ subscribed_tiles'[c] = Added(subscribed_tiles[c], geohash[c])
    BY <1>3 DEF SubscribeTile, Goto, TypeOK
  <2>4. /\ geohash[c] \in named[c] /\ named[c] \subseteq Geohashes
        /\ subscribed_tiles[c] \subseteq named[c]
    BY <2>3 DEF TypeOK, NamedInv
  <2>5. \A x : Clean(c, x)' <=> Clean(c, x)
    BY <2>3 DEF Clean
  <2>6. ASSUME NEW x, Clean(c, x) PROVE x \in Expected(c)' <=> x \in Expected(c)
    <3>1. x \in GroupsOf(Added(subscribed_tiles[c], geohash[c]))
            <=> x \in GroupsOf(subscribed_tiles[c]) \/ x = Group[geohash[c]]
      BY <2>4, <2>6, AddedGroups
    <3>2. QED
      BY <2>3, <3>1 DEF Expected, GroupsOf
  <2>7. InNoOther(c)' /\ InAll(c)'
    BY <1>0, <2>1, <2>3, <2>5, <2>6 DEF InNoOther, InAll
  <2>8. QED
    BY <2>2, <2>3, <2>7, OneMoves
<1>4. ASSUME NEW c \in Sockets, NEW g \in Geohashes, UnsubscribeGroup(c, g) PROVE MemberInv'
  <2>1. /\ InGroups(c)' = InGroups(c) \ {Group[g]}
        /\ \A d \in Sockets \ {c} : InGroups(d)' = InGroups(d)
    BY <1>4, DiscardEffect DEF UnsubscribeGroup, Groups
  <2>2. \A d \in Sockets \ {c} : Untouched(d)
    BY <1>4, <2>1 DEF UnsubscribeGroup, Goto, TypeOK, Untouched
  <2>3. /\ pc[c] = "open" /\ pc'[c] = "unsubscribe" /\ geohash'[c] = g
        /\ subscribed_tiles'[c] = subscribed_tiles[c] /\ lapsed' = lapsed
        /\ named[c] \subseteq named'[c]
    BY <1>4 DEF UnsubscribeGroup, Goto, TypeOK
  <2>4. \A x : Clean(c, x)' => Clean(c, x)
    BY <2>3 DEF Clean
  <2>5. Expected(c)' = Expected(c) \ {Group[g]}
    BY <2>3 DEF Expected, GroupsOf
  <2>6. InNoOther(c)' /\ InAll(c)'
    BY <1>0, <2>1, <2>3, <2>4, <2>5 DEF InNoOther, InAll
  <2>7. QED
    BY <2>2, <2>3, <2>6, OneMoves
<1>5. ASSUME NEW c \in Sockets, UnsubscribeTile(c) PROVE MemberInv'
  <2>1. \A d \in Sockets : InGroups(d)' = InGroups(d)
    BY <1>5 DEF UnsubscribeTile, InGroups
  <2>2. \A d \in Sockets \ {c} : Untouched(d)
    BY <1>5, <2>1 DEF UnsubscribeTile, Goto, TypeOK, Untouched
  <2>3. /\ pc[c] = "unsubscribe" /\ pc'[c] = "open" /\ lapsed' = lapsed /\ named' = named
        /\ subscribed_tiles'[c] = Discarded(subscribed_tiles[c], geohash[c])
    BY <1>5 DEF UnsubscribeTile, Goto, TypeOK
  <2>4. /\ geohash[c] \in named[c] /\ named[c] \subseteq Geohashes
        /\ subscribed_tiles[c] \subseteq named[c]
    BY <2>3 DEF TypeOK, NamedInv
  <2>5. \A x : Clean(c, x)' <=> Clean(c, x)
    BY <2>3 DEF Clean
  <2>6. ASSUME NEW x, Clean(c, x) PROVE x \in Expected(c)' <=> x \in Expected(c)
    <3>1. x \in GroupsOf(Discarded(subscribed_tiles[c], geohash[c]))
            <=> x \in GroupsOf(subscribed_tiles[c]) /\ x # Group[geohash[c]]
      BY <2>4, <2>6, DiscardedGroups
    <3>2. QED
      BY <2>3, <3>1 DEF Expected, GroupsOf
  <2>7. InNoOther(c)' /\ InAll(c)'
    BY <1>0, <2>1, <2>3, <2>5, <2>6 DEF InNoOther, InAll
  <2>8. QED
    BY <2>2, <2>3, <2>7, OneMoves
<1>6. ASSUME NEW c \in Sockets, TrafficUpdate(c) PROVE MemberInv'
  <2>1. /\ lapsed' = lapsed /\ pc' = pc /\ subscribed_tiles' = subscribed_tiles
        /\ geohash' = geohash /\ left' = left /\ named' = named /\ groups' = groups
    BY <1>6 DEF TrafficUpdate
  <2>2. \A d \in Sockets : Untouched(d)
    BY <2>1 DEF Untouched, InGroups
  <2>3. QED
    BY <1>0, <2>1, <2>2, UntouchedKeeps DEF MemberInv
<1>7. ASSUME NEW c \in Sockets, Disconnect(c) PROVE MemberInv'
  <2>1. \A d \in Sockets : InGroups(d)' = InGroups(d)
    BY <1>7 DEF Disconnect, InGroups
  <2>2. \A d \in Sockets \ {c} : Untouched(d)
    BY <1>7, <2>1 DEF Disconnect, Goto, TypeOK, Untouched
  <2>3. /\ pc[c] = "open" /\ pc'[c] = "disconnect" /\ left'[c] = subscribed_tiles[c]
        /\ lapsed' = lapsed /\ named' = named
    BY <1>7 DEF Disconnect, Goto, TypeOK
  <2>4. Expected(c)' = Expected(c)
    BY <2>3 DEF Expected, GroupsOf
  <2>5. \A x : Clean(c, x)' <=> Clean(c, x)
    BY <2>3 DEF Clean
  <2>6. InNoOther(c)' /\ InAll(c)'
    BY <1>0, <2>1, <2>3, <2>4, <2>5 DEF InNoOther, InAll
  <2>7. QED
    BY <2>2, <2>3, <2>6, OneMoves
<1>8. ASSUME NEW c \in Sockets, LeaveGroup(c) PROVE MemberInv'
  <2>1. PICK g \in left[c] : /\ left' = [left EXCEPT ![c] = @ \ {g}]
                             /\ GroupDiscard(c, Group[g])
    BY <1>8 DEF LeaveGroup
  <2>2. g \in Geohashes /\ Group[g] \in Groups
    BY DEF TypeOK, Groups
  <2>3. /\ InGroups(c)' = InGroups(c) \ {Group[g]}
        /\ \A d \in Sockets \ {c} : InGroups(d)' = InGroups(d)
    BY <2>1, <2>2, DiscardEffect
  <2>4. \A d \in Sockets \ {c} : Untouched(d)
    BY <1>8, <2>1, <2>3 DEF LeaveGroup, TypeOK, Untouched
  <2>5. /\ pc[c] = "disconnect" /\ pc'[c] = "disconnect" /\ left'[c] = left[c] \ {g}
        /\ lapsed' = lapsed /\ named' = named
    BY <1>8, <2>1 DEF LeaveGroup, TypeOK
  <2>6. \A x : Clean(c, x)' <=> Clean(c, x)
    BY <2>5 DEF Clean
  <2>7. Expected(c) \ {Group[g]} \subseteq Expected(c)'
    BY <2>5 DEF Expected, GroupsOf
  <2>8. InNoOther(c)' /\ InAll(c)'
    BY <1>0, <2>3, <2>5, <2>6, <2>7 DEF InNoOther, InAll
  <2>9. QED
    BY <2>4, <2>5, <2>8, OneMoves
<1>9. ASSUME NEW c \in Sockets, Closed(c) PROVE MemberInv'
  <2>1. \A d \in Sockets : InGroups(d)' = InGroups(d)
    BY <1>9 DEF Closed, InGroups
  <2>2. \A d \in Sockets \ {c} : Untouched(d)
    BY <1>9, <2>1 DEF Closed, Goto, TypeOK, Untouched
  <2>3. /\ pc[c] = "disconnect" /\ pc'[c] = "closed" /\ left[c] = {}
        /\ lapsed' = lapsed /\ named' = named
    BY <1>9 DEF Closed, Goto, TypeOK
  <2>4. Expected(c) = {}
    BY <2>3 DEF Expected, GroupsOf
  <2>5. \A x : Clean(c, x)' <=> Clean(c, x)
    BY <2>3 DEF Clean
  <2>6. InNoOther(c)' /\ InAll(c)'
    BY <1>0, <2>1, <2>3, <2>4, <2>5 DEF InNoOther, InAll
  <2>7. QED
    BY <2>2, <2>3, <2>6, OneMoves
<1>10. ASSUME NEW c \in Sockets, Die(c) PROVE MemberInv'
  <2>1. \A d \in Sockets : InGroups(d)' = InGroups(d)
    BY <1>10 DEF Die, InGroups
  <2>2. \A d \in Sockets \ {c} : Untouched(d)
    BY <1>10, <2>1 DEF Die, Goto, TypeOK, Untouched
  <2>3. pc'[c] = "dead" /\ lapsed' = lapsed
    BY <1>10 DEF Die, Goto, TypeOK
  <2>4. InNoOther(c)' /\ InAll(c)'
    BY <2>3 DEF InNoOther, InAll
  <2>5. QED
    BY <2>2, <2>3, <2>4, OneMoves
<1>11. ASSUME NEW c \in Sockets, NEW x \in Groups, GroupExpiry(c, x) PROVE MemberInv'
  <2>1. /\ InGroups(c)' = InGroups(c) \ {x}
        /\ \A d \in Sockets \ {c} : InGroups(d)' = InGroups(d)
    BY <1>11, DiscardEffect DEF GroupExpiry
  <2>2. /\ lapsed \subseteq lapsed' /\ c \in lapsed' /\ pc' = pc /\ geohash' = geohash
        /\ subscribed_tiles' = subscribed_tiles /\ left' = left /\ named' = named
    BY <1>11 DEF GroupExpiry
  <2>3. \A d \in Sockets \ {c} : Untouched(d)
    BY <2>1, <2>2 DEF Untouched
  <2>4. Expected(c)' = Expected(c) /\ \A y : Clean(c, y)' <=> Clean(c, y)
    BY <2>2 DEF Expected, Clean
  <2>5. InNoOther(c)' /\ InAll(c)'
    BY <1>0, <2>1, <2>2, <2>4 DEF InNoOther, InAll
  <2>6. QED
    BY <2>2, <2>3, <2>5, OneMoves
<1>12. ASSUME NEW x \in Groups, GroupSend(x) PROVE MemberInv'
  <2>1. /\ lapsed' = lapsed /\ pc' = pc /\ subscribed_tiles' = subscribed_tiles
        /\ geohash' = geohash /\ left' = left /\ named' = named /\ groups' = groups
    BY <1>12 DEF GroupSend
  <2>2. \A d \in Sockets : Untouched(d)
    BY <2>1 DEF Untouched, InGroups
  <2>3. QED
    BY <1>0, <2>1, <2>2, UntouchedKeeps DEF MemberInv
<1>13. CASE UNCHANGED vars
  <2>1. \A d \in Sockets : Untouched(d)
    BY <1>13 DEF vars, Untouched, InGroups
  <2>2. QED
    BY <1>0, <1>13, <2>1, UntouchedKeeps DEF MemberInv, vars
<1>14. QED
  BY <1>1, <1>2, <1>3, <1>4, <1>5, <1>6, <1>7, <1>8, <1>9, <1>10, <1>11, <1>12, <1>13
  DEF Next, Serve

-----------------------------------------------------------------------------
\* Updates.

\* A step that neither broadcasts nor sends, and forgets no frame.
LEMMA QuietStep ==
  ASSUME SentWhatIsOwed, UNCHANGED <<sent, queue, amid, owed>>, lapsed \subseteq lapsed',
         \A c \in Sockets : named[c] \subseteq named'[c]
  PROVE  SentWhatIsOwed'
<1>1. \A c \in Sockets : Plain(c)' => Plain(c)
  BY DEF Plain
<1>2. QED
  BY <1>1 DEF SentWhatIsOwed

LEMMA SentStep == IInv /\ [Next]_vars => SentWhatIsOwed'
<1> SUFFICES ASSUME IInv, [Next]_vars PROVE SentWhatIsOwed'
  OBVIOUS
<1>1. ASSUME NEW c \in Sockets, Serve(c) \/ Connect(c) \/ Die(c), ~TrafficUpdate(c)
      PROVE  SentWhatIsOwed'
  <2>1. /\ UNCHANGED <<sent, queue, amid, owed>> /\ lapsed' = lapsed
        /\ \A d \in Sockets : named[d] \subseteq named'[d]
    <3> USE DEF IInv, TypeOK
    <3>1. CASE \E g \in Geohashes : SubscribeGroup(c, g) \/ UnsubscribeGroup(c, g)
      <4>1. PICK g \in Geohashes : SubscribeGroup(c, g) \/ UnsubscribeGroup(c, g)
        BY <3>1
      <4>2. /\ UNCHANGED <<sent, queue, amid, owed>> /\ lapsed' = lapsed
            /\ named' = [named EXCEPT ![c] = @ \cup {g}]
        BY <4>1 DEF SubscribeGroup, UnsubscribeGroup
      <4>3. named \in [Sockets -> SUBSET Geohashes]
        OBVIOUS
      <4>4. \A d \in Sockets : named[d] \subseteq named'[d]
        BY <4>2, <4>3
      <4>5. QED
        BY <4>2, <4>4
    <3>2. CASE SubscribeTile(c) \/ UnsubscribeTile(c)
      BY <3>2 DEF SubscribeTile, UnsubscribeTile
    <3>3. CASE Disconnect(c) \/ LeaveGroup(c) \/ Closed(c)
      BY <3>3 DEF Disconnect, LeaveGroup, Closed
    <3>4. CASE Connect(c) \/ Die(c)
      BY <3>4 DEF Connect, Die
    <3>5. QED
      BY <1>1, <3>1, <3>2, <3>3, <3>4 DEF Serve
  <2>2. QED
    BY <2>1, QuietStep DEF IInv
<1>2. ASSUME NEW c \in Sockets, TrafficUpdate(c) PROVE SentWhatIsOwed'
  <2>1. queue[c] \in Seq(1..updates) /\ queue[c] # <<>>
    BY <1>2 DEF TrafficUpdate, IInv, TypeOK
  <2>2. ToSet(queue[c]) = ToSet(Tail(queue[c])) \cup {Head(queue[c])}
    <3> DEFINE S == 1..updates
    <3>1. queue[c] \in Seq(S) /\ queue[c] # <<>>
      BY <2>1
    <3> HIDE DEF S
    <3>2. QED
      BY <3>1, QueueTail
  <2>3. /\ queue'[c] = Tail(queue[c]) /\ sent'[c] = sent[c] \cup {Head(queue[c])}
        /\ \A d \in Sockets \ {c} : queue'[d] = queue[d] /\ sent'[d] = sent[d]
        /\ UNCHANGED <<amid, owed, lapsed, named>>
    BY <1>2 DEF TrafficUpdate, IInv, TypeOK
  <2>4. \A d \in Sockets : sent'[d] \cup ToSet(queue'[d]) = sent[d] \cup ToSet(queue[d])
    BY <2>2, <2>3
  <2>5. \A d \in Sockets : Plain(d)' <=> Plain(d)
    BY <2>3 DEF Plain
  <2>6. QED
    BY <2>3, <2>4, <2>5 DEF SentWhatIsOwed, IInv
<1>3. ASSUME NEW c \in Sockets, NEW x \in Groups, GroupExpiry(c, x) PROVE SentWhatIsOwed'
  BY <1>3, QuietStep DEF GroupExpiry, IInv
<1>4. ASSUME NEW x \in Groups, GroupSend(x) PROVE SentWhatIsOwed'
  <2> DEFINE nr == updates + 1
  <2>1. UNCHANGED <<pc, subscribed_tiles, groups, sent, named, lapsed>>
    BY <1>4 DEF GroupSend
  <2>2. ASSUME NEW c \in Sockets, Plain(c), c \notin lapsed
        PROVE  (sent[c] \cup ToSet(queue'[c])) \ amid'[c] = owed'[c]
    <3>1. /\ updates \in Nat /\ queue[c] \in Seq(1..updates)
          /\ sent[c] \subseteq 1..updates /\ owed[c] \subseteq 1..updates
          /\ amid[c] \subseteq 1..updates
      BY DEF IInv, TypeOK
    <3>2. /\ ToSet(Append(queue[c], nr)) = ToSet(queue[c]) \cup {nr}
          /\ ToSet(queue[c]) \subseteq 1..updates
      BY <3>1, QueueAppend
    <3>3. nr \notin 1..updates
      BY <3>1
    <3>4. (sent[c] \cup ToSet(queue[c])) \ amid[c] = owed[c]
      BY <2>2 DEF IInv, SentWhatIsOwed
    <3>5. /\ queue'[c] = IF c \in groups[x] /\ HasRoom(c)
                         THEN Append(queue[c], nr) ELSE queue[c]
          /\ owed'[c] = IF HasRoom(c) /\ pc[c] = "open" /\ x \in GroupsOf(subscribed_tiles[c])
                        THEN owed[c] \cup {nr} ELSE owed[c]
          /\ amid'[c] = IF pc[c] # "open" THEN amid[c] \cup {nr} ELSE amid[c]
      BY <1>4 DEF GroupSend
    <3> HIDE DEF nr
    <3>6. CASE pc[c] = "open"
      <4>1. InGroups(c) = GroupsOf(subscribed_tiles[c])
        <5>1. \A y : Clean(c, y)
          BY <2>2, PlainClean
        <5>2. InNoOther(c) /\ InAll(c) /\ Expected(c) = GroupsOf(subscribed_tiles[c])
          BY <3>6 DEF IInv, MemberInv, Expected
        <5>3. QED
          BY <2>2, <3>6, <5>1, <5>2 DEF InNoOther, InAll
      <4>2. c \in groups[x] <=> x \in GroupsOf(subscribed_tiles[c])
        BY <4>1 DEF InGroups
      <4>3. CASE c \in groups[x] /\ HasRoom(c)
        BY <3>1, <3>2, <3>3, <3>4, <3>5, <3>6, <4>2, <4>3
      <4>4. CASE ~(c \in groups[x] /\ HasRoom(c))
        BY <3>4, <3>5, <3>6, <4>2, <4>4
      <4>5. QED
        BY <4>3, <4>4
    <3>7. CASE pc[c] # "open"
      <4>1. ToSet(queue'[c]) \in {ToSet(queue[c]), ToSet(queue[c]) \cup {nr}}
        BY <3>2, <3>5
      <4>2. QED
        BY <3>1, <3>2, <3>3, <3>4, <3>5, <3>7, <4>1
    <3>8. QED
      BY <3>6, <3>7
  <2>3. \A c \in Sockets : Plain(c)' <=> Plain(c)
    BY <2>1 DEF Plain
  <2>4. QED
    BY <2>1, <2>2, <2>3 DEF SentWhatIsOwed
<1>5. CASE UNCHANGED vars
  BY <1>5, QuietStep DEF vars, IInv
<1>6. QED
  BY <1>1, <1>2, <1>3, <1>4, <1>5 DEF Next

-----------------------------------------------------------------------------
\* The invariant.

LEMMA InitInv == Init => IInv
<1> SUFFICES ASSUME Init PROVE IInv
  OBVIOUS
<1>1. TypeOK
  BY TypeInit
<1>2. NamedInv
  BY DEF Init, NamedInv
<1>3. \A c \in Sockets : InGroups(c) = {} /\ Expected(c) = {}
  BY DEF Init, InGroups, Expected
<1>4. MemberInv
  BY <1>3 DEF MemberInv, InNoOther, InAll
<1>5. \A c \in Sockets : ToSet(queue[c]) = {}
  BY DEF Init, ToSet
<1>6. SentWhatIsOwed
  BY <1>5 DEF Init, SentWhatIsOwed
<1>7. QED
  BY <1>1, <1>2, <1>4, <1>6 DEF IInv

LEMMA StepInv == IInv /\ [Next]_vars => IInv'
  BY TypeStep, NamedStep, MemberStep, SentStep DEF IInv

LEMMA Invariant == Spec => []IInv
<1>1. Init => IInv
  BY InitInv
<1>2. IInv /\ [Next]_vars => IInv'
  BY StepInv
<1>3. QED
  BY <1>1, <1>2, PTL DEF Spec

\* No channel of the layer holds more than its capacity, and a socket is about
\* one geohash exactly while it joins or leaves a group.
THEOREM TypeCorrect == Spec => []TypeOK
<1>1. IInv => TypeOK
  BY DEF IInv
<1>2. QED
  BY <1>1, Invariant, PTL

\* Between two frames subscribed_tiles and the channel layer agree on every
\* clean group of an open socket, however its handlers interleave with those of
\* others and whatever else it named; a membership may be missing only from a
\* socket that has lost one to expiry.
THEOREM TilesMatch == Spec => []TilesMatchGroups
<1>1. IInv => TilesMatchGroups
  <2> SUFFICES ASSUME IInv, NEW c \in Sockets, pc[c] = "open", NEW x \in Groups, Clean(c, x)
               PROVE  /\ c \in groups[x] => x \in GroupsOf(subscribed_tiles[c])
                      /\ c \notin lapsed =>
                           (x \in GroupsOf(subscribed_tiles[c]) => c \in groups[x])
    BY DEF TilesMatchGroups
  <2>1. InNoOther(c) /\ InAll(c) /\ Expected(c) = GroupsOf(subscribed_tiles[c])
    BY DEF IInv, MemberInv, Expected
  <2>2. QED
    BY <2>1 DEF InNoOther, InAll, InGroups
<1>2. QED
  BY <1>1, Invariant, PTL

\* disconnect() leaves every clean group, those that a frame joined last
\* included.
THEOREM ClosedLeaves == Spec => []ClosedLeavesNothing
<1>1. IInv => ClosedLeavesNothing
  BY DEF IInv, MemberInv, InNoOther, Expected, ClosedLeavesNothing
<1>2. QED
  BY <1>1, Invariant, PTL

\* A socket is sent the updates of its tiles and no others: traffic_update and
\* the channel lose none that the layer had room for.
THEOREM SentOwed == Spec => []SentWhatIsOwed
<1>1. IInv => SentWhatIsOwed
  BY DEF IInv
<1>2. QED
  BY <1>1, Invariant, PTL

-----------------------------------------------------------------------------
(* Delivery.  As ENABLED is beyond the prover, each action's fairness is      *)
(* written out with its guard, which is when it is enabled: it changes pc or  *)
(* takes a message from the queue.                                            *)

Receives(c) == pc[c] = "open" /\ queue[c] # <<>>

\* WF of the steps that end a frame's handler, SF of TrafficUpdate.
LoopRuns(c) ==
  /\ []<><<SubscribeTile(c)>>_vars \/ []<>~(pc[c] = "subscribe")
  /\ []<><<UnsubscribeTile(c)>>_vars \/ []<>~(pc[c] = "unsubscribe")
  /\ []<><<TrafficUpdate(c)>>_vars \/ <>[]~Receives(c)

\* Update nr has place k in the channel of a socket that serves frames.
At(c, nr, k, where) == pc[c] = where /\ k \in 1..Len(queue[c]) /\ queue[c][k] = nr
Waits(c, nr, k) ==
  At(c, nr, k, "open") \/ At(c, nr, k, "subscribe") \/ At(c, nr, k, "unsubscribe")
Closing(c) == pc[c] \in {"disconnect", "closed", "dead"}
Moves(c, nr, k) ==
  Closing(c) \/ IF k = 1 THEN nr \in sent[c] ELSE Waits(c, nr, k - 1)

\* What is broadcast meanwhile queues up behind.
LEMMA PlaceKept ==
  ASSUME TypeOK, NEW c \in Sockets, NEW k \in 1..Len(queue[c]), NEW x, GroupSend(x)
  PROVE  k \in 1..Len(queue'[c]) /\ queue'[c][k] = queue[c][k]
<1>1. queue[c] \in Seq(1..updates) /\ updates \in Nat
  BY BoundAssumption DEF TypeOK
<1>2. queue'[c] = queue[c] \/ queue'[c] = Append(queue[c], updates + 1)
  BY DEF GroupSend
<1>3. ASSUME NEW q \in Seq(1..updates), k \in 1..Len(q)
      PROVE  k \in 1..Len(Append(q, updates + 1)) /\ Append(q, updates + 1)[k] = q[k]
  BY <1>3
<1>4. QED
  BY <1>1, <1>2, <1>3

LEMMA UpdateMoves ==
  ASSUME TypeOK, NEW c \in Sockets, NEW nr, NEW k \in Nat, Waits(c, nr, k), TrafficUpdate(c)
  PROVE  Moves(c, nr, k)'
<1>1. /\ queue[c] \in Seq(1..updates) /\ pc[c] = "open" /\ pc'[c] = "open"
      /\ queue'[c] = Tail(queue[c]) /\ sent'[c] = sent[c] \cup {Head(queue[c])}
      /\ k \in 1..Len(queue[c]) /\ queue[c][k] = nr
  BY DEF TypeOK, TrafficUpdate, Waits, At
<1>2. CASE k = 1
  BY <1>1, <1>2 DEF Moves
<1>3. CASE k # 1
  <2>1. k - 1 \in 1..Len(Tail(queue[c])) /\ Tail(queue[c])[k - 1] = nr
    BY <1>1, <1>3
  <2>2. QED
    BY <1>1, <1>3, <2>1 DEF Moves, Waits, At
<1>4. QED
  BY <1>2, <1>3

\* An update keeps its place until it moves; a frame's handler keeps on until it
\* ends, and only an open socket takes up a frame.
LEMMA WaitsStep ==
  ASSUME TypeOK, NEW c \in Sockets, NEW nr, NEW k \in Nat, Waits(c, nr, k), [Next]_vars
  PROVE  \/ Moves(c, nr, k)'
         \/ At(c, nr, k, "open")'
         \/ Waits(c, nr, k)' /\ (pc[c] = "open" \/ pc'[c] = pc[c])
<1>0. /\ pc[c] \in {"open", "subscribe", "unsubscribe"}
      /\ k \in 1..Len(queue[c]) /\ queue[c][k] = nr
  BY DEF Waits, At
<1>1. ASSUME NEW d \in Sockets \ {c}, Connect(d) \/ Serve(d) \/ Die(d)
      PROVE  pc'[c] = pc[c] /\ queue'[c] = queue[c]
  BY <1>1 DEF TypeOK, Connect, Serve, Die, SubscribeGroup, UnsubscribeGroup, SubscribeTile,
              UnsubscribeTile, TrafficUpdate, Disconnect, LeaveGroup, Closed, Goto
<1>2. CASE TrafficUpdate(c)
  BY <1>2, UpdateMoves
<1>3. ASSUME NEW g \in Geohashes, SubscribeGroup(c, g) \/ UnsubscribeGroup(c, g)
      PROVE  Waits(c, nr, k)' /\ pc[c] = "open"
  BY <1>0, <1>3 DEF TypeOK, SubscribeGroup, UnsubscribeGroup, Goto, Waits, At
<1>4. CASE SubscribeTile(c) \/ UnsubscribeTile(c)
  BY <1>0, <1>4 DEF TypeOK, SubscribeTile, UnsubscribeTile, Goto, At
<1>5. CASE Disconnect(c) \/ Die(c)
  BY <1>5 DEF TypeOK, Disconnect, Die, Goto, Moves, Closing
<1>6. CASE Connect(c) \/ LeaveGroup(c) \/ Closed(c)
  BY <1>0, <1>6 DEF Connect, LeaveGroup, Closed
<1>7. ASSUME NEW x \in Groups, GroupSend(x) PROVE Waits(c, nr, k)' /\ pc'[c] = pc[c]
  <2>1. k \in 1..Len(queue'[c]) /\ queue'[c][k] = nr /\ pc' = pc
    BY <1>0, <1>7, PlaceKept DEF GroupSend
  <2>2. QED
    BY <1>0, <2>1 DEF Waits, At
<1>8. CASE pc'[c] = pc[c] /\ queue'[c] = queue[c]
  BY <1>0, <1>8 DEF Waits, At
<1>9. ASSUME NEW d \in Sockets, NEW x \in Groups, GroupExpiry(d, x)
      PROVE  pc'[c] = pc[c] /\ queue'[c] = queue[c]
  BY <1>9 DEF GroupExpiry
<1>10. ASSUME NEW d \in Sockets, Connect(d) \/ Serve(d) \/ Die(d)
       PROVE  \/ Moves(c, nr, k)'
              \/ At(c, nr, k, "open")'
              \/ Waits(c, nr, k)' /\ (pc[c] = "open" \/ pc'[c] = pc[c])
  <2>1. CASE d = c
    BY <1>2, <1>3, <1>4, <1>5, <1>6, <1>10, <2>1 DEF Serve
  <2>2. CASE d # c
    BY <1>1, <1>8, <1>10, <2>2
  <2>3. QED
    BY <2>1, <2>2
<1>11. QED
  BY <1>7, <1>8, <1>9, <1>10 DEF Next, vars

LEMMA PlaceMoves ==
  ASSUME NEW c \in Sockets, NEW nr, NEW k \in Nat
  PROVE  Spec /\ LoopRuns(c) => (Waits(c, nr, k) ~> Moves(c, nr, k))
<1> DEFINE S == At(c, nr, k, "subscribe")
           U == At(c, nr, k, "unsubscribe")
           O == At(c, nr, k, "open")
           M == Moves(c, nr, k)
<1>1. Waits(c, nr, k) <=> O \/ S \/ U
  BY DEF Waits
<1>2. TypeOK /\ S /\ [Next]_vars => S' \/ O' \/ M'
  BY WaitsStep DEF Waits, At
<1>3. TypeOK /\ U /\ [Next]_vars => U' \/ O' \/ M'
  BY WaitsStep DEF Waits, At
<1>4. TypeOK /\ O /\ [Next]_vars => O' \/ S' \/ U' \/ M'
  BY WaitsStep DEF Waits
<1>5. TypeOK /\ S /\ <<SubscribeTile(c)>>_vars => O'
  BY DEF TypeOK, At, SubscribeTile, Goto
<1>6. TypeOK /\ U /\ <<UnsubscribeTile(c)>>_vars => O'
  BY DEF TypeOK, At, UnsubscribeTile, Goto
<1>7. TypeOK /\ (O \/ S \/ U) /\ <<TrafficUpdate(c)>>_vars => M'
  BY UpdateMoves DEF Waits
<1>8. O => Receives(c)
  BY DEF At, Receives
<1>9. (S => pc[c] = "subscribe") /\ (U => pc[c] = "unsubscribe")
  BY DEF At
<1>10. QED
  BY <1>1, <1>2, <1>3, <1>4, <1>5, <1>6, <1>7, <1>8, <1>9, TypeCorrect, PTL DEF LoopRuns, Spec

\* No update is stuck: wherever it is in the channel of a socket that serves
\* frames, it moves up, and the first is sent, unless the socket is closed.
THEOREM QueueMoves ==
  ASSUME NEW c \in Sockets
  PROVE  Spec /\ LoopRuns(c) =>
           \A nr, k \in Nat : Waits(c, nr, k) ~> Moves(c, nr, k)
  BY PlaceMoves
=============================================================================
