---- MODULE APSessionProofs ----
(***************************************************************************)
(* Proofs about APSession for all locations, items and bounds: the types,  *)
(* the exactly-once effect of items, and that the session implements       *)
(* ItemFeed.  The exactly-once property is not inductive: what keeps it is *)
(* that the packets on their way form one stretch of the server's list     *)
(* that starts at or below the mark and ends at the list's end.            *)
(***************************************************************************)
EXTENDS APSession, SequenceTheorems, FiniteSetTheorems, TLAPS

\* A single message is a sequence of messages.
LEMMA OneMessage == ASSUME NEW S, NEW m \in S PROVE <<m>> \in Seq(S)
OBVIOUS

\* A function on 1..n is a sequence (the packets are built as functions).
LEMMA SeqOfFunction == ASSUME NEW S, NEW n \in Nat, NEW f \in [1..n -> S] PROVE f \in Seq(S)
BY SeqDef

\* Concatenation stays within the sequences over a set.
LEMMA ConcatType == ASSUME NEW S, NEW s \in Seq(S), NEW t \in Seq(S) PROVE s \o t \in Seq(S)
BY ConcatProperties

\* What ap_guard hands to the socket keeps the type of the messages to the server.
LEMMA SendType ==
    ASSUME toServer \in Seq(ClientMessages), NEW msgs \in Seq(ClientMessages), Send(msgs)
    PROVE  toServer' \in Seq(ClientMessages)
BY ConcatType DEF Send

\* The messages the client builds are client messages.
LEMMA ClientMessageTypes ==
    /\ <<[type |-> "Connect"]>> \in Seq(ClientMessages)
    /\ <<[type |-> "Get"]>> \in Seq(ClientMessages)
    /\ <<[type |-> "StatusUpdate"]>> \in Seq(ClientMessages)
    /\ \A e \in Episodes : <<[type |-> "Set", episode |-> e]>> \in Seq(ClientMessages)
    /\ \A ls \in SUBSET Locations : <<LocationChecksMsg(ls)>> \in Seq(ClientMessages)
BY OneMessage DEF ClientMessages, LocationChecksMsg

\* The messages the server builds are server messages.
LEMMA ServerMessageTypes ==
    /\ <<[type |-> "RoomInfo"]>> \in Seq(ServerMessages)
    /\ \A ls \in SUBSET Locations :
         /\ <<[type |-> "Connected", checked |-> ls]>> \in Seq(ServerMessages)
         /\ <<[type |-> "RoomUpdate", checked |-> ls]>> \in Seq(ServerMessages)
    /\ \A f, n \in Nat : <<[type |-> "ReceivedItems", first |-> f, count |-> n]>>
                           \in Seq(ServerMessages)
    /\ \A d \in SUBSET Episodes : <<[type |-> "Retrieved", done |-> d]>> \in Seq(ServerMessages)
BY OneMessage DEF ServerMessages

\* What the server tells the client keeps the type of the messages to the client.
LEMMA TellType ==
    ASSUME toClient \in Seq(ServerMessages), srvItems \in Seq(Items),
           NEW ls \in SUBSET Locations, NEW new \in Seq(Items), Tell(ls, new)
    PROVE  toClient' \in Seq(ServerMessages)
<1> DEFINE ri == IF new = <<>> THEN <<>> ELSE
                 <<[type |-> "ReceivedItems", first |-> Len(srvItems), count |-> Len(new)]>>
           ru == IF ls = {} THEN <<>> ELSE <<[type |-> "RoomUpdate", checked |-> ls]>>
<1>1. ri \in Seq(ServerMessages) /\ ru \in Seq(ServerMessages)
  BY ServerMessageTypes, LenProperties, EmptySeq
<1>2. toClient \o ri \o ru \in Seq(ServerMessages)
  BY <1>1, ConcatType
<1>. QED  BY <1>2 DEF Tell

\* The head and the tail of a queue that is not empty keep their types.
LEMMA HeadType == ASSUME NEW S, NEW s \in Seq(S), s # <<>>
                  PROVE  Head(s) \in S /\ Tail(s) \in Seq(S)
BY HeadTailProperties

\* Whatever part of the messages in flight survives a drop keeps its type.
LEMMA InFlightType ==
    ASSUME toServer \in Seq(ClientMessages) PROVE InFlight \subseteq Locations
<1>. SUFFICES ASSUME NEW k \in DOMAIN toServer, toServer[k].type = "LocationChecks"
              PROVE  toServer[k].locations \subseteq Locations
  BY DEF InFlight
<1>1. toServer[k] \in ClientMessages
  BY ElementOfSeq
<1>. QED  BY <1>1 DEF ClientMessages

(***************************************************************************)
(* Types, the link and the high-water mark, action by action.              *)
(***************************************************************************)
Inv == TypeOK /\ LinkOK /\ PacketsContiguous /\ ItemsExactlyOnce

\* The invariant holds when the program starts.
LEMMA InitInv == ASSUME SessionAssumption, Init PROVE Inv
<1>1. TypeOK
  <2>1. /\ ap_last_item_index \in -1 .. Len(srvItems) - 1
        /\ toServer \in Seq(ClientMessages) /\ toClient \in Seq(ServerMessages)
        /\ srvItems \in Seq(Items)
    BY EmptySeq DEF Init
  <2>2. drops \in 0..MaxDrops /\ restarts \in 0..MaxRestarts
    BY DEF Init, SessionAssumption
  <2>. QED  BY <2>1, <2>2 DEF Init, TypeOK, States
<1>2. LinkOK
  BY DEF Init, LinkOK
<1>3. PacketsContiguous
  BY DEF Init, PacketsContiguous, Packet
<1>4. ItemsExactlyOnce
  <2>1. \A f \in Filler : {k \in 1..0 : srvItems[k] = f} = {}
    OBVIOUS
  <2>. QED  BY <2>1, FS_EmptySet DEF Init, ItemsExactlyOnce
<1>. QED  BY <1>1, <1>2, <1>3, <1>4 DEF Inv

\* The actions that keep the feed: what the client has applied and what was sent.
LEMMA FeedUnchanged ==
    ASSUME PacketsContiguous, ItemsExactlyOnce, UNCHANGED <<feed, srvItems, srvAuth, toClient>>
    PROVE  PacketsContiguous' /\ ItemsExactlyOnce'
BY DEF PacketsContiguous, Packet, End, ItemsExactlyOnce, feed

\* Sending or queueing a check keeps the types (ap_client_location_check).
LEMMA CheckType ==
    ASSUME TypeOK, NEW l \in Locations, ap_client_location_check(l)
    PROVE  /\ checkQueue' \subseteq Locations /\ checkedLocations' \subseteq Locations
           /\ collected' \subseteq Locations /\ lost' \subseteq Locations
           /\ CheckMsgs(l) \in Seq(ClientMessages)
BY ClientMessageTypes, EmptySeq DEF TypeOK, ap_client_location_check, LocationChecks, CheckMsgs

\* A pickup touches neither the items nor the packets on their way.
LEMMA CollectInv ==
    ASSUME Inv, NEW l \in Locations, Collect(l) PROVE Inv'
<1>. USE DEF Inv
<1>1. TypeOK'
  <2>1. toServer' \in Seq(ClientMessages)
    BY CheckType, SendType DEF Collect, TypeOK
  <2>. QED  BY <2>1, CheckType DEF Collect, TypeOK, feed, server, bounds
<1>2. LinkOK'
  BY DEF Collect, LinkOK
<1>3. PacketsContiguous' /\ ItemsExactlyOnce'
  BY FeedUnchanged DEF Collect, server
<1>. QED  BY <1>1, <1>2, <1>3

\* Completing a level, the boss flag and the victory included, touches no item.
LEMMA LevelCompleteInv ==
    ASSUME Inv, NEW l \in Locations, ap_on_level_complete(l) PROVE Inv'
<1>. USE DEF Inv
<1>1. TypeOK'
  <2>1. local_done' \subseteq Episodes /\ beaten' \subseteq Episodes
    BY DEF ap_on_level_complete, ap_mark_boss_complete, TypeOK
  <2>2. toServer' \in Seq(ClientMessages)
    <3> DEFINE set == IF ap_mark_boss_complete(l) = {} THEN <<>>
                      ELSE <<[type |-> "Set", episode |-> ap_current_episode]>>
               msgs == IF SlotConnected
                       THEN CheckMsgs(l) \o set \o ap_announce_victory(local_done')
                       ELSE <<>>
    <3>1. set \in Seq(ClientMessages) /\ ap_announce_victory(local_done') \in Seq(ClientMessages)
      BY ClientMessageTypes, EmptySeq DEF TypeOK, ap_announce_victory
    <3>2. CheckMsgs(l) \in Seq(ClientMessages)
      BY CheckType DEF ap_on_level_complete
    <3>3. msgs \in Seq(ClientMessages)
      <4>1. CheckMsgs(l) \o set \in Seq(ClientMessages)
        BY <3>1, <3>2, ConcatType
      <4>. QED  BY <3>1, <4>1, ConcatType, EmptySeq
    <3>4. Send(msgs)
      BY DEF ap_on_level_complete
    <3>. QED  BY <3>3, <3>4, SendType DEF TypeOK
  <2>. QED  BY <2>1, <2>2, CheckType DEF ap_on_level_complete, TypeOK, feed, server, bounds
<1>2. LinkOK'
  BY DEF ap_on_level_complete, LinkOK
<1>3. PacketsContiguous' /\ ItemsExactlyOnce'
  BY FeedUnchanged DEF ap_on_level_complete, server
<1>. QED  BY <1>1, <1>2, <1>3

\* A launch starts with the mark at 0 and no effect, so nothing has been doubled.
LEMMA LaunchInv ==
    ASSUME SessionAssumption, Inv, NEW e \in Episodes, ap_client_init(e) PROVE Inv'
<1>. USE DEF Inv, ap_client_init, server
<1>1. TypeOK'
  <2>1. ap_last_item_index' \in -1 .. Len(srvItems') - 1
    BY LenProperties DEF TypeOK
  <2>2. restarts' \in 0..MaxRestarts
    BY DEF TypeOK, SessionAssumption
  <2>. QED  BY <2>1, <2>2, EmptySeq DEF TypeOK, States
<1>2. LinkOK' /\ PacketsContiguous'
  BY DEF LinkOK, PacketsContiguous, Packet
<1>3. ItemsExactlyOnce'
  <2>1. \A f \in Filler : {k \in 1..0 : srvItems'[k] = f} = {}
    OBVIOUS
  <2>. QED  BY <2>1, FS_EmptySet DEF ItemsExactlyOnce
<1>. QED  BY <1>1, <1>2, <1>3

\* Opening, cutting and closing the link: packets exist only on an authenticated link.
LEMMA SocketInv ==
    ASSUME SessionAssumption, Inv, connect_socket \/ onopen \/ Cut \/ Closing \/ onclose
    PROVE  Inv'
<1>. USE DEF Inv, client, feed, server, history, bounds
<1>1. CASE connect_socket
  <2>1. TypeOK' /\ LinkOK'
    BY <1>1 DEF connect_socket, TypeOK, LinkOK, States
  <2>. QED  BY <1>1, <2>1, FeedUnchanged DEF connect_socket
<1>2. CASE onopen
  <2>1. TypeOK' /\ LinkOK'
    BY <1>2, ServerMessageTypes, EmptySeq DEF onopen, TypeOK, LinkOK, States
  <2>2. PacketsContiguous' /\ ItemsExactlyOnce'
    BY <1>2 DEF onopen, PacketsContiguous, Packet, ItemsExactlyOnce, LinkOK
  <2>. QED  BY <2>1, <2>2
<1>3. CASE Cut
  <2>0. drops' \in 0..MaxDrops
    BY <1>3 DEF Cut, TypeOK, SessionAssumption
  <2>1. TypeOK' /\ LinkOK'
    BY <1>3, <2>0, EmptySeq, InFlightType DEF Cut, TypeOK, LinkOK
  <2>2. PacketsContiguous' /\ ItemsExactlyOnce'
    BY <1>3 DEF Cut, PacketsContiguous, Packet, End, ItemsExactlyOnce
  <2>. QED  BY <2>1, <2>2
<1>4. CASE Closing
  <2>0. drops' \in 0..MaxDrops
    BY <1>4 DEF Closing, TypeOK, SessionAssumption
  <2>1. TypeOK' /\ LinkOK'
    BY <1>4, <2>0, EmptySeq, InFlightType DEF Closing, TypeOK, LinkOK
  <2>2. PacketsContiguous' /\ ItemsExactlyOnce'
    BY <1>4 DEF Closing, PacketsContiguous, Packet, ItemsExactlyOnce
  <2>. QED  BY <2>1, <2>2
<1>5. CASE onclose
  <2>0. drops' \in 0..MaxDrops
    BY <1>5 DEF onclose, TypeOK, SessionAssumption
  <2>1. TypeOK' /\ LinkOK'
    BY <1>5, <2>0 DEF onclose, Disconnect, TypeOK, LinkOK, States
  <2>. QED  BY <1>5, <2>1, FeedUnchanged DEF onclose
<1>. QED  BY <1>1, <1>2, <1>3, <1>4, <1>5

(***************************************************************************)
(* Messages received.                                                      *)
(***************************************************************************)
\* What Receive does to the queue of messages to the client.
LEMMA Received ==
    ASSUME TypeOK, NEW t, Receive(t)
    PROVE  /\ toClient' \in Seq(ServerMessages)
           /\ Len(toClient) \in Nat \ {0} /\ DOMAIN toClient = 1..Len(toClient)
           /\ DOMAIN toClient' = 1..Len(toClient) - 1
           /\ \A k \in 1..Len(toClient) - 1 : toClient'[k] = toClient[k + 1]
           /\ Head(toClient) \in ServerMessages
           /\ Head(toClient) = toClient[1] /\ toClient[1].type = t
BY HeadTailProperties, LenProperties, EmptySeq DEF TypeOK, Receive

\* What a packet in the queue is: a stretch of the list the server holds.
LEMMA PacketType ==
    ASSUME TypeOK, NEW k \in Nat, Packet(k)
    PROVE  toClient[k].first \in Nat /\ toClient[k].count \in Nat
<1>1. toClient[k] \in ServerMessages
  BY ElementOfSeq DEF TypeOK, Packet
<1>. QED  BY <1>1 DEF Packet, ServerMessages

\* The packets behind the message that is received move up by one.
LEMMA PacketsShift ==
    ASSUME TypeOK, NEW t, Receive(t)
    PROVE  /\ \A k \in Nat : Packet(k)' => /\ k + 1 \in Nat /\ Packet(k + 1)
                                           /\ End(k)' = End(k + 1)
                                           /\ toClient'[k] = toClient[k + 1]
           /\ \A k \in Nat : Packet(k) /\ k # 1 => /\ k - 1 \in Nat /\ Packet(k - 1)'
                                                   /\ End(k - 1)' = End(k)
           /\ Packet(1) <=> t = "ReceivedItems"
<1>1. ASSUME NEW k \in Nat, Packet(k)'
      PROVE  k + 1 \in 1..Len(toClient) /\ toClient'[k] = toClient[k + 1]
  BY <1>1, Received DEF Packet
<1>2. ASSUME NEW k \in Nat, Packet(k), k # 1
      PROVE  k - 1 \in 1..Len(toClient) - 1 /\ toClient'[k - 1] = toClient[k]
  BY <1>2, Received DEF Packet
<1>3. Packet(1) <=> t = "ReceivedItems"
  BY Received DEF Packet
<1>. QED  BY <1>1, <1>2, <1>3, Received DEF Packet, End

\* Any other message leaves the packets in their order.
LEMMA OtherReceived ==
    ASSUME TypeOK, PacketsContiguous, NEW t, t # "ReceivedItems", Receive(t),
           UNCHANGED <<feed, srvItems, srvAuth>>
    PROVE  PacketsContiguous'
<1>1. /\ \A k \in Nat : Packet(k)' => /\ k + 1 \in Nat /\ Packet(k + 1)
                                      /\ End(k)' = End(k + 1)
                                      /\ toClient'[k] = toClient[k + 1]
      /\ \A k \in Nat : Packet(k) => /\ k - 1 \in Nat /\ Packet(k - 1)'
                                     /\ End(k - 1)' = End(k)
  BY PacketsShift
<1>3. ASSUME NEW k \in Nat, Packet(k)'
      PROVE  /\ End(k)' <= Len(srvItems')
             /\ \/ toClient'[k].first <= ap_last_item_index' + 1
                \/ \E j \in Nat : Packet(j)' /\ j < k /\ toClient'[k].first <= End(j)'
  <2>1. k + 1 \in Nat /\ Packet(k + 1) /\ End(k)' = End(k + 1) /\ toClient'[k] = toClient[k + 1]
    BY <1>1, <1>3
  <2>2. CASE toClient[k + 1].first <= ap_last_item_index + 1
    BY <2>1, <2>2 DEF PacketsContiguous, feed
  <2>3. CASE \E j \in Nat : Packet(j) /\ j < k + 1 /\ toClient[k + 1].first <= End(j)
    <3>1. PICK j \in Nat : Packet(j) /\ j < k + 1 /\ toClient[k + 1].first <= End(j)
      BY <2>3
    <3>2. j - 1 \in Nat /\ Packet(j - 1)' /\ End(j - 1)' = End(j) /\ j - 1 < k
      BY <1>1, <3>1
    <3>. QED  BY <2>1, <3>1, <3>2 DEF PacketsContiguous
  <2>. QED  BY <2>1, <2>2, <2>3 DEF PacketsContiguous
<1>4. srvAuth' => \/ Len(srvItems') = ap_last_item_index' + 1
                  \/ \E k \in Nat : Packet(k)' /\ End(k)' = Len(srvItems')
  <2>1. ASSUME NEW k \in Nat, Packet(k), End(k) = Len(srvItems)
        PROVE  \E i \in Nat : Packet(i)' /\ End(i)' = Len(srvItems')
    BY <1>1, <2>1
  <2>. QED  BY <2>1 DEF PacketsContiguous, feed
<1>. QED  BY <1>3, <1>4 DEF PacketsContiguous

\* The exactly-once property depends on the mark and the effects only.
LEMMA ItemsUnchanged ==
    ASSUME ItemsExactlyOnce, UNCHANGED <<feed, srvItems>> PROVE ItemsExactlyOnce'
BY DEF ItemsExactlyOnce, feed

\* RoomInfo makes the client send Connect and changes no item.
LEMMA RoomInfoInv == ASSUME Inv, onRoomInfo PROVE Inv'
<1>. USE DEF Inv, onRoomInfo
<1>1. TypeOK'
  <2>1. toServer' \in Seq(ClientMessages) /\ toClient' \in Seq(ServerMessages)
    BY ClientMessageTypes, SendType, Received DEF TypeOK
  <2>. QED  BY <2>1 DEF TypeOK, States, client, feed, server, history, bounds
<1>2. LinkOK' /\ PacketsContiguous' /\ ItemsExactlyOnce'
  BY OtherReceived, ItemsUnchanged DEF LinkOK, Receive, server
<1>. QED  BY <1>1, <1>2

\* Connected records the checked locations, flushes the queue and changes no item.
LEMMA ConnectedInv == ASSUME Inv, onConnected PROVE Inv'
<1>. USE DEF Inv, onConnected
<1>1. TypeOK'
  <2>1. Head(toClient).checked \subseteq Locations
    BY Received DEF ServerMessages
  <2>2. QueuedChecks \o <<[type |-> "Get"]>> \in Seq(ClientMessages)
    BY ClientMessageTypes, EmptySeq, ConcatType DEF QueuedChecks, TypeOK
  <2>3. toServer' \in Seq(ClientMessages) /\ toClient' \in Seq(ServerMessages)
    BY <2>2, SendType, Received DEF TypeOK
  <2>. QED  BY <2>1, <2>3 DEF TypeOK, States, ConnectedChecked, feed, server, bounds
<1>2. LinkOK' /\ PacketsContiguous' /\ ItemsExactlyOnce'
  BY OtherReceived, ItemsUnchanged DEF LinkOK, Receive, server
<1>. QED  BY <1>1, <1>2

\* RoomUpdate adds checked locations and changes no item.
LEMMA RoomUpdateInv == ASSUME Inv, onRoomUpdate PROVE Inv'
<1>. USE DEF Inv, onRoomUpdate
<1>1. TypeOK'
  <2>1. Head(toClient).checked \subseteq Locations
    BY Received DEF ServerMessages
  <2>. QED  BY <2>1, Received DEF TypeOK, feed, server, history, bounds
<1>2. LinkOK' /\ PacketsContiguous' /\ ItemsExactlyOnce'
  BY OtherReceived, ItemsUnchanged DEF LinkOK, Receive, server
<1>. QED  BY <1>1, <1>2

\* Retrieved recalls the bosses, may announce the victory and changes no item.
LEMMA RetrievedInv == ASSUME Inv, onRetrieved PROVE Inv'
<1>. USE DEF Inv, onRetrieved
<1>1. TypeOK'
  <2>1. Head(toClient).done \subseteq Episodes
    BY Received DEF ServerMessages
  <2>2. retrieved \in Seq(ClientMessages)
    BY ClientMessageTypes, EmptySeq DEF retrieved, ap_announce_victory
  <2>3. toServer' \in Seq(ClientMessages) /\ toClient' \in Seq(ServerMessages)
    BY <2>2, SendType, Received DEF TypeOK
  <2>. QED  BY <2>1, <2>3 DEF TypeOK, feed, server, history, bounds
<1>2. LinkOK' /\ PacketsContiguous' /\ ItemsExactlyOnce'
  BY OtherReceived, ItemsUnchanged DEF LinkOK, Receive, server
<1>. QED  BY <1>1, <1>2

(***************************************************************************)
(* A packet of items: exactly the positions from the mark to the new mark. *)
(***************************************************************************)
\* The items of a contiguous packet the handler takes are those beyond the mark.
LEMMA NewPositions ==
    ASSUME Inv, onReceivedItems
    PROVE  \E n \in 0..Len(srvItems), p \in 0..Len(srvItems) :
             /\ ap_last_item_index = n - 1 /\ ap_last_item_index' = p - 1 /\ n <= p
             /\ NewIn(Head(toClient)) = n + 1 .. p
             /\ Packet(1) /\ End(1) <= p
<1> DEFINE m == Head(toClient)
<1>1. Packet(1) /\ toClient[1] = m
  BY Received DEF onReceivedItems, Inv, Packet
<1>2. m.first \in Nat /\ m.count \in Nat
  BY <1>1, PacketType DEF Inv
<1>3. PICK n \in Int : n = ap_last_item_index + 1
  BY DEF Inv, TypeOK
<1>4. ap_last_item_index = n - 1 /\ n \in 0..Len(srvItems) /\ Len(srvItems) \in Nat
  BY <1>3, LenProperties DEF Inv, TypeOK
<1>5. m.first <= n /\ m.first + m.count <= Len(srvItems)
  <2>1. \A j \in Nat : Packet(j) => ~(j < 1)
    BY Received DEF Packet, onReceivedItems, Inv
  <2>. QED  BY <1>1, <1>3, <2>1 DEF Inv, PacketsContiguous, End
<1>6. NewIn(m) = n + 1 .. m.first + m.count
  <2>1. \A k \in Int : k - 1 > n - 1 <=> k >= n + 1
    BY <1>4
  <2>. QED  BY <1>2, <1>4, <1>5, <2>1 DEF NewIn, AllOf
<1>7. CASE m.first + m.count <= n
  <2>1. NewIn(m) = {} /\ NewIn(m) = n + 1 .. n
    BY <1>2, <1>4, <1>6, <1>7
  <2>2. ap_last_item_index' = n - 1
    BY <1>4, <2>1 DEF onReceivedItems, items_received, MarkAfter
  <2>3. End(1) <= n
    BY <1>1, <1>7 DEF End
  <2>. QED  BY <1>1, <1>4, <2>1, <2>2, <2>3
<1>8. CASE ~(m.first + m.count <= n)
  <2>1. n + 1 \in NewIn(m)
    BY <1>2, <1>4, <1>6, <1>8
  <2>2. ap_last_item_index' = m.first + m.count - 1
    BY <2>1 DEF onReceivedItems, items_received, MarkAfter
  <2>3. m.first + m.count \in 0..Len(srvItems)
    BY <1>2, <1>4, <1>5
  <2>. QED  BY <1>1, <1>2, <1>4, <1>6, <1>8, <2>2, <2>3 DEF End
<1>. QED  BY <1>7, <1>8

Copies(s, f, a, b) == Cardinality({k \in a..b : s[k] = f})

\* The copies of an item in two adjacent stretches of a sequence add up.
LEMMA CopiesAdd ==
    ASSUME NEW s, NEW f, NEW n \in Nat, NEW p \in Nat, n <= p
    PROVE  /\ Copies(s, f, 1, p) = Copies(s, f, 1, n) + Copies(s, f, n + 1, p)
           /\ Copies(s, f, 1, n) \in Nat /\ Copies(s, f, n + 1, p) \in Nat
<1>. USE DEF Copies
<1> DEFINE C(a, b) == {k \in a..b : s[k] = f}
<1>1. IsFiniteSet(C(1, n)) /\ IsFiniteSet(C(n + 1, p))
  <2>1. IsFiniteSet(1..n) /\ IsFiniteSet(n + 1 .. p)
    BY FS_Interval
  <2>2. C(1, n) \subseteq 1..n /\ C(n + 1, p) \subseteq n + 1 .. p
    OBVIOUS
  <2>. QED  BY <2>1, <2>2, FS_Subset
<1>2. C(1, p) = C(1, n) \cup C(n + 1, p) /\ C(1, n) \cap C(n + 1, p) = {}
  OBVIOUS
<1>3. Cardinality(C(1, n)) \in Nat /\ Cardinality(C(n + 1, p)) \in Nat
  BY <1>1, FS_CardinalityType
<1>4. Cardinality(C(1, p)) = Cardinality(C(1, n)) + Cardinality(C(n + 1, p)) - Cardinality({})
  BY <1>1, <1>2, FS_Union
<1>. QED  BY <1>3, <1>4, FS_EmptySet

\* A packet gives each item beyond the mark its effect once and moves the mark to its end.
LEMMA ReceivedItemsInv == ASSUME SessionAssumption, Inv, onReceivedItems PROVE Inv'
<1> DEFINE m == Head(toClient)
<1>. USE DEF onReceivedItems
<1>1. PICK n \in 0..Len(srvItems), p \in 0..Len(srvItems) :
        /\ ap_last_item_index = n - 1 /\ ap_last_item_index' = p - 1 /\ n <= p
        /\ NewIn(m) = n + 1 .. p /\ Packet(1) /\ End(1) <= p
  BY NewPositions
<1>10. /\ Len(srvItems) \in Nat /\ n \in Nat /\ p \in Nat
      /\ ap_last_item_index + 1 = n /\ ap_last_item_index' + 1 = p
  BY <1>1, LenProperties DEF Inv, TypeOK
<1>2. /\ ap_items' = {i \in Items \ Filler : \E k \in 1..p : srvItems[k] = i}
      /\ ap_items' \subseteq Items
  <2>1. \A k \in 1..Len(srvItems) : srvItems[k] \in Items
    BY ElementOfSeq, LenProperties DEF Inv, TypeOK
  <2>2. ap_items' = ap_items \cup ({srvItems[k] : k \in n + 1 .. p} \ Filler)
    BY <1>10, <1>1 DEF items_received
  <2>3. ap_items = {i \in Items \ Filler : \E k \in 1..n : srvItems[k] = i}
    BY <1>10 DEF Inv, ItemsExactlyOnce
  <2>. QED  BY <1>10, <1>1, <2>1, <2>2, <2>3
<1>3. /\ granted' = [f \in Filler |-> Cardinality({k \in 1..p : srvItems[k] = f})]
      /\ granted' \in [Filler -> Nat]
  <2>1. granted = [f \in Filler |-> Cardinality({k \in 1..n : srvItems[k] = f})]
    BY <1>10 DEF Inv, ItemsExactlyOnce
  <2>2. granted' = [f \in Filler |-> granted[f] + Cardinality({k \in NewIn(m) : srvItems[k] = f})]
    BY DEF items_received
  <2>3. ASSUME NEW f \in Filler
        PROVE  /\ granted'[f] = Cardinality({k \in 1..p : srvItems[k] = f})
               /\ granted'[f] \in Nat
    <3>2. /\ Copies(srvItems, f, 1, p) = Copies(srvItems, f, 1, n) + Copies(srvItems, f, n + 1, p)
          /\ Copies(srvItems, f, 1, n) \in Nat /\ Copies(srvItems, f, n + 1, p) \in Nat
      BY <1>10, <1>1, CopiesAdd
    <3>3. granted[f] = Copies(srvItems, f, 1, n)
      BY <2>1 DEF Copies
    <3>4. granted'[f] = granted[f] + Copies(srvItems, f, n + 1, p)
      BY <1>1, <2>2 DEF Copies
    <3>5. granted'[f] = Copies(srvItems, f, 1, p) /\ granted'[f] \in Nat
      BY <3>2, <3>3, <3>4
    <3>. QED  BY <3>5 DEF Copies
  <2>4. granted' = [f \in Filler |-> granted'[f]]
    BY <2>2
  <2>. QED  BY <2>3, <2>4
<1>4. TypeOK'
  <2>1. ap_last_item_index' \in -1 .. Len(srvItems') - 1
    BY <1>10, <1>1 DEF server
  <2>. QED  BY <1>2, <1>3, <2>1, Received DEF Inv, TypeOK, client, server, history, bounds
<1>5. LinkOK'
  BY DEF Inv, LinkOK
<1>6. ItemsExactlyOnce'
  BY <1>10, <1>2, <1>3 DEF ItemsExactlyOnce, server
<1>7. PacketsContiguous'
  <2>1. /\ \A k \in Nat : Packet(k)' => /\ k + 1 \in Nat /\ Packet(k + 1)
                                        /\ End(k)' = End(k + 1)
                                        /\ toClient'[k] = toClient[k + 1]
        /\ \A k \in Nat : Packet(k) /\ k # 1 => /\ k - 1 \in Nat /\ Packet(k - 1)'
                                                /\ End(k - 1)' = End(k)
    BY PacketsShift DEF Inv
  <2>3. ASSUME NEW k \in Nat, Packet(k)'
        PROVE  /\ End(k)' <= Len(srvItems')
               /\ \/ toClient'[k].first <= p
                  \/ \E j \in Nat : Packet(j)' /\ j < k /\ toClient'[k].first <= End(j)'
    <3>1. Packet(k + 1) /\ End(k)' = End(k + 1) /\ toClient'[k] = toClient[k + 1]
      BY <2>1, <2>3
    <3>2. toClient[k + 1].first \in Nat
      BY <3>1, PacketType DEF Inv
    <3>3. End(1) \in Nat
      BY <1>10, <1>1, PacketType DEF Inv, End
    <3>4. End(k + 1) <= Len(srvItems)
      BY <3>1 DEF Inv, PacketsContiguous
    <3>5. CASE toClient[k + 1].first <= n
      BY <1>10, <1>1, <3>1, <3>2, <3>4, <3>5 DEF server
    <3>6. CASE \E j \in Nat : Packet(j) /\ j < k + 1 /\ toClient[k + 1].first <= End(j)
      <4>1. PICK j \in Nat : Packet(j) /\ j < k + 1 /\ toClient[k + 1].first <= End(j)
        BY <3>6
      <4>2. CASE j = 1
        BY <1>10, <1>1, <3>1, <3>2, <3>3, <3>4, <4>1, <4>2 DEF server
      <4>3. CASE j # 1
        BY <2>1, <3>1, <3>4, <4>1, <4>3 DEF server
      <4>. QED  BY <4>2, <4>3
    <3>. QED  BY <1>10, <3>1, <3>5, <3>6 DEF Inv, PacketsContiguous
  <2>4. srvAuth' => \/ Len(srvItems') = p
                    \/ \E k \in Nat : Packet(k)' /\ End(k)' = Len(srvItems')
    <3>1. CASE Len(srvItems) = n
      BY <1>10, <1>1, <3>1 DEF server
    <3>2. ASSUME NEW k \in Nat, Packet(k), End(k) = Len(srvItems)
          PROVE  Len(srvItems) = p \/ \E i \in Nat : Packet(i)' /\ End(i)' = Len(srvItems)
      <4>1. CASE k = 1
        BY <1>10, <1>1, <3>2, <4>1
      <4>2. CASE k # 1
        BY <2>1, <3>2, <4>2
      <4>. QED  BY <4>1, <4>2
    <3>. QED  BY <1>10, <3>1, <3>2 DEF Inv, PacketsContiguous, server
  <2>. QED  BY <1>10, <2>3, <2>4 DEF PacketsContiguous
<1>. QED  BY <1>4, <1>5, <1>6, <1>7 DEF Inv

(***************************************************************************)
(* What the server sends.                                                  *)
(***************************************************************************)
\* Appending to the list of items keeps the positions the client has applied.
LEMMA PrefixKept ==
    ASSUME TypeOK, ItemsExactlyOnce, NEW new \in Seq(Items), srvItems' = srvItems \o new,
           UNCHANGED feed
    PROVE  /\ ItemsExactlyOnce' /\ srvItems' \in Seq(Items)
           /\ Len(srvItems') = Len(srvItems) + Len(new)
           /\ ap_last_item_index' \in -1 .. Len(srvItems') - 1
<1> DEFINE n == ap_last_item_index + 1
<1>1. /\ srvItems' \in Seq(Items) /\ Len(srvItems') = Len(srvItems) + Len(new)
      /\ \A k \in 1..Len(srvItems) : srvItems'[k] = srvItems[k]
      /\ Len(srvItems) \in Nat /\ Len(new) \in Nat
  BY ConcatProperties, LenProperties DEF TypeOK
<1>2. ap_last_item_index \in Int /\ n <= Len(srvItems) /\ UNCHANGED <<ap_last_item_index, ap_items, granted>>
  BY <1>1 DEF TypeOK, feed
<1>3. \A i : {k \in 1..n : srvItems'[k] = i} = {k \in 1..n : srvItems[k] = i}
  BY <1>1, <1>2
<1>4. {i \in Items \ Filler : \E k \in 1..n : srvItems'[k] = i}
        = {i \in Items \ Filler : \E k \in 1..n : srvItems[k] = i}
  BY <1>1, <1>2
<1>5. ItemsExactlyOnce'
  <2>1. \A f \in Filler : granted'[f] = Cardinality({k \in 1..n' : srvItems'[k] = f})
    BY <1>2, <1>3 DEF ItemsExactlyOnce
  <2>2. granted' = [f \in Filler |-> granted'[f]]
    BY <1>2 DEF ItemsExactlyOnce
  <2>3. ap_items' = {i \in Items \ Filler : \E k \in 1..n' : srvItems'[k] = i}
    BY <1>2, <1>4 DEF ItemsExactlyOnce
  <2>. QED  BY <2>1, <2>2, <2>3 DEF ItemsExactlyOnce
<1>. QED  BY <1>1, <1>2, <1>5 DEF TypeOK

\* Messages added at the end keep the place and the content of those before.
LEMMA Extended ==
    ASSUME TypeOK, NEW more \in Seq(ServerMessages), toClient' = toClient \o more
    PROVE  \E L \in Nat :
           /\ L = Len(toClient) /\ Len(more) \in Nat
           /\ \A k \in Nat : Packet(k) => /\ k <= L /\ Packet(k)'
                                          /\ toClient'[k] = toClient[k] /\ End(k)' = End(k)
           /\ \A k \in Nat : Packet(k)' => \/ Packet(k)
                                           \/ \E i \in 1..Len(more) : /\ k = L + i
                                                                      /\ more[i].type = "ReceivedItems"
           /\ \A i \in 1..Len(more) :
                /\ toClient'[L + i] = more[i]
                /\ L + i \in Nat
                /\ Packet(L + i)' <=> more[i].type = "ReceivedItems"
                /\ End(L + i)' = more[i].first + more[i].count
<1>0. PICK L \in Nat : L = Len(toClient)
  BY LenProperties DEF TypeOK
<1>1. /\ toClient' \in Seq(ServerMessages) /\ Len(toClient') = L + Len(more)
      /\ \A i \in 1..L + Len(more) :
           toClient'[i] = IF i <= L THEN toClient[i] ELSE more[i - L]
  BY <1>0, ConcatProperties DEF TypeOK
<1>2. /\ L \in Nat /\ Len(more) \in Nat /\ DOMAIN toClient = 1..L
      /\ DOMAIN toClient' = 1..L + Len(more)
  BY <1>0, <1>1, LenProperties DEF TypeOK
<1>3. ASSUME NEW i \in 1..Len(more)
      PROVE  /\ L + i \in 1..L + Len(more)
             /\ toClient'[L + i] = more[i]
  <2>1. L + i \in 1..L + Len(more) /\ ~(L + i <= L)
        /\ (L + i) - L = i
    BY <1>2
  <2>. QED  BY <1>1, <2>1
<1>4. ASSUME NEW k \in Nat, Packet(k)
      PROVE  /\ k <= L /\ Packet(k)' /\ toClient'[k] = toClient[k] /\ End(k)' = End(k)
  BY <1>1, <1>2, <1>4 DEF Packet, End
<1>5. ASSUME NEW k \in Nat, Packet(k)', ~Packet(k)
      PROVE  \E i \in 1..Len(more) : k = L + i /\ more[i].type = "ReceivedItems"
  <2>1. ~(k <= L)
    BY <1>1, <1>2, <1>5 DEF Packet
  <2>2. k - L \in 1..Len(more) /\ k = L + (k - L)
    BY <1>2, <1>5, <2>1 DEF Packet
  <2>. QED  BY <1>3, <1>5, <2>2 DEF Packet
<1>6. ASSUME NEW i \in 1..Len(more)
      PROVE  /\ L + i \in Nat
             /\ Packet(L + i)' <=> more[i].type = "ReceivedItems"
             /\ End(L + i)' = more[i].first + more[i].count
  BY <1>2, <1>3 DEF Packet, End
<1>. QED  BY <1>0, <1>2, <1>3, <1>4, <1>5, <1>6

\* If they are no packets they change nothing.
LEMMA NoPacketAdded ==
    ASSUME TypeOK, PacketsContiguous, NEW more \in Seq(ServerMessages),
           \A i \in 1..Len(more) : more[i].type # "ReceivedItems",
           toClient' = toClient \o more, UNCHANGED <<feed, srvItems, srvAuth>>
    PROVE  PacketsContiguous'
<1>1. \A k \in Nat : /\ Packet(k)' <=> Packet(k)
                     /\ Packet(k) => toClient'[k] = toClient[k] /\ End(k)' = End(k)
  BY Extended
<1>. QED  BY <1>1 DEF PacketsContiguous, feed

\* A packet that reaches the end of the list, from the end of the old list or from the
\* start, continues the list.
LEMMA PacketAdded ==
    ASSUME Inv, NEW more \in Seq(ServerMessages), NEW p \in 1..Len(more),
           \A i \in 1..Len(more) : more[i].type = "ReceivedItems" <=> i = p,
           more[p].first + more[p].count = Len(srvItems'), Len(srvItems') >= Len(srvItems),
           more[p].first = 0 \/ (srvAuth /\ more[p].first = Len(srvItems)),
           toClient' = toClient \o more, UNCHANGED feed, Len(srvItems') \in Nat
    PROVE  PacketsContiguous'
<1>0. Len(srvItems) \in Nat /\ ap_last_item_index \in Int /\ ap_last_item_index >= -1
  BY LenProperties DEF Inv, TypeOK
<1>1. PICK last \in Nat :
        /\ Packet(last)' /\ End(last)' = Len(srvItems')
        /\ toClient'[last].first = more[p].first
        /\ \A k \in Nat : Packet(k)' => Packet(k) \/ k = last
        /\ \A k \in Nat : Packet(k) => /\ k < last /\ Packet(k)' /\ toClient'[k] = toClient[k]
                                       /\ End(k)' = End(k)
  <2>1. PICK L \in Nat :
           /\ \A k \in Nat : Packet(k) => /\ k <= L /\ Packet(k)'
                                          /\ toClient'[k] = toClient[k] /\ End(k)' = End(k)
           /\ \A k \in Nat : Packet(k)' => \/ Packet(k)
                                           \/ \E i \in 1..Len(more) : /\ k = L + i
                                                                      /\ more[i].type = "ReceivedItems"
           /\ \A i \in 1..Len(more) :
                /\ toClient'[L + i] = more[i]
                /\ L + i \in Nat
                /\ Packet(L + i)' <=> more[i].type = "ReceivedItems"
                /\ End(L + i)' = more[i].first + more[i].count
    BY Extended DEF Inv
  <2> DEFINE last == L + p
  <2>2. L \in Nat /\ p \in Int /\ p >= 1 /\ last \in Nat
    BY <2>1
  <2>3. ASSUME NEW k \in Nat, Packet(k)
        PROVE  k < last /\ Packet(k)' /\ toClient'[k] = toClient[k] /\ End(k)' = End(k)
    <3>1. k <= L /\ Packet(k)' /\ toClient'[k] = toClient[k] /\ End(k)' = End(k)
      BY <2>1, <2>3
    <3>2. k < last
      BY <2>2, <3>1
    <3>. QED  BY <3>1, <3>2
  <2>4. ASSUME NEW k \in Nat, Packet(k)', ~Packet(k)
        PROVE  k = last
    BY <2>1, <2>4
  <2>5. /\ Packet(last)' /\ End(last)' = Len(srvItems')
        /\ toClient'[last].first = more[p].first
    BY <2>1
  <2>. HIDE DEF last
  <2>. QED  BY <2>2, <2>3, <2>4, <2>5
<1>2. ASSUME NEW k \in Nat, Packet(k)
      PROVE  /\ End(k)' <= Len(srvItems')
             /\ \/ toClient'[k].first <= ap_last_item_index' + 1
                \/ \E j \in Nat : Packet(j)' /\ j < k /\ toClient'[k].first <= End(j)'
  <2>0. End(k) <= Len(srvItems)
    BY <1>2 DEF Inv, PacketsContiguous
  <2>1. End(k) \in Nat /\ End(k) <= Len(srvItems)
    BY <1>2, <2>0, PacketType DEF Inv, End
  <2>2. End(k)' <= Len(srvItems')
    BY <1>0, <1>1, <1>2, <2>1
  <2>. QED  BY <1>1, <1>2, <2>2 DEF Inv, PacketsContiguous, feed
<1>3. \/ toClient'[last].first <= ap_last_item_index' + 1
      \/ \E j \in Nat : Packet(j)' /\ j < last /\ toClient'[last].first <= End(j)'
  <2>1. CASE more[p].first = 0
    BY <1>0, <1>1, <2>1 DEF feed
  <2>2. CASE more[p].first = Len(srvItems) /\ Len(srvItems) = ap_last_item_index + 1
    BY <1>0, <1>1, <2>2 DEF feed
  <2>3. ASSUME NEW j \in Nat, Packet(j), End(j) = Len(srvItems), more[p].first = Len(srvItems)
        PROVE  Packet(j)' /\ j < last /\ toClient'[last].first <= End(j)'
    <3>1. Packet(j)' /\ j < last /\ End(j)' = End(j)
      BY <1>1, <2>3
    <3>2. toClient'[last].first = Len(srvItems)
      BY <1>1, <2>3
    <3>3. toClient'[last].first <= End(j)'
      BY <1>0, <2>3, <3>1, <3>2
    <3>. QED  BY <3>1, <3>3
  <2>. QED  BY <2>1, <2>2, <2>3 DEF Inv, PacketsContiguous
<1>4. End(last)' <= Len(srvItems')
  BY <1>1
<1>5. ASSUME NEW k \in Nat, Packet(k)'
      PROVE  /\ End(k)' <= Len(srvItems')
             /\ \/ toClient'[k].first <= ap_last_item_index' + 1
                \/ \E j \in Nat : Packet(j)' /\ j < k /\ toClient'[k].first <= End(j)'
  <2>1. CASE Packet(k)
    BY <1>2, <2>1
  <2>2. CASE k = last
    BY <1>3, <1>4, <2>2
  <2>. QED  BY <1>1, <1>5, <2>1, <2>2
<1>6. \E k \in Nat : Packet(k)' /\ End(k)' = Len(srvItems')
  BY <1>1
<1>. QED  BY <1>5, <1>6 DEF PacketsContiguous

\* A change of the slot, told or not.
LEMMA TellInv ==
    ASSUME Inv, NEW new \in Seq(Items), NEW ls \in SUBSET Locations,
           srvItems' = srvItems \o new, Tell(ls, new), UNCHANGED <<feed, srvAuth>>
    PROVE  /\ PacketsContiguous' /\ ItemsExactlyOnce'
           /\ srvItems' \in Seq(Items) /\ toClient' \in Seq(ServerMessages)
           /\ ap_last_item_index' \in -1 .. Len(srvItems') - 1
<1>1. /\ ItemsExactlyOnce' /\ srvItems' \in Seq(Items)
      /\ Len(srvItems') = Len(srvItems) + Len(new)
      /\ ap_last_item_index' \in -1 .. Len(srvItems') - 1
  BY PrefixKept DEF Inv
<1>2. toClient' \in Seq(ServerMessages)
  BY TellType DEF Inv, TypeOK
<1>3. PacketsContiguous'
  <2>1. Len(srvItems) \in Nat /\ Len(new) \in Nat /\ toClient \in Seq(ServerMessages)
    BY LenProperties DEF Inv, TypeOK
  <2> DEFINE ri == [type |-> "ReceivedItems", first |-> Len(srvItems), count |-> Len(new)]
             ru == IF ls = {} THEN <<>> ELSE <<[type |-> "RoomUpdate", checked |-> ls]>>
  <2>2. ru \in Seq(ServerMessages) /\ Len(ru) \in 0..1
        /\ \A i \in 1..Len(ru) : ru[i].type # "ReceivedItems"
    <3>1. CASE ls = {}
      BY <3>1, EmptySeq
    <3>2. CASE ls # {}
      <4>1. ru = <<[type |-> "RoomUpdate", checked |-> ls]>> /\ ru \in Seq(ServerMessages)
        BY <3>2, ServerMessageTypes
      <4>. QED  BY <4>1
    <3>. QED  BY <3>1, <3>2
  <2>3. CASE ~srvAuth
    <3>1. UNCHANGED toClient
      BY <2>3 DEF Tell
    <3>2. \A k \in Nat : /\ Packet(k)' <=> Packet(k)
                         /\ Packet(k) => toClient'[k] = toClient[k] /\ End(k)' = End(k)
                                          /\ End(k) \in Nat
      BY <3>1, PacketType DEF Packet, End, Inv
    <3>3. \A k \in Nat : Packet(k) => End(k)' <= Len(srvItems')
      BY <1>1, <2>1, <3>2 DEF Inv, PacketsContiguous
    <3>. QED  BY <2>3, <3>2, <3>3 DEF Inv, PacketsContiguous, feed
  <2>4. CASE srvAuth /\ new = <<>>
    <3>1. UNCHANGED srvItems
      BY <2>4, ConcatEmptySeq DEF Inv, TypeOK
    <3>2. toClient' = toClient \o ru
      BY <2>1, <2>4, ConcatEmptySeq DEF Tell
    <3>. QED  BY <3>1, <3>2, <2>2, NoPacketAdded DEF Inv
  <2>5. CASE srvAuth /\ new # <<>>
    <3> DEFINE more == <<ri>> \o ru
    <3>1. <<ri>> \in Seq(ServerMessages) /\ Len(<<ri>>) = 1 /\ <<ri>>[1] = ri
      BY <2>1, ServerMessageTypes
    <3>2. /\ more \in Seq(ServerMessages) /\ Len(more) = 1 + Len(ru) /\ more[1] = ri
          /\ \A i \in 1..Len(ru) : more[i + 1] = ru[i]
      BY <2>2, <3>1, ConcatProperties
    <3>3. toClient' = toClient \o more
      BY <2>1, <2>2, <2>5, <3>1, ConcatAssociative DEF Tell
    <3>4. 1 \in 1..Len(more) /\ \A i \in 1..Len(more) : more[i].type = "ReceivedItems" <=> i = 1
      <4>1. \A i \in 1..Len(more) : i # 1 => i - 1 \in 1..Len(ru) /\ more[i] = ru[i - 1]
        BY <2>2, <3>2
      <4>. QED  BY <2>2, <3>2, <4>1
    <3>5. more[1].first = Len(srvItems) /\ more[1].count = Len(new)
      BY <3>2
    <3>6. /\ Len(srvItems') \in Nat /\ Len(srvItems') >= Len(srvItems)
          /\ more[1].first + more[1].count = Len(srvItems')
      BY <1>1, <2>1, <3>5
    <3>. HIDE DEF more
    <3>. QED  BY <2>5, <3>2, <3>3, <3>4, <3>5, <3>6, PacketAdded
  <2>. QED  BY <2>3, <2>4, <2>5
<1>. QED  BY <1>1, <1>2, <1>3

\* What ServerReads does to the queue of messages to the server.
LEMMA Read ==
    ASSUME TypeOK, NEW t, ServerReads(t)
    PROVE  /\ toServer' \in Seq(ClientMessages)
           /\ Head(toServer) \in ClientMessages /\ Head(toServer).type = t
BY HeadTailProperties DEF TypeOK, ServerReads

\* The replay of the whole list at Connect is a contiguous packet from the start.
LEMMA ServerConnectInv == ASSUME Inv, ServerConnect PROVE Inv'
<1>. USE DEF ServerConnect
<1> DEFINE co == [type |-> "Connected", checked |-> srvChecked]
           ri == [type |-> "ReceivedItems", first |-> 0, count |-> Len(srvItems)]
<1>1. /\ toClient \in Seq(ServerMessages) /\ Len(srvItems) \in Nat
      /\ <<co>> \in Seq(ServerMessages) /\ <<ri>> \in Seq(ServerMessages)
      /\ Len(<<co>>) = 1 /\ <<co>>[1] = co /\ Len(<<ri>>) = 1 /\ <<ri>>[1] = ri
  BY ServerMessageTypes, LenProperties DEF Inv, TypeOK
<1>2. /\ <<co>> \o <<ri>> \in Seq(ServerMessages) /\ Len(<<co>> \o <<ri>>) = 2
      /\ (<<co>> \o <<ri>>)[1] = co /\ (<<co>> \o <<ri>>)[2] = ri
  BY <1>1, ConcatProperties
<1>3. /\ srvItems = <<>> => toClient' = toClient \o <<co>>
      /\ srvItems # <<>> => toClient' = toClient \o (<<co>> \o <<ri>>)
  <2>1. toClient \o <<co>> \in Seq(ServerMessages)
    BY <1>1, ConcatType
  <2>2. CASE srvItems = <<>>
    BY <1>1, <2>1, <2>2, ConcatEmptySeq
  <2>3. CASE srvItems # <<>>
    BY <1>1, <2>3, ConcatAssociative
  <2>. QED  BY <2>2, <2>3
<1>4. TypeOK'
  <2>1. toClient' \in Seq(ServerMessages)
    BY <1>1, <1>2, <1>3, ConcatType
  <2>. QED  BY <2>1, Read DEF Inv, TypeOK, client, feed, server, history, bounds
<1>5. LinkOK'
  BY DEF Inv, LinkOK, ServerReads
<1>6. ItemsExactlyOnce'
  BY ItemsUnchanged DEF Inv, server
<1>7. PacketsContiguous'
  <2>1. CASE srvItems = <<>>
    <3>1. Len(srvItems) = 0 /\ ap_last_item_index = -1
      BY <2>1, EmptySeq DEF Inv, TypeOK
    <3>2. PICK L \in Nat :
           /\ \A k \in Nat : Packet(k) => /\ k <= L /\ Packet(k)'
                                          /\ toClient'[k] = toClient[k] /\ End(k)' = End(k)
           /\ \A k \in Nat : Packet(k)' => \/ Packet(k)
                                           \/ \E i \in 1..Len(<<co>>) : /\ k = L + i
                                                                        /\ <<co>>[i].type = "ReceivedItems"
      BY <1>1, <1>3, <2>1, Extended DEF Inv
    <3>3. \A k \in Nat : Packet(k)' <=> Packet(k)
      BY <1>1, <3>2
    <3>4. UNCHANGED <<srvItems, ap_last_item_index>>
      BY DEF feed, server
    <3>5. ASSUME NEW k \in Nat, Packet(k)'
          PROVE  /\ End(k)' <= Len(srvItems')
                 /\ \/ toClient'[k].first <= ap_last_item_index' + 1
                    \/ \E j \in Nat : Packet(j)' /\ j < k /\ toClient'[k].first <= End(j)'
      <4>1. Packet(k) /\ toClient'[k] = toClient[k] /\ End(k)' = End(k)
        BY <3>2, <3>3, <3>5
      <4>2. \A j \in Nat : Packet(j) => Packet(j)' /\ End(j)' = End(j)
        BY <3>2
      <4>. QED  BY <3>4, <4>1, <4>2 DEF Inv, PacketsContiguous
    <3>6. Len(srvItems') = ap_last_item_index' + 1
      BY <3>1, <3>4
    <3>. QED  BY <3>5, <3>6 DEF PacketsContiguous
  <2>2. CASE srvItems # <<>>
    <3> DEFINE more == <<co>> \o <<ri>>
    <3>1. /\ more \in Seq(ServerMessages) /\ 2 \in 1..Len(more)
          /\ \A i \in 1..Len(more) : more[i].type = "ReceivedItems" <=> i = 2
          /\ more[2].first = 0 /\ more[2].first + more[2].count = Len(srvItems)
      BY <1>1, <1>2
    <3>2. toClient' = toClient \o more /\ UNCHANGED srvItems
      BY <1>3, <2>2 DEF server
    <3>3. /\ Len(srvItems') \in Nat /\ Len(srvItems') >= Len(srvItems)
          /\ more[2].first + more[2].count = Len(srvItems') /\ UNCHANGED feed
      BY <1>1, <3>1, <3>2
    <3>4. more[2].first = 0 \/ (srvAuth /\ more[2].first = Len(srvItems))
      BY <3>1
    <3>. HIDE DEF more, ServerConnect
    <3>. QED  BY ONLY Inv, <3>1, <3>2, <3>3, <3>4, PacketAdded, Zenon
  <2>. QED  BY <2>1, <2>2
<1>. QED  BY <1>4, <1>5, <1>6, <1>7 DEF Inv

\* The items a check releases are appended to the list, and told as one packet.
LEMMA ServerLocationChecksAppends ==
    ASSUME SessionAssumption, Inv, ServerLocationChecks
    PROVE  /\ Head(toServer).locations \ srvChecked \subseteq Locations
           /\ toServer' \in Seq(ClientMessages) /\ UNCHANGED feed
           /\ \E items \in Seq(Items) :
                /\ srvItems' = srvItems \o items
                /\ Tell(Head(toServer).locations \ srvChecked, items)
<1> DEFINE new == Head(toServer).locations \ srvChecked
           own == {l \in new : l \in DOMAIN OwnItem}
<1>1. new \subseteq Locations /\ toServer' \in Seq(ClientMessages)
  BY Read DEF ServerLocationChecks, Inv, ClientMessages
<1>2. PICK order \in [1..Cardinality(own) -> own] :
        LET items == [i \in DOMAIN order |-> OwnItem[order[i]]] IN
        srvItems' = srvItems \o items /\ Tell(new, items)
  BY DEF ServerLocationChecks
<1> DEFINE items == [i \in 1..Cardinality(own) |-> OwnItem[order[i]]]
<1>3. items \in Seq(Items)
  <2>1. Cardinality(own) \in Nat
    BY <1>1, FS_Subset, FS_CardinalityType DEF SessionAssumption
  <2>2. items \in [1..Cardinality(own) -> Items]
    BY DEF SessionAssumption
  <2>. HIDE DEF items
  <2>. QED  BY <2>1, <2>2, SeqOfFunction
<1>4. srvItems' = srvItems \o items /\ Tell(new, items)
  BY <1>2
<1>. HIDE DEF items
<1>. QED  BY <1>1, <1>3, <1>4 DEF ServerLocationChecks

\* A check keeps the invariant: its packet continues the list.
LEMMA ServerLocationChecksInv ==
    ASSUME SessionAssumption, Inv, ServerLocationChecks PROVE Inv'
<1> DEFINE new == Head(toServer).locations \ srvChecked
<1>1. new \subseteq Locations /\ toServer' \in Seq(ClientMessages)
  BY ServerLocationChecksAppends
<1>4. PICK items \in Seq(Items) : srvItems' = srvItems \o items /\ Tell(new, items)
  BY ServerLocationChecksAppends
<1>5. /\ PacketsContiguous' /\ ItemsExactlyOnce'
      /\ srvItems' \in Seq(Items) /\ toClient' \in Seq(ServerMessages)
      /\ ap_last_item_index' \in -1 .. Len(srvItems') - 1
  <2>. HIDE DEF new
  <2>. QED  BY <1>1, <1>4, TellInv DEF ServerLocationChecks
<1>6. srvChecked' \subseteq Locations
  BY <1>1 DEF ServerLocationChecks, Inv, TypeOK
<1>7. TypeOK'
  BY <1>1, <1>5, <1>6 DEF ServerLocationChecks, Inv, TypeOK, client, feed, history, bounds
<1>8. LinkOK'
  BY DEF ServerLocationChecks, Inv, LinkOK
<1>. QED  BY <1>5, <1>7, <1>8 DEF Inv

\* The answer from the DataStorage is no packet of items.
LEMMA ServerGetInv == ASSUME Inv, ServerGet PROVE Inv'
<1>. USE DEF ServerGet, Inv
<1> DEFINE re == [type |-> "Retrieved", done |-> srvDone]
<1>1. <<re>> \in Seq(ServerMessages) /\ Len(<<re>>) = 1 /\ <<re>>[1] = re
  BY ServerMessageTypes DEF TypeOK
<1>2. toClient' = toClient \o <<re>>
  BY ServerMessageTypes, AppendIsConcat DEF TypeOK, ServerMessages
<1>3. toClient' \in Seq(ServerMessages)
  BY <1>1, <1>2, ConcatType DEF TypeOK
<1>4. TypeOK'
  BY <1>3, Read DEF TypeOK, client, feed, server, history, bounds
<1>5. LinkOK' /\ ItemsExactlyOnce'
  BY ItemsUnchanged DEF LinkOK, server
<1>6. PacketsContiguous'
  <2>1. \A i \in 1..Len(<<re>>) : <<re>>[i].type # "ReceivedItems"
    BY <1>1
  <2>2. UNCHANGED <<feed, srvItems, srvAuth>>
    BY DEF server
  <2>. HIDE DEF re
  <2>. QED  BY <1>1, <1>2, <2>1, <2>2, NoPacketAdded
<1>. QED  BY <1>4, <1>5, <1>6

\* Storing a boss or a status answers nothing.
LEMMA ServerSetInv == ASSUME Inv, ServerSet \/ ServerStatusUpdate PROVE Inv'
<1>. USE DEF Inv
<1>1. CASE ServerSet
  <2>1. Head(toServer).episode \in Episodes
    BY <1>1, Read DEF ServerSet, ClientMessages
  <2>2. TypeOK'
    BY <1>1, <2>1, Read DEF ServerSet, TypeOK, client, feed, history, bounds
  <2>. QED  BY <1>1, <2>2, FeedUnchanged DEF ServerSet, LinkOK
<1>2. CASE ServerStatusUpdate
  <2>1. TypeOK'
    BY <1>2, Read DEF ServerStatusUpdate, TypeOK, client, feed, history, bounds
  <2>. QED  BY <1>2, <2>1, FeedUnchanged DEF ServerStatusUpdate, LinkOK
<1>. QED  BY <1>1, <1>2

\* An item of another slot is appended and told as one packet.
LEMMA ServerGrantInv == ASSUME Inv, NEW i \in Items, ServerGrant(i) PROVE Inv'
<1>1. <<i>> \in Seq(Items) /\ srvItems' = srvItems \o <<i>> /\ Tell({}, <<i>>)
  BY OneMessage, AppendIsConcat DEF ServerGrant, Inv, TypeOK
<1>2. /\ PacketsContiguous' /\ ItemsExactlyOnce'
      /\ srvItems' \in Seq(Items) /\ toClient' \in Seq(ServerMessages)
      /\ ap_last_item_index' \in -1 .. Len(srvItems') - 1
  BY <1>1, TellInv DEF ServerGrant
<1>3. TypeOK' /\ LinkOK'
  BY <1>2 DEF ServerGrant, Inv, TypeOK, LinkOK, client, feed, history, bounds
<1>. QED  BY <1>2, <1>3 DEF Inv

\* A collection by another slot adds checked locations and no items to the list.
LEMMA ServerCollectInv ==
    ASSUME SessionAssumption, Inv, NEW l \in Collectable, ServerCollect(l) PROVE Inv'
<1>1. <<>> \in Seq(Items) /\ srvItems' = srvItems \o <<>> /\ Tell({l}, <<>>)
  BY ConcatEmptySeq, EmptySeq DEF ServerCollect, Inv, TypeOK
<1>2. {l} \subseteq Locations
  BY DEF SessionAssumption
<1>3. /\ PacketsContiguous' /\ ItemsExactlyOnce'
      /\ srvItems' \in Seq(Items) /\ toClient' \in Seq(ServerMessages)
      /\ ap_last_item_index' \in -1 .. Len(srvItems') - 1
  BY <1>1, <1>2, TellInv DEF ServerCollect
<1>4. TypeOK' /\ LinkOK'
  BY <1>2, <1>3 DEF ServerCollect, Inv, TypeOK, LinkOK, client, feed, history, bounds
<1>. QED  BY <1>3, <1>4 DEF Inv

(***************************************************************************)
(* The theorems.                                                           *)
(***************************************************************************)
\* Every step of the client, the link and the server keeps the invariant.
LEMMA NextInv == ASSUME SessionAssumption, Inv, [Next]_vars PROVE Inv'
<1>1. CASE UNCHANGED vars
  <2>1. TypeOK' /\ LinkOK'
    BY <1>1 DEF vars, Inv, TypeOK, LinkOK, client, feed, server, history, bounds
  <2>. QED  BY <1>1, <2>1, FeedUnchanged DEF Inv, vars, server
<1>2. CASE Game
  <2>1. ASSUME NEW l \in Locations, Collect(l) \/ ap_on_level_complete(l)  PROVE Inv'
    BY <2>1, CollectInv, LevelCompleteInv
  <2>. QED  BY <1>2, <2>1 DEF Game, SessionAssumption
<1>3. CASE \E e \in Episodes : ap_client_init(e)
  BY <1>3, LaunchInv
<1>4. CASE connect_socket \/ onopen \/ Cut \/ Closing \/ onclose
  BY <1>4, SocketInv
<1>5. CASE Handlers
  BY <1>5, RoomInfoInv, ConnectedInv, ReceivedItemsInv, RoomUpdateInv, RetrievedInv DEF Handlers
<1>6. CASE ServerReplies
  BY <1>6, ServerConnectInv, ServerLocationChecksInv, ServerGetInv, ServerSetInv DEF ServerReplies
<1>7. CASE Others
  BY <1>7, ServerGrantInv, ServerCollectInv DEF Others
<1>. QED  BY <1>1, <1>2, <1>3, <1>4, <1>5, <1>6, <1>7 DEF Next

\* The inductive invariant: types, the authenticated link, the packets on their way as
\* a contiguous continuation of the mark, and the effect of the items up to the mark.
THEOREM Invariance == Spec => []Inv
<1>1. Init => Inv
  BY InitInv, SessionAssumption
<1>2. Inv /\ [Next]_vars => Inv'
  BY NextInv, SessionAssumption
<1>. QED  BY <1>1, <1>2, PTL DEF Spec

\* The variables keep their types, and the mark stays within the server's list.
THEOREM TypeCorrect == Spec => []TypeOK
<1>1. Inv => TypeOK
  BY DEF Inv
<1>. QED  BY <1>1, Invariance, PTL

\* items_received (ap_client.cpp 214-246): through any number of reconnects, replays and
\* relaunches, the game has had the effect of every item up to its mark exactly once.
THEOREM ExactlyOnce == Spec => []ItemsExactlyOnce
<1>1. Inv => ItemsExactlyOnce
  BY DEF Inv
<1>. QED  BY <1>1, Invariance, PTL

(***************************************************************************)
(* The client implements the item feed.                                    *)
(***************************************************************************)
\* The feed holds the first items of the list: what it has taken, by count.
LEMMA HoldsNow ==
    ASSUME NEW n, ap_last_item_index + 1 = n, ItemsExactlyOnce PROVE Feed!Holds(n)
<1>1. granted = [f \in Filler |-> Feed!Copies(f, n)]
  <2>0. granted = [f \in Filler |-> Cardinality({k \in 1..n : srvItems[k] = f})]
    BY DEF ItemsExactlyOnce
  <2>1. ASSUME NEW f \in Filler  PROVE granted[f] = Feed!Copies(f, n)
    <3>1. granted[f] = Cardinality({k \in 1..n : srvItems[k] = f})
      BY <2>0
    <3>. QED  BY <3>1 DEF Feed!Copies, Feed!Cardinality, Cardinality
  <2>2. granted = [f \in Filler |-> granted[f]]
    BY DEF ItemsExactlyOnce
  <2>. QED  BY <2>1, <2>2
<1>2. ap_items = Feed!Permanent(n)
  BY DEF ItemsExactlyOnce, Feed!Permanent
<1>. QED  BY <1>1, <1>2 DEF Feed!Holds

\* The same of the feed after a step.
LEMMA HoldsNext ==
    ASSUME NEW n, ap_last_item_index' + 1 = n, ItemsExactlyOnce' PROVE Feed!Holds(n)'
<1>1. granted' = [f \in Filler |-> Feed!Copies(f, n)']
  <2>0. granted' = [f \in Filler |-> Cardinality({k \in 1..n : srvItems'[k] = f})]
    BY DEF ItemsExactlyOnce
  <2>1. ASSUME NEW f \in Filler  PROVE granted'[f] = Feed!Copies(f, n)'
    <3>1. granted'[f] = Cardinality({k \in 1..n : srvItems'[k] = f})
      BY <2>0
    <3>. QED  BY <3>1 DEF Feed!Copies, Feed!Cardinality, Cardinality
  <2>2. granted' = [f \in Filler |-> granted'[f]]
    BY DEF ItemsExactlyOnce
  <2>. QED  BY <2>1, <2>2
<1>2. ap_items' = Feed!Permanent(n)'
  BY DEF ItemsExactlyOnce, Feed!Permanent
<1>. QED  BY <1>1, <1>2 DEF Feed!Holds

\* A step that appends to the list and leaves the client's items alone.
LEMMA FeedSend ==
    ASSUME Inv, NEW new \in Seq(Items), srvItems' = srvItems \o new, UNCHANGED feed
    PROVE  [Feed!Next]_(Feed!feedVars)
<1>1. /\ srvItems' \in Seq(Items) /\ Len(srvItems') = Len(srvItems) + Len(new)
      /\ \A k \in 1..Len(srvItems) : srvItems'[k] = srvItems[k]
      /\ Len(srvItems) \in Nat /\ Len(new) \in Nat
  BY ConcatProperties, LenProperties DEF Inv, TypeOK
<1>2. UNCHANGED <<ap_last_item_index + 1, ap_items, granted>>
  BY DEF feed
<1>3. CASE new = <<>>
  <2>1. UNCHANGED srvItems
    BY <1>3, ConcatEmptySeq DEF Inv, TypeOK
  <2>. QED  BY <1>2, <2>1 DEF Feed!feedVars
<1>4. CASE new # <<>>
  <2>1. Len(new) > 0
    BY <1>4, EmptySeq, LenProperties
  <2>2. Feed!Send
    BY <1>1, <1>2, <2>1 DEF Feed!Send
  <2>. QED  BY <2>2 DEF Feed!Next
<1>. QED  BY <1>3, <1>4

\* A step that changes neither the list nor what was applied is a stutter of the feed.
LEMMA FeedStutter ==
    ASSUME UNCHANGED <<feed, srvItems>> PROVE [Feed!Next]_(Feed!feedVars)
BY DEF feed, Feed!feedVars

\* Receiving a packet is one Apply of the feed.
LEMMA FeedApply ==
    ASSUME Inv, Inv', onReceivedItems PROVE [Feed!Next]_(Feed!feedVars)
<1>1. PICK n \in 0..Len(srvItems), p \in 0..Len(srvItems) :
        /\ ap_last_item_index = n - 1 /\ ap_last_item_index' = p - 1 /\ n <= p
  BY NewPositions
<1>2. /\ Len(srvItems) \in Nat /\ ap_last_item_index + 1 = n /\ ap_last_item_index' + 1 = p
      /\ n \in Nat /\ p \in Nat
  BY <1>1, LenProperties DEF Inv, TypeOK
<1>3. UNCHANGED srvItems
  BY DEF onReceivedItems, server
<1>4. Feed!Holds(p)'
  BY <1>2, HoldsNext DEF Inv
<1>5. CASE n = p
  <2>1. ap_items' = ap_items /\ granted' = granted
    BY <1>2, <1>3, <1>5 DEF Inv, ItemsExactlyOnce
  <2>. QED  BY <1>2, <1>3, <1>5, <2>1 DEF Feed!feedVars
<1>6. CASE n # p
  <2>1. p \in (ap_last_item_index + 1) + 1 .. Len(srvItems)
    BY <1>1, <1>2, <1>6
  <2>2. Feed!Apply
    BY <1>3, <1>4, <2>1 DEF Feed!Apply
  <2>. QED  BY <2>2 DEF Feed!Next
<1>. QED  BY <1>5, <1>6

\* Every step of the session is a step of the feed or a stutter.
LEMMA FeedStep ==
    ASSUME SessionAssumption, Inv, Inv', [Next]_vars PROVE [Feed!Next]_(Feed!feedVars)
<1>1. CASE UNCHANGED vars
  BY <1>1, FeedStutter DEF vars, server
<1>2. CASE Game
  BY <1>2, FeedStutter DEF Game, Collect, ap_on_level_complete, server
<1>3. ASSUME NEW e \in Episodes, ap_client_init(e)  PROVE Feed!Next
  <2>1. Feed!Holds(0)'
    BY <1>3, HoldsNext DEF ap_client_init, Inv
  <2>2. UNCHANGED srvItems
    BY <1>3 DEF ap_client_init, server
  <2>. QED  BY <2>1, <2>2 DEF Feed!Relaunch, Feed!Next
<1>4. CASE connect_socket \/ onopen \/ Cut \/ Closing \/ onclose
  BY <1>4, FeedStutter DEF connect_socket, onopen, Cut, Closing, onclose, server
<1>5. CASE onRoomInfo \/ onConnected \/ onRoomUpdate \/ onRetrieved
  BY <1>5, FeedStutter DEF onRoomInfo, onConnected, onRoomUpdate, onRetrieved, server
<1>6. CASE onReceivedItems
  BY <1>6, FeedApply
<1>7. CASE ServerConnect \/ ServerGet \/ ServerSet \/ ServerStatusUpdate
  BY <1>7, FeedStutter DEF ServerConnect, ServerGet, ServerSet, ServerStatusUpdate, server
<1>8. CASE ServerLocationChecks
  BY <1>8, ServerLocationChecksAppends, FeedSend
<1>9. ASSUME NEW i \in Items, ServerGrant(i)  PROVE [Feed!Next]_(Feed!feedVars)
  <2>1. <<i>> \in Seq(Items) /\ srvItems' = srvItems \o <<i>> /\ UNCHANGED feed
    BY <1>9, OneMessage, AppendIsConcat DEF ServerGrant, Inv, TypeOK
  <2>. QED  BY <2>1, FeedSend
<1>10. CASE \E l \in Collectable : ServerCollect(l)
  BY <1>10, FeedStutter DEF ServerCollect
<1>. QED
  BY <1>1, <1>2, <1>3, <1>4, <1>5, <1>6, <1>7, <1>8, <1>9, <1>10
     DEF Next, Handlers, ServerReplies, Others

\* Seen from outside, the session behaves as the item feed: what a running game has of the
\* server's list is always a prefix of it, extended by packets and reset by a relaunch.
THEOREM ImplementsItemFeed == Spec => FeedSpec
<1>1. Init => Feed!Init
  <2>1. ASSUME Init PROVE Feed!Holds(0)
    <3>1. ItemsExactlyOnce
      BY <2>1, InitInv, SessionAssumption DEF Inv
    <3>2. ap_last_item_index + 1 = 0
      BY <2>1 DEF Init
    <3>. QED  BY <3>1, <3>2, HoldsNow
  <2>. QED  BY <2>1 DEF Init, Feed!Init
<1>2. Inv /\ Inv' /\ [Next]_vars => [Feed!Next]_(Feed!feedVars)
  BY FeedStep, SessionAssumption
<1>. QED  BY <1>1, <1>2, Invariance, PTL DEF Spec, FeedSpec, Feed!Spec

(***************************************************************************)
(* Proofs about APSession for all locations, episodes and bounds: no check *)
(* is forgotten, a check is suppressed only where the server knows of it,  *)
(* and the goal is announced only for bosses that were beaten.             *)
(*                                                                         *)
(* None of the three is inductive: what a handler records came in a        *)
(* message, and what the server records was in one.  The invariants follow *)
(* the claims through the queues of both directions; the order of the      *)
(* messages does not matter, so a queue is the set of its messages here.   *)
(***************************************************************************)

Msgs(s) == {s[k] : k \in DOMAIN s}

\* Every message that says what is checked, or which bosses are done, says no more than is so.
ToldIsTrue ==
    /\ \A m \in Msgs(toClient) :
         /\ m.type \in {"Connected", "RoomUpdate"} => m.checked \subseteq srvChecked
         /\ m.type = "Retrieved" => m.done \subseteq beaten
    /\ \A m \in Msgs(toServer) :
         /\ m.type = "Set" => m.episode \in beaten
         /\ m.type = "StatusUpdate" => Required \subseteq beaten

\* Nothing is on its way on a link that is not open.
NothingOnClosed == link # "open" => toServer = <<>>

\* What the client believes checked is accounted for as what the player collected is.
KnownAccountedFor == checkedLocations \subseteq srvChecked \cup InFlight \cup checkQueue \cup lost

Claims == ToldIsTrue /\ NothingOnClosed /\ KnownAccountedFor
          /\ SuppressedIsKnown /\ ChecksAccountedFor /\ NoFalseVictory

(***************************************************************************)
(* Queues as sets of messages.                                             *)
(***************************************************************************)
\* The messages of two queues joined, of a queue of none and of one.
LEMMA MsgsOf ==
    /\ \A S : \A s, t \in Seq(S) : Msgs(s \o t) = Msgs(s) \cup Msgs(t)
    /\ Msgs(<<>>) = {} /\ \A m : Msgs(<<m>>) = {m}
<1>1. ASSUME NEW S, NEW s \in Seq(S), NEW t \in Seq(S)
      PROVE  Msgs(s \o t) = Msgs(s) \cup Msgs(t)
  <2>1. /\ Len(s) \in Nat /\ Len(t) \in Nat /\ DOMAIN s = 1..Len(s) /\ DOMAIN t = 1..Len(t)
        /\ DOMAIN (s \o t) = 1..(Len(s) + Len(t))
    BY LenProperties, ConcatProperties
  <2>2. \A k \in 1..(Len(s) + Len(t)) :
          (s \o t)[k] = IF k <= Len(s) THEN s[k] ELSE t[k - Len(s)]
    BY ConcatProperties
  <2>3. \A k \in 1..Len(s) : k \in 1..(Len(s) + Len(t)) /\ (s \o t)[k] = s[k]
    BY <2>1, <2>2
  <2>4. \A k \in 1..Len(t) : /\ k + Len(s) \in 1..(Len(s) + Len(t))
                             /\ (s \o t)[k + Len(s)] = t[k]
    <3>1. ASSUME NEW k \in 1..Len(t)
          PROVE  /\ k + Len(s) \in 1..(Len(s) + Len(t)) /\ ~(k + Len(s) <= Len(s))
                 /\ (k + Len(s)) - Len(s) = k
      BY <2>1
    <3>. QED  BY <2>2, <3>1
  <2>5. \A k \in 1..(Len(s) + Len(t)) : ~(k <= Len(s)) => k - Len(s) \in 1..Len(t)
    BY <2>1
  <2>6. ASSUME NEW k \in DOMAIN (s \o t) PROVE (s \o t)[k] \in Msgs(s) \cup Msgs(t)
    <3>1. CASE k <= Len(s)
      <4>1. k \in 1..Len(s)
        BY <2>1, <2>6, <3>1
      <4>. QED  BY <2>1, <2>3, <4>1 DEF Msgs
    <3>2. CASE ~(k <= Len(s))
      <4>1. k - Len(s) \in 1..Len(t) /\ (s \o t)[k] = t[k - Len(s)]
        BY <2>1, <2>2, <2>5, <3>2
      <4>. QED  BY <2>1, <4>1 DEF Msgs
    <3>. QED  BY <3>1, <3>2
  <2>7. Msgs(s) \subseteq Msgs(s \o t) /\ Msgs(t) \subseteq Msgs(s \o t)
    BY <2>1, <2>3, <2>4 DEF Msgs
  <2>8. Msgs(s \o t) \subseteq Msgs(s) \cup Msgs(t)
    BY <2>6 DEF Msgs
  <2>. QED  BY <2>7, <2>8
<1>2. Msgs(<<>>) = {} /\ \A m : Msgs(<<m>>) = {m}
  BY DEF Msgs
<1>. QED  BY <1>1, <1>2

\* A queue is its head and the messages behind it.
LEMMA MsgsBehind ==
    ASSUME NEW S, NEW s \in Seq(S), s # <<>>
    PROVE  Msgs(s) = {Head(s)} \cup Msgs(Tail(s))
<1>1. s = <<Head(s)>> \o Tail(s) /\ Head(s) \in S /\ Tail(s) \in Seq(S)
  BY HeadTailProperties, ConcatProperties
<1>2. <<Head(s)>> \in Seq(S)
  BY <1>1, OneMessage
<1>3. Msgs(<<Head(s)>> \o Tail(s)) = Msgs(<<Head(s)>>) \cup Msgs(Tail(s))
  <2> DEFINE h == <<Head(s)>>
             t == Tail(s)
  <2>1. h \in Seq(S) /\ t \in Seq(S)
    BY <1>1, <1>2
  <2> HIDE DEF h, t
  <2>2. Msgs(h \o t) = Msgs(h) \cup Msgs(t)
    BY <2>1, MsgsOf
  <2>. QED  BY <2>2 DEF h, t
<1>4. Msgs(<<Head(s)>>) = {Head(s)}
  BY MsgsOf
<1>. QED  BY <1>1, <1>3, <1>4

\* What is in flight, by the messages that carry it, now and after a step.
LEMMA InFlightIs ==
    /\ \A l : l \in InFlight
               <=> \E m \in Msgs(toServer) : m.type = "LocationChecks" /\ l \in m.locations
    /\ \A l : l \in InFlight'
               <=> \E m \in Msgs(toServer') : m.type = "LocationChecks" /\ l \in m.locations
BY DEF InFlight, Msgs

\* What the client sends joins the queue of an open link, and that of no other.
LEMMA Sent ==
    ASSUME TypeOK, NEW msgs \in Seq(ClientMessages), Send(msgs)
    PROVE  Msgs(toServer') = IF link = "open" THEN Msgs(toServer) \cup Msgs(msgs)
                             ELSE Msgs(toServer)
<1>1. toServer \in Seq(ClientMessages)
  BY DEF TypeOK
<1>2. Msgs(toServer \o msgs) = Msgs(toServer) \cup Msgs(msgs)
  BY <1>1, MsgsOf
<1>. QED  BY <1>2 DEF Send

\* The message a handler takes, and those it leaves.
LEMMA Taken ==
    ASSUME TypeOK, NEW t, Receive(t)
    PROVE  /\ Head(toClient) \in Msgs(toClient) /\ Head(toClient).type = t
           /\ Msgs(toClient') \subseteq Msgs(toClient)
<1>1. toClient \in Seq(ServerMessages) /\ toClient # <<>> /\ toClient' = Tail(toClient)
  BY DEF TypeOK, Receive
<1>2. Msgs(toClient) = {Head(toClient)} \cup Msgs(Tail(toClient))
  BY <1>1, MsgsBehind
<1>. QED  BY <1>1, <1>2 DEF Receive

\* The message the server takes, and those it leaves.
LEMMA TakenByServer ==
    ASSUME TypeOK, NEW t, ServerReads(t)
    PROVE  /\ Head(toServer) \in Msgs(toServer) /\ Head(toServer).type = t
           /\ Msgs(toServer') \subseteq Msgs(toServer)
           /\ Msgs(toServer) = {Head(toServer)} \cup Msgs(toServer')
<1>1. toServer \in Seq(ClientMessages) /\ toServer # <<>> /\ toServer' = Tail(toServer)
  BY DEF TypeOK, ServerReads
<1>2. Msgs(toServer) = {Head(toServer)} \cup Msgs(Tail(toServer))
  BY <1>1, MsgsBehind
<1>. QED  BY <1>1, <1>2 DEF ServerReads

\* What the server tells of a change joins the queue.
LEMMA Told ==
    ASSUME TypeOK, NEW ls \in SUBSET Locations, NEW new \in Seq(Items), Tell(ls, new)
    PROVE  \A m \in Msgs(toClient') :
             \/ m \in Msgs(toClient)
             \/ m.type = "ReceivedItems"
             \/ m.type = "RoomUpdate" /\ m.checked = ls
<1> DEFINE ri == IF new = <<>> THEN <<>> ELSE
                 <<[type |-> "ReceivedItems", first |-> Len(srvItems), count |-> Len(new)]>>
           ru == IF ls = {} THEN <<>> ELSE <<[type |-> "RoomUpdate", checked |-> ls]>>
<1>1. toClient \in Seq(ServerMessages) /\ srvItems \in Seq(Items)
  BY DEF TypeOK
<1>2. ri \in Seq(ServerMessages) /\ ru \in Seq(ServerMessages)
  BY <1>1, ServerMessageTypes, LenProperties, EmptySeq
<1>3. /\ \A m \in Msgs(ri) : m.type = "ReceivedItems"
      /\ \A m \in Msgs(ru) : m.type = "RoomUpdate" /\ m.checked = ls
  <2>1. Msgs(ri) \subseteq {[type |-> "ReceivedItems", first |-> Len(srvItems), count |-> Len(new)]}
    BY MsgsOf
  <2>2. Msgs(ru) \subseteq {[type |-> "RoomUpdate", checked |-> ls]}
    BY MsgsOf
  <2>. QED  BY <2>1, <2>2
<1>4. toClient' = toClient \/ toClient' = toClient \o ri \o ru
  BY DEF Tell
<1> HIDE DEF ri, ru
<1>5. toClient \o ri \in Seq(ServerMessages)
  BY <1>1, <1>2, ConcatType
<1>6. Msgs(toClient \o ri \o ru) = Msgs(toClient) \cup Msgs(ri) \cup Msgs(ru)
  <2>1. Msgs(toClient \o ri) = Msgs(toClient) \cup Msgs(ri)
    BY <1>1, <1>2, MsgsOf
  <2> DEFINE q == toClient \o ri
  <2> HIDE DEF q
  <2>2. Msgs(q \o ru) = Msgs(q) \cup Msgs(ru)
    <3>1. q \in Seq(ServerMessages) /\ ru \in Seq(ServerMessages)
      BY <1>2, <1>5 DEF q
    <3>. QED  BY <3>1, MsgsOf
  <2>. QED  BY <2>1, <2>2 DEF q
<1>. QED  BY <1>3, <1>4, <1>6

(***************************************************************************)
(* The claims, action by action.                                           *)
(***************************************************************************)
\* No check is forgotten by a step that records none and forgets none of the places where
\* checks are.
LEMMA AccountsKept ==
    ASSUME Claims, UNCHANGED <<collected, checkedLocations>>,
           srvChecked \cup InFlight \cup checkQueue \cup lost
             \subseteq srvChecked' \cup InFlight' \cup checkQueue' \cup lost'
    PROVE  KnownAccountedFor' /\ ChecksAccountedFor'
BY DEF Claims, KnownAccountedFor, ChecksAccountedFor

\* A collected location is accounted for, whether its check is suppressed, queued, sent or
\* dropped (ap_client_location_check).
LEMMA CheckClaims ==
    ASSUME Claims, NEW l, ap_client_location_check(l),
           Msgs(toServer) \subseteq Msgs(toServer'),
           link = "open" => Msgs(CheckMsgs(l)) \subseteq Msgs(toServer'),
           UNCHANGED <<srvChecked, state, link>>
    PROVE  KnownAccountedFor' /\ ChecksAccountedFor' /\ SuppressedIsKnown'
<1>1. InFlight \subseteq InFlight'
  BY InFlightIs
<1>2. CASE l \in checkedLocations
  BY <1>1, <1>2 DEF Claims, ap_client_location_check, KnownAccountedFor, ChecksAccountedFor,
                    SuppressedIsKnown, SlotConnected
<1>3. CASE l \notin checkedLocations
  <2>1. /\ checkQueue' = IF SlotConnected THEN checkQueue ELSE checkQueue \cup {l}
        /\ checkedLocations' \subseteq checkedLocations \cup {l}
        /\ lost' = IF SlotConnected /\ link # "open" THEN lost \cup {l} ELSE lost
        /\ collected' = collected \cup {l}
    BY <1>3 DEF ap_client_location_check, LocationChecks
  <2>2. SlotConnected /\ link = "open" => l \in InFlight'
    <3>1. ASSUME SlotConnected, link = "open" PROVE l \in InFlight'
      <4>1. LocationChecksMsg({l}) \in Msgs(toServer')
        BY <1>3, <3>1, MsgsOf DEF CheckMsgs
      <4>2. LocationChecksMsg({l}).type = "LocationChecks" /\ l \in LocationChecksMsg({l}).locations
        BY DEF LocationChecksMsg
      <4>. QED  BY <4>1, <4>2, InFlightIs
    <3>. QED  BY <3>1
  <2>3. l \in srvChecked' \cup InFlight' \cup checkQueue' \cup lost'
    BY <2>1, <2>2
  <2>4. SuppressedIsKnown'
    BY <1>1, <2>1, <2>2 DEF Claims, SuppressedIsKnown, SlotConnected
  <2>. QED  BY <1>1, <2>1, <2>3, <2>4 DEF Claims, KnownAccountedFor, ChecksAccountedFor
<1>. QED  BY <1>2, <1>3

\* A goal on its way is a goal that is true.
LEMMA VictoryFrom ==
    ASSUME ToldIsTrue', local_done' \cup srvDone' \subseteq beaten',
           srvGoal' => Required \subseteq beaten'
    PROVE  NoFalseVictory'
BY DEF ToldIsTrue, NoFalseVictory, Msgs

\* A pickup.
LEMMA CollectClaims == ASSUME TypeOK, Claims, NEW l \in Locations, Collect(l) PROVE Claims'
<1>1. CheckMsgs(l) \in Seq(ClientMessages) /\ ap_client_location_check(l)
  BY CheckType DEF Collect
<1>2. Msgs(toServer') = IF link = "open" THEN Msgs(toServer) \cup Msgs(CheckMsgs(l))
                        ELSE Msgs(toServer)
  BY <1>1, Sent DEF Collect
<1>3. \A m \in Msgs(CheckMsgs(l)) : m.type = "LocationChecks"
  BY MsgsOf DEF CheckMsgs, LocationChecksMsg
<1>4. KnownAccountedFor' /\ ChecksAccountedFor' /\ SuppressedIsKnown'
  BY <1>1, <1>2, CheckClaims DEF Collect, server
<1>5. ToldIsTrue'
  BY <1>2, <1>3 DEF Collect, server, Claims, ToldIsTrue
<1>6. NothingOnClosed'
  BY DEF Collect, Send, Claims, NothingOnClosed
<1>7. NoFalseVictory'
  <2>1. (\E m \in Msgs(toServer') : m.type = "StatusUpdate") => Required \subseteq beaten
    BY <1>2, <1>3 DEF Claims, ToldIsTrue
  <2>. QED  BY <2>1 DEF Collect, server, Claims, NoFalseVictory, Msgs
<1>. QED  BY <1>4, <1>5, <1>6, <1>7 DEF Claims

\* A completed level: the boss that it marks is beaten, and the goal is announced from
\* beaten bosses only.
LEMMA LevelCompleteClaims ==
    ASSUME TypeOK, Claims, NEW l \in Locations, ap_on_level_complete(l) PROVE Claims'
<1> DEFINE set == IF ap_mark_boss_complete(l) = {} THEN <<>>
                  ELSE <<[type |-> "Set", episode |-> ap_current_episode]>>
           goal == ap_announce_victory(local_done')
           msgs == IF SlotConnected THEN CheckMsgs(l) \o set \o goal ELSE <<>>
<1>1. /\ ap_client_location_check(l) /\ Send(msgs)
      /\ local_done' = local_done \cup ap_mark_boss_complete(l)
      /\ beaten' = beaten \cup {e \in Episodes : l = BossLocation[e]}
      /\ UNCHANGED <<state, link, toClient, srvChecked, srvDone, srvGoal>>
  BY DEF ap_on_level_complete, server
<1>2. /\ CheckMsgs(l) \in Seq(ClientMessages) /\ set \in Seq(ClientMessages)
      /\ goal \in Seq(ClientMessages)
  BY CheckType, ClientMessageTypes, EmptySeq DEF ap_on_level_complete, TypeOK, ap_announce_victory
<1>3. beaten \subseteq beaten' /\ local_done' \subseteq beaten'
  BY <1>1 DEF ap_mark_boss_complete, Claims, NoFalseVictory
<1>4. \A m \in Msgs(set) : m.type = "Set" /\ m.episode \in beaten'
  <2>1. CASE ap_mark_boss_complete(l) = {}
    BY <2>1, MsgsOf
  <2>2. CASE ap_mark_boss_complete(l) # {}
    <3>1. ap_current_episode \in beaten'
      BY <1>1, <2>2 DEF ap_mark_boss_complete
    <3>2. Msgs(set) = {[type |-> "Set", episode |-> ap_current_episode]}
      BY <2>2, MsgsOf
    <3>. QED  BY <3>1, <3>2
  <2>. QED  BY <2>1, <2>2
<1>5. \A m \in Msgs(goal) : m.type = "StatusUpdate" /\ Required \subseteq beaten'
  BY <1>3, MsgsOf DEF ap_announce_victory
<1>6. \A m \in Msgs(CheckMsgs(l)) : m.type = "LocationChecks"
  BY MsgsOf DEF CheckMsgs, LocationChecksMsg
<1> HIDE DEF set, goal
<1>7. CheckMsgs(l) \o set \in Seq(ClientMessages) /\ (CheckMsgs(l) \o set) \o goal \in Seq(ClientMessages)
  BY <1>2, ConcatType
<1>8. Msgs((CheckMsgs(l) \o set) \o goal) = Msgs(CheckMsgs(l)) \cup Msgs(set) \cup Msgs(goal)
  <2> DEFINE c == CheckMsgs(l)
             q == c \o set
  <2> HIDE DEF c
  <2>1. c \in Seq(ClientMessages)
    BY <1>2 DEF c
  <2>2. Msgs(c \o set) = Msgs(c) \cup Msgs(set)
    BY <1>2, <2>1, MsgsOf
  <2>3. q \in Seq(ClientMessages)
    BY <1>7 DEF c
  <2> HIDE DEF q
  <2>4. Msgs(q \o goal) = Msgs(q) \cup Msgs(goal)
    BY <1>2, <2>3, MsgsOf
  <2>. QED  BY <2>2, <2>4 DEF c, q
<1>9. msgs \in Seq(ClientMessages)
  BY <1>7, EmptySeq
<1>10. Msgs(toServer') = IF link = "open" THEN Msgs(toServer) \cup Msgs(msgs) ELSE Msgs(toServer)
  BY <1>1, <1>9, Sent
<1>11. Msgs(msgs) \subseteq Msgs(CheckMsgs(l)) \cup Msgs(set) \cup Msgs(goal)
  BY <1>8, MsgsOf
<1>12. Msgs(CheckMsgs(l)) \subseteq Msgs(msgs)
  BY <1>8, MsgsOf DEF CheckMsgs
<1>13. NothingOnClosed'
  BY <1>1 DEF Send, Claims, NothingOnClosed
<1> HIDE DEF msgs
<1>14. KnownAccountedFor' /\ ChecksAccountedFor' /\ SuppressedIsKnown'
  BY <1>1, <1>10, <1>12, CheckClaims
<1>15. ToldIsTrue'
  <2>1. \A m \in Msgs(toServer') :
          /\ m.type = "Set" => m.episode \in beaten'
          /\ m.type = "StatusUpdate" => Required \subseteq beaten'
    BY <1>3, <1>4, <1>5, <1>6, <1>10, <1>11 DEF Claims, ToldIsTrue
  <2>. QED  BY <1>1, <1>3, <2>1 DEF Claims, ToldIsTrue
<1>16. NoFalseVictory'
  BY <1>1, <1>3, <1>15, VictoryFrom DEF Claims, NoFalseVictory
<1>. QED  BY <1>13, <1>14, <1>15, <1>16 DEF Claims

\* A launch forgets what the client knew and what was on its way.
LEMMA LaunchClaims == ASSUME Claims, NEW e \in Episodes, ap_client_init(e) PROVE Claims'
<1>1. /\ toServer' = <<>> /\ toClient' = <<>> /\ checkedLocations' = {} /\ collected' = {}
      /\ local_done' = {} /\ state' = "DISCONNECTED"
      /\ UNCHANGED <<srvDone, srvGoal, beaten>>
  BY DEF ap_client_init, server
<1>2. ToldIsTrue' /\ NothingOnClosed' /\ KnownAccountedFor' /\ ChecksAccountedFor'
  BY <1>1, MsgsOf DEF ToldIsTrue, NothingOnClosed, KnownAccountedFor, ChecksAccountedFor
<1>3. SuppressedIsKnown'
  BY <1>1 DEF SuppressedIsKnown, SlotConnected
<1>4. NoFalseVictory'
  BY <1>1, <1>2, VictoryFrom DEF Claims, NoFalseVictory
<1>. QED  BY <1>2, <1>3, <1>4 DEF Claims

\* The link opens, fails and closes: what is in flight is lost, and counted as such.
LEMMA SocketClaims ==
    ASSUME TypeOK, LinkOK, Claims, connect_socket \/ onopen \/ Cut \/ Closing \/ onclose
    PROVE  Claims'
<1>1. UNCHANGED <<checkQueue, checkedLocations, local_done, collected, beaten,
                  srvChecked, srvDone, srvGoal>>
  BY DEF connect_socket, onopen, Cut, Closing, onclose, Disconnect, client, server, history
<1>2. /\ toServer' \in {toServer, <<>>}
      /\ \/ toServer' = toServer /\ lost' = lost /\ (link' # "open" => link' = link \/ link # "open")
         \/ InFlight = {} /\ lost' = lost /\ toServer' = <<>>
         \/ lost' = lost \cup InFlight /\ toServer' = <<>>
      /\ Msgs(toClient') \subseteq Msgs(toClient) \cup {[type |-> "RoomInfo"]}
  <2>1. CASE connect_socket \/ onclose
    <3>1. /\ UNCHANGED <<toServer, toClient, lost>>
          /\ link' = link \/ (link' = "none" /\ link # "open")
      BY <2>1 DEF connect_socket, onclose, Disconnect, history, LinkOK
    <3>. QED  BY <3>1
  <2>2. CASE onopen
    <3>1. link = "none" /\ toServer = <<>>
      BY <2>2 DEF onopen, LinkOK, Claims, NothingOnClosed
    <3>2. InFlight = {}
      BY <3>1, MsgsOf, InFlightIs
    <3>. QED  BY <2>2, <3>2, MsgsOf DEF onopen, history
  <2>3. CASE Cut \/ Closing
    BY <2>3, MsgsOf DEF Cut, Closing
  <2>. QED  BY <2>1, <2>2, <2>3
<1>3. NothingOnClosed'
  BY <1>2 DEF Claims, NothingOnClosed
<1>4. Msgs(toServer') \subseteq Msgs(toServer) /\ InFlight \subseteq InFlight' \cup lost' /\ lost \subseteq lost'
  BY <1>2, MsgsOf, InFlightIs
<1>5. KnownAccountedFor' /\ ChecksAccountedFor'
  BY <1>1, <1>4, AccountsKept
<1>6. ToldIsTrue'
  BY <1>1, <1>2, <1>4 DEF Claims, ToldIsTrue
<1>7. SuppressedIsKnown'
  <2>1. ~(SlotConnected /\ link = "open")'
    BY DEF SlotConnected, connect_socket, onopen, Cut, Closing, onclose, Disconnect, LinkOK
  <2>. QED  BY <2>1 DEF SuppressedIsKnown
<1>8. NoFalseVictory'
  BY <1>1, <1>6, VictoryFrom DEF Claims, NoFalseVictory
<1>. QED  BY <1>3, <1>5, <1>6, <1>7, <1>8 DEF Claims

\* Connected: the client believes the server, and what was queued is sent or lost.
LEMMA ConnectedClaims == ASSUME TypeOK, Claims, onConnected PROVE Claims'
<1> DEFINE m == Head(toClient)
           q == QueuedChecks
           g == <<[type |-> "Get"]>>
<1>1. /\ Receive("Connected") /\ checkedLocations' = m.checked \cup checkQueue /\ checkQueue' = {}
      /\ Send(q \o g) /\ lost' = IF link = "open" THEN lost ELSE lost \cup checkQueue
      /\ UNCHANGED <<link, local_done, collected, beaten, srvChecked, srvDone, srvGoal>>
  BY DEF onConnected, ConnectedChecked, server
<1>2. q \in Seq(ClientMessages) /\ g \in Seq(ClientMessages)
  BY ClientMessageTypes, EmptySeq DEF QueuedChecks, TypeOK
<1>3. m \in Msgs(toClient) /\ m.type = "Connected" /\ Msgs(toClient') \subseteq Msgs(toClient)
  BY <1>1, Taken
<1>4. Msgs(g) = {[type |-> "Get"]} /\ \A x \in Msgs(q) : x = LocationChecksMsg(checkQueue)
  BY MsgsOf DEF QueuedChecks
<1>5. checkQueue # {} => LocationChecksMsg(checkQueue) \in Msgs(q)
  BY MsgsOf DEF QueuedChecks
<1> HIDE DEF q, g
<1>6. Msgs(q \o g) = Msgs(q) \cup Msgs(g) /\ q \o g \in Seq(ClientMessages)
  BY <1>2, MsgsOf, ConcatType
<1>7. Msgs(toServer') = IF link = "open" THEN Msgs(toServer) \cup Msgs(q) \cup Msgs(g)
                        ELSE Msgs(toServer)
  BY <1>1, <1>6, Sent
<1>8. /\ InFlight \subseteq InFlight' /\ (link = "open" => checkQueue \subseteq InFlight')
  <2>1. InFlight \subseteq InFlight'
    BY <1>7, InFlightIs
  <2>2. ASSUME link = "open", NEW l \in checkQueue PROVE l \in InFlight'
    <3>1. LocationChecksMsg(checkQueue) \in Msgs(toServer')
      BY <1>5, <1>7, <2>2
    <3>. QED  BY <2>2, <3>1, InFlightIs DEF LocationChecksMsg
  <2>. QED  BY <2>1, <2>2
<1>9. m.checked \subseteq srvChecked
  BY <1>3 DEF Claims, ToldIsTrue
<1>10. KnownAccountedFor' /\ ChecksAccountedFor' /\ SuppressedIsKnown'
  BY <1>1, <1>8, <1>9 DEF Claims, KnownAccountedFor, ChecksAccountedFor, SuppressedIsKnown
<1>11. NothingOnClosed'
  BY <1>1 DEF Send, Claims, NothingOnClosed
<1>12. ToldIsTrue'
  BY <1>1, <1>3, <1>4, <1>7 DEF LocationChecksMsg, Claims, ToldIsTrue
<1>13. NoFalseVictory'
  BY <1>1, <1>12, VictoryFrom DEF Claims, NoFalseVictory
<1>. QED  BY <1>10, <1>11, <1>12, <1>13 DEF Claims

\* RoomInfo and items: nothing is claimed.
LEMMA RoomInfoClaims ==
    ASSUME TypeOK, Claims, onRoomInfo \/ onReceivedItems PROVE Claims'
<1>1. /\ UNCHANGED <<link, checkQueue, checkedLocations, local_done, collected, lost, beaten,
                     srvChecked, srvDone, srvGoal>>
      /\ SlotConnected' => SlotConnected
      /\ Msgs(toClient') \subseteq Msgs(toClient)
  BY Taken DEF onRoomInfo, onReceivedItems, client, server, history, SlotConnected
<1>2. /\ Msgs(toServer) \subseteq Msgs(toServer')
      /\ Msgs(toServer') \subseteq Msgs(toServer) \cup {[type |-> "Connect"]}
      /\ link # "open" => toServer' = toServer
  <2>1. CASE onRoomInfo
    BY <2>1, ClientMessageTypes, Sent, MsgsOf DEF onRoomInfo, Send
  <2>2. CASE onReceivedItems
    BY <2>2 DEF onReceivedItems
  <2>. QED  BY <2>1, <2>2
<1>3. InFlight \subseteq InFlight'
  BY <1>2, InFlightIs
<1>4. KnownAccountedFor' /\ ChecksAccountedFor' /\ SuppressedIsKnown' /\ NothingOnClosed'
  BY <1>1, <1>2, <1>3, AccountsKept DEF Claims, SuppressedIsKnown, NothingOnClosed
<1>5. ToldIsTrue'
  BY <1>1, <1>2 DEF Claims, ToldIsTrue
<1>6. NoFalseVictory'
  BY <1>1, <1>5, VictoryFrom DEF Claims, NoFalseVictory
<1>. QED  BY <1>4, <1>5, <1>6 DEF Claims

\* RoomUpdate: what the client adds is what the server has.
LEMMA RoomUpdateClaims == ASSUME TypeOK, Claims, onRoomUpdate PROVE Claims'
<1>1. /\ Receive("RoomUpdate") /\ checkedLocations' = checkedLocations \cup Head(toClient).checked
      /\ UNCHANGED <<state, link, toServer, checkQueue, local_done, collected, lost, beaten,
                     srvChecked, srvDone, srvGoal>>
  BY DEF onRoomUpdate, server, history
<1>2. /\ Head(toClient) \in Msgs(toClient) /\ Head(toClient).type = "RoomUpdate"
      /\ Msgs(toClient') \subseteq Msgs(toClient)
  BY <1>1, Taken
<1>3. Head(toClient).checked \subseteq srvChecked /\ InFlight' = InFlight
  BY <1>1, <1>2 DEF Claims, ToldIsTrue, InFlight
<1>4. KnownAccountedFor' /\ ChecksAccountedFor' /\ SuppressedIsKnown' /\ NothingOnClosed'
  BY <1>1, <1>3 DEF Claims, KnownAccountedFor, ChecksAccountedFor, SuppressedIsKnown,
                    NothingOnClosed, SlotConnected
<1>5. ToldIsTrue'
  BY <1>1, <1>2 DEF Claims, ToldIsTrue
<1>6. NoFalseVictory'
  BY <1>1, <1>5, VictoryFrom DEF Claims, NoFalseVictory
<1>. QED  BY <1>4, <1>5, <1>6 DEF Claims

\* Retrieved: the bosses that it recalls were beaten, and so were those of the goal.
LEMMA RetrievedClaims == ASSUME TypeOK, Claims, onRetrieved PROVE Claims'
<1>1. /\ Receive("Retrieved") /\ local_done' = local_done \cup Head(toClient).done
      /\ Send(retrieved)
      /\ UNCHANGED <<state, link, checkQueue, checkedLocations, collected, lost, beaten,
                     srvChecked, srvDone, srvGoal>>
  BY DEF onRetrieved, server, history
<1>2. /\ Head(toClient) \in Msgs(toClient) /\ Head(toClient).type = "Retrieved"
      /\ Msgs(toClient') \subseteq Msgs(toClient)
  BY <1>1, Taken
<1>3. local_done' \subseteq beaten
  BY <1>1, <1>2 DEF Claims, ToldIsTrue, NoFalseVictory
<1>4. /\ retrieved \in Seq(ClientMessages)
      /\ \A m \in Msgs(retrieved) : m.type = "StatusUpdate" /\ Required \subseteq beaten
  BY <1>3, ClientMessageTypes, EmptySeq, MsgsOf DEF retrieved, ap_announce_victory
<1>5. Msgs(toServer') = IF link = "open" THEN Msgs(toServer) \cup Msgs(retrieved)
                        ELSE Msgs(toServer)
  BY <1>1, <1>4, Sent
<1>6. InFlight \subseteq InFlight'
  BY <1>5, InFlightIs
<1>7. KnownAccountedFor' /\ ChecksAccountedFor' /\ SuppressedIsKnown'
  BY <1>1, <1>6, AccountsKept DEF Claims, SuppressedIsKnown, SlotConnected
<1>8. NothingOnClosed'
  BY <1>1 DEF Send, Claims, NothingOnClosed
<1>9. ToldIsTrue'
  BY <1>1, <1>2, <1>4, <1>5 DEF Claims, ToldIsTrue
<1>10. NoFalseVictory'
  BY <1>1, <1>3, <1>9, VictoryFrom DEF Claims, NoFalseVictory
<1>. QED  BY <1>7, <1>8, <1>9, <1>10 DEF Claims

(***************************************************************************)
(* The server's side.                                                      *)
(***************************************************************************)
\* The server takes a message that checks nothing, and answers with what it has.
LEMMA ServerAnswers ==
    ASSUME TypeOK, Claims, ServerConnect \/ ServerGet \/ ServerSet \/ ServerStatusUpdate
    PROVE  Claims'
<1>1. /\ UNCHANGED <<state, link, checkQueue, checkedLocations, collected, lost, beaten,
                     local_done, srvChecked>>
      /\ \E t \in {"Connect", "Get", "Set", "StatusUpdate"} : ServerReads(t)
  BY DEF ServerConnect, ServerGet, ServerSet, ServerStatusUpdate, client, server, history
<1>2. PICK t \in {"Connect", "Get", "Set", "StatusUpdate"} : ServerReads(t)
  BY <1>1
<1>3. /\ Head(toServer) \in Msgs(toServer) /\ Head(toServer).type = t
      /\ Msgs(toServer') \subseteq Msgs(toServer)
      /\ Msgs(toServer) = {Head(toServer)} \cup Msgs(toServer')
      /\ link = "open"
  BY <1>2, TakenByServer DEF ServerReads
<1>4. InFlight \subseteq InFlight'
  BY <1>3, InFlightIs
<1>5. KnownAccountedFor' /\ ChecksAccountedFor' /\ SuppressedIsKnown' /\ NothingOnClosed'
  BY <1>1, <1>3, <1>4, AccountsKept DEF Claims, SuppressedIsKnown, SlotConnected, NothingOnClosed
<1>6. /\ srvDone' \subseteq beaten /\ (srvGoal' => Required \subseteq beaten)
  <2>1. CASE ServerConnect \/ ServerGet
    BY <2>1 DEF ServerConnect, ServerGet, server, Claims, NoFalseVictory
  <2>2. CASE ServerSet
    <3>1. ServerReads("Set") /\ srvDone' = srvDone \cup {Head(toServer).episode} /\ srvGoal' = srvGoal
      BY <2>2 DEF ServerSet
    <3>2. Head(toServer).episode \in beaten
      BY <1>3, <3>1 DEF ServerReads, Claims, ToldIsTrue
    <3>. QED  BY <3>1, <3>2 DEF Claims, NoFalseVictory
  <2>3. CASE ServerStatusUpdate
    <3>1. ServerReads("StatusUpdate") /\ srvDone' = srvDone
      BY <2>3 DEF ServerStatusUpdate
    <3>2. Required \subseteq beaten
      BY <1>3, <3>1 DEF ServerReads, Claims, ToldIsTrue
    <3>. QED  BY <3>1, <3>2 DEF Claims, NoFalseVictory
  <2>. QED  BY <2>1, <2>2, <2>3
<1>7. \A m \in Msgs(toClient') :
        \/ m \in Msgs(toClient)
        \/ m.type = "Connected" /\ m.checked = srvChecked
        \/ m.type = "ReceivedItems"
        \/ m.type = "Retrieved" /\ m.done \subseteq beaten
  <2> DEFINE c == <<[type |-> "Connected", checked |-> srvChecked]>>
             r == IF srvItems = <<>> THEN <<>> ELSE
                  <<[type |-> "ReceivedItems", first |-> 0, count |-> Len(srvItems)]>>
             d == <<[type |-> "Retrieved", done |-> srvDone]>>
  <2>1. toClient \in Seq(ServerMessages)
    BY DEF TypeOK
  <2>2. c \in Seq(ServerMessages) /\ r \in Seq(ServerMessages) /\ d \in Seq(ServerMessages)
    BY ServerMessageTypes, LenProperties, EmptySeq DEF TypeOK
  <2>3. /\ \A m \in Msgs(c) : m.type = "Connected" /\ m.checked = srvChecked
        /\ \A m \in Msgs(r) : m.type = "ReceivedItems"
        /\ \A m \in Msgs(d) : m.type = "Retrieved" /\ m.done \subseteq beaten
    <3>1. Msgs(c) = {[type |-> "Connected", checked |-> srvChecked]}
          /\ Msgs(d) = {[type |-> "Retrieved", done |-> srvDone]}
          /\ Msgs(r) \subseteq {[type |-> "ReceivedItems", first |-> 0, count |-> Len(srvItems)]}
      BY MsgsOf
    <3>2. srvDone \subseteq beaten
      BY DEF Claims, NoFalseVictory
    <3>. QED  BY <3>1, <3>2
  <2>4. \/ toClient' = toClient \/ toClient' = toClient \o c \o r
        \/ toClient' = toClient \o d
    <3>1. CASE ServerGet
      BY <2>1, <3>1, AppendIsConcat, ServerMessageTypes DEF ServerGet
    <3>. QED  BY <3>1 DEF ServerConnect, ServerSet, ServerStatusUpdate
  <2> HIDE DEF c, r, d
  <2>5. Msgs(toClient \o d) = Msgs(toClient) \cup Msgs(d)
    BY <2>1, <2>2, MsgsOf
  <2>6. Msgs(toClient \o c \o r) = Msgs(toClient) \cup Msgs(c) \cup Msgs(r)
    <3> DEFINE q == toClient \o c
    <3>1. q \in Seq(ServerMessages) /\ Msgs(q) = Msgs(toClient) \cup Msgs(c)
      BY <2>1, <2>2, MsgsOf, ConcatType
    <3> HIDE DEF q
    <3>2. Msgs(q \o r) = Msgs(q) \cup Msgs(r)
      BY <2>2, <3>1, MsgsOf
    <3>. QED  BY <3>1, <3>2 DEF q
  <2>. QED  BY <2>3, <2>4, <2>5, <2>6
<1>8. ToldIsTrue'
  BY <1>1, <1>3, <1>7 DEF Claims, ToldIsTrue
<1>9. NoFalseVictory'
  BY <1>1, <1>6, <1>8, VictoryFrom DEF Claims, NoFalseVictory
<1>. QED  BY <1>5, <1>8, <1>9 DEF Claims

\* A change of what is checked or sent, told to the client.
LEMMA TellClaims ==
    ASSUME TypeOK, Claims, NEW ls \in SUBSET Locations, NEW new \in Seq(Items), Tell(ls, new),
           srvChecked' = srvChecked \cup ls,
           Msgs(toServer') \subseteq Msgs(toServer), InFlight \subseteq InFlight' \cup srvChecked',
           link # "open" => toServer' = toServer,
           UNCHANGED <<state, link, client, history, srvDone, srvGoal>>
    PROVE  Claims'
<1>1. UNCHANGED <<checkQueue, checkedLocations, local_done, collected, lost, beaten>>
  BY DEF client, history
<1>2. KnownAccountedFor' /\ ChecksAccountedFor' /\ SuppressedIsKnown' /\ NothingOnClosed'
  BY <1>1, AccountsKept DEF Claims, SuppressedIsKnown, SlotConnected, NothingOnClosed
<1>3. ToldIsTrue'
  BY <1>1, Told DEF Claims, ToldIsTrue
<1>4. NoFalseVictory'
  BY <1>1, <1>3, VictoryFrom DEF Claims, NoFalseVictory
<1>. QED  BY <1>2, <1>3, <1>4 DEF Claims

\* The checks that the server takes are those it then has.
LEMMA ServerLocationChecksClaims == ASSUME TypeOK, Claims, ServerLocationChecks PROVE Claims'
<1> DEFINE ls == Head(toServer).locations
           new == ls \ srvChecked
           own == {l \in new : l \in DOMAIN OwnItem}
<1>1. /\ ServerReads("LocationChecks") /\ srvChecked' = srvChecked \cup new
      /\ UNCHANGED <<state, link, client, history, srvDone, srvGoal>>
  BY DEF ServerLocationChecks
<1>2. /\ Head(toServer) \in Msgs(toServer) /\ Head(toServer).type = "LocationChecks"
      /\ Msgs(toServer) = {Head(toServer)} \cup Msgs(toServer') /\ link = "open"
  BY <1>1, TakenByServer DEF ServerReads
<1>3. ls \subseteq Locations
  <2>1. Head(toServer) \in ClientMessages
    BY <1>1, HeadType DEF ServerReads, TypeOK
  <2>. QED  BY <1>2, <2>1 DEF ClientMessages
<1>4. InFlight \subseteq InFlight' \cup srvChecked'
  BY <1>1, <1>2, InFlightIs
<1>5. PICK order \in [1..Cardinality(own) -> own] :
             Tell(new, [i \in DOMAIN order |-> OwnItem[order[i]]])
  BY DEF ServerLocationChecks
<1> DEFINE items == [i \in DOMAIN order |-> OwnItem[order[i]]]
<1>6. items \in Seq(Items)
  <2>1. IsFiniteSet(own)
    <3>1. IsFiniteSet(Locations) /\ own \subseteq Locations
      BY <1>3, SessionAssumption DEF SessionAssumption
    <3>. QED  BY <3>1, FS_Subset
  <2>2. Cardinality(own) \in Nat
    BY <2>1, FS_CardinalityType
  <2>3. items \in [1..Cardinality(own) -> Items]
    BY SessionAssumption DEF SessionAssumption
  <2>. QED  BY <2>2, <2>3, SeqOfFunction
<1> HIDE DEF items, own
<1>7. new \in SUBSET Locations /\ Tell(new, items)
  BY <1>3, <1>5 DEF items
<1> HIDE DEF new, ls
<1>. QED  BY <1>1, <1>2, <1>4, <1>6, <1>7, TellClaims

\* Another slot's find or collect.
LEMMA OthersClaims == ASSUME TypeOK, Claims, Others PROVE Claims'
<1>1. ASSUME NEW i \in Items, ServerGrant(i) PROVE Claims'
  <2>1. <<i>> \in Seq(Items)
    BY OneMessage
  <2>2. Tell({}, <<i>>) /\ UNCHANGED <<toServer, state, link, client, history, srvChecked, srvDone, srvGoal>>
    BY <1>1 DEF ServerGrant
  <2>3. InFlight' = InFlight
    BY <2>2 DEF InFlight
  <2>. QED  BY <2>1, <2>2, <2>3, TellClaims
<1>2. ASSUME NEW l \in Collectable, ServerCollect(l) PROVE Claims'
  <2>1. l \in Locations
    BY SessionAssumption DEF SessionAssumption
  <2>2. Tell({l}, <<>>) /\ srvChecked' = srvChecked \cup {l}
        /\ UNCHANGED <<toServer, state, link, client, history, srvDone, srvGoal>>
    BY <1>2 DEF ServerCollect
  <2>3. InFlight' = InFlight /\ <<>> \in Seq(Items)
    BY <2>2, EmptySeq DEF InFlight
  <2>. QED  BY <2>1, <2>2, <2>3, TellClaims
<1>. QED  BY <1>1, <1>2 DEF Others

LEMMA InitClaims == ASSUME Init PROVE Claims
BY MsgsOf DEF Init, Claims, ToldIsTrue, NothingOnClosed, KnownAccountedFor, SuppressedIsKnown,
              SlotConnected, ChecksAccountedFor, NoFalseVictory

\* Every step keeps the claims.
LEMMA NextClaims == ASSUME TypeOK, LinkOK, Claims, [Next]_vars PROVE Claims'
<1>1. CASE UNCHANGED vars
  BY <1>1 DEF vars, client, server, history, Claims, ToldIsTrue, NothingOnClosed,
     KnownAccountedFor, SuppressedIsKnown, SlotConnected, ChecksAccountedFor, NoFalseVictory, InFlight
<1>2. CASE Game
  BY <1>2, CollectClaims, LevelCompleteClaims, SessionAssumption DEF Game, SessionAssumption
<1>3. CASE \E e \in Episodes : ap_client_init(e)
  BY <1>3, LaunchClaims
<1>4. CASE connect_socket \/ onopen \/ Cut \/ Closing \/ onclose
  BY <1>4, SocketClaims
<1>5. CASE Handlers
  BY <1>5, RoomInfoClaims, ConnectedClaims, RoomUpdateClaims, RetrievedClaims DEF Handlers
<1>6. CASE ServerReplies
  BY <1>6, ServerAnswers, ServerLocationChecksClaims DEF ServerReplies
<1>7. CASE Others
  BY <1>7, OthersClaims
<1>. QED  BY <1>1, <1>2, <1>3, <1>4, <1>5, <1>6, <1>7 DEF Next

(***************************************************************************)
(* The theorems.                                                           *)
(***************************************************************************)
LEMMA ClaimsHold == Spec => []Claims
<1>1. Init => Claims
  BY InitClaims
<1>2. Inv /\ Claims /\ [Next]_vars => Claims'
  BY NextClaims DEF Inv
<1>. QED  BY <1>1, <1>2, Invariance, PTL DEF Spec

\* However the link fails and whatever the player collects, a check is suppressed on a live
\* link only where the server knows of it or is about to (ap_is_checked).
THEOREM SuppressedChecksAreKnown == Spec => []SuppressedIsKnown
<1>1. Claims => SuppressedIsKnown
  BY DEF Claims
<1>. QED  BY <1>1, ClaimsHold, PTL

\* No check is forgotten but by a message that a failing link dropped.
THEOREM NoCheckForgotten == Spec => []ChecksAccountedFor
<1>1. Claims => ChecksAccountedFor
  BY DEF Claims
<1>. QED  BY <1>1, ClaimsHold, PTL

\* For every choice of episodes the goal is announced, stored and counted only when the
\* player has beaten their bosses.
THEOREM VictoryIsEarned == Spec => []NoFalseVictory
<1>1. Claims => NoFalseVictory
  BY DEF Claims
<1>. QED  BY <1>1, ClaimsHold, PTL
====
