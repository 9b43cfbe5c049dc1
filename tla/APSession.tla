---- MODULE APSession ----
(***************************************************************************)
(* One slot of a multiworld: the AP client of the game (ap_client.cpp, and *)
(* the parts of the vendored apclient.hpp it drives), the connection to    *)
(* the server, and the server as the client sees it.                       *)
(*                                                                         *)
(* The game is one thread: a hook of the game or a message handler runs to *)
(* completion, and handlers run only inside ap_client_poll.  The link      *)
(* fails in two ways.  "cut": the network is gone and nobody knows; a send *)
(* succeeds and vanishes.  "closing": the websocket has left OPEN but its  *)
(* close event is not dispatched yet; a send throws, and ap_guard swallows *)
(* the exception.                                                          *)
(***************************************************************************)
EXTENDS Integers, Sequences, FiniteSets

CONSTANTS
    Locations,          \* the slot's locations
    EpisodeOf,          \* [Locations -> Episodes]
    LevelLocations,     \* those checked by completing a level
    BossLocation,       \* [Episodes -> LevelLocations]: Megarocket, QED
    OwnItem,            \* the item at a location whose item is this slot's own
    Items, Filler,      \* items, and those that may be granted many times
    EpisodeSelect,      \* slot_data "episode_select"
    Played,             \* bound: locations the player goes for
    Collectable,        \* bound: locations whose item another slot may collect
    MaxItems,           \* bound: items that other slots find for this one
    MaxDrops,           \* bound: connection failures
    MaxRestarts,        \* bound: relaunches of the game
    MaxInFlight         \* bound: unread messages of the client when the game acts

Episodes == {"CK4", "CK5"}

ASSUME SessionAssumption ==
    /\ EpisodeOf \in [Locations -> Episodes]
    /\ IsFiniteSet(Locations)
    /\ LevelLocations \subseteq Locations
    /\ BossLocation \in [Episodes -> LevelLocations]
    /\ \A e \in Episodes : EpisodeOf[BossLocation[e]] = e
    /\ Filler \subseteq Items
    /\ DOMAIN OwnItem \subseteq Locations
    /\ \A l \in DOMAIN OwnItem : OwnItem[l] \in Items
    /\ Played \subseteq Locations
    /\ Collectable \subseteq Locations \ DOMAIN OwnItem
    /\ MaxItems \in Nat /\ MaxDrops \in Nat /\ MaxRestarts \in Nat /\ MaxInFlight \in Nat

VARIABLES
    \* the client process
    ap_current_episode,     \* the episode this launch plays
    state,                  \* APClient::_state
    checkQueue,             \* APClient::_checkQueue
    checkedLocations,       \* APClient::_checkedLocations
    ap_last_item_index,
    ap_items,
    granted,                \* filler granted by this process
    local_done,             \* local_keen4_done, local_keen5_done
    \* the connection
    link,                   \* "none", "open", "cut", "closing"
    toServer, toClient,
    \* the server
    srvAuth,                \* the slot is authenticated on the open link
    srvChecked, srvItems,
    srvDone,                \* DataStorage keen4_done_, keen5_done_
    srvGoal,                \* the slot's status is GOAL
    \* history, and counters of the bounds
    collected,              \* locations the player reached in this process
    lost,                   \* of those, the ones whose message was dropped
    beaten,                 \* bosses ever beaten
    drops, restarts

client  == <<checkQueue, checkedLocations, local_done>>
feed    == <<ap_last_item_index, ap_items, granted>>
server  == <<srvChecked, srvItems, srvDone, srvGoal>>
history == <<collected, lost, beaten>>
bounds  == <<drops, restarts>>
vars == <<ap_current_episode, state, client, feed, link, toServer, toClient,
          srvAuth, server, history, bounds>>

States == {"DISCONNECTED", "SOCKET_CONNECTING", "SOCKET_CONNECTED", "ROOM_INFO", "SLOT_CONNECTED"}

(***************************************************************************)
(* Messages.  ReceivedItems names a range of the server's list, which only *)
(* grows: `first` is the 0-based index of the packet.                      *)
(***************************************************************************)
ClientMessages ==
    [type : {"Connect", "Get", "StatusUpdate"}]
    \cup [type : {"LocationChecks"}, locations : SUBSET Locations]
    \cup [type : {"Set"}, episode : Episodes]

ServerMessages ==
    [type : {"RoomInfo"}]
    \cup [type : {"Connected", "RoomUpdate"}, checked : SUBSET Locations]
    \cup [type : {"ReceivedItems"}, first : Nat, count : Nat]
    \cup [type : {"Retrieved"}, done : SUBSET Episodes]

LocationChecksMsg(ls) == [type |-> "LocationChecks", locations |-> ls]

\* The locations on their way to the server.
InFlight == UNION {toServer[k].locations :
                   k \in {j \in DOMAIN toServer : toServer[j].type = "LocationChecks"}}

(***************************************************************************)
(* The client's calls.                                                     *)
(***************************************************************************)
SlotConnected == state = "SLOT_CONNECTED"
SendThrows    == link = "closing"

\* _ws->send of each message in turn.
Send(msgs) == toServer' = IF link = "open" THEN toServer \o msgs ELSE toServer

Required == CASE EpisodeSelect = 1 -> {"CK4"}
              [] EpisodeSelect = 2 -> {"CK5"}
              [] OTHER             -> Episodes

\* Victory decided from the server's checked locations, as the comment forbids.
ap_announce_victory_from_checked(done) ==
    IF Required \subseteq done \cup {e \in Episodes : BossLocation[e] \in checkedLocations}
    THEN <<[type |-> "StatusUpdate"]>> ELSE <<>>

\* What ap_announce_victory sends when connected.
ap_announce_victory(done) ==
    IF Required \subseteq done THEN <<[type |-> "StatusUpdate"]>> ELSE <<>>

\* A check that is not connected is sent later from the queue; a send that throws
\* leaves before the check is recorded.
LocationChecks(l) ==
    /\ checkQueue' = IF SlotConnected THEN checkQueue ELSE checkQueue \cup {l}
    /\ checkedLocations' = IF SlotConnected /\ SendThrows THEN checkedLocations
                           ELSE checkedLocations \cup {l}

\* ap_client_location_check, without its send.
ap_client_location_check(l) ==
    /\ IF l \in checkedLocations
       THEN UNCHANGED <<checkQueue, checkedLocations, lost>>
       ELSE /\ LocationChecks(l)
            /\ lost' = IF SlotConnected /\ link # "open" THEN lost \cup {l} ELSE lost
    /\ collected' = collected \cup {l}

\* ... and its send.
CheckMsgs(l) == IF l \notin checkedLocations /\ SlotConnected
                THEN <<LocationChecksMsg({l})>> ELSE <<>>

(***************************************************************************)
(* The game's hooks.                                                       *)
(***************************************************************************)
GameRuns == Len(toServer) < MaxInFlight

\* ap_on_keygem_get, ap_on_pointitem_get and the like: one location each.
Collect(l) ==
    /\ GameRuns /\ EpisodeOf[l] = ap_current_episode
    /\ ap_client_location_check(l)
    /\ Send(CheckMsgs(l))
    /\ UNCHANGED <<ap_current_episode, state, local_done, feed, link, toClient,
                   srvAuth, server, beaten, bounds>>

\* The bosses a completed level newly marks as done.
ap_mark_boss_complete(l) ==
    {e \in Episodes \ local_done : e = ap_current_episode /\ l = BossLocation[e]}

ap_on_level_complete(l) ==
    LET done == ap_mark_boss_complete(l)
        set  == IF done = {} THEN <<>> ELSE <<[type |-> "Set", episode |-> ap_current_episode]>>
    IN
    /\ GameRuns /\ EpisodeOf[l] = ap_current_episode
    /\ ap_client_location_check(l)
    /\ local_done' = local_done \cup done
    /\ beaten' = beaten \cup {e \in Episodes : l = BossLocation[e]}
    /\ Send(IF SlotConnected
            THEN CheckMsgs(l) \o set \o ap_announce_victory(local_done')
            ELSE <<>>)
    /\ UNCHANGED <<ap_current_episode, state, feed, link, toClient,
                   srvAuth, server, bounds>>

\* The process ends and a new one is launched, perhaps on the other episode.
ap_client_init(e) ==
    /\ restarts < MaxRestarts
    /\ ap_current_episode' = e
    /\ state' = "DISCONNECTED" /\ link' = "none"
    /\ checkQueue' = {} /\ checkedLocations' = {}
    /\ ap_last_item_index' = -1 /\ ap_items' = {} /\ granted' = [f \in Filler |-> 0]
    /\ local_done' = {}
    /\ toServer' = <<>> /\ toClient' = <<>> /\ srvAuth' = FALSE
    /\ collected' = {} /\ lost' = {}
    /\ restarts' = restarts + 1
    /\ UNCHANGED <<server, beaten, drops>>

(***************************************************************************)
(* The socket.                                                             *)
(***************************************************************************)
connect_socket ==
    /\ state = "DISCONNECTED"
    /\ state' = "SOCKET_CONNECTING"
    /\ UNCHANGED <<ap_current_episode, client, feed, link, toServer, toClient,
                   srvAuth, server, history, bounds>>

\* The server greets each new connection with RoomInfo.
onopen ==
    /\ state = "SOCKET_CONNECTING"
    /\ state' = "SOCKET_CONNECTED" /\ link' = "open"
    /\ toClient' = <<[type |-> "RoomInfo"]>> /\ toServer' = <<>>
    /\ UNCHANGED <<ap_current_episode, client, feed, srvAuth, server, history, bounds>>

\* The network fails unnoticed: what the client had sent is lost.
Cut ==
    /\ link = "open" /\ drops < MaxDrops
    /\ link' = "cut" /\ drops' = drops + 1
    /\ toServer' = <<>> /\ srvAuth' = FALSE
    /\ lost' = lost \cup InFlight
    /\ UNCHANGED <<ap_current_episode, state, client, feed, toClient,
                   server, collected, beaten, restarts>>

\* The websocket leaves OPEN: the peer closed it, or a cut was noticed.
Closing ==
    /\ \/ link = "open" /\ drops < MaxDrops /\ drops' = drops + 1
       \/ link = "cut" /\ UNCHANGED drops
    /\ link' = "closing"
    /\ toServer' = <<>> /\ toClient' = <<>> /\ srvAuth' = FALSE
    /\ lost' = lost \cup InFlight
    /\ UNCHANGED <<ap_current_episode, state, client, feed,
                   server, collected, beaten, restarts>>

\* A close that drops what was waiting for the next connection.
DisconnectForgetting == state' = "DISCONNECTED" /\ link' = "none" /\ checkQueue' = {}
                        /\ UNCHANGED <<checkedLocations, local_done>>

\* A close whose handler leaves the state as it was.
DisconnectSilently == link' = "none" /\ UNCHANGED <<state, client>>

Disconnect == state' = "DISCONNECTED" /\ link' = "none" /\ UNCHANGED client

\* A connection ends, or one that was being opened is refused.
onclose ==
    /\ \/ link = "closing" /\ UNCHANGED drops
       \/ state = "SOCKET_CONNECTING" /\ drops < MaxDrops /\ drops' = drops + 1
    /\ Disconnect
    /\ UNCHANGED <<ap_current_episode, feed, toServer, toClient, srvAuth,
                   server, history, restarts>>

(***************************************************************************)
(* The handlers of the client, each run by poll on the next message.       *)
(***************************************************************************)
Receive(type) ==
    /\ link \in {"open", "cut"}
    /\ toClient # <<>> /\ Head(toClient).type = type
    /\ toClient' = Tail(toClient)

onRoomInfo ==
    /\ Receive("RoomInfo")
    /\ state' = "ROOM_INFO"
    /\ Send(<<[type |-> "Connect"]>>)
    /\ UNCHANGED <<ap_current_episode, client, feed, link, srvAuth, server, history, bounds>>

\* A Connected that adds to what the client believes checked.
ConnectedMerging(checked) == checkedLocations' = checkedLocations \cup checked

\* The server's set replaces the client's; the queued checks join it as they are sent.
ConnectedChecked(checked) == checkedLocations' = checked \cup checkQueue

QueuedChecksForgotten == <<>>
QueuedChecks == IF checkQueue = {} THEN <<>> ELSE <<LocationChecksMsg(checkQueue)>>

onConnected ==
    /\ Receive("Connected")
    /\ state' = "SLOT_CONNECTED"
    /\ ConnectedChecked(Head(toClient).checked)
    /\ checkQueue' = {}
    /\ Send(QueuedChecks \o <<[type |-> "Get"]>>)
    /\ lost' = IF link = "open" THEN lost ELSE lost \cup checkQueue
    /\ UNCHANGED <<ap_current_episode, local_done, feed, link, srvAuth, server,
                   collected, beaten, bounds>>

\* The positions in the server's list (index + 1) of a packet's items,
AllOf(m)  == m.first + 1 .. m.first + m.count
\* those let through by a comparison that is off by one,
FromMark(m) == {k \in AllOf(m) : k - 1 >= ap_last_item_index}
\* and those past the high-water mark.
NewIn(m) == {k \in AllOf(m) : k - 1 > ap_last_item_index}

\* A mark moved to where the next packet starts.
MarkPast(m) == IF NewIn(m) = {} THEN ap_last_item_index ELSE m.first + m.count
MarkAfter(m) == IF NewIn(m) = {} THEN ap_last_item_index ELSE m.first + m.count - 1

\* ap_client_give_item for each new item of the packet, in order.
items_received(m) ==
    /\ ap_last_item_index' = MarkAfter(m)
    /\ ap_items' = ap_items \cup ({srvItems[k] : k \in NewIn(m)} \ Filler)
    /\ granted' = [f \in Filler |-> granted[f]
                     + Cardinality({k \in NewIn(m) : srvItems[k] = f})]

onReceivedItems ==
    /\ Receive("ReceivedItems")
    /\ items_received(Head(toClient))
    /\ UNCHANGED <<ap_current_episode, state, client, link, toServer, srvAuth,
                   server, history, bounds>>

onRoomUpdate ==
    /\ Receive("RoomUpdate")
    /\ checkedLocations' = checkedLocations \cup Head(toClient).checked
    /\ UNCHANGED <<ap_current_episode, state, checkQueue, local_done, feed, link, toServer,
                   srvAuth, server, history, bounds>>

\* A retrieved handler that stores the flags and stops there.
retrievedSilent == <<>>
\* What the retrieved handler sends.
retrieved == IF SlotConnected THEN ap_announce_victory(local_done') ELSE <<>>

onRetrieved ==
    /\ Receive("Retrieved")
    /\ local_done' = local_done \cup Head(toClient).done
    /\ Send(retrieved)
    /\ UNCHANGED <<ap_current_episode, state, checkQueue, checkedLocations, feed, link,
                   srvAuth, server, history, bounds>>

(***************************************************************************)
(* The server (external): what the client's use of it relies on.           *)
(***************************************************************************)
\* A change of the slot is told to its client if one is connected: the new items, then
\* the newly checked locations.
Tell(checked, newItems) ==
    toClient' = IF ~srvAuth THEN toClient
                ELSE toClient
                     \o (IF newItems = <<>> THEN <<>> ELSE
                         <<[type |-> "ReceivedItems", first |-> Len(srvItems),
                            count |-> Len(newItems)]>>)
                     \o (IF checked = {} THEN <<>> ELSE
                         <<[type |-> "RoomUpdate", checked |-> checked]>>)

ServerReads(type) ==
    /\ link = "open"
    /\ toServer # <<>> /\ Head(toServer).type = type
    /\ toServer' = Tail(toServer)

ServerConnect ==
    /\ ServerReads("Connect")
    /\ srvAuth' = TRUE
    /\ toClient' = toClient
         \o <<[type |-> "Connected", checked |-> srvChecked]>>
         \o (IF srvItems = <<>> THEN <<>> ELSE
             <<[type |-> "ReceivedItems", first |-> 0, count |-> Len(srvItems)]>>)
    /\ UNCHANGED <<ap_current_episode, state, client, feed, link, server, history, bounds>>

\* The own items at the newly checked locations go to the slot, one packet for all.
ServerLocationChecks ==
    /\ ServerReads("LocationChecks")
    /\ LET new == Head(toServer).locations \ srvChecked
           own == {l \in new : l \in DOMAIN OwnItem}
       IN
       /\ srvChecked' = srvChecked \cup new
       /\ \E order \in {o \in [1..Cardinality(own) -> own] :
                          \A i, j \in DOMAIN o : o[i] = o[j] => i = j} :
            LET items == [i \in DOMAIN order |-> OwnItem[order[i]]] IN
            srvItems' = srvItems \o items /\ Tell(new, items)
    /\ UNCHANGED <<ap_current_episode, state, client, feed, link, srvAuth, srvDone, srvGoal,
                   history, bounds>>

ServerGet ==
    /\ ServerReads("Get")
    /\ toClient' = Append(toClient, [type |-> "Retrieved", done |-> srvDone])
    /\ UNCHANGED <<ap_current_episode, state, client, feed, link, srvAuth, server, history, bounds>>

ServerSet ==
    /\ ServerReads("Set")
    /\ srvDone' = srvDone \cup {Head(toServer).episode}
    /\ UNCHANGED <<ap_current_episode, state, client, feed, link, toClient, srvAuth,
                   srvChecked, srvItems, srvGoal, history, bounds>>

ServerStatusUpdate ==
    /\ ServerReads("StatusUpdate")
    /\ srvGoal' = TRUE
    /\ UNCHANGED <<ap_current_episode, state, client, feed, link, toClient, srvAuth,
                   srvChecked, srvItems, srvDone, history, bounds>>

\* Another slot finds an item of ours.
ServerGrant(i) ==
    /\ Len(srvItems) < MaxItems
    /\ srvItems' = Append(srvItems, i) /\ Tell({}, <<i>>)
    /\ UNCHANGED <<ap_current_episode, state, client, feed, link, toServer, srvAuth,
                   srvChecked, srvDone, srvGoal, history, bounds>>

\* Another slot collects its item at our location l, which then counts as checked.
ServerCollect(l) ==
    /\ l \notin srvChecked
    /\ srvChecked' = srvChecked \cup {l}
    /\ Tell({l}, <<>>)
    /\ UNCHANGED <<ap_current_episode, state, client, feed, link, toServer, srvAuth,
                   srvItems, srvDone, srvGoal, history, bounds>>

----------------------------------------------------------------------------
Init ==
    /\ ap_current_episode \in Episodes
    /\ state = "DISCONNECTED" /\ link = "none"
    /\ checkQueue = {} /\ checkedLocations = {} /\ local_done = {}
    /\ ap_last_item_index = -1 /\ ap_items = {} /\ granted = [f \in Filler |-> 0]
    /\ toServer = <<>> /\ toClient = <<>> /\ srvAuth = FALSE
    /\ srvChecked = {} /\ srvItems = <<>> /\ srvDone = {} /\ srvGoal = FALSE
    /\ collected = {} /\ lost = {} /\ beaten = {}
    /\ drops = 0 /\ restarts = 0

Game == \/ \E l \in Played \ LevelLocations : Collect(l)
        \/ \E l \in Played \cap LevelLocations : ap_on_level_complete(l)

Handlers == onRoomInfo \/ onConnected \/ onReceivedItems \/ onRoomUpdate \/ onRetrieved

ServerReplies == \/ ServerConnect \/ ServerLocationChecks \/ ServerGet
                 \/ ServerSet \/ ServerStatusUpdate

Others == \/ \E i \in Items : ServerGrant(i)
          \/ \E l \in Collectable : ServerCollect(l)

Next == \/ Game
        \/ \E e \in Episodes : ap_client_init(e)
        \/ connect_socket \/ onopen \/ Cut \/ Closing \/ onclose
        \/ Handlers
        \/ ServerReplies
        \/ Others

Spec == Init /\ [][Next]_vars

\* The play loop polls every frame, so sockets are opened, handlers run and closes are
\* seen; a dead network is noticed sooner or later; the server answers.
Fairness ==
    /\ WF_vars(connect_socket) /\ WF_vars(onopen) /\ WF_vars(onclose) /\ WF_vars(Handlers)
    /\ WF_vars(link = "cut" /\ Closing)
    /\ WF_vars(ServerReplies)

FairSpec == Spec /\ Fairness
----------------------------------------------------------------------------
\* The variables keep their types; the high-water mark never passes the server's list.
TypeOK ==
    /\ ap_current_episode \in Episodes /\ state \in States
    /\ checkQueue \subseteq Locations /\ checkedLocations \subseteq Locations
    /\ ap_last_item_index \in -1 .. Len(srvItems) - 1
    /\ ap_items \subseteq Items /\ granted \in [Filler -> Nat]
    /\ local_done \subseteq Episodes
    /\ link \in {"none", "open", "cut", "closing"}
    /\ toServer \in Seq(ClientMessages) /\ toClient \in Seq(ServerMessages)
    /\ srvAuth \in BOOLEAN /\ srvChecked \subseteq Locations
    /\ srvItems \in Seq(Items) /\ srvDone \subseteq Episodes /\ srvGoal \in BOOLEAN
    /\ collected \subseteq Locations /\ lost \subseteq Locations /\ beaten \subseteq Episodes
    /\ drops \in 0..MaxDrops /\ restarts \in 0..MaxRestarts

\* Through replays of the whole list at each reconnect, every item up to the high-water
\* mark has had its effect once: permanent items are owned, filler is granted once per
\* copy (the skip in items_received, ap_client.cpp 223-225).
ItemsExactlyOnce ==
    LET n == ap_last_item_index + 1 IN
    /\ ap_items = {i \in Items \ Filler : \E k \in 1..n : srvItems[k] = i}
    /\ granted = [f \in Filler |-> Cardinality({k \in 1..n : srvItems[k] = f})]

\* Only an open link is authenticated, and there is none before it is opened.
LinkOK ==
    /\ srvAuth => link = "open"
    /\ state \in {"DISCONNECTED", "SOCKET_CONNECTING"} => link = "none"

\* Why: the packets on their way are ranges of the server's list, none starts past the
\* mark and the packets before it, and the last one of a live session reaches its end.
Packet(k) == k \in DOMAIN toClient /\ toClient[k].type = "ReceivedItems"
End(k)    == toClient[k].first + toClient[k].count
PacketsContiguous ==
    /\ \A k \in Nat : Packet(k) =>
         /\ End(k) <= Len(srvItems)
         /\ \/ toClient[k].first <= ap_last_item_index + 1
            \/ \E j \in Nat : Packet(j) /\ j < k /\ toClient[k].first <= End(j)
    /\ srvAuth => \/ Len(srvItems) = ap_last_item_index + 1
                  \/ \E k \in Nat : Packet(k) /\ End(k) = Len(srvItems)

\* The same seen from outside: the client implements the item feed.
Feed == INSTANCE ItemFeed WITH
            sent <- srvItems, applied <- ap_last_item_index + 1, owned <- ap_items
FeedSpec == Feed!Spec

\* Once connected on a live link, the client suppresses a check (ap_is_checked) only when
\* the server knows of it or is about to.
SuppressedIsKnown ==
    SlotConnected /\ link = "open" => checkedLocations \subseteq srvChecked \cup InFlight

\* A check the player earned in this process is known to the server, on its way or queued,
\* unless a message that carried it was dropped by a failing link.
ChecksAccountedFor ==
    collected \subseteq srvChecked \cup InFlight \cup checkQueue \cup lost

\* The goal is announced only when the player beat the bosses it asks for, whatever the
\* server counts as checked (ap_hooks.c 32-34, ap_client.cpp 38-45).
NoFalseVictory ==
    /\ local_done \cup srvDone \subseteq beaten
    /\ srvGoal \/ (\E k \in DOMAIN toServer : toServer[k].type = "StatusUpdate")
         => Required \subseteq beaten

\* However the link fails, the game ends up with every item that was sent to it.
ItemsDelivered == <>[](ap_last_item_index + 1 = Len(srvItems))

\* A check queued while offline reaches the server, unless the link drops it or the
\* process ends.
QueuedChecksDelivered ==
    \A l \in Locations : l \in checkQueue ~> (l \in srvChecked \cup lost \/ l \notin collected)

\* A stored or remembered victory is announced in the end, also when the first
\* announcement failed (ap_client.cpp 194-196), unless the process that alone
\* remembered it ended.
VictoryAnnounced ==
    (Required \subseteq local_done \/ Required \subseteq srvDone)
      ~> (srvGoal \/ ~(Required \subseteq local_done \/ Required \subseteq srvDone))
----------------------------------------------------------------------------
\* ap_client.cpp 334-335: "AP re-syncs all state on reconnect".  Every check the player
\* earned is then known to the server of a live session.
ResyncOnReconnect ==
    SlotConnected /\ link = "open" => collected \subseteq srvChecked \cup InFlight

\* ap_client.cpp 38-40: boss completions are "loaded from AP DataStorage on slot connect
\* so two-episode goals survive disconnect/reconnect".  After the answer to the Get of a
\* slot connect the client knows every boss the player has beaten.
GoalsSurviveReconnect ==
    (/\ SlotConnected /\ link = "open"
     /\ \A k \in DOMAIN toServer : toServer[k].type # "Get"
     /\ \A k \in DOMAIN toClient : toClient[k].type # "Retrieved")
      => beaten \subseteq local_done
====
