---- MODULE DeathLink ----
(***************************************************************************)
(* DeathLink and the play loop: how a death of Keen becomes a Bounce to    *)
(* the other slots and how one of theirs kills Keen (ap_hooks.c 167-197,   *)
(* ap_client.cpp 273-376), inside the frames of CK_PlayLoop (ck_play.c)    *)
(* and the lives that CK_GameLoop (ck_game.c) counts.                      *)
(*                                                                         *)
(* A frame runs its phases in the loop's order.  What Keen meets in a      *)
(* phase (a creature, a deadly tile, the Dopefish) is chosen freely, his   *)
(* row on the map decides when he leaves it.  `online` is a connected slot *)
(* on an open link, whose failures APSession models.  Loading a saved game *)
(* and the test mode of the level editor (us_tedLevel) are left out.       *)
(***************************************************************************)
EXTENDS Integers

CONSTANTS
    Places,         \* kinds of level: "map" (the world map), "land", "water" (Keen 4's well)
    DeadlyTiles,    \* the kinds that have deadly tiles
    MapHeight,      \* rows of a level
    ScreenHeight,   \* rows of the screen
    MaxStep,        \* the rows Keen moves in a frame, at most
    KillTics,       \* the tics of invincibility that CK_KillKeen sets (30)
    DoorTics,       \* the tics that a door gives (110)
    MaxTics,        \* rf_maxTics: the tics of a frame, at most
    Lives           \* the lives of a new game, counted from 0

ASSUME DeathLinkAssumption ==
    /\ Places \subseteq {"map", "land", "water"} /\ "map" \in Places
    /\ DeadlyTiles \subseteq Places \ {"map"}
    /\ ScreenHeight \in Nat \ {0} /\ MapHeight \in Nat /\ MapHeight >= ScreenHeight + 2
    /\ MaxStep \in Nat /\ KillTics \in Nat \ {0} /\ DoorTics \in Nat /\ MaxTics \in Nat \ {0} /\ Lives \in Nat

VARIABLES
    phase,                  \* the phase of the frame, or where the game is outside it
    place,                  \* the kind of the current level
    levelState,             \* ck_gameState.levelState; LS_LevelComplete for every other end
    numLives,
    ap_force_abort,
    ck_invincibilityTimer, ck_godMode, ck_scrollDisabled,
    action,                 \* Keen's action
    isPlayer,               \* Keen's type is still CT_Player
    row,                    \* clipRects.tileY2 of Keen
    scroll,                 \* the top row of the screen
    eating,                 \* the Dopefish is in CK4_ACT_DopefishEat0
    online, ap_death_link_enabled,
    inbox,                  \* a DeathLink waits in the socket
    ap_pending_death, ap_suppress_death_send,
    \* history of the current life
    cause,                  \* whose death was its first: "none", "own", "link"
    owed,                   \* it was Keen's own, while online
    sent                    \* a Bounce was sent

body   == <<action, isPlayer, row, eating>>
timers == <<ck_invincibilityTimer, ck_godMode, ck_scrollDisabled>>
link   == <<ap_death_link_enabled, online>>
flags  == <<inbox, ap_pending_death, ap_suppress_death_send>>
life   == <<cause, owed, sent>>
game   == <<place, numLives, ap_force_abort>>
vars   == <<phase, levelState, scroll, body, timers, link, flags, life, game>>

Frame == {"poll", "apply", "think", "creatures", "tiles", "bottom", "camera", "keys"}

MaxScroll == MapHeight - ScreenHeight - 2       \* rf_scrollYMaxUnit

\* Keen is two rows high.
CK_ObjectVisible(r) == r >= scroll /\ r - 1 <= scroll + ScreenHeight
Rows == 0 .. MapHeight + MaxStep
Near(r) == {q \in Rows : q >= r - MaxStep /\ q <= r + MaxStep}

(***************************************************************************)
(* The hooks.  `pending` and `suppress` are the flags as the caller leaves *)
(* them, `whose` says whose death it is.                                   *)
(***************************************************************************)
\* ap_on_death: an incoming death is swallowed, Keen's own is sent, and the poll that
\* flushes it runs the handler of whatever has arrived.
ap_on_death(whose, pending, suppress) ==
    LET sends == ap_death_link_enabled /\ ~suppress /\ online IN
    /\ ap_suppress_death_send' = (suppress /\ ~ap_death_link_enabled)
    /\ sent' = (sent \/ sends)
    /\ ap_pending_death' = (pending \/ (sends /\ inbox))
    /\ inbox' = (inbox /\ ~sends)
    /\ cause' = IF cause = "none" THEN whose ELSE cause
    /\ owed' = (owed \/ (cause = "none" /\ whose = "own" /\ ap_death_link_enabled /\ online))

NoDeath(pending, suppress) ==
    /\ ap_pending_death' = pending /\ ap_suppress_death_send' = suppress
    /\ UNCHANGED <<inbox, life>>

\* The code refuses in CK_ACT_keenNot too, an action that no source sets and no row of an
\* action table leads to.
CK_KillKeen(whose, god, pending, suppress) ==
    IF ck_invincibilityTimer # 0 \/ god
    THEN /\ NoDeath(pending, suppress)
         /\ UNCHANGED <<ck_invincibilityTimer, ck_scrollDisabled, action>>
    ELSE /\ ck_invincibilityTimer' = KillTics
         /\ ck_scrollDisabled' = TRUE
         /\ action' = "keenDie"
         /\ ap_on_death(whose, pending, suppress)

\* A death of his own, by something Keen meets.
Killed == CK_KillKeen("own", ck_godMode, ap_pending_death, ap_suppress_death_send)

\* The test that forgets god mode, which CK_KillKeen will not.
CanDieAnyway == levelState = "LS_Playing" /\ ck_invincibilityTimer = 0
CanDie == levelState = "LS_Playing" /\ ck_invincibilityTimer = 0 /\ ~ck_godMode

\* A pending death that does not kill leaves everything but the flag alone.
NoKill(pending) ==
    /\ NoDeath(pending, ap_suppress_death_send)
    /\ UNCHANGED <<ck_invincibilityTimer, ck_scrollDisabled, action>>

\* A death that cannot be applied now is kept for later.
ap_apply_pending_death_holding ==
    IF ap_pending_death /\ CanDie
    THEN CK_KillKeen("link", ck_godMode, FALSE, TRUE) ELSE NoKill(ap_pending_death)

\* The flag that marks the kill as incoming is set after it.
ap_apply_pending_death_late ==
    IF ap_pending_death /\ CanDie
    THEN CK_KillKeen("link", ck_godMode, FALSE, FALSE) ELSE NoKill(FALSE)

ap_apply_pending_death ==
    IF ap_pending_death /\ CanDie
    THEN CK_KillKeen("link", ck_godMode, FALSE, TRUE) ELSE NoKill(FALSE)

(***************************************************************************)
(* A frame of CK_PlayLoop.                                                 *)
(***************************************************************************)
Step(p, q) == phase = p /\ phase' = q

\* The bounced handler runs for what has arrived.
ap_client_poll ==
    /\ Step("poll", "apply")
    /\ ap_pending_death' = (ap_pending_death \/ (online /\ inbox))
    /\ inbox' = (inbox /\ ~online)
    /\ UNCHANGED <<levelState, scroll, body, timers, link, ap_suppress_death_send, life, game>>

Apply ==
    /\ Step("apply", "think")
    /\ ap_apply_pending_death
    /\ UNCHANGED <<levelState, scroll, isPlayer, row, eating, ck_godMode, link, game>>

\* Keen moves, also into a door, falls out of the screen, or waits in the fish.  The border
\* of the world map and of the well is solid.
KeenThinks ==
    /\ Step("think", "creatures")
    /\ \/ /\ action \in {"alive", "keenEnterDoor0"}
          /\ row' \in Near(row) /\ (place = "land" \/ row' < MapHeight - 1)
          /\ UNCHANGED levelState
       \/ /\ action = "keenDie"
          /\ row' \in Near(row)
          /\ levelState' = IF CK_ObjectVisible(row) THEN levelState ELSE "LS_Died"
       \/ action \in {"KeenEaten0", "KeenEaten1"} /\ UNCHANGED <<row, levelState>>
    /\ UNCHANGED <<scroll, action, isPlayer, eating, timers, link, flags, life, game>>

\* Keen is at a door and up is pressed; the security door of Keen 5 gives no invincibility.
CK_KeenPressUp ==
    /\ Step("think", "creatures") /\ place = "land"
    /\ action = "alive" /\ action' = "keenEnterDoor0"
    /\ ck_invincibilityTimer' \in {DoorTics, ck_invincibilityTimer}
    /\ UNCHANGED <<levelState, scroll, isPlayer, row, eating, ck_godMode, ck_scrollDisabled, link,
                   flags, life, game>>

\* The screen is put around Keen, wherever he is.
CK_CentreCamera ==
    /\ scroll' \in 0 .. MaxScroll
    /\ row' \in scroll' + 1 .. scroll' + ScreenHeight

\* The other side of the door, or, in Keen 5, the end of the level.
CK_KeenEnterDoor ==
    /\ Step("think", "creatures")
    /\ action = "keenEnterDoor0"
    /\ \/ action' = "alive" /\ CK_CentreCamera /\ UNCHANGED levelState
       \/ levelState' = "LS_LevelComplete" /\ UNCHANGED <<action, scroll, row>>
    /\ UNCHANGED <<isPlayer, eating, timers, link, flags, life, game>>

\* The action of an eaten Keen runs out.
CK4_KillKeenUnderwater ==
    /\ Step("think", "creatures")
    /\ action = "KeenEaten1"
    /\ levelState' = "LS_Died"
    /\ ap_on_death("own", ap_pending_death, ap_suppress_death_send)
    /\ UNCHANGED <<scroll, body, timers, link, game>>

\* Creatures think and collide: they kill what is a player.  On the world map none does.
CreatureKills ==
    /\ phase = "creatures" /\ place # "map" /\ isPlayer
    /\ Killed
    /\ UNCHANGED <<phase, levelState, scroll, isPlayer, row, eating, ck_godMode, link, game>>

\* The floor of the well keeps the Dopefish above the last two rows.
CK4_DopefishCol ==
    /\ phase = "creatures" /\ place = "water"
    /\ ~eating /\ row < MapHeight - 1
    /\ isPlayer /\ ~ck_godMode
    /\ isPlayer' = FALSE /\ action' = "KeenEaten0" /\ eating' = TRUE
    /\ UNCHANGED <<phase, levelState, scroll, row, timers, link, flags, life, game>>

\* The Dopefish has reached Keen.
CK4_DopefishEat ==
    /\ phase = "creatures"
    /\ eating /\ action' = "KeenEaten1" /\ eating' = FALSE
    /\ UNCHANGED <<phase, levelState, scroll, isPlayer, row, timers, link, flags, life, game>>

\* An exit, a level entrance, a machine, a council member: the level ends.
LevelEnds ==
    /\ phase = "creatures"
    /\ levelState' = "LS_LevelComplete"
    /\ UNCHANGED <<phase, scroll, body, timers, link, flags, life, game>>

CreaturesDone ==
    /\ Step("creatures", "tiles")
    /\ UNCHANGED <<levelState, scroll, body, timers, link, flags, life, game>>

\* Runs whatever Keen's action and type are; a tile he touches may be deadly.
CK_KeenCheckSpecialTileInfo ==
    /\ Step("tiles", "bottom")
    /\ \/ NoKill(ap_pending_death)
       \/ place \in DeadlyTiles /\ Killed
    /\ UNCHANGED <<levelState, scroll, isPlayer, row, eating, ck_godMode, link, game>>

\* Keen at the bottom of the map: the player falls out of it; an object that is not
\* the player is removed, and CK_RemoveObj quits the program if it is Keen.
FallsOff ==
    /\ phase = "bottom"
    /\ IF row < MapHeight - 1
       THEN phase' = "camera" /\ UNCHANGED <<levelState, flags, life>>
       ELSE IF isPlayer
       THEN /\ phase' = "camera" /\ levelState' = "LS_Died"
            /\ ap_on_death("own", ap_pending_death, ap_suppress_death_send)
       ELSE phase' = "quit" /\ UNCHANGED <<levelState, flags, life>>
    /\ UNCHANGED <<scroll, body, timers, link, game>>

\* The screen follows Keen.
CameraFollows ==
    /\ scroll' = scroll \/ (~ck_scrollDisabled /\ scroll' \in 0 .. MaxScroll /\ row >= scroll'
                            /\ row - 1 <= scroll' + ScreenHeight)
    /\ UNCHANGED <<levelState, ck_godMode>> /\ NoKill(ap_pending_death)

\* CK_NormalCamera ends the level at its sides and kills below the last screen.
CK_NormalCamera ==
    IF ck_scrollDisabled THEN CameraFollows
    ELSE \/ /\ levelState' = "LS_LevelComplete"
            /\ UNCHANGED <<scroll, ck_godMode>> /\ NoKill(ap_pending_death)
         \/ /\ row >= MapHeight - 2
            /\ ck_godMode' = FALSE
            /\ CK_KillKeen("own", FALSE, ap_pending_death, ap_suppress_death_send)
            /\ UNCHANGED <<levelState, scroll>>
         \/ row < MapHeight - 2 /\ CameraFollows

Camera ==
    /\ Step("camera", "keys")
    /\ IF place = "land" THEN CK_NormalCamera ELSE CameraFollows    \* CK_MapCamera
    /\ UNCHANGED <<isPlayer, row, eating, link, game>>

\* The invincibility timer of the end of the frame, which may run out early.
Countdown(tics) == IF ck_invincibilityTimer > tics THEN ck_invincibilityTimer - tics ELSE 0

\* The loop's test.
NextFrame == phase' = IF levelState' = "LS_Playing" THEN "poll" ELSE "ended"

\* CK_CheckKeys: nothing that matters, god mode, or CTRL+R.
CK_CheckKeys ==
    /\ phase = "keys"
    /\ \E tics \in 1 .. MaxTics : ck_invincibilityTimer' = Countdown(tics)
    /\ \/ UNCHANGED <<ck_godMode, levelState, ap_force_abort>>
       \/ ck_godMode' = ~ck_godMode /\ UNCHANGED <<levelState, ap_force_abort>>
       \/ ap_force_abort' = TRUE /\ levelState' = "LS_Died" /\ UNCHANGED ck_godMode
    /\ NextFrame
    /\ UNCHANGED <<scroll, body, ck_scrollDisabled, link, flags, life, place, numLives>>

(***************************************************************************)
(* Between the frames: CK_GameLoop.                                        *)
(***************************************************************************)
\* CK_LoadLevel and the resets of CK_PlayLoop.
Play(p) ==
    /\ phase' = "poll" /\ place' = p
    /\ levelState' = "LS_Playing"
    /\ ck_invincibilityTimer' = 0 /\ ck_scrollDisabled' = FALSE
    /\ action' = "alive" /\ isPlayer' = TRUE /\ eating' = FALSE
    /\ CK_CentreCamera
    /\ cause' = "none" /\ owed' = FALSE /\ sent' = FALSE
    /\ UNCHANGED <<ck_godMode, link, flags>>

\* The level has ended other than by a death: from the map into a level, or back.
LevelComplete ==
    /\ phase = "ended" /\ levelState = "LS_LevelComplete"
    /\ \E p \in IF place = "map" THEN Places \ {"map"} ELSE {"map"} : Play(p)
    /\ UNCHANGED <<numLives, ap_force_abort>>

\* The menu comes up, and takes a life, after an abort too.
AbortIgnored == FALSE
Aborted == ap_force_abort

\* LS_Died after CTRL+R: no menu, no life lost, back to the map.
GracefulExit ==
    /\ phase = "ended" /\ levelState = "LS_Died" /\ Aborted
    /\ ap_force_abort' = FALSE
    /\ Play("map")
    /\ UNCHANGED numLives

\* LS_Died otherwise: CK_TryAgainMenu takes a life, and asks if one remains.
CK_TryAgainMenu ==
    /\ phase = "ended" /\ levelState = "LS_Died" /\ ~Aborted
    /\ numLives' = numLives - 1
    /\ IF numLives > 0
       THEN \E p \in {place, "map"} : Play(p)
       ELSE /\ phase' = "over"
            /\ UNCHANGED <<levelState, scroll, place, body, timers, link, flags, life>>
    /\ UNCHANGED ap_force_abort

\* A new game from the title; the flags of the old one are still there.
CK_NewGame ==
    /\ phase = "over"
    /\ numLives' = Lives
    /\ Play("map")
    /\ UNCHANGED ap_force_abort

(***************************************************************************)
(* The network.                                                            *)
(***************************************************************************)
Others == <<phase, levelState, scroll, body, timers, ap_pending_death,
            ap_suppress_death_send, life, game>>

SlotConnected ==
    /\ ~online /\ online' = TRUE /\ ap_death_link_enabled' = TRUE
    /\ UNCHANGED <<Others, inbox>>

\* What waits unread is lost with the connection.
Disconnected ==
    /\ online /\ online' = FALSE /\ inbox' = FALSE
    /\ UNCHANGED <<Others, ap_death_link_enabled>>

\* Another player dies.
RemoteDeath ==
    /\ online /\ inbox' = TRUE
    /\ UNCHANGED <<Others, link>>

----------------------------------------------------------------------------
Init ==
    /\ phase = "poll" /\ place = "map" /\ levelState = "LS_Playing"
    /\ numLives = Lives /\ ap_force_abort = FALSE
    /\ ck_invincibilityTimer = 0 /\ ck_godMode = FALSE /\ ck_scrollDisabled = FALSE
    /\ action = "alive" /\ isPlayer = TRUE /\ eating = FALSE
    /\ scroll = 0 /\ row = ScreenHeight
    /\ online = FALSE /\ ap_death_link_enabled = FALSE
    /\ inbox = FALSE /\ ap_pending_death = FALSE /\ ap_suppress_death_send = FALSE
    /\ cause = "none" /\ owed = FALSE /\ sent = FALSE

KeenTurn == KeenThinks \/ CK_KeenPressUp \/ CK_KeenEnterDoor \/ CK4_KillKeenUnderwater

Meets == CreatureKills \/ CK4_DopefishCol \/ CK4_DopefishEat \/ LevelEnds

FrameGoesOn ==
    \/ ap_client_poll \/ Apply \/ KeenTurn \/ CreaturesDone
    \/ CK_KeenCheckSpecialTileInfo \/ FallsOff \/ Camera \/ CK_CheckKeys

GameLoop == LevelComplete \/ GracefulExit \/ CK_TryAgainMenu \/ CK_NewGame

Network == SlotConnected \/ Disconnected \/ RemoteDeath

Next == FrameGoesOn \/ Meets \/ GameLoop \/ Network

Spec == Init /\ [][Next]_vars

\* The loop runs frame after frame; the menus may wait for ever.
FairSpec == Spec /\ WF_vars(FrameGoesOn)
----------------------------------------------------------------------------
\* The variables keep their types.
TypeOK ==
    /\ phase \in Frame \cup {"ended", "over", "quit"} /\ place \in Places
    /\ levelState \in {"LS_Playing", "LS_Died", "LS_LevelComplete"}
    /\ numLives \in -1 .. Lives /\ ap_force_abort \in BOOLEAN
    /\ ck_invincibilityTimer \in 0 .. KillTics \cup 0 .. DoorTics
    /\ ck_godMode \in BOOLEAN /\ ck_scrollDisabled \in BOOLEAN
    /\ action \in {"alive", "keenEnterDoor0", "keenDie", "KeenEaten0", "KeenEaten1"}
    /\ isPlayer \in BOOLEAN /\ eating \in BOOLEAN
    /\ row \in Rows /\ scroll \in 0 .. MaxScroll
    /\ online \in BOOLEAN /\ ap_death_link_enabled \in BOOLEAN /\ inbox \in BOOLEAN
    /\ ap_pending_death \in BOOLEAN /\ ap_suppress_death_send \in BOOLEAN
    /\ cause \in {"none", "own", "link"} /\ owed \in BOOLEAN /\ sent \in BOOLEAN

\* A death of Keen's own is announced to the other slots, whatever incoming deaths were
\* applied, dropped or still pending before it (ap_hooks.c 167-197).
OwnDeathAnnounced == owed => sent

\* Applying an incoming death never sends one by itself (ap_hooks.c 171-176).
AppliedInSilence == [][phase = "apply" => UNCHANGED sent]_vars

\* A life is lost only by a death: not by a level that ends nor by CTRL+R
\* (ck_play.c 1303, ck_game.c 960-968).
ALostLifeIsADeath == [][numLives' < numLives => cause # "none"]_vars

\* Why, for the proof: LS_Died is a death or an abort.
DiedOrAborted == levelState = "LS_Died" => cause # "none" \/ ap_force_abort

\* As long as the loop runs, an incoming death is applied or dropped.
PendingResolved ==
    (ap_pending_death /\ phase \in Frame) ~> (~ap_pending_death \/ phase \notin Frame)
----------------------------------------------------------------------------
\* ap_hooks.c 173: "This kill was triggered by an incoming DeathLink - don't echo it back."
NoEcho == cause = "link" => ~sent

\* ap_hooks.c 184-185: "Holding it across the death animation would cause a second death
\* immediately after respawn."  A pending death never outlives the life it arrived in.
NoDeathAfterRespawn == phase = "poll" /\ ap_pending_death => cause # "none"

\* ck_play.c 457-460: CK_RemoveObj asserts that nobody removes the player.
PlayerNeverRemoved == phase # "quit"
====
