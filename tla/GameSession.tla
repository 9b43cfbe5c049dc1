---- MODULE GameSession ----
(***************************************************************************)
(* A session of the game around the play loop: the demo loop and its menu, *)
(* the game loop (levels, lives, endings), saved games and quick saves, and *)
(* the effect of received items on the running game.                       *)
(*                                                                         *)
(* The program is one thread; pc says where it waits next: for a poll of   *)
(* the AP client, for what happens in a frame, for a key of the player.    *)
(* A saved game is a file that a crash may leave cut off at any place.     *)
(***************************************************************************)
EXTENDS Integers, Sequences, FiniteSets

CONSTANTS
    Episode,        \* "CK4" or "CK5": fixed when the program is built and launched
    Levels,         \* the levels; 0 is the world map
    QEDLevel,       \* the level of the QED (12); no level of "CK4"
    Items, Needs,   \* permanent items; [Levels -> SUBSET Items] that unlock a level
    Keys, KeyItems, \* gems and the security card; [Levels -> [Keys -> SUBSET Items]]
    Pogo, Wetsuit,  \* the items with an effect outside levels
    FusesIn,        \* [Levels -> Nat]: fuses that Keen breaks; none beside the QED
    DemoLevel,      \* the level that the demos show
    NewLives,       \* lives of a new game; 3 in the code, a bound in the runs
    MaxFiller,      \* bound: extra Keens that arrive in one launch
    MaxLaunches,    \* bound: launches of the program
    Cuts,           \* bound: where a crash may cut a saved game off
    ErrnoSet        \* bound: may errno be set (TRUE), or 0 (FALSE), after a short read

ASSUME GameAssumption ==
    /\ Episode \in {"CK4", "CK5"}
    /\ Levels \subseteq Nat \ {0} /\ DemoLevel \in Levels
    /\ Needs \in [Levels -> SUBSET Items]
    /\ KeyItems \in [Levels -> [Keys -> SUBSET Items]]
    /\ FusesIn \in [Levels -> Nat] /\ (Episode = "CK4" => \A l \in Levels : FusesIn[l] = 0)
    /\ (Episode = "CK4") = (QEDLevel = 0) /\ QEDLevel \in Nat
    /\ QEDLevel \in Levels => FusesIn[QEDLevel] = 0
    /\ NewLives \in Nat /\ MaxFiller \in Nat /\ MaxLaunches \in Nat \ {0}
    /\ Cuts \subseteq 0 .. 6 /\ ErrnoSet \subseteq BOOLEAN

VARIABLES
    pc,
    ck_gameState,           \* with `extra`, the extra Keens granted to this game (history)
    map,                    \* the cached map and its objects
    ca_mapOn,               \* and ap_current_level, which CK_LoadLevel sets to the same
    ap_has_pogo,
    ap_items, filler,       \* permanent items received, extra Keens received in this launch
    ck_startingDifficulty, ck_startingSavedGame, load_game_error, ap_force_abort,
    inGame,                 \* game_in_progress when the menu is open
    save,                   \* the saved game on disk
    checked,                \* levels whose completion was reported to AP
    \* history
    asked,                  \* what the player last asked of a menu, until it is done
    games,                  \* games started in this launch, up to 2 (a loaded one counts as 2)
    launches

flags == <<ck_startingDifficulty, ck_startingSavedGame, load_game_error, ap_force_abort>>
level == <<map, ca_mapOn, ap_has_pogo>>
received == <<ap_items, filler>>
vars == <<pc, ck_gameState, level, received, flags, inGame, save, checked, asked, games, launches>>

Places == {"title", "demo", "start", "poll", "frame", "keys", "cheats", "menu",
           "after", "tryAgain", "over", "scores"}
LevelStates == {"Playing", "Died", "LevelComplete", "ResetGame", "LoadedGame", "AbortGame",
                "CouncilRescued", "KorathFuse", "DestroyedQED", "TeleportToKorath"}

gs == ck_gameState

----------------------------------------------------------------------------
(***************************************************************************)
(* Game states.                                                            *)
(***************************************************************************)
ZeroGame == [levelState |-> "Playing", levelsDone |-> {}, wetsuit |-> FALSE,
             fusesRemaining |-> 0, keyGems |-> {}, currentLevel |-> 0,
             numLives |-> 0, extra |-> 0]

CK_NewGame == [ZeroGame EXCEPT !.numLives = NewLives, !.levelState = gs.levelState]

\* A map as CA_CacheMap and scanInfoLayer leave it.  `placing` is the key that Keen is
\* putting into its holder, `qed` the QED, `ending` the LevelEnd object that the last
\* fuse or the QED leaves.
Fresh(l) == [of |-> l, opened |-> {}, placing |-> {},
             fuses |-> IF l \in Levels THEN FusesIn[l] ELSE 0,
             qed |-> l # 0 /\ l = QEDLevel, ending |-> FALSE]

\* The count that a level starts with; the QED counts as four.
Fuses0(l) == IF l # 0 /\ l = QEDLevel THEN 4 ELSE Fresh(l).fuses

\* The keys of level l among the items.
ap_apply_level_items(l, items) ==
    {k \in Keys : l \in Levels /\ KeyItems[l][k] \cap items # {}}

ap_resync_items(g) ==
    [g EXCEPT !.keyGems = ap_apply_level_items(g.currentLevel, ap_items),
              !.wetsuit = Episode = "CK4" /\ Wetsuit \in ap_items]

\* A level load that keeps the keys and the wetsuit as they are.
CK_LoadLevel_stale(g) == [g EXCEPT !.fusesRemaining = Fuses0(g.currentLevel)]
CK_LoadLevel(g) == [ap_resync_items(g) EXCEPT !.fusesRemaining = Fuses0(g.currentLevel)]

\* A level load that leaves the pogo as the demo had it.
CachesLevel_kept(l, demo) ==
    /\ map' = Fresh(l) /\ ca_mapOn' = l
    /\ ap_has_pogo' = (demo \/ ap_has_pogo)
\* What CK_LoadLevel sets besides the game state; demos are played with pogo.
CachesLevel(l, demo) ==
    /\ map' = Fresh(l) /\ ca_mapOn' = l
    /\ ap_has_pogo' = (demo \/ Pogo \in ap_items)

CK_PlayLoop(g) == /\ ck_gameState' = [g EXCEPT !.levelState = "Playing"]
                  /\ pc' = "poll" /\ inGame' = TRUE

\* The label loadLevel of CK_GameLoop.
LoadLevel(g) == CachesLevel(g.currentLevel, FALSE) /\ CK_PlayLoop(CK_LoadLevel(g))

----------------------------------------------------------------------------
(***************************************************************************)
(* Saved games.  A file is whole (7) or cut: after n parts of the game     *)
(* state (0..4), in the planes (5), in the objects (6).  A file without a  *)
(* whole header is none: the next launch does not list it.                 *)
(***************************************************************************)
NoSave == [cut |-> -1, game |-> ZeroGame, map |-> Fresh(0)]

StateParts == <<{"levelsDone"}, {"wetsuit", "fusesRemaining"}, {"keyGems"},
                {"currentLevel"}, {"numLives", "extra"}>>

\* CK_LoadGameState writes each part as it is read.
CK_LoadGameState(g) ==
    LET n == IF save.cut < 5 THEN save.cut ELSE 5
        parts == UNION {StateParts[k] : k \in 1..n}
    IN [f \in DOMAIN g |-> IF f \in parts THEN save.game[f] ELSE g[f]]

\* A load that leaves the fuses as the fresh level has them.
RestoredFresh(g) == IF save.cut < 5 THEN CK_LoadGameState(g) ELSE CK_LoadLevel(CK_LoadGameState(g))

\* The game state g after the attempt to load the file over it.
Restored(g) ==
    LET h == CK_LoadGameState(g) IN
    CASE save.cut < 5       -> h
      [] save.cut \in {5,6} -> CK_LoadLevel(h)
      [] OTHER -> [CK_LoadLevel(h) EXCEPT !.fusesRemaining = h.fusesRemaining]

\* The map after it: of a file cut in the planes some were expanded, of one cut in the
\* objects some were read.
RestoredMaps(l) ==
    IF save.cut = 5
    THEN {Fresh(l), [Fresh(l) EXCEPT !.opened = save.map.opened, !.fuses = save.map.fuses]}
    ELSE IF save.cut = 6
    THEN {[save.map EXCEPT !.ending = @ /\ e, !.qed = @ /\ q, !.placing = @ \cap p] :
            e \in BOOLEAN, q \in BOOLEAN, p \in {{}, Keys}}
    ELSE {save.map}

\* The rest of CK_LoadGame, which returns early where the file ends.
CK_LoadGame ==
    LET l == Restored(gs).currentLevel IN
    IF save.cut < 5 THEN UNCHANGED level
    ELSE map' \in RestoredMaps(l) /\ ca_mapOn' = l /\ ap_has_pogo' = (Pogo \in ap_items)

\* US_LoadMain takes errno for the error: it succeeds if the file is whole or errno is 0.
US_LoadMain(errno) == save.cut = 7 \/ ~errno
LoadFails == save.cut < 7

\* What a save writes; a crash (cut < 7) leaves the first part of it.
CK_SaveGame(cut) ==
    save' = [cut |-> cut, game |-> [gs EXCEPT !.levelState = "Playing"], map |-> map]

----------------------------------------------------------------------------
(***************************************************************************)
(* The program starts; the title and the demos.                            *)
(***************************************************************************)
Launched ==
    /\ pc' = "title" /\ ck_gameState' = ZeroGame
    /\ map' = Fresh(0) /\ ca_mapOn' = 0 /\ ap_has_pogo' = FALSE
    /\ ap_items' = {} /\ filler' = 0
    /\ ck_startingDifficulty' = FALSE /\ ck_startingSavedGame' = FALSE
    /\ load_game_error' = FALSE /\ ap_force_abort' = FALSE /\ inGame' = FALSE
    /\ asked' = "none" /\ games' = 0

\* The program ends, at any time, and is launched again.
Relaunch ==
    /\ launches < MaxLaunches /\ launches' = launches + 1
    /\ Launched /\ UNCHANGED <<save, checked>>

CrashWhileSaving ==
    /\ pc \in {"keys", "menu"} /\ (pc = "menu" => inGame)
    /\ launches < MaxLaunches /\ launches' = launches + 1
    /\ \E cut \in Cuts : CK_SaveGame(cut)
    /\ Launched /\ UNCHANGED checked

\* The first frame of the demo forgets ck_startingSavedGame.
CK_PlayDemo ==
    /\ pc \in {"title", "over", "scores"}
    /\ CachesLevel(DemoLevel, TRUE)
    /\ ck_gameState' = [CK_LoadLevel([CK_NewGame EXCEPT !.currentLevel = DemoLevel])
                          EXCEPT !.levelState = "Playing"]
    /\ pc' = "demo" /\ ck_startingSavedGame' = FALSE /\ inGame' = FALSE
    /\ UNCHANGED <<received, ck_startingDifficulty, load_game_error, ap_force_abort,
                   save, checked, asked, games, launches>>

\* A demo ends; a key that ended it opens the menu.
CK_HandleDemoKeys ==
    /\ pc = "demo"
    /\ ck_gameState' = [gs EXCEPT !.levelState = "LevelComplete"]
    /\ pc' \in {"title", "menu"}
    /\ UNCHANGED <<level, received, flags, inGame, save, checked, asked, games, launches>>

CK_ShowTitleScreen ==
    /\ pc = "title" /\ pc' = "menu"
    /\ UNCHANGED <<ck_gameState, level, received, flags, inGame, save, checked, asked,
                   games, launches>>

----------------------------------------------------------------------------
(***************************************************************************)
(* The AP client, polled at the start of each frame (also of a demo) and   *)
(* while the galaxy explodes.                                              *)
(***************************************************************************)
Polls == pc \in {"poll", "demo"} \/ (pc = "over" /\ Episode = "CK5")

\* An item that takes effect only when a level is loaded next.
ap_client_give_item_later(g, items) == g
\* Inside a level every new item applies the level's items again.
ap_client_give_item(g, items) ==
    [g EXCEPT !.keyGems = @ \cup ap_apply_level_items(ca_mapOn, items),
              !.wetsuit = @ \/ (Episode = "CK4" /\ Wetsuit \in items)]

ReceiveItem(i) ==
    /\ Polls /\ i \notin ap_items
    /\ ap_items' = ap_items \cup {i}
    /\ ck_gameState' = ap_client_give_item(gs, ap_items')
    /\ ap_has_pogo' = (ap_has_pogo \/ i = Pogo)
    /\ UNCHANGED <<pc, map, ca_mapOn, filler, flags, inGame, save, checked, asked, games, launches>>

ReceiveExtraKeen ==
    /\ Polls /\ filler < MaxFiller
    /\ filler' = filler + 1
    /\ ck_gameState' = [ap_client_give_item(gs, ap_items) EXCEPT !.numLives = @ + 1, !.extra = @ + 1]
    /\ UNCHANGED <<pc, level, ap_items, flags, inGame, save, checked, asked, games, launches>>

PollEnds ==
    /\ pc = "poll" /\ pc' = "frame"
    /\ asked' = "none"
    /\ UNCHANGED <<ck_gameState, level, received, flags, inGame, save, checked, games, launches>>

----------------------------------------------------------------------------
(***************************************************************************)
(* What happens in a frame.  In a level Keen walks; on the world map (the  *)
(* map cached, whatever ca_mapOn says) his map object does.                *)
(***************************************************************************)
InLevel == map.of # 0
Frame(g, m) ==
    /\ pc = "frame" /\ pc' = "keys"
    /\ ck_gameState' = g /\ map' = m
    /\ ck_startingSavedGame' = FALSE
    /\ UNCHANGED <<ca_mapOn, ap_has_pogo, received, ck_startingDifficulty, load_game_error,
                   ap_force_abort, inGame, save, checked, asked, games, launches>>

NothingHappens == Frame(gs, map)

\* Keen puts a key into its holder (the card into its door) ...
PlacesKey(k) ==
    /\ InLevel /\ k \in gs.keyGems \ map.opened /\ map.placing = {}
    /\ Frame([gs EXCEPT !.keyGems = @ \ {k}], [map EXCEPT !.placing = {k}])

\* ... and the door opens some frames later.
CK_KeenPlaceGem ==
    /\ map.placing # {}
    /\ Frame(gs, [map EXCEPT !.opened = @ \cup map.placing, !.placing = {}])

CK_KeenBreakFuse ==
    /\ InLevel /\ map.fuses > 0
    /\ Frame([gs EXCEPT !.fusesRemaining = @ - 1],
             [map EXCEPT !.fuses = @ - 1, !.ending = @ \/ gs.fusesRemaining = 1])

\* A mine blows the QED up.
CK5_MineShrapCol ==
    /\ map.qed
    /\ Frame(gs, [map EXCEPT !.qed = FALSE, !.ending = TRUE])

CK5_LevelEnd ==
    /\ map.ending
    /\ Frame([gs EXCEPT !.levelState = IF ca_mapOn = QEDLevel THEN "DestroyedQED"
                                       ELSE "KorathFuse"], map)

\* Keen leaves a level: an exit or the foot (LevelComplete), a council member.
LeavesLevel(s) ==
    /\ InLevel /\ (s = "CouncilRescued" => Episode = "CK4")
    /\ Frame([gs EXCEPT !.levelState = s], map)

CK_ScanForLevelEntry(l) ==
    /\ ~InLevel /\ Needs[l] \subseteq ap_items
    /\ Frame([gs EXCEPT !.currentLevel = l, !.levelState = "LevelComplete"], map)

TeleportToKorath ==
    /\ ~InLevel /\ Episode = "CK5"
    /\ Frame([gs EXCEPT !.levelState = "TeleportToKorath"], map)

Dies == InLevel /\ Frame([gs EXCEPT !.levelState = "Died"], map)

----------------------------------------------------------------------------
(***************************************************************************)
(* CK_CheckKeys, at the end of every frame, also of one that ended a level. *)
(***************************************************************************)
AfterFrame(s) == IF s = "Playing" THEN "poll" ELSE "after"

NoKey ==
    /\ pc = "keys" /\ pc' = "cheats"
    /\ UNCHANGED <<ck_gameState, level, received, flags, inGame, save, checked, asked,
                   games, launches>>

US_QuickSave ==
    /\ pc = "keys" /\ pc' = "cheats"
    /\ CK_SaveGame(7)
    /\ UNCHANGED <<ck_gameState, level, received, flags, inGame, checked, asked, games, launches>>

\* A success with an error left over, of this load or of an earlier one, ends the game.
US_QuickLoad(errno) ==
    /\ pc = "keys" /\ pc' = "cheats" /\ save # NoSave
    /\ LET s == CASE load_game_error \/ LoadFails -> "AbortGame"
                  [] OTHER -> "LoadedGame"
       IN ck_gameState' = [Restored(gs) EXCEPT !.levelState = s]
    /\ CK_LoadGame
    /\ load_game_error' = FALSE
    /\ ck_startingSavedGame' = US_LoadMain(errno)
    /\ asked' = "saved" /\ games' = 2
    /\ UNCHANGED <<received, ck_startingDifficulty, ap_force_abort, inGame, save, checked, launches>>

\* The quick load key without a load (no saved game, or not confirmed), which acts on an
\* error that an earlier load left over.
QuickLoadDeclined ==
    /\ pc = "keys" /\ pc' = "cheats" /\ load_game_error
    /\ load_game_error' = FALSE
    /\ ck_gameState' = [gs EXCEPT !.levelState = "AbortGame"]
    /\ UNCHANGED <<level, received, ck_startingDifficulty, ck_startingSavedGame, ap_force_abort,
                   inGame, save, checked, asked, games, launches>>

NoCheat ==
    /\ pc = "cheats" /\ pc' = AfterFrame(gs.levelState)
    /\ UNCHANGED <<ck_gameState, level, received, flags, inGame, save, checked, asked,
                   games, launches>>

CtrlR ==
    /\ pc = "cheats" /\ pc' = "after"
    /\ ck_gameState' = [gs EXCEPT !.currentLevel = 0, !.levelState = "Died"]
    /\ ap_force_abort' = TRUE /\ asked' = "none"
    /\ UNCHANGED <<level, received, ck_startingDifficulty, ck_startingSavedGame, load_game_error,
                   inGame, save, checked, games, launches>>

OpenMenu ==
    /\ pc = "keys" /\ pc' = "menu"
    /\ UNCHANGED <<ck_gameState, level, received, flags, inGame, save, checked, asked,
                   games, launches>>

----------------------------------------------------------------------------
(***************************************************************************)
(* The wristwatch menu, in a game and at the title.                        *)
(***************************************************************************)
MenuSave ==
    /\ pc = "menu" /\ inGame
    /\ CK_SaveGame(7)
    /\ UNCHANGED <<pc, ck_gameState, level, received, flags, inGame, checked, asked, games, launches>>

\* A load that fails leaves the menu open.
MenuLoadFails ==
    /\ pc = "menu" /\ save # NoSave /\ TRUE \in ErrnoSet /\ ~US_LoadMain(TRUE)
    /\ ck_gameState' = Restored(gs) /\ CK_LoadGame
    /\ load_game_error' = TRUE
    /\ UNCHANGED <<pc, received, ck_startingDifficulty, ck_startingSavedGame, ap_force_abort,
                   inGame, save, checked, asked, games, launches>>

\* The menu closes over the game state g, with what it leaves in ck_startingDifficulty,
\* ck_startingSavedGame and load_game_error.  In a game the last of the three tests of
\* CK_CheckKeys wins and the error is taken back; the demo loop does not look at it.
CloseMenu(g, new, saved, error) ==
    LET h == IF new THEN CK_NewGame ELSE g
        inPlay == CASE saved -> "LoadedGame" [] error /\ ~saved -> "AbortGame"
                    [] new /\ ~error /\ ~saved -> "ResetGame" [] OTHER -> gs.levelState
        inDemo == CASE new -> "ResetGame" [] saved /\ ~new -> "LoadedGame"
                    [] OTHER -> gs.levelState
    IN
    /\ pc = "menu"
    /\ ck_gameState' = [h EXCEPT !.levelState = IF inGame THEN inPlay ELSE inDemo]
    /\ pc' = IF inGame THEN AfterFrame(inPlay)
             ELSE IF new \/ saved THEN "start" ELSE "title"
    /\ ck_startingDifficulty' = new /\ ck_startingSavedGame' = saved
    /\ load_game_error' = (error /\ ~inGame)
    /\ UNCHANGED <<received, ap_force_abort, inGame, save, checked, launches>>

MenuLoad(errno) ==
    /\ pc = "menu" /\ save # NoSave /\ US_LoadMain(errno)
    /\ CK_LoadGame
    /\ CloseMenu(Restored(gs), ck_startingDifficulty, TRUE, load_game_error \/ LoadFails)
    /\ asked' = "saved" /\ games' = 2

MenuNewGame ==
    /\ CloseMenu(gs, TRUE, ck_startingSavedGame, load_game_error)
    /\ asked' = "new" /\ UNCHANGED <<level, games>>

MenuEndGame ==
    /\ inGame
    /\ CloseMenu(gs, ck_startingDifficulty, ck_startingSavedGame, TRUE)
    /\ asked' = "none" /\ UNCHANGED <<level, games>>

MenuReturn ==
    /\ CloseMenu(gs, ck_startingDifficulty, ck_startingSavedGame, load_game_error)
    /\ asked' = "return" /\ UNCHANGED <<level, games>>

----------------------------------------------------------------------------
(***************************************************************************)
(* CK_GameLoop.                                                            *)
(***************************************************************************)
\* A loop that forgets to take the request back.
AskedOnce_kept == UNCHANGED ck_startingDifficulty
AskedOnce == ck_startingDifficulty' = FALSE

Rest == UNCHANGED <<received, ap_force_abort, save, checked, launches>>

ResetDifficultyAndLevel ==
    /\ pc \in {"start", "after"} /\ gs.levelState = "ResetGame"
    /\ LoadLevel(gs)
    /\ AskedOnce
    /\ asked' = "none" /\ games' = IF games = 0 THEN 1 ELSE 2
    /\ Rest /\ UNCHANGED <<ck_startingSavedGame, load_game_error>>

ReplayLevel ==
    /\ pc \in {"start", "after"} /\ gs.levelState = "LoadedGame"
    /\ CK_PlayLoop(gs)
    /\ asked' = "none"
    /\ Rest /\ UNCHANGED <<level, ck_startingDifficulty, ck_startingSavedGame, load_game_error, games>>

AbortGame ==
    /\ pc = "after" /\ gs.levelState = "AbortGame"
    /\ pc' = "scores" /\ inGame' = FALSE /\ asked' = "none"
    /\ ck_gameState' = [gs EXCEPT !.keyGems = {}]
    /\ Rest /\ UNCHANGED <<level, ck_startingDifficulty, ck_startingSavedGame, load_game_error, games>>

\* The next level is loaded while lives are left; then the game is over.
NextLevel(g) ==
    IF g.numLives >= 0 THEN LoadLevel(g)
    ELSE pc' = "over" /\ inGame' = FALSE /\ ck_gameState' = g /\ UNCHANGED level

Ended(states) == pc = "after" /\ gs.levelState \in states
Kept == UNCHANGED <<received, ck_startingDifficulty, ck_startingSavedGame, load_game_error,
                    save, asked, games, launches>>

GracefulExit ==
    /\ Ended({"Died"}) /\ ap_force_abort
    /\ ap_force_abort' = FALSE
    /\ NextLevel([gs EXCEPT !.keyGems = {}])
    /\ Kept /\ UNCHANGED checked

CK_TryAgainMenu ==
    /\ Ended({"Died"}) /\ ~ap_force_abort
    /\ LET g == [gs EXCEPT !.keyGems = {}, !.numLives = @ - 1] IN
       IF g.numLives < 0 THEN NextLevel(g)
       ELSE pc' = "tryAgain" /\ inGame' = FALSE /\ ck_gameState' = g /\ UNCHANGED level
    /\ Kept /\ UNCHANGED <<ap_force_abort, checked>>

TryAgain ==
    /\ pc = "tryAgain"
    /\ \E l \in {0, gs.currentLevel} : NextLevel([gs EXCEPT !.currentLevel = l])
    /\ Kept /\ UNCHANGED <<ap_force_abort, checked>>

TryAgainQuickLoad(errno) ==
    /\ pc = "tryAgain" /\ save # NoSave
    /\ LET g == Restored([gs EXCEPT !.currentLevel = 0]) IN
       IF US_LoadMain(errno) THEN CK_LoadGame /\ CK_PlayLoop(g) ELSE NextLevel(g)
    /\ load_game_error' = (load_game_error \/ LoadFails)
    /\ ck_startingSavedGame' = (ck_startingSavedGame \/ US_LoadMain(errno))
    /\ games' = 2
    /\ Rest /\ UNCHANGED <<ck_startingDifficulty, asked>>

\* An exit that reports nothing to AP.
ap_on_level_complete_silent(l) == UNCHANGED checked
ap_on_level_complete(l) == checked' = checked \cup {l}

MapLeft ==
    /\ Ended({"LevelComplete", "TeleportToKorath"}) /\ ca_mapOn = 0
    /\ NextLevel([gs EXCEPT !.keyGems = {}])
    /\ Kept /\ UNCHANGED <<ap_force_abort, checked>>

LevelComplete ==
    /\ \/ Ended({"LevelComplete", "TeleportToKorath"}) /\ ca_mapOn # 0
       \/ Ended({"CouncilRescued", "KorathFuse"})
    /\ ap_on_level_complete(ca_mapOn)
    /\ NextLevel([gs EXCEPT !.keyGems = {}, !.currentLevel = 0,
                            !.levelsDone = @ \cup {ca_mapOn}])
    /\ Kept /\ UNCHANGED ap_force_abort

DestroyedQED ==
    /\ Ended({"DestroyedQED"})
    /\ ap_on_level_complete(ca_mapOn)
    /\ NextLevel([gs EXCEPT !.keyGems = {}, !.currentLevel = 0])
    /\ Kept /\ UNCHANGED ap_force_abort
----------------------------------------------------------------------------
Init ==
    /\ pc = "title" /\ ck_gameState = ZeroGame
    /\ map = Fresh(0) /\ ca_mapOn = 0 /\ ap_has_pogo = FALSE
    /\ ap_items = {} /\ filler = 0
    /\ ck_startingDifficulty = FALSE /\ ck_startingSavedGame = FALSE
    /\ load_game_error = FALSE /\ ap_force_abort = FALSE /\ inGame = FALSE
    /\ save = NoSave /\ checked = {}
    /\ asked = "none" /\ games = 0 /\ launches = 1

Demos == CK_PlayDemo \/ CK_HandleDemoKeys \/ CK_ShowTitleScreen

ap_client_poll == (\E i \in Items : ReceiveItem(i)) \/ ReceiveExtraKeen \/ PollEnds

InFrame ==
    \/ NothingHappens
    \/ \E k \in Keys : PlacesKey(k)
    \/ CK_KeenPlaceGem \/ CK_KeenBreakFuse \/ CK5_MineShrapCol \/ CK5_LevelEnd
    \/ \E s \in {"LevelComplete", "CouncilRescued"} : LeavesLevel(s)
    \/ \E l \in Levels : CK_ScanForLevelEntry(l)
    \/ TeleportToKorath \/ Dies

CK_CheckKeys ==
    \/ NoKey \/ US_QuickSave \/ QuickLoadDeclined \/ OpenMenu \/ NoCheat \/ CtrlR
    \/ \E errno \in ErrnoSet : US_QuickLoad(errno)

US_RunCards ==
    \/ MenuSave \/ MenuLoadFails \/ MenuNewGame \/ MenuEndGame \/ MenuReturn
    \/ \E errno \in ErrnoSet : MenuLoad(errno)

CK_GameLoop ==
    \/ ResetDifficultyAndLevel \/ ReplayLevel \/ AbortGame
    \/ GracefulExit \/ CK_TryAgainMenu \/ TryAgain
    \/ \E errno \in ErrnoSet : TryAgainQuickLoad(errno)
    \/ MapLeft \/ LevelComplete \/ DestroyedQED

Next == \/ Relaunch \/ CrashWhileSaving
        \/ Demos \/ ap_client_poll \/ InFrame \/ CK_CheckKeys \/ US_RunCards \/ CK_GameLoop

Spec == Init /\ [][Next]_vars
----------------------------------------------------------------------------
\* The variables keep their types.
TypeOK ==
    /\ pc \in Places
    /\ gs \in [levelState : LevelStates, levelsDone : SUBSET (Levels \cup {0}), wetsuit : BOOLEAN,
               fusesRemaining : Int, keyGems : SUBSET Keys, currentLevel : Levels \cup {0},
               numLives : -1 .. NewLives + MaxFiller * launches,
               extra : 0 .. MaxFiller * launches]
    /\ map \in [of : Levels \cup {0}, opened : SUBSET Keys, placing : SUBSET Keys,
                fuses : Nat, qed : BOOLEAN, ending : BOOLEAN]
    /\ ca_mapOn \in Levels \cup {0}
    /\ ap_items \subseteq Items /\ filler \in 0..MaxFiller
    /\ {ap_has_pogo, ck_startingDifficulty, ck_startingSavedGame, load_game_error,
        ap_force_abort, inGame} \subseteq BOOLEAN
    /\ save.cut \in -1 .. 7 /\ checked \subseteq Levels \cup {0}
    /\ asked \in {"none", "new", "saved", "return"} /\ games \in 0..2
    /\ launches \in 1..MaxLaunches

Playing == pc \in {"poll", "frame"}

\* No soft lock by a lost key, none for free: whatever a level, a death, a saved game or
\* a message did, each key of the current level that the player owns is in his hands or
\* has done its work there, and he holds no other (ap_client.cpp 430-432, 979-998;
\* ck_game.c 933-938).
KeysAccounted ==
    Playing => LET own == ap_apply_level_items(ca_mapOn, ap_items) IN
               /\ own \subseteq gs.keyGems \cup map.opened \cup map.placing
               /\ gs.keyGems \subseteq own

\* After demos, which are played with pogo, new games, which wipe the state, and saved
\* games, which bring another, the player has the pogo stick and the wetsuit of his items.
EffectsMatchItems ==
    Playing => /\ ap_has_pogo = (Pogo \in ap_items)
               /\ gs.wetsuit = (Episode = "CK4" /\ Wetsuit \in ap_items)

\* The fuses still to break are those on the map, also after a load, which counts them
\* twice, and a level whose fuses, or whose QED, are gone is about to end (ck_game.c
\* 381-382, 513-514: it could not be completed otherwise).
FusesCounted ==
    Playing => IF map.of # 0 /\ map.of = QEDLevel THEN map.qed # map.ending
               ELSE /\ gs.fusesRemaining = map.fuses
                    /\ map.of # 0 /\ Fuses0(map.of) > 0 /\ map.fuses = 0 => map.ending

\* Every way of completing a level that the game counts has told AP of it.
DoneIsChecked == Playing => gs.levelsDone \subseteq checked

\* A game is started or loaded when the player asked for it, and before anything else
\* happens; three flags carry the request through menu, demo loop and play loop.
StartsWhatWasAsked ==
    /\ pc \in {"start", "after"} =>
         /\ gs.levelState = "ResetGame"  => asked = "new"
         /\ gs.levelState = "LoadedGame" => asked = "saved"
    /\ pc \in {"title", "demo", "poll", "tryAgain"} => asked \notin {"new", "saved"}
----------------------------------------------------------------------------
\* ck_game.c 339: a save holds "the current level", the one that it names and that a load
\* puts its planes and objects into.
SaveHoldsItsLevel == save.cut = 7 => save.map.of = save.game.currentLevel

\* ck_game.c 890: a quickload at the try again menu is to "fall back to map screen on
\* failure".
FallsBackToMap ==
    [][\A errno \in ErrnoSet :
         TryAgainQuickLoad(errno) /\ ~US_LoadMain(errno) => ca_mapOn' = 0]_vars

\* id_us_2.c 709: the menu item of a running game says "RETURN TO GAME".
ReturnReturns == asked = "return" => ~(pc = "after" /\ gs.levelState = "AbortGame")

\* ap_client.cpp 30-31: "a genuine fresh launch still receives the full replay exactly
\* once".  Until the player changes games, the extra Keens that this launch has received
\* are in the one he started.
FreshLaunchReplay == Playing /\ games = 1 => gs.extra = filler

\* ck_us_2.c 315: "GAME LOADED" is said of a game that was loaded.
LoadedIsLoaded ==
    pc \in {"start", "after"} /\ gs.levelState = "LoadedGame" => save.cut = 7
====
