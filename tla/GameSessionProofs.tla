---- MODULE GameSessionProofs ----
(***************************************************************************)
(* Proofs about GameSession for all levels, items, keys and bounds.        *)
(*                                                                         *)
(* The invariant has four layers: the types (with the bounds of the lives), *)
(* the flow of control through menu, demo loop and game loop, what play    *)
(* keeps intact, and the fuses.  Play is intact only where loads are whole *)
(* or report that they are not (Trusted).                                  *)
(***************************************************************************)
EXTENDS GameSession, TLAPS

GameStates == [levelState : LevelStates, levelsDone : SUBSET (Levels \cup {0}), wetsuit : BOOLEAN,
               fusesRemaining : Int, keyGems : SUBSET Keys, currentLevel : Levels \cup {0},
               numLives : Int, extra : Nat]

Maps == [of : Levels \cup {0}, opened : SUBSET Keys, placing : SUBSET Keys,
         fuses : Nat, qed : BOOLEAN, ending : BOOLEAN]

(***************************************************************************)
(* The layers of the invariant.                                            *)
(***************************************************************************)
\* The variables' types, the bounds of the lives left out; a file that is not there is NoSave.
Types ==
    /\ pc \in Places /\ gs \in GameStates /\ map \in Maps /\ ca_mapOn \in Levels \cup {0}
    /\ ap_items \in SUBSET Items /\ filler \in 0..MaxFiller
    /\ ap_has_pogo \in BOOLEAN /\ ck_startingDifficulty \in BOOLEAN
    /\ ck_startingSavedGame \in BOOLEAN /\ load_game_error \in BOOLEAN
    /\ ap_force_abort \in BOOLEAN /\ inGame \in BOOLEAN
    /\ save.cut \in Cuts \cup {-1, 7} /\ save.game \in GameStates /\ save.map \in Maps
    /\ save.cut = -1 => save = NoSave
    /\ checked \in SUBSET (Levels \cup {0})
    /\ asked \in {"none", "new", "saved", "return"} /\ games \in 0..2
    /\ launches \in 1..MaxLaunches

\* No more extra Keens than the launches could bring, and no more lives than a new game and
\* they give; a game without a life left is over.
Granted == MaxFiller * (launches - 1) + filler
LivesOf(h) == /\ h.extra <= Granted
              /\ h.numLives >= -1 /\ h.numLives <= NewLives + h.extra
Lives == /\ LivesOf(gs) /\ LivesOf(save.game)
         /\ save.game.numLives >= 0
         /\ gs.numLives = -1 => pc = "over"

\* Whatever game is running or saved, its levels were reported to AP.
Done == gs.levelsDone \subseteq checked /\ save.game.levelsDone \subseteq checked

\* Where the flags of a request and the level states may stand.
Flow ==
    /\ ck_startingSavedGame => pc \notin {"title", "demo", "menu", "keys"}
    /\ pc \in {"poll", "frame", "keys", "cheats"} => inGame
    /\ pc \in {"title", "demo", "start"} => ~inGame
    /\ ck_startingDifficulty =>
         \/ pc \in {"start", "after"} /\ gs.levelState \in {"ResetGame", "AbortGame"}
         \/ pc \in {"scores", "demo", "title"}
         \/ pc = "menu" /\ ~inGame
    /\ pc \in {"poll", "frame"} => gs.levelState = "Playing"
    /\ pc = "keys" \/ (pc = "menu" /\ inGame) =>
         gs.levelState \notin {"ResetGame", "LoadedGame", "AbortGame"}
    /\ pc = "cheats" => gs.levelState # "ResetGame"

\* Where a game is in play, or is about to be resumed as it is.
InPlay ==
    \/ pc \in {"poll", "frame", "keys"}
    \/ pc = "menu" /\ inGame /\ ~load_game_error
    \/ pc = "cheats" /\ gs.levelState # "AbortGame"
    \/ pc \in {"start", "after"} /\ gs.levelState = "LoadedGame"

\* The bodies of KeysAccounted and of EffectsMatchItems for game state h on map m.
IntactOf(h, m) ==
    LET own == ap_apply_level_items(ca_mapOn, ap_items) IN
    /\ own \subseteq h.keyGems \cup m.opened \cup m.placing
    /\ h.keyGems \subseteq own
    /\ ap_has_pogo = (Pogo \in ap_items)
    /\ h.wetsuit = (Episode = "CK4" /\ Wetsuit \in ap_items)
Intact == IntactOf(gs, map)

\* No crash cuts a saved game off, or a short read always sets errno.
Trusted == Cuts = {} \/ FALSE \notin ErrnoSet

PlayIntact == Trusted => (InPlay => Intact)

\* The body of FusesCounted for game state h on map m.
FusesOf(h, m) ==
    IF m.of # 0 /\ m.of = QEDLevel THEN m.qed # m.ending /\ m.fuses = 0
    ELSE /\ h.fusesRemaining = m.fuses
         /\ m.of # 0 /\ Fuses0(m.of) > 0 /\ m.fuses = 0 => m.ending

\* Without cut files no load fails, and the fuses are counted in play and in the file.
Fused == Cuts = {} => /\ ~load_game_error
                      /\ InPlay => FusesOf(gs, map)
                      /\ FusesOf(save.game, save.map)

\* A request stands exactly from the menu to the game loop.
Asked ==
    Cuts = {} =>
      /\ ck_startingDifficulty => pc \in {"start", "after"} /\ gs.levelState = "ResetGame"
      /\ asked = "new" => pc \in {"start", "after"} /\ gs.levelState = "ResetGame"
      /\ asked = "saved" => pc \in {"start", "after", "cheats"} /\ gs.levelState = "LoadedGame"
      /\ pc \in {"start", "after"} /\ gs.levelState = "ResetGame" => asked = "new"
      /\ pc \in {"start", "after", "cheats"} /\ gs.levelState = "LoadedGame" => asked = "saved"

\* The parts of the assumption that most steps need.
LEMMA ConstantsType ==
    /\ NewLives \in Nat /\ MaxFiller \in Nat /\ MaxLaunches \in Nat \ {0}
    /\ Levels \subseteq Nat \ {0} /\ DemoLevel \in Levels
    /\ Cuts \subseteq 0 .. 6 /\ ErrnoSet \subseteq BOOLEAN
BY GameAssumption DEF GameAssumption

(***************************************************************************)
(* What the operators on game states and maps return.                      *)
(***************************************************************************)
\* A map as it is cached is a map, with no more and no fewer fuses than its level counts.
LEMMA FreshType ==
    ASSUME NEW l \in Levels \cup {0}
    PROVE  /\ Fresh(l) \in Maps /\ Fuses0(l) \in Nat /\ Fresh(l).of = l
           /\ \A h \in GameStates : h.fusesRemaining = Fuses0(l) => FusesOf(h, Fresh(l))
<1>1. Fresh(l) \in Maps /\ Fuses0(l) \in Nat /\ Fresh(l).of = l
  BY GameAssumption DEF Fresh, Fuses0, Maps
<1>2. ASSUME NEW h \in GameStates, h.fusesRemaining = Fuses0(l) PROVE FusesOf(h, Fresh(l))
  <2>1. CASE l # 0 /\ l = QEDLevel
    <3>1. /\ Fresh(l).of = QEDLevel /\ Fresh(l).qed = TRUE /\ Fresh(l).ending = FALSE
          /\ Fresh(l).fuses = 0
      BY <2>1, GameAssumption DEF Fresh
    <3>. QED  BY <2>1, <3>1 DEF FusesOf
  <2>2. CASE ~(l # 0 /\ l = QEDLevel)
    <3>1. Fresh(l).of = l /\ Fuses0(l) = Fresh(l).fuses
      BY <2>2 DEF Fresh, Fuses0
    <3>. QED  BY <1>2, <2>2, <3>1 DEF FusesOf
  <2>. QED  BY <2>1, <2>2
<1>. QED  BY <1>1, <1>2

\* A file is cut at one of its seven places, whole, or not there.
LEMMA CutType == ASSUME Types PROVE save.cut \in -1 .. 7
<1>1. Cuts \subseteq 0 .. 6
  BY GameAssumption DEF GameAssumption
<1>2. save.cut \in Cuts \cup {-1, 7}
  BY DEF Types
<1>3. \A x \in Cuts : x \in -1 .. 7
  BY <1>1
<1>. QED  BY <1>2, <1>3

\* CK_LoadLevel sets the keys, the wetsuit and the fuses and keeps the rest.
LEMMA LoadLevelFields ==
    ASSUME NEW g \in GameStates
    PROVE  /\ CK_LoadLevel(g) \in GameStates
           /\ CK_LoadLevel(g).keyGems = ap_apply_level_items(g.currentLevel, ap_items)
           /\ CK_LoadLevel(g).wetsuit = (Episode = "CK4" /\ Wetsuit \in ap_items)
           /\ CK_LoadLevel(g).fusesRemaining = Fuses0(g.currentLevel)
           /\ CK_LoadLevel(g).levelState = g.levelState
           /\ CK_LoadLevel(g).levelsDone = g.levelsDone
           /\ CK_LoadLevel(g).currentLevel = g.currentLevel
           /\ CK_LoadLevel(g).numLives = g.numLives
           /\ CK_LoadLevel(g).extra = g.extra
<1>1. ap_apply_level_items(g.currentLevel, ap_items) \subseteq Keys
  BY DEF ap_apply_level_items
<1>2. Fuses0(g.currentLevel) \in Int
  <2>1. g.currentLevel \in Levels \cup {0}
    BY DEF GameStates
  <2>. QED  BY <2>1, FreshType
<1>. QED  BY <1>1, <1>2 DEF CK_LoadLevel, ap_resync_items, GameStates

\* CK_LoadGameState brings the parts that the file holds, the lives with the extra Keens
\* among them, and keeps the rest.
LEMMA LoadGameStateFields ==
    ASSUME Types, NEW g \in GameStates
    PROVE  /\ CK_LoadGameState(g) \in GameStates
           /\ CK_LoadGameState(g).levelState = g.levelState
           /\ CK_LoadGameState(g).levelsDone \in {g.levelsDone, save.game.levelsDone}
           /\ \E h \in {g, save.game} : /\ CK_LoadGameState(g).numLives = h.numLives
                                       /\ CK_LoadGameState(g).extra = h.extra
           /\ save.cut = 7 => CK_LoadGameState(g) = [save.game EXCEPT !.levelState = g.levelState]
<1>0. DOMAIN g = {"levelState", "levelsDone", "wetsuit", "fusesRemaining", "keyGems",
                  "currentLevel", "numLives", "extra"}
  BY DEF GameStates
<1> DEFINE n == IF save.cut < 5 THEN save.cut ELSE 5
           parts == UNION {StateParts[k] : k \in 1..n}
<1>9. n \in Int /\ n <= 5
  BY CutType
<1> HIDE DEF n
<1>1. "levelState" \notin parts
  BY <1>9 DEF StateParts
<1>2. "numLives" \in parts <=> "extra" \in parts
  BY <1>9 DEF StateParts
<1>3. CK_LoadGameState(g) = [f \in DOMAIN g |-> IF f \in parts THEN save.game[f] ELSE g[f]]
  BY DEF CK_LoadGameState, n
<1> HIDE DEF parts
<1>4. CK_LoadGameState(g) \in GameStates
  BY <1>0, <1>1, <1>3 DEF GameStates, Types
<1>5. /\ CK_LoadGameState(g).levelState = g.levelState
      /\ CK_LoadGameState(g).levelsDone \in {g.levelsDone, save.game.levelsDone}
  BY <1>0, <1>1, <1>3
<1>6. \E h \in {g, save.game} : /\ CK_LoadGameState(g).numLives = h.numLives
                              /\ CK_LoadGameState(g).extra = h.extra
  BY <1>0, <1>2, <1>3
<1>7. ASSUME save.cut = 7
      PROVE  CK_LoadGameState(g) = [save.game EXCEPT !.levelState = g.levelState]
  <2>1. n = 5
    BY <1>7 DEF n
  <2>2. StateParts[1] \subseteq parts /\ StateParts[2] \subseteq parts /\ StateParts[3] \subseteq parts
        /\ StateParts[4] \subseteq parts /\ StateParts[5] \subseteq parts
    BY <2>1 DEF parts
  <2>3. {"levelsDone", "wetsuit", "fusesRemaining", "keyGems", "currentLevel", "numLives", "extra"}
          \subseteq parts
    BY <2>2 DEF StateParts
  <2>. QED  BY <1>0, <1>1, <1>3, <2>3 DEF GameStates, Types
<1>. QED  BY <1>4, <1>5, <1>6, <1>7

\* A load, whatever the file: the game state it leaves is one, counted from the lives of
\* the game or of the file; of a whole file it is the file's, with keys and wetsuit anew.
LEMMA RestoredFields ==
    ASSUME Types, NEW g \in GameStates
    PROVE  /\ Restored(g) \in GameStates
           /\ Restored(g).levelState = g.levelState
           /\ Restored(g).levelsDone \in {g.levelsDone, save.game.levelsDone}
           /\ \E h \in {g, save.game} : /\ Restored(g).numLives = h.numLives
                                       /\ Restored(g).extra = h.extra
           /\ save.cut = 7 =>
                /\ Restored(g).keyGems = ap_apply_level_items(save.game.currentLevel, ap_items)
                /\ Restored(g).wetsuit = (Episode = "CK4" /\ Wetsuit \in ap_items)
                /\ Restored(g).fusesRemaining = save.game.fusesRemaining
                /\ Restored(g).currentLevel = save.game.currentLevel
                /\ Restored(g).numLives = save.game.numLives
<1> DEFINE h == CK_LoadGameState(g)
<1>1. h \in GameStates
  BY LoadGameStateFields
<1>2. Restored(g) \in {h, CK_LoadLevel(h), [CK_LoadLevel(h) EXCEPT !.fusesRemaining = h.fusesRemaining]}
  BY DEF Restored
<1>3. save.cut = 7 => Restored(g) = [CK_LoadLevel(h) EXCEPT !.fusesRemaining = h.fusesRemaining]
  BY DEF Restored
<1>4. /\ h.levelState = g.levelState
      /\ h.levelsDone \in {g.levelsDone, save.game.levelsDone}
      /\ \E x \in {g, save.game} : h.numLives = x.numLives /\ h.extra = x.extra
      /\ save.cut = 7 => h = [save.game EXCEPT !.levelState = g.levelState]
  BY LoadGameStateFields
<1> HIDE DEF h
<1>5. \A x \in {h, CK_LoadLevel(h), [CK_LoadLevel(h) EXCEPT !.fusesRemaining = h.fusesRemaining]} :
        /\ x \in GameStates /\ x.levelState = h.levelState /\ x.levelsDone = h.levelsDone
        /\ x.numLives = h.numLives /\ x.extra = h.extra
  BY <1>1, LoadLevelFields DEF GameStates
<1>6. ASSUME save.cut = 7
      PROVE  /\ Restored(g).keyGems = ap_apply_level_items(save.game.currentLevel, ap_items)
             /\ Restored(g).wetsuit = (Episode = "CK4" /\ Wetsuit \in ap_items)
             /\ Restored(g).fusesRemaining = save.game.fusesRemaining
             /\ Restored(g).currentLevel = save.game.currentLevel
             /\ Restored(g).numLives = save.game.numLives
  <2>1. /\ h.currentLevel = save.game.currentLevel /\ h.fusesRemaining = save.game.fusesRemaining
        /\ h.numLives = save.game.numLives
    BY <1>4, <1>6 DEF GameStates, Types
  <2>. QED  BY <1>1, <1>3, <1>6, <2>1, LoadLevelFields DEF GameStates
<1>. QED  BY <1>2, <1>4, <1>5, <1>6

\* What a load leaves besides: of a whole file the file's map.
LEMMA LoadGameFields ==
    ASSUME Types, CK_LoadGame
    PROVE  /\ map' \in Maps /\ ca_mapOn' \in Levels \cup {0} /\ ap_has_pogo' \in BOOLEAN
           /\ save.cut = 7 => /\ map' = save.map /\ ca_mapOn' = save.game.currentLevel
                              /\ ap_has_pogo' = (Pogo \in ap_items)
<1> DEFINE l == Restored(gs).currentLevel
<1>1. Restored(gs) \in GameStates /\ (save.cut = 7 => l = save.game.currentLevel)
  BY RestoredFields DEF Types
<1>2. l \in Levels \cup {0}
  BY <1>1 DEF GameStates
<1>3. CASE save.cut < 5
  BY <1>3 DEF CK_LoadGame, level, Types
<1>4. CASE ~(save.cut < 5)
  <2>1. map' \in RestoredMaps(l) /\ ca_mapOn' = l /\ ap_has_pogo' = (Pogo \in ap_items)
    BY <1>4 DEF CK_LoadGame
  <2>2. RestoredMaps(l) \subseteq Maps /\ (save.cut = 7 => RestoredMaps(l) = {save.map})
    <3>1. Fresh(l) \in Maps /\ save.map \in Maps
      BY <1>2, FreshType DEF Types
    <3>2. CASE save.cut = 5
      <4>1. RestoredMaps(l) = {Fresh(l), [Fresh(l) EXCEPT !.opened = save.map.opened,
                                                          !.fuses = save.map.fuses]}
        BY <3>2 DEF RestoredMaps
      <4>2. [Fresh(l) EXCEPT !.opened = save.map.opened, !.fuses = save.map.fuses] \in Maps
        BY <3>1 DEF Maps
      <4>. QED  BY <3>1, <3>2, <4>1, <4>2
    <3>3. CASE save.cut = 6
      <4> DEFINE Part(e, q, p) ==
                   [save.map EXCEPT !.ending = @ /\ e, !.qed = @ /\ q, !.placing = @ \cap p]
      <4>1. RestoredMaps(l) =
              {Part(e, q, p) : e \in BOOLEAN, q \in BOOLEAN, p \in {{}, Keys}}
        BY <3>3 DEF RestoredMaps
      <4>2. \A e \in BOOLEAN, q \in BOOLEAN, p \in {{}, Keys} : Part(e, q, p) \in Maps
        BY <3>1 DEF Maps
      <4> HIDE DEF Part
      <4>. QED  BY <3>3, <4>1, <4>2
    <3>4. CASE save.cut # 5 /\ save.cut # 6
      <4>1. RestoredMaps(l) = {save.map}
        BY <3>4 DEF RestoredMaps
      <4>. QED  BY <3>1, <4>1
    <3>. QED  BY <3>2, <3>3, <3>4
  <2>. QED  BY <1>1, <1>2, <2>1, <2>2
<1>. QED  BY <1>3, <1>4

\* A level load brings a level in play, intact, with all its fuses.
LEMMA LoadLevelStep ==
    ASSUME NEW g \in GameStates, LoadLevel(g), ap_items' = ap_items
    PROVE  /\ gs' \in GameStates /\ map' \in Maps /\ ca_mapOn' \in Levels \cup {0}
           /\ ap_has_pogo' \in BOOLEAN
           /\ gs'.levelState = "Playing" /\ gs'.levelsDone = g.levelsDone
           /\ gs'.numLives = g.numLives /\ gs'.extra = g.extra
           /\ pc' = "poll" /\ inGame' = TRUE
           /\ Intact' /\ FusesOf(gs', map')
<1> DEFINE h == CK_LoadLevel(g)
           l == g.currentLevel
<1>1. /\ h \in GameStates /\ h.levelsDone = g.levelsDone /\ h.numLives = g.numLives
      /\ h.extra = g.extra /\ h.fusesRemaining = Fuses0(l)
      /\ h.keyGems = ap_apply_level_items(l, ap_items)
      /\ h.wetsuit = (Episode = "CK4" /\ Wetsuit \in ap_items)
  BY LoadLevelFields
<1>2. /\ gs' = [h EXCEPT !.levelState = "Playing"] /\ pc' = "poll" /\ inGame' = TRUE
      /\ map' = Fresh(l) /\ ca_mapOn' = l /\ ap_has_pogo' = (Pogo \in ap_items)
  BY DEF LoadLevel, CachesLevel, CK_PlayLoop, gs
<1> HIDE DEF h
<1>3. l \in Levels \cup {0}
  BY DEF GameStates
<1>4. /\ gs' \in GameStates /\ gs'.levelState = "Playing" /\ gs'.levelsDone = h.levelsDone
      /\ gs'.numLives = h.numLives /\ gs'.extra = h.extra /\ gs'.wetsuit = h.wetsuit
      /\ gs'.keyGems = h.keyGems /\ gs'.fusesRemaining = h.fusesRemaining
  BY <1>1, <1>2 DEF GameStates, LevelStates
<1>5. map' \in Maps /\ FusesOf(gs', map')
  BY <1>1, <1>2, <1>3, <1>4, FreshType
<1>6. Intact'
  BY <1>1, <1>2, <1>4 DEF Intact, IntactOf, ap_apply_level_items, gs
<1>. QED  BY <1>1, <1>2, <1>3, <1>4, <1>5, <1>6

(***************************************************************************)
(* Types, lives and reported levels, action by action.                     *)
(***************************************************************************)
Base == Types /\ Lives /\ Done

\* The bound of the extra Keens is a number that grows with launches and messages.
LEMMA GrantedGrows ==
    ASSUME Types
    PROVE  /\ Granted \in Nat
           /\ UNCHANGED <<filler, launches>> => Granted' = Granted
           /\ filler' = filler + 1 /\ launches' = launches => Granted' = Granted + 1
           /\ filler' = 0 /\ launches' = launches + 1 => Granted' >= Granted
<1>1. MaxFiller \in Nat /\ filler \in Nat /\ filler <= MaxFiller /\ launches \in Nat /\ launches >= 1
  BY ConstantsType DEF Types
<1>2. \A n \in Nat : MaxFiller * n \in Nat
  BY <1>1
<1>3. launches - 1 \in Nat
  BY <1>1
<1>4. MaxFiller * launches = MaxFiller * (launches - 1) + MaxFiller
  BY <1>1
<1>5. MaxFiller * (launches - 1) \in Nat
  BY <1>2, <1>3
<1>. QED  BY <1>1, <1>4, <1>5 DEF Granted

\* A game state as the program starts with it.
LEMMA ZeroGameType == /\ ZeroGame \in GameStates /\ Fresh(0) \in Maps
                      /\ ZeroGame.numLives = 0 /\ ZeroGame.extra = 0 /\ ZeroGame.levelsDone = {}
BY FreshType DEF ZeroGame, GameStates, LevelStates

\* A new game has the lives of a new game and no level done.
LEMMA NewGameFields ==
    ASSUME Types
    PROVE  /\ CK_NewGame \in GameStates /\ CK_NewGame.numLives = NewLives /\ CK_NewGame.extra = 0
           /\ CK_NewGame.levelsDone = {} /\ CK_NewGame.currentLevel = 0
           /\ CK_NewGame.levelState = gs.levelState /\ CK_NewGame.fusesRemaining = 0
           /\ CK_NewGame.keyGems = {}
<1>1. /\ ZeroGame \in GameStates /\ gs.levelState \in LevelStates /\ NewLives \in Int
      /\ CK_NewGame = [ZeroGame EXCEPT !.numLives = NewLives, !.levelState = gs.levelState]
  BY ConstantsType, ZeroGameType DEF CK_NewGame, GameStates, Types
<1>2. ZeroGame.fusesRemaining = 0 /\ ZeroGame.keyGems = {} /\ ZeroGame.currentLevel = 0
  BY DEF ZeroGame
<1>. QED  BY <1>1, <1>2, ZeroGameType DEF GameStates

\* The base holds when the program starts.
LEMMA InitBase == ASSUME Init PROVE Base
<1>1. Types
  <2>1. save.cut \in Cuts \cup {-1, 7} /\ save.game \in GameStates /\ save.map \in Maps /\ save = NoSave
    BY ZeroGameType DEF Init, NoSave
  <2>2. launches \in 1..MaxLaunches /\ filler \in 0..MaxFiller /\ games \in 0..2
    BY ConstantsType DEF Init
  <2>. QED  BY <2>1, <2>2, ZeroGameType DEF Init, Types, Places, gs
<1>2. Granted \in Nat
  BY <1>1, GrantedGrows
<1>3. Lives /\ Done
  BY <1>2, ZeroGameType, ConstantsType DEF Init, Lives, LivesOf, Done, NoSave, gs
<1>. QED  BY <1>1, <1>3 DEF Base

\* A save, whole or cut off by a crash, takes the running game with its lives and levels.
LEMMA SaveBase ==
    ASSUME Base, NEW cut \in Cuts \cup {7}, pc # "over", CK_SaveGame(cut)
    PROVE  /\ save'.cut \in Cuts \cup {-1, 7} /\ save'.game \in GameStates /\ save'.map \in Maps
           /\ save'.cut # -1
           /\ save'.game.numLives = gs.numLives /\ save'.game.extra = gs.extra
           /\ save'.game.numLives >= 0 /\ save'.game.levelsDone = gs.levelsDone
<1>1. save'.cut = cut /\ save'.game = [gs EXCEPT !.levelState = "Playing"] /\ save'.map = map
  BY DEF CK_SaveGame
<1>2. /\ save'.game \in GameStates /\ save'.game.numLives = gs.numLives
      /\ save'.game.extra = gs.extra /\ save'.game.levelsDone = gs.levelsDone
  BY <1>1 DEF Base, Types, GameStates, LevelStates
<1>3. gs.numLives >= 0
  BY DEF Base, Types, Lives, LivesOf, GameStates
<1>4. cut # -1
  BY ConstantsType
<1>. QED  BY <1>1, <1>2, <1>3, <1>4 DEF Base, Types

\* The program ends, between two steps or in a save, and starts anew with the file.
LEMMA LaunchBase == ASSUME Base, Relaunch \/ CrashWhileSaving PROVE Base'
<1>1. /\ Launched /\ launches' = launches + 1 /\ launches < MaxLaunches /\ UNCHANGED checked
      /\ UNCHANGED save \/ ((\E cut \in Cuts : CK_SaveGame(cut)) /\ pc # "over")
  BY DEF Relaunch, CrashWhileSaving
<1>2. Granted' >= Granted /\ Granted \in Nat
  BY <1>1, GrantedGrows DEF Launched, Base
<1>3. /\ save'.cut \in Cuts \cup {-1, 7} /\ save'.game \in GameStates /\ save'.map \in Maps
      /\ save'.cut = -1 => save' = NoSave
      /\ save'.game.levelsDone \subseteq checked
      /\ save'.game.numLives >= 0
      /\ save'.game.extra <= Granted /\ save'.game.numLives <= NewLives + save'.game.extra
  <2>1. CASE UNCHANGED save
    BY <2>1 DEF Base, Types, Done, Lives, LivesOf
  <2>2. CASE (\E cut \in Cuts : CK_SaveGame(cut)) /\ pc # "over"
    BY <2>2, SaveBase DEF Base, Done, Lives, LivesOf
  <2>. QED  BY <1>1, <2>1, <2>2
<1>4. Types'
  <2>1. launches' \in 1..MaxLaunches /\ filler' \in 0..MaxFiller /\ games' \in 0..2
    BY <1>1, ConstantsType DEF Launched, Base, Types
  <2>2. checked' \in SUBSET (Levels \cup {0})
    BY <1>1 DEF Base, Types
  <2>. QED  BY <1>1, <1>3, <2>1, <2>2, ZeroGameType DEF Launched, Types, Places, gs, NoSave
<1>5. Lives'
  <2>1. save'.game.extra \in Nat /\ NewLives \in Nat /\ save'.game.numLives \in Int
    BY <1>3, ConstantsType DEF GameStates
  <2>2. Granted' \in Nat
    BY <1>1, ConstantsType DEF Granted, Launched, Base, Types
  <2>. QED  BY <1>1, <1>2, <1>3, <2>1, <2>2, ZeroGameType DEF Lives, LivesOf, Launched, gs
<1>6. Done'
  BY <1>1, <1>3, ZeroGameType DEF Launched, Done, gs
<1>. QED  BY <1>4, <1>5, <1>6 DEF Base

\* The types of what a step of the menu or of the game loop changes are all there is to show.
LEMMA TypesStep ==
    ASSUME Types, UNCHANGED <<received, save, launches>>,
           pc' \in Places, gs' \in GameStates, map' \in Maps, ca_mapOn' \in Levels \cup {0},
           ap_has_pogo' \in BOOLEAN, ck_startingDifficulty' \in BOOLEAN,
           ck_startingSavedGame' \in BOOLEAN, load_game_error' \in BOOLEAN,
           ap_force_abort' \in BOOLEAN, inGame' \in BOOLEAN,
           checked' \in SUBSET (Levels \cup {0}),
           asked' \in {"none", "new", "saved", "return"}, games' \in 0..2
    PROVE  Types'
BY DEF Types, received

\* A step that keeps the lives, the levels done and what was granted keeps the base if it
\* keeps the types; the lives are those of the running game or of the file.
LEMMA KeepsBase ==
    ASSUME Base, Types', UNCHANGED <<save, filler, launches>>, checked \subseteq checked',
           NEW x \in {gs, save.game}, gs'.numLives = x.numLives, gs'.extra = x.extra,
           gs'.levelsDone \subseteq checked', pc = "over" => pc' = "over" \/ gs'.numLives # -1
    PROVE  Base'
<1>1. Granted' = Granted
  BY GrantedGrows DEF Base
<1>2. Lives'
  BY <1>1, ConstantsType DEF Base, Lives, LivesOf
<1>3. Done'
  BY DEF Base, Done
<1>. QED  BY <1>2, <1>3 DEF Base

\* The demos and the title.
LEMMA DemosBase == ASSUME Base, Demos PROVE Base'
<1>. USE DEF Base
<1>1. CASE CK_PlayDemo
  <2> DEFINE g == [CK_NewGame EXCEPT !.currentLevel = DemoLevel]
             h == CK_LoadLevel(g)
  <2>1. g \in GameStates /\ g.numLives = NewLives /\ g.extra = 0 /\ g.levelsDone = {}
    BY NewGameFields, ConstantsType DEF GameStates
  <2> HIDE DEF g
  <2>2. h \in GameStates /\ h.numLives = NewLives /\ h.extra = 0 /\ h.levelsDone = {}
    BY <2>1, LoadLevelFields
  <2>3. gs' = [h EXCEPT !.levelState = "Playing"]
    BY <1>1 DEF CK_PlayDemo, gs, g
  <2> HIDE DEF h
  <2>4. gs' \in GameStates /\ gs'.numLives = NewLives /\ gs'.extra = 0 /\ gs'.levelsDone = {}
    BY <2>2, <2>3 DEF GameStates, LevelStates
  <2>5. Types'
    BY <1>1, <2>4, FreshType, ConstantsType DEF CK_PlayDemo, CachesLevel, received, Types, Places
  <2>6. Granted' = Granted /\ Granted \in Nat
    BY <1>1, GrantedGrows DEF CK_PlayDemo, received
  <2>7. Lives' /\ Done'
    BY <1>1, <2>4, <2>6, ConstantsType DEF CK_PlayDemo, received, Lives, LivesOf, Done
  <2>. QED  BY <2>5, <2>7
<1>2. CASE CK_HandleDemoKeys
  <2>1. /\ gs' \in GameStates /\ gs'.numLives = gs.numLives /\ gs'.extra = gs.extra
        /\ gs'.levelsDone = gs.levelsDone
    BY <1>2 DEF CK_HandleDemoKeys, gs, Types, GameStates, LevelStates
  <2>2. Types'
    BY <1>2, <2>1 DEF CK_HandleDemoKeys, level, received, flags, Types, Places
  <2>. QED  BY <1>2, <2>1, <2>2, KeepsBase DEF CK_HandleDemoKeys, received, Done
<1>3. CASE CK_ShowTitleScreen
  <2>1. Types'
    BY <1>3 DEF CK_ShowTitleScreen, level, received, flags, Types, Places, gs
  <2>. QED  BY <1>3, <2>1, KeepsBase DEF CK_ShowTitleScreen, received, Done, gs
<1>. QED  BY <1>1, <1>2, <1>3 DEF Demos

\* The items and the extra Keens of a poll.
LEMMA PollBase == ASSUME Base, ap_client_poll PROVE Base'
<1>. USE DEF Base
<1>1. ASSUME NEW items PROVE LET g == ap_client_give_item(gs, items) IN
        /\ g \in GameStates /\ g.numLives = gs.numLives /\ g.extra = gs.extra
        /\ g.levelsDone = gs.levelsDone /\ g.levelState = gs.levelState
  <2>1. ap_apply_level_items(ca_mapOn, items) \subseteq Keys
    BY DEF ap_apply_level_items
  <2>. QED  BY <2>1 DEF ap_client_give_item, Types, GameStates
<1>2. ASSUME NEW i \in Items, ReceiveItem(i) PROVE Base'
  <2>1. /\ gs' \in GameStates /\ gs'.numLives = gs.numLives /\ gs'.extra = gs.extra
        /\ gs'.levelsDone = gs.levelsDone
    BY <1>1, <1>2 DEF ReceiveItem, gs
  <2>2. Types'
    BY <1>2, <2>1 DEF ReceiveItem, flags, Types, Places
  <2>. QED  BY <1>2, <2>1, <2>2, KeepsBase DEF ReceiveItem, Done
<1>3. CASE ReceiveExtraKeen
  <2> DEFINE g == ap_client_give_item(gs, ap_items)
  <2>1. gs' = [g EXCEPT !.numLives = @ + 1, !.extra = @ + 1]
    BY <1>3 DEF ReceiveExtraKeen, gs
  <2>2. /\ g \in GameStates /\ g.numLives = gs.numLives /\ g.extra = gs.extra
        /\ g.levelsDone = gs.levelsDone
    BY <1>1
  <2> HIDE DEF g
  <2>3. /\ gs' \in GameStates /\ gs'.numLives = gs.numLives + 1 /\ gs'.extra = gs.extra + 1
        /\ gs'.levelsDone = gs.levelsDone
    <3>1. g.numLives + 1 \in Int /\ g.extra + 1 \in Nat
      BY <2>2 DEF GameStates
    <3>2. gs' = [g EXCEPT !.numLives = g.numLives + 1, !.extra = g.extra + 1]
      BY <2>1, <2>2 DEF GameStates
    <3>3. gs' \in GameStates
      BY <2>2, <3>1, <3>2 DEF GameStates
    <3>4. gs'.numLives = g.numLives + 1 /\ gs'.extra = g.extra + 1 /\ gs'.levelsDone = g.levelsDone
      BY <2>2, <3>2 DEF GameStates
    <3>. QED  BY <2>2, <3>3, <3>4
  <2>4. filler' \in 0..MaxFiller
    BY <1>3, ConstantsType DEF ReceiveExtraKeen, Types
  <2>5. Types'
    BY <1>3, <2>3, <2>4 DEF ReceiveExtraKeen, level, flags, Types, Places
  <2>6. Granted' = Granted + 1 /\ Granted \in Nat
    BY <1>3, GrantedGrows DEF ReceiveExtraKeen
  <2>7. UNCHANGED <<pc, save, checked>>
    BY <1>3 DEF ReceiveExtraKeen
  <2>8. /\ gs.numLives \in Int /\ gs.extra \in Nat /\ save.game.extra \in Nat
        /\ save.game.numLives \in Int
    BY DEF Types, GameStates
  <2>9. Lives'
    BY <2>3, <2>6, <2>7, <2>8, ConstantsType DEF Lives, LivesOf
  <2>10. Done'
    BY <2>3, <2>7 DEF Done
  <2>. QED  BY <2>5, <2>9, <2>10
<1>4. CASE PollEnds
  <2>1. Types'
    BY <1>4 DEF PollEnds, level, received, flags, Types, Places, gs
  <2>. QED  BY <1>4, <2>1, KeepsBase DEF PollEnds, received, Done, gs
<1>. QED  BY <1>2, <1>3, <1>4 DEF ap_client_poll

\* What a frame that leaves game state g on map m keeps.
LEMMA FrameStep ==
    ASSUME Base, NEW g \in GameStates, NEW m \in Maps, Frame(g, m),
           g.numLives = gs.numLives, g.extra = gs.extra, g.levelsDone = gs.levelsDone
    PROVE  Base'
<1>1. Types'
  BY DEF Base, Frame, received, Types, Places, gs
<1>. QED  BY <1>1, KeepsBase DEF Base, Frame, received, Done, gs

\* What happens in a frame changes neither lives nor levels done.
LEMMA FrameBase == ASSUME Base, InFrame PROVE Base'
<1>. USE DEF Base
<1>0. gs \in GameStates /\ map \in Maps
  BY DEF Types
<1>1. ASSUME NEW s \in LevelStates, NEW m \in Maps, Frame([gs EXCEPT !.levelState = s], m)
      PROVE  Base'
  <2> DEFINE g == [gs EXCEPT !.levelState = s]
  <2>1. /\ g \in GameStates /\ g.numLives = gs.numLives /\ g.extra = gs.extra
        /\ g.levelsDone = gs.levelsDone
    BY <1>0 DEF GameStates
  <2>. QED  BY <1>1, <2>1, FrameStep
<1>2. CASE NothingHappens
  BY <1>0, <1>2, FrameStep DEF NothingHappens
<1>3. ASSUME NEW k \in Keys, PlacesKey(k) PROVE Base'
  <2> DEFINE g == [gs EXCEPT !.keyGems = @ \ {k}]
             m == [map EXCEPT !.placing = {k}]
  <2>1. /\ g \in GameStates /\ g.numLives = gs.numLives /\ g.extra = gs.extra
        /\ g.levelsDone = gs.levelsDone
    BY <1>0 DEF GameStates
  <2>2. m \in Maps
    BY <1>0 DEF Maps
  <2>. QED  BY <1>3, <2>1, <2>2, FrameStep DEF PlacesKey
<1>4. CASE CK_KeenPlaceGem
  <2>1. [map EXCEPT !.opened = @ \cup map.placing, !.placing = {}] \in Maps
    BY <1>0 DEF Maps
  <2>. QED  BY <1>0, <1>4, <2>1, FrameStep DEF CK_KeenPlaceGem
<1>5. CASE CK_KeenBreakFuse
  <2> DEFINE g == [gs EXCEPT !.fusesRemaining = @ - 1]
             m == [map EXCEPT !.fuses = @ - 1, !.ending = @ \/ gs.fusesRemaining = 1]
  <2>1. /\ g \in GameStates /\ g.numLives = gs.numLives /\ g.extra = gs.extra
        /\ g.levelsDone = gs.levelsDone
    BY <1>0 DEF GameStates
  <2>2. m \in Maps
    <3>1. map.fuses - 1 \in Nat
      BY <1>0, <1>5 DEF Maps, CK_KeenBreakFuse
    <3>2. (map.ending \/ gs.fusesRemaining = 1) \in BOOLEAN
      OBVIOUS
    <3>. QED  BY <1>0, <3>1, <3>2 DEF Maps
  <2>. QED  BY <1>5, <2>1, <2>2, FrameStep DEF CK_KeenBreakFuse
<1>6. CASE CK5_MineShrapCol
  <2>1. [map EXCEPT !.qed = FALSE, !.ending = TRUE] \in Maps
    BY <1>0 DEF Maps
  <2>. QED  BY <1>0, <1>6, <2>1, FrameStep DEF CK5_MineShrapCol
<1>7. CASE CK5_LevelEnd
  <2> DEFINE s == IF ca_mapOn = QEDLevel THEN "DestroyedQED" ELSE "KorathFuse"
  <2>1. s \in LevelStates
    BY DEF LevelStates
  <2>2. Frame([gs EXCEPT !.levelState = s], map)
    BY <1>7 DEF CK5_LevelEnd
  <2> HIDE DEF s
  <2>. QED  BY <1>0, <1>1, <2>1, <2>2
<1>8. ASSUME NEW s \in {"LevelComplete", "CouncilRescued"}, LeavesLevel(s) PROVE Base'
  BY <1>0, <1>1, <1>8 DEF LeavesLevel, LevelStates
<1>9. ASSUME NEW l \in Levels, CK_ScanForLevelEntry(l) PROVE Base'
  <2> DEFINE g == [gs EXCEPT !.currentLevel = l, !.levelState = "LevelComplete"]
  <2>1. /\ g \in GameStates /\ g.numLives = gs.numLives /\ g.extra = gs.extra
        /\ g.levelsDone = gs.levelsDone
    BY <1>0 DEF GameStates, LevelStates
  <2>. QED  BY <1>0, <1>9, <2>1, FrameStep DEF CK_ScanForLevelEntry
<1>10. CASE TeleportToKorath
  BY <1>0, <1>1, <1>10 DEF TeleportToKorath, LevelStates
<1>11. CASE Dies
  BY <1>0, <1>1, <1>11 DEF Dies, LevelStates
<1>. QED  BY <1>2, <1>3, <1>4, <1>5, <1>6, <1>7, <1>8, <1>9, <1>10, <1>11 DEF InFrame

\* A load keeps lives and levels within what was granted and reported.
LEMMA RestoredLives ==
    ASSUME Base, NEW g \in GameStates, g.numLives = gs.numLives, g.extra = gs.extra,
           g.levelsDone = gs.levelsDone
    PROVE  /\ Restored(g) \in GameStates /\ Restored(g).levelsDone \subseteq checked
           /\ Restored(g).levelState = g.levelState
           /\ \E x \in {gs, save.game} : /\ Restored(g).numLives = x.numLives
                                       /\ Restored(g).extra = x.extra
           /\ pc # "over" => Restored(g).numLives # -1
<1>1. /\ Restored(g) \in GameStates /\ Restored(g).levelState = g.levelState
      /\ Restored(g).levelsDone \in {g.levelsDone, save.game.levelsDone}
      /\ \E x \in {gs, save.game} : /\ Restored(g).numLives = x.numLives
                                  /\ Restored(g).extra = x.extra
  BY RestoredFields DEF Base
<1>. QED  BY <1>1 DEF Base, Lives, Done

\* The keys after a frame.
LEMMA KeysBase == ASSUME Base, CK_CheckKeys PROVE Base'
<1>. USE DEF Base
<1>0. gs \in GameStates
  BY DEF Types
<1>1. CASE NoKey \/ OpenMenu \/ NoCheat
  <2>1. UNCHANGED <<ck_gameState, level, received, flags, inGame, save, checked, asked, games, launches>>
        /\ pc' \in Places /\ pc # "over"
    BY <1>1 DEF NoKey, OpenMenu, NoCheat, AfterFrame, Places
  <2>2. Types'
    BY <2>1 DEF level, received, flags, Types, gs
  <2>. QED  BY <2>1, <2>2, KeepsBase DEF received, Done, gs, Lives
<1>2. CASE US_QuickSave
  <2>1. UNCHANGED <<ck_gameState, level, received, flags, inGame, checked, asked, games, launches>>
        /\ pc' = "cheats" /\ pc # "over" /\ CK_SaveGame(7)
    BY <1>2 DEF US_QuickSave
  <2>2. /\ save'.cut \in Cuts \cup {-1, 7} /\ save'.game \in GameStates /\ save'.map \in Maps
        /\ save'.cut # -1
        /\ save'.game.numLives = gs.numLives /\ save'.game.extra = gs.extra
        /\ save'.game.numLives >= 0 /\ save'.game.levelsDone = gs.levelsDone
    BY <2>1, SaveBase
  <2>3. Types'
    BY <2>1, <2>2 DEF level, received, flags, Types, gs, Places, NoSave
  <2>4. Granted' = Granted
    BY <2>1, GrantedGrows DEF received
  <2>. QED  BY <2>1, <2>2, <2>3, <2>4 DEF received, Lives, LivesOf, Done, gs
<1>3. CASE QuickLoadDeclined \/ CtrlR
  <2>1. /\ gs' \in GameStates /\ gs'.numLives = gs.numLives /\ gs'.extra = gs.extra
        /\ gs'.levelsDone = gs.levelsDone
    BY <1>0, <1>3 DEF QuickLoadDeclined, CtrlR, gs, GameStates, LevelStates
  <2>2. Types'
    BY <1>3, <2>1 DEF QuickLoadDeclined, CtrlR, level, received, Types, Places
  <2>. QED  BY <1>3, <2>1, <2>2, KeepsBase DEF QuickLoadDeclined, CtrlR, received, Done
<1>4. ASSUME NEW errno \in ErrnoSet, US_QuickLoad(errno) PROVE Base'
  <2> DEFINE r == Restored(gs)
  <2>1. /\ r \in GameStates /\ r.levelsDone \subseteq checked
        /\ \E x \in {gs, save.game} : r.numLives = x.numLives /\ r.extra = x.extra
    BY <1>0, RestoredLives
  <2>2. PICK s \in LevelStates : gs' = [r EXCEPT !.levelState = s]
    BY <1>4 DEF US_QuickLoad, gs, LevelStates
  <2> HIDE DEF r
  <2>3. /\ gs' \in GameStates /\ gs'.numLives = r.numLives /\ gs'.extra = r.extra
        /\ gs'.levelsDone = r.levelsDone
    BY <2>1, <2>2 DEF GameStates
  <2>4. map' \in Maps /\ ca_mapOn' \in Levels \cup {0} /\ ap_has_pogo' \in BOOLEAN
    BY <1>4, LoadGameFields DEF US_QuickLoad
  <2>5. ck_startingSavedGame' \in BOOLEAN
    BY <1>4, ConstantsType DEF US_QuickLoad, US_LoadMain
  <2>6. /\ pc = "keys" /\ pc' = "cheats" /\ load_game_error' = FALSE /\ asked' = "saved" /\ games' = 2
        /\ UNCHANGED <<received, ck_startingDifficulty, ap_force_abort, inGame, save, checked, launches>>
    BY <1>4 DEF US_QuickLoad
  <2>7. Types'
    <3>1. /\ ck_startingDifficulty' \in BOOLEAN /\ load_game_error' \in BOOLEAN
          /\ ap_force_abort' \in BOOLEAN /\ inGame' \in BOOLEAN
          /\ checked' \in SUBSET (Levels \cup {0})
      BY <2>6 DEF Types
    <3>. QED  BY <2>3, <2>4, <2>5, <2>6, <3>1, TypesStep DEF Places
  <2>. QED  BY <2>1, <2>3, <2>6, <2>7, KeepsBase DEF received
<1>. QED  BY <1>1, <1>2, <1>3, <1>4 DEF CK_CheckKeys

\* The menu closes over a game within its lives and levels.
LEMMA CloseMenuBase ==
    ASSUME Base, NEW g \in GameStates, NEW x \in {gs, save.game}, g.numLives = x.numLives,
           g.extra = x.extra, g.levelsDone \subseteq checked,
           NEW new \in BOOLEAN, NEW saved \in BOOLEAN, NEW error \in BOOLEAN,
           CloseMenu(g, new, saved, error),
           map' \in Maps, ca_mapOn' \in Levels \cup {0}, ap_has_pogo' \in BOOLEAN,
           asked' \in {"none", "new", "saved", "return"}, games' \in 0..2
    PROVE  Base'
<1>. USE DEF Base
<1> DEFINE h == IF new THEN CK_NewGame ELSE g
<1>0. /\ pc = "menu" /\ ck_startingDifficulty' = new /\ ck_startingSavedGame' = saved
      /\ load_game_error' = (error /\ ~inGame)
      /\ UNCHANGED <<received, ap_force_abort, inGame, save, checked, launches>>
  BY DEF CloseMenu
<1>1. h \in GameStates /\ h.levelsDone \subseteq checked
  BY NewGameFields
<1>2. PICK s \in LevelStates : gs' = [h EXCEPT !.levelState = s]
  BY DEF CloseMenu, gs, LevelStates, Types, GameStates
<1>3. pc' \in Places
  BY DEF CloseMenu, AfterFrame, Places
<1>4. \/ h.numLives = NewLives /\ h.extra = 0
      \/ h.numLives = x.numLives /\ h.extra = x.extra
  <2>1. CASE new
    BY <2>1, NewGameFields
  <2>2. CASE ~new
    BY <2>2
  <2>. QED  BY <2>1, <2>2
<1> HIDE DEF h
<1>5. /\ gs' \in GameStates /\ gs'.numLives = h.numLives /\ gs'.extra = h.extra
      /\ gs'.levelsDone = h.levelsDone
  BY <1>1, <1>2 DEF GameStates
<1>6. Types'
  <2>1. /\ load_game_error' \in BOOLEAN /\ ap_force_abort' \in BOOLEAN /\ inGame' \in BOOLEAN
        /\ checked' \in SUBSET (Levels \cup {0})
    BY <1>0 DEF Types
  <2>. QED  BY <1>0, <1>3, <1>5, <2>1, TypesStep
<1>7. CASE h.numLives = x.numLives /\ h.extra = x.extra
  BY <1>0, <1>1, <1>5, <1>6, <1>7, KeepsBase DEF received
<1>8. CASE h.numLives = NewLives /\ h.extra = 0
  <2>1. Granted' = Granted /\ Granted \in Nat
    BY <1>0, GrantedGrows DEF received
  <2>. QED  BY <1>0, <1>1, <1>5, <1>6, <1>8, <2>1, ConstantsType DEF received, Lives, LivesOf, Done
<1>. QED  BY <1>4, <1>7, <1>8

\* The cards of the wristwatch menu.
LEMMA MenuBase == ASSUME Base, US_RunCards PROVE Base'
<1>. USE DEF Base
<1>0. /\ gs \in GameStates /\ gs.levelsDone \subseteq checked
      /\ map \in Maps /\ ca_mapOn \in Levels \cup {0} /\ ap_has_pogo \in BOOLEAN
      /\ ck_startingDifficulty \in BOOLEAN /\ ck_startingSavedGame \in BOOLEAN
      /\ load_game_error \in BOOLEAN /\ games \in 0..2
  BY DEF Types, Done
<1>1. CASE MenuSave
  <2>1. /\ UNCHANGED <<pc, ck_gameState, level, received, flags, inGame, checked, asked, games, launches>>
        /\ pc = "menu" /\ CK_SaveGame(7)
    BY <1>1 DEF MenuSave
  <2>2. /\ save'.cut \in Cuts \cup {-1, 7} /\ save'.game \in GameStates /\ save'.map \in Maps
        /\ save'.cut # -1
        /\ save'.game.numLives = gs.numLives /\ save'.game.extra = gs.extra
        /\ save'.game.numLives >= 0 /\ save'.game.levelsDone = gs.levelsDone
    BY <2>1, SaveBase
  <2>3. Types'
    BY <2>1, <2>2 DEF level, received, flags, Types, gs, NoSave
  <2>4. Granted' = Granted
    BY <2>1, GrantedGrows DEF received
  <2>. QED  BY <2>1, <2>2, <2>3, <2>4 DEF received, Lives, LivesOf, Done, gs
<1>2. CASE MenuLoadFails
  <2>1. /\ pc = "menu" /\ gs' = Restored(gs) /\ CK_LoadGame /\ load_game_error' = TRUE
        /\ UNCHANGED <<pc, received, ck_startingDifficulty, ck_startingSavedGame, ap_force_abort,
                       inGame, save, checked, asked, games, launches>>
    BY <1>2 DEF MenuLoadFails, gs
  <2>2. map' \in Maps /\ ca_mapOn' \in Levels \cup {0} /\ ap_has_pogo' \in BOOLEAN
    BY <2>1, LoadGameFields
  <2>3. /\ gs' \in GameStates /\ gs'.levelsDone \subseteq checked
        /\ \E x \in {gs, save.game} : gs'.numLives = x.numLives /\ gs'.extra = x.extra
    BY <1>0, <2>1, RestoredLives
  <2>4. Types'
    BY <2>1, <2>2, <2>3 DEF received, Types
  <2>. QED  BY <2>1, <2>3, <2>4, KeepsBase DEF received
<1>3. ASSUME NEW errno \in ErrnoSet, MenuLoad(errno) PROVE Base'
  <2> DEFINE error == load_game_error \/ LoadFails
  <2>1. /\ CK_LoadGame /\ CloseMenu(Restored(gs), ck_startingDifficulty, TRUE, error)
        /\ asked' = "saved" /\ games' = 2
    BY <1>3 DEF MenuLoad
  <2>2. map' \in Maps /\ ca_mapOn' \in Levels \cup {0} /\ ap_has_pogo' \in BOOLEAN
    BY <2>1, LoadGameFields
  <2>3. /\ Restored(gs) \in GameStates /\ Restored(gs).levelsDone \subseteq checked
        /\ \E x \in {gs, save.game} : Restored(gs).numLives = x.numLives /\ Restored(gs).extra = x.extra
    BY <1>0, RestoredLives
  <2>4. error \in BOOLEAN
    BY <1>0 DEF LoadFails
  <2> DEFINE g == Restored(gs)
  <2>5. PICK x \in {gs, save.game} : g.numLives = x.numLives /\ g.extra = x.extra
    BY <2>3
  <2>6. /\ g \in GameStates /\ g.levelsDone \subseteq checked
        /\ \E new, saved, err \in BOOLEAN : CloseMenu(g, new, saved, err)
    BY <1>0, <2>1, <2>3, <2>4
  <2>7. asked' \in {"none", "new", "saved", "return"} /\ games' \in 0..2
    BY <2>1
  <2> HIDE DEF error, g
  <2>. QED  BY <2>2, <2>5, <2>6, <2>7, CloseMenuBase
<1>4. CASE MenuNewGame \/ MenuReturn \/ MenuEndGame
  <2>1. /\ \E new, saved, error \in BOOLEAN : CloseMenu(gs, new, saved, error)
        /\ UNCHANGED <<level, games>> /\ asked' \in {"none", "new", "saved", "return"}
    BY <1>0, <1>4 DEF MenuNewGame, MenuReturn, MenuEndGame
  <2>2. map' \in Maps /\ ca_mapOn' \in Levels \cup {0} /\ ap_has_pogo' \in BOOLEAN /\ games' \in 0..2
    BY <1>0, <2>1 DEF level
  <2>. QED  BY <1>0, <2>1, <2>2, CloseMenuBase
<1>. QED  BY <1>1, <1>2, <1>3, <1>4 DEF US_RunCards

\* The next level is in play, intact, or the game is over.
LEMMA NextLevelFields ==
    ASSUME Types, NEW g \in GameStates, NextLevel(g), ap_items' = ap_items
    PROVE  /\ gs' \in GameStates /\ map' \in Maps /\ ca_mapOn' \in Levels \cup {0}
           /\ ap_has_pogo' \in BOOLEAN /\ inGame' \in BOOLEAN /\ pc' \in {"poll", "over"}
           /\ gs'.numLives = g.numLives /\ gs'.extra = g.extra /\ gs'.levelsDone = g.levelsDone
           /\ gs'.numLives < 0 => pc' = "over"
           /\ pc' = "poll" => /\ gs'.levelState = "Playing" /\ inGame'
                              /\ Intact' /\ FusesOf(gs', map')
<1>0. g.numLives \in Int
  BY DEF GameStates
<1>1. CASE g.numLives >= 0
  <2>1. LoadLevel(g)
    BY <1>1 DEF NextLevel
  <2>2. /\ gs' \in GameStates /\ map' \in Maps /\ ca_mapOn' \in Levels \cup {0}
        /\ ap_has_pogo' \in BOOLEAN /\ inGame' = TRUE /\ pc' = "poll"
        /\ gs'.numLives = g.numLives /\ gs'.extra = g.extra /\ gs'.levelsDone = g.levelsDone
        /\ gs'.levelState = "Playing" /\ Intact' /\ FusesOf(gs', map')
    BY <2>1, LoadLevelStep
  <2>3. ~(gs'.numLives < 0)
    BY <1>0, <1>1, <2>2
  <2>. QED  BY <2>2, <2>3
<1>2. CASE ~(g.numLives >= 0)
  <2>1. pc' = "over" /\ inGame' = FALSE /\ gs' = g /\ UNCHANGED level
    BY <1>2 DEF NextLevel, gs
  <2>. QED  BY <2>1 DEF level, Types
<1>. QED  BY <1>1, <1>2

\* A step of the game loop keeps the base if it takes at most lives and never the last.
LEMMA LoopStep ==
    ASSUME Base, UNCHANGED <<received, save, launches>>,
           pc' \in Places, gs' \in GameStates, map' \in Maps, ca_mapOn' \in Levels \cup {0},
           ap_has_pogo' \in BOOLEAN, ck_startingDifficulty' \in BOOLEAN,
           ck_startingSavedGame' \in BOOLEAN, load_game_error' \in BOOLEAN,
           ap_force_abort' \in BOOLEAN, inGame' \in BOOLEAN,
           checked \subseteq checked', checked' \in SUBSET (Levels \cup {0}),
           asked' \in {"none", "new", "saved", "return"}, games' \in 0..2,
           NEW x \in {gs, save.game}, gs'.extra = x.extra, gs'.numLives <= x.numLives,
           gs'.numLives >= -1, gs'.numLives < 0 => pc' = "over", gs'.levelsDone \subseteq checked'
    PROVE  Base'
<1>1. Types'
  BY TypesStep DEF Base
<1>2. Granted' = Granted /\ Granted \in Nat
  BY GrantedGrows DEF Base, received
<1>3. gs'.numLives \in Int /\ x.numLives \in Int /\ x.extra \in Nat
  BY DEF GameStates, Base, Types
<1>4. LivesOf(gs)'
  <2>1. x.extra <= Granted /\ x.numLives <= NewLives + x.extra
    BY DEF Base, Lives, LivesOf
  <2>. QED  BY <1>2, <1>3, <2>1, ConstantsType DEF LivesOf
<1>5. Lives'
  BY <1>2, <1>3, <1>4 DEF Base, Lives, LivesOf
<1>6. Done'
  BY DEF Base, Done
<1>. QED  BY <1>1, <1>5, <1>6 DEF Base

\* The game loop between levels.
LEMMA LoopBase == ASSUME Base, CK_GameLoop PROVE Base'
<1>. USE DEF Base
<1>0. /\ gs \in GameStates /\ gs.numLives \in Int /\ gs.levelsDone \subseteq checked
      /\ gs.levelsDone \in SUBSET (Levels \cup {0}) /\ gs.currentLevel \in Levels \cup {0}
      /\ map \in Maps /\ ca_mapOn \in Levels \cup {0} /\ ap_has_pogo \in BOOLEAN
      /\ ck_startingDifficulty \in BOOLEAN /\ ck_startingSavedGame \in BOOLEAN
      /\ load_game_error \in BOOLEAN /\ ap_force_abort \in BOOLEAN /\ games \in 0..2
      /\ checked \in SUBSET (Levels \cup {0}) /\ asked \in {"none", "new", "saved", "return"}
      /\ pc # "over" => gs.numLives >= 0
  BY DEF Types, Done, Lives, LivesOf, GameStates
<1>1. CASE ResetDifficultyAndLevel
  <2>1. /\ LoadLevel(gs) /\ ck_startingDifficulty' = FALSE /\ asked' = "none" /\ games' \in 0..2
        /\ UNCHANGED <<received, ap_force_abort, save, checked, launches, ck_startingSavedGame,
                       load_game_error>> /\ pc # "over"
    BY <1>1 DEF ResetDifficultyAndLevel, AskedOnce, Rest
  <2>2. ap_items' = ap_items
    BY <2>1 DEF received
  <2>3. /\ gs' \in GameStates /\ map' \in Maps /\ ca_mapOn' \in Levels \cup {0}
        /\ ap_has_pogo' \in BOOLEAN /\ gs'.levelsDone = gs.levelsDone
        /\ gs'.numLives = gs.numLives /\ gs'.extra = gs.extra /\ pc' = "poll" /\ inGame' = TRUE
    BY <1>0, <2>1, <2>2, LoadLevelStep
  <2>4. gs'.numLives <= gs.numLives /\ gs'.numLives >= -1 /\ ~(gs'.numLives < 0)
    BY <1>0, <2>1, <2>3
  <2>5. pc' \in Places /\ inGame' \in BOOLEAN /\ asked' \in {"none", "new", "saved", "return"}
    BY <2>1, <2>3 DEF Places
  <2>6. /\ ck_startingDifficulty' \in BOOLEAN /\ ck_startingSavedGame' \in BOOLEAN
        /\ load_game_error' \in BOOLEAN /\ ap_force_abort' \in BOOLEAN /\ games' \in 0..2
        /\ checked \subseteq checked' /\ checked' \in SUBSET (Levels \cup {0})
        /\ gs'.levelsDone \subseteq checked'
    BY <1>0, <2>1, <2>3
  <2>. QED  BY <2>1, <2>3, <2>4, <2>5, <2>6, LoopStep
<1>2. CASE ReplayLevel \/ AbortGame
  <2>1. /\ \/ gs' = [gs EXCEPT !.levelState = "Playing"]
           \/ gs' = [gs EXCEPT !.keyGems = {}]
        /\ UNCHANGED <<level, received, ap_force_abort, save, checked, launches, ck_startingDifficulty,
                       ck_startingSavedGame, load_game_error, games>>
        /\ pc # "over" /\ pc' \in Places /\ inGame' \in BOOLEAN /\ asked' = "none"
    BY <1>2 DEF ReplayLevel, AbortGame, CK_PlayLoop, Rest, gs, Places
  <2>2. /\ gs' \in GameStates /\ gs'.levelsDone = gs.levelsDone
        /\ gs'.numLives = gs.numLives /\ gs'.extra = gs.extra
    BY <1>0, <2>1 DEF GameStates, LevelStates
  <2>3. UNCHANGED <<map, ca_mapOn, ap_has_pogo>>
    BY <2>1 DEF level
  <2>. QED  BY <1>0, <2>1, <2>2, <2>3, LoopStep
\* The steps that go on to the next level or end the game.
<1> DEFINE Goes(g, n) ==
             /\ g \in GameStates /\ g.extra = gs.extra /\ g.numLives = gs.numLives - n
             /\ g.levelsDone \subseteq checked'
<1>3. ASSUME NEW g, NEW n \in {0, 1}, Goes(g, n), pc # "over",
             \/ NextLevel(g)
             \/ n = 1 /\ gs' = g /\ g.numLives >= 0 /\ UNCHANGED level /\ pc' = "tryAgain" /\ inGame' = FALSE,
             UNCHANGED <<received, ck_startingDifficulty, ck_startingSavedGame, save, asked, launches>>,
             load_game_error' \in BOOLEAN, games' \in 0..2,
             ap_force_abort' \in BOOLEAN, checked \subseteq checked', checked' \in SUBSET (Levels \cup {0})
      PROVE  Base'
  <2>1. ap_items' = ap_items
    BY <1>3 DEF received
  <2>2. /\ gs' \in GameStates /\ map' \in Maps /\ ca_mapOn' \in Levels \cup {0}
        /\ ap_has_pogo' \in BOOLEAN /\ inGame' \in BOOLEAN /\ pc' \in Places
        /\ gs'.numLives = g.numLives /\ gs'.extra = g.extra /\ gs'.levelsDone = g.levelsDone
        /\ gs'.numLives < 0 => pc' = "over"
    <3>1. CASE NextLevel(g)
      BY <1>3, <2>1, <3>1, NextLevelFields DEF Places
    <3>2. CASE /\ gs' = g /\ g.numLives >= 0 /\ UNCHANGED level
               /\ pc' = "tryAgain" /\ inGame' = FALSE
      <4>1. gs' \in GameStates /\ pc' \in Places /\ inGame' \in BOOLEAN
        BY <1>3, <3>2 DEF Places
      <4>2. gs'.numLives \in Int /\ ~(gs'.numLives < 0)
        BY <1>0, <1>3, <3>2
      <4>3. UNCHANGED <<map, ca_mapOn, ap_has_pogo>>
        BY <3>2 DEF level
      <4>. QED  BY <1>0, <3>2, <4>1, <4>2, <4>3
    <3>. QED  BY <1>3, <3>1, <3>2
  <2>3. gs'.numLives <= gs.numLives /\ gs'.numLives >= -1
    BY <1>0, <1>3, <2>2
  <2>4. /\ ck_startingDifficulty' \in BOOLEAN /\ ck_startingSavedGame' \in BOOLEAN
        /\ asked' \in {"none", "new", "saved", "return"} /\ gs'.levelsDone \subseteq checked'
        /\ gs'.extra = gs.extra
    BY <1>0, <1>3, <2>2
  <2>. QED  BY <1>3, <2>2, <2>3, <2>4, LoopStep
<1>4. CASE GracefulExit \/ MapLeft
  <2> DEFINE g == [gs EXCEPT !.keyGems = {}]
  <2>1. /\ NextLevel(g) /\ Kept /\ UNCHANGED checked /\ pc # "over" /\ ap_force_abort' \in BOOLEAN
    BY <1>0, <1>4 DEF GracefulExit, MapLeft, Ended
  <2>2. Goes(g, 0)
    BY <1>0, <2>1 DEF GameStates
  <2> HIDE DEF g, Goes
  <2>. QED  BY <1>0, <1>3, <2>1, <2>2 DEF Kept
<1>5. CASE CK_TryAgainMenu
  <2> DEFINE g == [gs EXCEPT !.keyGems = {}, !.numLives = @ - 1]
  <2>1. /\ \/ NextLevel(g)
           \/ /\ gs' = g /\ ~(g.numLives < 0) /\ UNCHANGED level
              /\ pc' = "tryAgain" /\ inGame' = FALSE
        /\ Kept /\ UNCHANGED <<ap_force_abort, checked>> /\ pc # "over"
    BY <1>5 DEF CK_TryAgainMenu, Ended, gs
  <2>2. g = [gs EXCEPT !.keyGems = {}, !.numLives = gs.numLives - 1] /\ gs.numLives - 1 \in Int
    BY <1>0 DEF GameStates
  <2> HIDE DEF g
  <2>3. /\ g \in GameStates /\ g.extra = gs.extra /\ g.numLives = gs.numLives - 1
        /\ g.levelsDone = gs.levelsDone
    BY <1>0, <2>2 DEF GameStates
  <2>4. Goes(g, 1)
    BY <1>0, <2>1, <2>3
  <2>5. \/ NextLevel(g)
        \/ gs' = g /\ g.numLives >= 0 /\ UNCHANGED level /\ pc' = "tryAgain" /\ inGame' = FALSE
    BY <1>0, <2>1, <2>3
  <2> HIDE DEF Goes
  <2>. QED  BY <1>0, <1>3, <2>1, <2>4, <2>5 DEF Kept
<1>6. CASE TryAgain
  <2>1. PICK l \in {0, gs.currentLevel} : NextLevel([gs EXCEPT !.currentLevel = l])
    BY <1>6 DEF TryAgain
  <2> DEFINE g == [gs EXCEPT !.currentLevel = l]
  <2>2. Kept /\ UNCHANGED <<ap_force_abort, checked>> /\ pc # "over"
    BY <1>6 DEF TryAgain
  <2>3. Goes(g, 0)
    BY <1>0, <2>2 DEF GameStates
  <2>4. NextLevel(g)
    BY <2>1
  <2> HIDE DEF g, Goes
  <2>. QED  BY <1>0, <1>3, <2>2, <2>3, <2>4 DEF Kept
<1>8. CASE LevelComplete \/ DestroyedQED
  <2>1. \E done \in {gs.levelsDone, gs.levelsDone \cup {ca_mapOn}} :
          NextLevel([gs EXCEPT !.keyGems = {}, !.currentLevel = 0, !.levelsDone = done])
    <3>1. CASE LevelComplete
      BY <3>1 DEF LevelComplete
    <3>2. CASE DestroyedQED
      <4>1. [gs EXCEPT !.keyGems = {}, !.currentLevel = 0] =
              [gs EXCEPT !.keyGems = {}, !.currentLevel = 0, !.levelsDone = gs.levelsDone]
        BY <1>0 DEF GameStates
      <4>. QED  BY <3>2, <4>1 DEF DestroyedQED
    <3>. QED  BY <1>8, <3>1, <3>2
  <2>2. PICK done \in {gs.levelsDone, gs.levelsDone \cup {ca_mapOn}} :
          NextLevel([gs EXCEPT !.keyGems = {}, !.currentLevel = 0, !.levelsDone = done])
    BY <2>1
  <2> DEFINE g == [gs EXCEPT !.keyGems = {}, !.currentLevel = 0, !.levelsDone = done]
  <2>3. Kept /\ checked' = checked \cup {ca_mapOn} /\ UNCHANGED ap_force_abort /\ pc # "over"
    BY <1>8 DEF LevelComplete, DestroyedQED, ap_on_level_complete, Ended
  <2>4. Goes(g, 0)
    <3>1. g \in GameStates /\ g.extra = gs.extra /\ g.numLives = gs.numLives /\ g.levelsDone = done
      BY <1>0 DEF GameStates
    <3>. QED  BY <1>0, <2>3, <3>1
  <2>5. NextLevel(g)
    BY <2>2
  <2> HIDE DEF g, Goes
  <2>. QED  BY <1>0, <1>3, <2>3, <2>4, <2>5 DEF Kept
<1>9. ASSUME NEW errno \in ErrnoSet, TryAgainQuickLoad(errno) PROVE Base'
  <2> DEFINE z == [gs EXCEPT !.currentLevel = 0]
             g == Restored(z)
  <2>1. /\ pc # "over" /\ games' = 2
        /\ UNCHANGED <<received, ap_force_abort, save, checked, launches, ck_startingDifficulty, asked>>
        /\ load_game_error' = (load_game_error \/ LoadFails)
        /\ ck_startingSavedGame' = (ck_startingSavedGame \/ US_LoadMain(errno))
        /\ \/ CK_LoadGame /\ CK_PlayLoop(g)
           \/ NextLevel(g)
    BY <1>9 DEF TryAgainQuickLoad, Rest
  <2>2. z \in GameStates /\ z.numLives = gs.numLives /\ z.extra = gs.extra /\ z.levelsDone = gs.levelsDone
    BY <1>0 DEF GameStates
  <2>3. /\ g \in GameStates /\ g.levelsDone \subseteq checked /\ g.numLives # -1
        /\ \E x \in {gs, save.game} : g.numLives = x.numLives /\ g.extra = x.extra
    BY <2>1, <2>2, RestoredLives
  <2> HIDE DEF g, z
  <2>4. PICK x \in {gs, save.game} : g.numLives = x.numLives /\ g.extra = x.extra
    BY <2>3
  <2>5. /\ gs' \in GameStates /\ map' \in Maps /\ ca_mapOn' \in Levels \cup {0}
        /\ ap_has_pogo' \in BOOLEAN /\ inGame' \in BOOLEAN /\ pc' \in Places
        /\ gs'.numLives = g.numLives /\ gs'.extra = g.extra /\ gs'.levelsDone = g.levelsDone
    <3>1. CASE NextLevel(g)
      BY <2>1, <2>3, <3>1, NextLevelFields DEF received, Places
    <3>2. CASE CK_LoadGame /\ CK_PlayLoop(g)
      <4>1. map' \in Maps /\ ca_mapOn' \in Levels \cup {0} /\ ap_has_pogo' \in BOOLEAN
        BY <3>2, LoadGameFields
      <4>. QED  BY <2>3, <3>2, <4>1 DEF CK_PlayLoop, gs, GameStates, LevelStates, Places
    <3>. QED  BY <2>1, <3>1, <3>2
  <2>6. g.numLives \in Int /\ g.numLives >= 0 /\ x.numLives \in Int
    BY <1>0, <2>1, <2>3, <2>4 DEF GameStates, Types, Lives
  <2>7. /\ ck_startingDifficulty' \in BOOLEAN /\ ap_force_abort' \in BOOLEAN
        /\ load_game_error' \in BOOLEAN /\ ck_startingSavedGame' \in BOOLEAN
        /\ asked' \in {"none", "new", "saved", "return"} /\ games' \in 0..2
    BY <1>0, <2>1
  <2>8. /\ gs'.numLives <= x.numLives /\ gs'.numLives >= -1 /\ ~(gs'.numLives < 0)
        /\ gs'.extra = x.extra /\ gs'.levelsDone \subseteq checked'
    BY <2>1, <2>3, <2>4, <2>5, <2>6
  <2>. QED  BY <1>0, <2>1, <2>5, <2>7, <2>8, LoopStep
<1>. QED  BY <1>1, <1>2, <1>4, <1>5, <1>6, <1>8, <1>9 DEF CK_GameLoop

\* Every step keeps the base.
LEMMA BaseNext == ASSUME Base, [Next]_vars PROVE Base'
<1>1. CASE UNCHANGED vars
  <2>1. Types'
    BY <1>1 DEF vars, level, received, flags, Base, Types, gs
  <2>. QED  BY <1>1, <2>1, KeepsBase DEF vars, level, received, flags, Base, Done, gs
<1>2. CASE Next
  BY <1>2, LaunchBase, DemosBase, PollBase, FrameBase, KeysBase, MenuBase, LoopBase DEF Next
<1>. QED  BY <1>1, <1>2

(***************************************************************************)
(* Control, play, fuses and requests, action by action.                    *)
(***************************************************************************)
Control == Flow /\ PlayIntact /\ Fused /\ Asked

\* The control holds when the program starts, with the file that the last launch left.
LEMMA StartControl ==
    ASSUME pc = "title", inGame = FALSE, gs = ZeroGame, ck_startingDifficulty = FALSE,
           ck_startingSavedGame = FALSE, load_game_error = FALSE, asked = "none",
           Cuts = {} => FusesOf(save.game, save.map)
    PROVE  Control
<1>1. ~InPlay
  BY DEF InPlay
<1>. QED  BY <1>1 DEF Control, Flow, PlayIntact, Fused, Asked

LEMMA InitControl == ASSUME Init PROVE Control
<1>1. FusesOf(save.game, save.map)
  <2>1. save.map = Fresh(0) /\ save.game = ZeroGame
    BY DEF Init, NoSave
  <2>2. ZeroGame.fusesRemaining = Fuses0(0) /\ ZeroGame \in GameStates
    BY ZeroGameType, ConstantsType DEF ZeroGame, Fuses0, Fresh
  <2>. QED  BY <2>1, <2>2, FreshType
<1>. QED  BY <1>1, StartControl DEF Init, gs

\* Launches: with no cuts there is no crash in a save.
LEMMA LaunchControl == ASSUME Control, Relaunch \/ CrashWhileSaving PROVE Control'
<1>1. Launched /\ (UNCHANGED save \/ \E cut \in Cuts : TRUE)
  BY DEF Relaunch, CrashWhileSaving
<1>2. /\ pc' = "title" /\ inGame' = FALSE /\ gs' = ZeroGame /\ ck_startingDifficulty' = FALSE
      /\ ck_startingSavedGame' = FALSE /\ load_game_error' = FALSE /\ asked' = "none"
  BY <1>1 DEF Launched, gs
<1>3. Cuts = {} => FusesOf(save'.game, save'.map)
  BY <1>1 DEF Control, Fused
<1>4. ~InPlay'
  BY <1>2 DEF InPlay
<1>. QED  BY <1>2, <1>3, <1>4 DEF Control, Flow, PlayIntact, Fused, FusesOf, Asked

\* The demos and the title are out of play.
LEMMA DemosControl == ASSUME Base, Control, Demos PROVE Control'
<1>1. CASE CK_PlayDemo
  <2>1. /\ pc \in {"title", "over", "scores"} /\ pc' = "demo" /\ inGame' = FALSE
        /\ ck_startingSavedGame' = FALSE
        /\ UNCHANGED <<ck_startingDifficulty, load_game_error, save, asked>>
    BY <1>1 DEF CK_PlayDemo
  <2>2. ~InPlay'
    BY <2>1 DEF InPlay
  <2>. QED  BY <2>1, <2>2 DEF Control, Flow, PlayIntact, Fused, FusesOf, Asked
<1>2. CASE CK_HandleDemoKeys \/ CK_ShowTitleScreen
  <2>1. /\ pc \in {"demo", "title"} /\ pc' \in {"title", "menu"}
        /\ UNCHANGED <<level, received, flags, inGame, save, checked, asked, games, launches>>
    BY <1>2 DEF CK_HandleDemoKeys, CK_ShowTitleScreen
  <2>2. inGame' = FALSE
    BY <2>1 DEF Control, Flow, Base, Types
  <2>3. ~InPlay'
    BY <2>1, <2>2 DEF InPlay
  <2>. QED  BY <2>1, <2>2, <2>3 DEF flags, Control, Flow, PlayIntact, Fused, FusesOf, Asked
<1>. QED  BY <1>1, <1>2 DEF Demos

\* Items that arrive in play take effect at once; out of play they wait for a level load.
LEMMA PollControl == ASSUME Base, Control, ap_client_poll PROVE Control'
<1>0. gs \in GameStates
  BY DEF Base, Types
<1>1. ASSUME NEW items, ap_items \subseteq items
      PROVE  LET g == ap_client_give_item(gs, items) IN
             /\ g \in GameStates /\ g.levelState = gs.levelState
             /\ g.fusesRemaining = gs.fusesRemaining
             /\ g.keyGems = gs.keyGems \cup ap_apply_level_items(ca_mapOn, items)
             /\ g.wetsuit = (gs.wetsuit \/ (Episode = "CK4" /\ Wetsuit \in items))
  <2>1. ap_apply_level_items(ca_mapOn, items) \subseteq Keys
    BY DEF ap_apply_level_items
  <2>. QED  BY <1>0, <2>1 DEF ap_client_give_item, GameStates
\* A step of the poll that gives items to the game state.
<1>2. ASSUME NEW items, ap_items \subseteq items, ap_items' = items,
             gs'.levelState = gs.levelState, gs'.fusesRemaining = gs.fusesRemaining,
             gs'.keyGems = gs.keyGems \cup ap_apply_level_items(ca_mapOn, items),
             gs'.wetsuit = (gs.wetsuit \/ (Episode = "CK4" /\ Wetsuit \in items)),
             ap_has_pogo' = (ap_has_pogo \/ (Pogo \in items /\ Pogo \notin ap_items)),
             UNCHANGED <<pc, map, ca_mapOn, flags, inGame, save, asked>>
      PROVE  Control'
  <2>1. Intact => Intact'
    <3>1. ap_apply_level_items(ca_mapOn, ap_items) \subseteq ap_apply_level_items(ca_mapOn, items)
      BY <1>2 DEF ap_apply_level_items
    <3>2. ap_apply_level_items(ca_mapOn', ap_items') = ap_apply_level_items(ca_mapOn, items)
      BY <1>2
    <3>3. gs.wetsuit \in BOOLEAN /\ ap_has_pogo \in BOOLEAN
      BY <1>0 DEF Base, Types, GameStates
    <3>4. ASSUME Intact
          PROVE  /\ ap_apply_level_items(ca_mapOn, items) \subseteq gs'.keyGems \cup map'.opened \cup map'.placing
                 /\ gs'.keyGems \subseteq ap_apply_level_items(ca_mapOn, items)
      BY <1>2, <3>1, <3>4 DEF Intact, IntactOf
    <3>5. ASSUME Intact
          PROVE  /\ ap_has_pogo' = (Pogo \in items)
                 /\ gs'.wetsuit = (Episode = "CK4" /\ Wetsuit \in items)
      <4>1. /\ ap_has_pogo = (Pogo \in ap_items)
            /\ gs.wetsuit = (Episode = "CK4" /\ Wetsuit \in ap_items)
        BY <3>5 DEF Intact, IntactOf
      <4>2. ap_has_pogo' = (Pogo \in items)
        <5>1. CASE Pogo \in ap_items
          BY <1>2, <4>1, <5>1
        <5>2. CASE Pogo \notin ap_items
          <6>1. ap_has_pogo = FALSE
            BY <3>3, <4>1, <5>2
          <6>2. CASE Pogo \in items
            BY <1>2, <5>2, <6>2
          <6>3. CASE Pogo \notin items
            BY <1>2, <6>1, <6>3
          <6>. QED  BY <6>2, <6>3
        <5>. QED  BY <5>1, <5>2
      <4>3. gs'.wetsuit = (Episode = "CK4" /\ Wetsuit \in items)
        BY <1>2, <3>3, <4>1
      <4>. QED  BY <4>2, <4>3
    <3>. QED  BY <1>2, <3>2, <3>4, <3>5 DEF Intact, IntactOf
  <2>2. InPlay' = InPlay
    BY <1>2 DEF InPlay, flags
  <2>3. PlayIntact'
    BY <2>1, <2>2 DEF Control, PlayIntact, Trusted
  <2>4. Fused'
    BY <1>2, <2>2 DEF flags, Control, Fused, FusesOf
  <2>5. Flow' /\ Asked'
    BY <1>2 DEF flags, Control, Flow, Asked
  <2>. QED  BY <2>3, <2>4, <2>5 DEF Control
<1>3. ASSUME NEW i \in Items, ReceiveItem(i) PROVE Control'
  <2> DEFINE items == ap_items \cup {i}
             g == ap_client_give_item(gs, items)
  <2>1. /\ i \notin ap_items /\ ap_items' = items /\ gs' = g
        /\ ap_has_pogo' = (ap_has_pogo \/ i = Pogo)
        /\ UNCHANGED <<pc, map, ca_mapOn, flags, inGame, save, asked>>
    BY <1>3 DEF ReceiveItem, gs
  <2>2. ap_has_pogo' = (ap_has_pogo \/ (Pogo \in items /\ Pogo \notin ap_items))
    BY <2>1
  <2>3. /\ g.levelState = gs.levelState /\ g.fusesRemaining = gs.fusesRemaining
        /\ g.keyGems = gs.keyGems \cup ap_apply_level_items(ca_mapOn, items)
        /\ g.wetsuit = (gs.wetsuit \/ (Episode = "CK4" /\ Wetsuit \in items))
    BY <1>1
  <2> HIDE DEF g
  <2>4. ap_items \subseteq items
    OBVIOUS
  <2> HIDE DEF items
  <2>. QED  BY <1>2, <2>1, <2>2, <2>3, <2>4
<1>4. CASE ReceiveExtraKeen
  <2> DEFINE g == ap_client_give_item(gs, ap_items)
  <2>1. /\ gs' = [g EXCEPT !.numLives = @ + 1, !.extra = @ + 1]
        /\ UNCHANGED <<pc, level, ap_items, flags, inGame, save, asked>>
    BY <1>4 DEF ReceiveExtraKeen, gs
  <2>2. /\ g \in GameStates /\ g.levelState = gs.levelState /\ g.fusesRemaining = gs.fusesRemaining
        /\ g.keyGems = gs.keyGems \cup ap_apply_level_items(ca_mapOn, ap_items)
        /\ g.wetsuit = (gs.wetsuit \/ (Episode = "CK4" /\ Wetsuit \in ap_items))
    BY <1>1
  <2> HIDE DEF g
  <2>3. /\ gs'.levelState = g.levelState /\ gs'.fusesRemaining = g.fusesRemaining
        /\ gs'.keyGems = g.keyGems /\ gs'.wetsuit = g.wetsuit
    BY <2>1, <2>2 DEF GameStates
  <2>4. ap_has_pogo' = (ap_has_pogo \/ (Pogo \in ap_items /\ Pogo \notin ap_items))
    BY <2>1 DEF level, Base, Types
  <2>. QED  BY <1>2, <2>1, <2>2, <2>3, <2>4 DEF level
<1>5. CASE PollEnds
  <2>1. /\ pc = "poll" /\ pc' = "frame" /\ asked' = "none"
        /\ UNCHANGED <<ck_gameState, level, received, flags, inGame, save>>
    BY <1>5 DEF PollEnds
  <2>2. Intact => Intact'
    BY <2>1 DEF level, received, Intact, IntactOf, ap_apply_level_items, gs
  <2>3. InPlay /\ InPlay'
    BY <2>1 DEF InPlay
  <2>. QED  BY <2>1, <2>2, <2>3 DEF flags, level, Control, Flow, PlayIntact, Trusted, Fused, FusesOf, Asked, gs
<1>. QED  BY <1>3, <1>4, <1>5 DEF ap_client_poll

\* A frame keeps the control if what it leaves is intact and its fuses are counted.
LEMMA FrameKeeps ==
    ASSUME Control, NEW g, NEW m, Frame(g, m),
           g.levelState \notin {"ResetGame", "LoadedGame", "AbortGame"},
           Intact => IntactOf(g, m), FusesOf(gs, map) => FusesOf(g, m)
    PROVE  Control'
<1>1. /\ pc = "frame" /\ pc' = "keys" /\ gs' = g /\ map' = m /\ ck_startingSavedGame' = FALSE
      /\ UNCHANGED <<ca_mapOn, ap_has_pogo, received, ck_startingDifficulty, load_game_error, inGame,
                     save, asked>>
  BY DEF Frame, gs
<1>2. InPlay /\ InPlay'
  BY <1>1 DEF InPlay
<1>3. IntactOf(g, m) => Intact'
  BY <1>1 DEF received, Intact, IntactOf, ap_apply_level_items
<1>4. FusesOf(g, m) => FusesOf(gs', map')
  BY <1>1
<1>5. PlayIntact'
  BY <1>2, <1>3 DEF Control, PlayIntact, Trusted
<1>6. Fused'
  BY <1>1, <1>2, <1>4 DEF Control, Fused, FusesOf
<1>7. Flow' /\ Asked'
  BY <1>1 DEF Control, Flow, Asked
<1>. QED  BY <1>5, <1>6, <1>7 DEF Control

\* What happens in a frame moves keys and breaks fuses, and counts both.
LEMMA FrameControl == ASSUME Base, Control, InFrame PROVE Control'
<1>0. gs \in GameStates /\ map \in Maps
  BY DEF Base, Types
<1>1. ASSUME NEW s \in LevelStates, s \notin {"ResetGame", "LoadedGame", "AbortGame"},
             Frame([gs EXCEPT !.levelState = s], map)
      PROVE  Control'
  <2> DEFINE g == [gs EXCEPT !.levelState = s]
  <2>1. /\ g.levelState = s /\ g.keyGems = gs.keyGems /\ g.wetsuit = gs.wetsuit
        /\ g.fusesRemaining = gs.fusesRemaining
    BY <1>0 DEF GameStates
  <2>2. Frame(g, map)
    BY <1>1
  <2> HIDE DEF g
  <2>3. (Intact => IntactOf(g, map)) /\ (FusesOf(gs, map) => FusesOf(g, map))
    BY <2>1 DEF Intact, IntactOf, FusesOf
  <2>. QED  BY <1>1, <2>1, <2>2, <2>3, FrameKeeps
<1>2. CASE NothingHappens
  <2>1. Frame(gs, map) /\ pc = "frame"
    BY <1>2 DEF NothingHappens, Frame
  <2>2. gs.levelState = "Playing"
    BY <2>1 DEF Control, Flow
  <2>. QED  BY <2>1, <2>2, FrameKeeps DEF Intact
<1>3. ASSUME NEW k \in Keys, PlacesKey(k) PROVE Control'
  <2> DEFINE g == [gs EXCEPT !.keyGems = @ \ {k}]
             m == [map EXCEPT !.placing = {k}]
  <2>1. Frame(g, m) /\ pc = "frame" /\ map.placing = {}
    BY <1>3 DEF PlacesKey, Frame
  <2>2. gs.levelState = "Playing"
    BY <2>1 DEF Control, Flow
  <2>3. /\ g.levelState = gs.levelState /\ g.keyGems = gs.keyGems \ {k} /\ g.wetsuit = gs.wetsuit
        /\ g.fusesRemaining = gs.fusesRemaining
    BY <1>0 DEF GameStates
  <2>4. /\ m.of = map.of /\ m.opened = map.opened /\ m.placing = {k} /\ m.fuses = map.fuses
        /\ m.qed = map.qed /\ m.ending = map.ending
    BY <1>0 DEF Maps
  <2> HIDE DEF g, m
  <2>5. (Intact => IntactOf(g, m)) /\ (FusesOf(gs, map) => FusesOf(g, m))
    BY <2>1, <2>3, <2>4 DEF Intact, IntactOf, FusesOf
  <2>. QED  BY <2>1, <2>2, <2>3, <2>5, FrameKeeps
<1>4. CASE CK_KeenPlaceGem
  <2> DEFINE m == [map EXCEPT !.opened = @ \cup map.placing, !.placing = {}]
  <2>1. Frame(gs, m) /\ pc = "frame"
    BY <1>4 DEF CK_KeenPlaceGem, Frame
  <2>2. gs.levelState = "Playing"
    BY <2>1 DEF Control, Flow
  <2>4. /\ m.of = map.of /\ m.opened = map.opened \cup map.placing /\ m.placing = {}
        /\ m.fuses = map.fuses /\ m.qed = map.qed /\ m.ending = map.ending
    BY <1>0 DEF Maps
  <2> HIDE DEF m
  <2>5. (Intact => IntactOf(gs, m)) /\ (FusesOf(gs, map) => FusesOf(gs, m))
    BY <2>4 DEF Intact, IntactOf, FusesOf
  <2>. QED  BY <2>1, <2>2, <2>5, FrameKeeps
<1>5. CASE CK_KeenBreakFuse
  <2> DEFINE g == [gs EXCEPT !.fusesRemaining = @ - 1]
             m == [map EXCEPT !.fuses = @ - 1, !.ending = @ \/ gs.fusesRemaining = 1]
  <2>1. Frame(g, m) /\ pc = "frame" /\ map.fuses > 0
    BY <1>5 DEF CK_KeenBreakFuse, Frame
  <2>2. gs.levelState = "Playing"
    BY <2>1 DEF Control, Flow
  <2>3. /\ g.levelState = gs.levelState /\ g.keyGems = gs.keyGems /\ g.wetsuit = gs.wetsuit
        /\ g.fusesRemaining = gs.fusesRemaining - 1
    BY <1>0 DEF GameStates
  <2>4. /\ m.of = map.of /\ m.opened = map.opened /\ m.placing = map.placing
        /\ m.fuses = map.fuses - 1 /\ m.ending = (map.ending \/ gs.fusesRemaining = 1)
    BY <1>0 DEF Maps
  <2>5. map.fuses \in Nat /\ gs.fusesRemaining \in Int
    BY <1>0 DEF Maps, GameStates
  <2> HIDE DEF g, m
  <2>6. Intact => IntactOf(g, m)
    BY <2>3, <2>4 DEF Intact, IntactOf
  <2>7. ASSUME FusesOf(gs, map) PROVE FusesOf(g, m)
    <3>1. ~(map.of # 0 /\ map.of = QEDLevel) /\ gs.fusesRemaining = map.fuses
      BY <2>1, <2>7 DEF FusesOf
    <3>2. ASSUME m.fuses = 0 PROVE m.ending
      <4>1. gs.fusesRemaining = 1
        BY <2>4, <2>5, <3>1, <3>2
      <4>. QED  BY <2>4, <4>1
    <3>3. g.fusesRemaining = m.fuses
      BY <2>3, <2>4, <3>1
    <3>. QED  BY <2>4, <3>1, <3>2, <3>3 DEF FusesOf
  <2>. QED  BY <2>1, <2>2, <2>3, <2>6, <2>7, FrameKeeps
<1>6. CASE CK5_MineShrapCol
  <2> DEFINE m == [map EXCEPT !.qed = FALSE, !.ending = TRUE]
  <2>1. Frame(gs, m) /\ pc = "frame" /\ map.qed
    BY <1>6 DEF CK5_MineShrapCol, Frame
  <2>2. gs.levelState = "Playing"
    BY <2>1 DEF Control, Flow
  <2>4. /\ m.of = map.of /\ m.opened = map.opened /\ m.placing = map.placing
        /\ m.fuses = map.fuses /\ m.qed = FALSE /\ m.ending = TRUE
    BY <1>0 DEF Maps
  <2> HIDE DEF m
  <2>5. (Intact => IntactOf(gs, m)) /\ (FusesOf(gs, map) => FusesOf(gs, m))
    BY <2>4 DEF Intact, IntactOf, FusesOf
  <2>. QED  BY <2>1, <2>2, <2>5, FrameKeeps
<1>7. CASE CK5_LevelEnd
  <2> DEFINE s == IF ca_mapOn = QEDLevel THEN "DestroyedQED" ELSE "KorathFuse"
  <2>1. s \in LevelStates /\ s \notin {"ResetGame", "LoadedGame", "AbortGame"}
    BY DEF LevelStates
  <2>2. Frame([gs EXCEPT !.levelState = s], map)
    BY <1>7 DEF CK5_LevelEnd
  <2> HIDE DEF s
  <2>. QED  BY <1>1, <2>1, <2>2
<1>8. ASSUME NEW s \in {"LevelComplete", "CouncilRescued"}, LeavesLevel(s) PROVE Control'
  BY <1>1, <1>8 DEF LeavesLevel, LevelStates
<1>9. ASSUME NEW l \in Levels, CK_ScanForLevelEntry(l) PROVE Control'
  <2> DEFINE g == [gs EXCEPT !.currentLevel = l, !.levelState = "LevelComplete"]
  <2>1. /\ g.levelState = "LevelComplete" /\ g.keyGems = gs.keyGems /\ g.wetsuit = gs.wetsuit
        /\ g.fusesRemaining = gs.fusesRemaining
    BY <1>0 DEF GameStates
  <2>2. Frame(g, map)
    BY <1>9 DEF CK_ScanForLevelEntry
  <2> HIDE DEF g
  <2>3. (Intact => IntactOf(g, map)) /\ (FusesOf(gs, map) => FusesOf(g, map))
    BY <2>1 DEF Intact, IntactOf, FusesOf
  <2>. QED  BY <2>1, <2>2, <2>3, FrameKeeps
<1>10. CASE TeleportToKorath
  BY <1>1, <1>10 DEF TeleportToKorath, LevelStates
<1>11. CASE Dies
  BY <1>1, <1>11 DEF Dies, LevelStates
<1>. QED  BY <1>2, <1>3, <1>4, <1>5, <1>6, <1>7, <1>8, <1>9, <1>10, <1>11 DEF InFrame

\* The save in the file is one of a game in play.
LEMMA SaveFuses ==
    ASSUME Base, CK_SaveGame(7), FusesOf(gs, map)
    PROVE  FusesOf(save'.game, save'.map)
<1>1. save'.game = [gs EXCEPT !.levelState = "Playing"] /\ save'.map = map /\ gs \in GameStates
  BY DEF CK_SaveGame, Base, Types
<1>2. save'.game.fusesRemaining = gs.fusesRemaining
  BY <1>1 DEF GameStates
<1>. QED  BY <1>1, <1>2 DEF FusesOf

\* A whole file brings back a game that is intact and whose fuses are counted.
LEMMA WholeFile ==
    ASSUME Base, Control, NEW g \in GameStates, CK_LoadGame, save.cut = 7, ap_items' = ap_items,
           NEW h, h.keyGems = Restored(g).keyGems, h.wetsuit = Restored(g).wetsuit,
           h.fusesRemaining = Restored(g).fusesRemaining
    PROVE  /\ gs' = h => Intact'
           /\ Cuts = {} => FusesOf(h, map')
<1>1. /\ Restored(g).keyGems = ap_apply_level_items(save.game.currentLevel, ap_items)
      /\ Restored(g).wetsuit = (Episode = "CK4" /\ Wetsuit \in ap_items)
      /\ Restored(g).fusesRemaining = save.game.fusesRemaining
  BY RestoredFields DEF Base
<1>2. /\ map' = save.map /\ ca_mapOn' = save.game.currentLevel
      /\ ap_has_pogo' = (Pogo \in ap_items)
  BY LoadGameFields DEF Base
<1>3. ASSUME gs' = h PROVE Intact'
  BY <1>1, <1>2, <1>3 DEF Intact, IntactOf, ap_apply_level_items
<1>4. ASSUME Cuts = {} PROVE FusesOf(h, map')
  <2>1. FusesOf(save.game, save.map)
    BY <1>4 DEF Control, Fused
  <2>. QED  BY <1>1, <1>2, <2>1 DEF FusesOf
<1>. QED  BY <1>3, <1>4

\* Where no crash cuts files, a file that is there is whole; where errno tells, a load
\* succeeds of a whole file only.
LEMMA WholeOrFails ==
    ASSUME Types
    PROVE  /\ Cuts = {} /\ save # NoSave => save.cut = 7
           /\ \A errno \in ErrnoSet : Trusted /\ save # NoSave /\ US_LoadMain(errno) => save.cut = 7
           /\ ~LoadFails => save.cut = 7
<1>1. save.cut \in Cuts \cup {-1, 7} /\ (save.cut = -1 => save = NoSave)
  BY DEF Types
<1>2. save.cut \in -1 .. 7
  BY CutType
<1>3. ErrnoSet \subseteq BOOLEAN
  BY ConstantsType
<1>4. ASSUME NEW errno \in ErrnoSet, Trusted, save # NoSave, US_LoadMain(errno) PROVE save.cut = 7
  BY <1>1, <1>3, <1>4 DEF Trusted, US_LoadMain
<1>5. ~LoadFails => save.cut = 7
  BY <1>2 DEF LoadFails
<1>. QED  BY <1>1, <1>4, <1>5

\* The keys after a frame.
LEMMA KeysControl == ASSUME Base, Control, CK_CheckKeys PROVE Control'
<1>0. gs \in GameStates
  BY DEF Base, Types
<1>1. CASE NoKey \/ OpenMenu
  <2>1. /\ pc = "keys" /\ pc' \in {"cheats", "menu"}
        /\ UNCHANGED <<ck_gameState, level, received, flags, inGame, save, asked>>
    BY <1>1 DEF NoKey, OpenMenu
  <2>2. InPlay
    BY <2>1 DEF InPlay
  <2>3. Intact' = Intact /\ FusesOf(gs', map') = FusesOf(gs, map)
    BY <2>1 DEF level, received, Intact, IntactOf, ap_apply_level_items, gs, FusesOf
  <2>4. PlayIntact' /\ Fused'
    BY <2>1, <2>2, <2>3 DEF flags, Control, PlayIntact, Trusted, Fused, FusesOf
  <2>5. Flow' /\ Asked'
    BY <2>1 DEF flags, Control, Flow, Asked, gs
  <2>. QED  BY <2>4, <2>5 DEF Control
<1>2. CASE US_QuickSave
  <2>1. /\ pc = "keys" /\ pc' = "cheats" /\ CK_SaveGame(7)
        /\ UNCHANGED <<ck_gameState, level, received, flags, inGame, asked>>
    BY <1>2 DEF US_QuickSave
  <2>2. InPlay
    BY <2>1 DEF InPlay
  <2>3. Intact' = Intact /\ FusesOf(gs', map') = FusesOf(gs, map)
    BY <2>1 DEF level, received, Intact, IntactOf, ap_apply_level_items, gs, FusesOf
  <2>4. PlayIntact'
    BY <2>1, <2>2, <2>3 DEF Control, PlayIntact, Trusted
  <2>5. Cuts = {} => FusesOf(save'.game, save'.map)
    BY <2>1, <2>2, SaveFuses DEF Control, Fused
  <2>6. Fused'
    BY <2>1, <2>2, <2>3, <2>5 DEF flags, Control, Fused, FusesOf
  <2>7. Flow' /\ Asked'
    BY <2>1 DEF flags, Control, Flow, Asked, gs
  <2>. QED  BY <2>4, <2>6, <2>7 DEF Control
<1>3. CASE QuickLoadDeclined
  <2>1. /\ pc = "keys" /\ pc' = "cheats" /\ load_game_error /\ load_game_error' = FALSE
        /\ gs' = [gs EXCEPT !.levelState = "AbortGame"]
        /\ UNCHANGED <<level, received, ck_startingDifficulty, ck_startingSavedGame, inGame, save, asked>>
    BY <1>3 DEF QuickLoadDeclined, gs
  <2>2. gs'.levelState = "AbortGame"
    BY <1>0, <2>1 DEF GameStates
  <2>3. Cuts # {} /\ ~InPlay'
    BY <2>1, <2>2 DEF Control, Fused, InPlay
  <2>. QED  BY <2>1, <2>2, <2>3 DEF Control, Flow, PlayIntact, Fused, Asked
<1>4. CASE NoCheat
  <2>1. /\ pc = "cheats" /\ pc' = AfterFrame(gs.levelState)
        /\ UNCHANGED <<ck_gameState, level, received, flags, inGame, save, asked>>
    BY <1>4 DEF NoCheat
  <2>2. Intact' = Intact /\ FusesOf(gs', map') = FusesOf(gs, map)
    BY <2>1 DEF level, received, Intact, IntactOf, ap_apply_level_items, gs, FusesOf
  <2>3. InPlay' => InPlay
    BY <2>1 DEF AfterFrame, InPlay, flags, gs
  <2>4. PlayIntact' /\ Fused'
    BY <2>1, <2>2, <2>3 DEF flags, Control, PlayIntact, Trusted, Fused, FusesOf
  <2>5. Flow' /\ Asked'
    BY <2>1 DEF AfterFrame, flags, Control, Flow, Asked, gs
  <2>. QED  BY <2>4, <2>5 DEF Control
<1>5. CASE CtrlR
  <2>1. /\ pc = "cheats" /\ pc' = "after" /\ asked' = "none"
        /\ gs' = [gs EXCEPT !.currentLevel = 0, !.levelState = "Died"]
        /\ UNCHANGED <<level, received, ck_startingDifficulty, ck_startingSavedGame, load_game_error,
                       inGame, save>>
    BY <1>5 DEF CtrlR, gs
  <2>2. gs'.levelState = "Died"
    BY <1>0, <2>1 DEF GameStates
  <2>3. ~InPlay'
    BY <2>1, <2>2 DEF InPlay
  <2>. QED  BY <2>1, <2>2, <2>3 DEF Control, Flow, PlayIntact, Fused, FusesOf, Asked
<1>6. ASSUME NEW errno \in ErrnoSet, US_QuickLoad(errno) PROVE Control'
  <2> DEFINE r == Restored(gs)
             failed == load_game_error \/ LoadFails
  <2>1. /\ pc = "keys" /\ pc' = "cheats" /\ save # NoSave /\ CK_LoadGame
        /\ load_game_error' = FALSE /\ asked' = "saved"
        /\ UNCHANGED <<received, ck_startingDifficulty, inGame, save>>
    BY <1>6 DEF US_QuickLoad
  <2>2. gs' = [r EXCEPT !.levelState = IF failed THEN "AbortGame" ELSE "LoadedGame"]
    BY <1>6 DEF US_QuickLoad, gs
  <2>3. r \in GameStates
    BY <1>0, RestoredFields DEF Base
  <2>4. failed = (load_game_error \/ LoadFails)
    OBVIOUS
  <2>5. /\ gs'.levelState = IF failed THEN "AbortGame" ELSE "LoadedGame"
        /\ gs'.keyGems = r.keyGems /\ gs'.wetsuit = r.wetsuit /\ gs'.fusesRemaining = r.fusesRemaining
    <3> HIDE DEF r, failed
    <3>. QED  BY <2>2, <2>3 DEF GameStates
  <2>6. CASE failed
    <3>1. gs'.levelState = "AbortGame"
      BY <2>5, <2>6
    <3>2. ~InPlay'
      BY <2>1, <3>1 DEF InPlay
    <3>3. Cuts # {}
      BY <2>1, <2>6, WholeOrFails DEF Base, Control, Fused, LoadFails
    <3>. QED  BY <2>1, <3>1, <3>2, <3>3 DEF Control, Flow, PlayIntact, Fused, Asked
  <2>7. CASE ~failed
    <3>1. gs'.levelState = "LoadedGame"
      BY <2>5, <2>7
    <3>2. save.cut = 7
      BY <2>7, WholeOrFails DEF Base
    <3>3. Intact' /\ (Cuts = {} => FusesOf(gs', map'))
      BY <1>0, <2>1, <2>5, <3>2, WholeFile DEF received
    <3>4. PlayIntact'
      BY <3>3 DEF PlayIntact
    <3>5. Fused'
      BY <2>1, <3>3 DEF Control, Fused, FusesOf
    <3>6. Flow' /\ Asked'
      BY <2>1, <3>1 DEF Control, Flow, Asked
    <3>. QED  BY <3>4, <3>5, <3>6 DEF Control
  <2>. QED  BY <2>6, <2>7
<1>. QED  BY <1>1, <1>2, <1>3, <1>4, <1>5, <1>6 DEF CK_CheckKeys

\* What a menu that closes leaves, with or without a game in progress.
LEMMA CloseMenuFields ==
    ASSUME Types, NEW g \in GameStates, g.levelState = gs.levelState,
           NEW new \in BOOLEAN, NEW saved \in BOOLEAN, NEW error \in BOOLEAN,
           CloseMenu(g, new, saved, error)
    PROVE  /\ pc = "menu" /\ ck_startingDifficulty' = new /\ ck_startingSavedGame' = saved
           /\ load_game_error' = (error /\ ~inGame)
           /\ UNCHANGED <<received, inGame, save>>
           /\ gs' \in GameStates
           /\ ~new => /\ gs'.keyGems = g.keyGems /\ gs'.wetsuit = g.wetsuit
                      /\ gs'.fusesRemaining = g.fusesRemaining
           /\ inGame => /\ pc' = IF gs'.levelState = "Playing" THEN "poll" ELSE "after"
                        /\ saved => gs'.levelState = "LoadedGame"
                        /\ ~saved /\ error => gs'.levelState = "AbortGame"
                        /\ ~saved /\ ~error /\ new => gs'.levelState = "ResetGame"
                        /\ ~saved /\ ~error /\ ~new => gs'.levelState = gs.levelState
           /\ ~inGame => /\ pc' = IF new \/ saved THEN "start" ELSE "title"
                         /\ new => gs'.levelState = "ResetGame"
                         /\ ~new /\ saved => gs'.levelState = "LoadedGame"
                         /\ ~new /\ ~saved => gs'.levelState = gs.levelState
<1> DEFINE h == IF new THEN CK_NewGame ELSE g
           inPlay == IF saved THEN "LoadedGame" ELSE IF error THEN "AbortGame"
                     ELSE IF new THEN "ResetGame" ELSE gs.levelState
           inDemo == IF new THEN "ResetGame" ELSE IF saved THEN "LoadedGame" ELSE gs.levelState
           s == IF inGame THEN inPlay ELSE inDemo
<1>1. /\ pc = "menu" /\ ck_startingDifficulty' = new /\ ck_startingSavedGame' = saved
      /\ load_game_error' = (error /\ ~inGame) /\ UNCHANGED <<received, inGame, save>>
  BY DEF CloseMenu
<1>2. gs' = [h EXCEPT !.levelState = s]
  BY DEF CloseMenu, gs
<1>3. /\ inGame => pc' = AfterFrame(inPlay)
      /\ ~inGame => pc' = IF new \/ saved THEN "start" ELSE "title"
  <2>1. ASSUME inGame PROVE pc' = AfterFrame(inPlay)
    BY <2>1 DEF CloseMenu
  <2>2. ASSUME ~inGame PROVE pc' = IF new \/ saved THEN "start" ELSE "title"
    BY <2>2 DEF CloseMenu
  <2>. QED  BY <2>1, <2>2
<1>4. h \in GameStates /\ gs.levelState \in LevelStates
  BY NewGameFields DEF Types, GameStates
<1>5. s \in LevelStates
  BY <1>4 DEF LevelStates
<1> HIDE DEF h, s
<1>6. /\ gs' \in GameStates /\ gs'.levelState = s /\ gs'.keyGems = h.keyGems
      /\ gs'.wetsuit = h.wetsuit /\ gs'.fusesRemaining = h.fusesRemaining
  BY <1>2, <1>4, <1>5 DEF GameStates
<1>7. ~new => h = g
  BY DEF h
<1>8. (inGame => s = inPlay) /\ (~inGame => s = inDemo)
  BY DEF s
<1>. QED  BY <1>1, <1>3, <1>6, <1>7, <1>8 DEF AfterFrame

\* The menu that closes without a load: back to play, or to a new game, or out of it.
LEMMA CloseMenuControl ==
    ASSUME Base, Control, NEW new \in BOOLEAN, NEW saved \in BOOLEAN, NEW error \in BOOLEAN,
           CloseMenu(gs, new, saved, error), UNCHANGED level,
           saved = ck_startingSavedGame,
           \/ new = TRUE /\ error = load_game_error /\ asked' = "new"
           \/ new = ck_startingDifficulty /\ error = load_game_error /\ asked' = "return"
           \/ inGame /\ new = ck_startingDifficulty /\ error = TRUE /\ asked' = "none"
    PROVE  Control'
<1>0. gs \in GameStates /\ load_game_error \in BOOLEAN /\ inGame \in BOOLEAN
      /\ ck_startingDifficulty \in BOOLEAN
  BY DEF Base, Types
<1>1. /\ pc = "menu" /\ ck_startingDifficulty' = new /\ ck_startingSavedGame' = saved
      /\ load_game_error' = (error /\ ~inGame)
      /\ UNCHANGED <<received, inGame, save>>
      /\ ~new => /\ gs'.keyGems = gs.keyGems /\ gs'.wetsuit = gs.wetsuit
                 /\ gs'.fusesRemaining = gs.fusesRemaining
      /\ inGame => /\ pc' = IF gs'.levelState = "Playing" THEN "poll" ELSE "after"
                   /\ ~saved /\ error => gs'.levelState = "AbortGame"
                   /\ ~saved /\ ~error /\ new => gs'.levelState = "ResetGame"
                   /\ ~saved /\ ~error /\ ~new => gs'.levelState = gs.levelState
      /\ ~inGame => /\ pc' = IF new \/ saved THEN "start" ELSE "title"
                    /\ new => gs'.levelState = "ResetGame"
                    /\ ~new /\ ~saved => gs'.levelState = gs.levelState
  BY <1>0, CloseMenuFields DEF Base
<1>2. /\ ~saved /\ (inGame => ~ck_startingDifficulty)
      /\ inGame => gs.levelState \notin {"ResetGame", "LoadedGame", "AbortGame"}
      /\ Cuts = {} => ~ck_startingDifficulty /\ ~load_game_error
  BY <1>0, <1>1 DEF Control, Flow, Fused, Asked
<1>3. CASE inGame /\ error
  <2>1. /\ gs'.levelState = "AbortGame" /\ pc' = "after" /\ load_game_error' = FALSE
    BY <1>1, <1>2, <1>3
  <2>2. ~InPlay'
    BY <2>1 DEF InPlay
  <2>3. Cuts = {} => asked' = "none"
    BY <1>0, <1>2, <1>3
  <2>4. Flow' /\ PlayIntact'
    BY <1>1, <1>2, <1>3, <2>1, <2>2 DEF Flow, PlayIntact
  <2>5. Fused'
    BY <1>1, <2>1, <2>2 DEF Control, Fused, FusesOf
  <2>6. Asked'
    <3>1. Cuts = {} => new = FALSE
      BY <1>0, <1>2, <1>3
    <3>. QED  BY <1>1, <2>1, <2>3, <3>1 DEF Asked
  <2>. QED  BY <2>4, <2>5, <2>6 DEF Control
<1>4. CASE inGame /\ ~error /\ new
  <2>1. /\ gs'.levelState = "ResetGame" /\ pc' = "after" /\ load_game_error' = FALSE /\ asked' = "new"
    BY <1>0, <1>1, <1>2, <1>4
  <2>2. ~InPlay'
    BY <2>1 DEF InPlay
  <2>. QED  BY <1>1, <1>2, <2>1, <2>2 DEF Control, Flow, PlayIntact, Fused, FusesOf, Asked
<1>5. CASE inGame /\ ~error /\ ~new
  <2>1. /\ gs'.levelState = gs.levelState /\ load_game_error' = FALSE /\ asked' = "return"
        /\ ~load_game_error
    BY <1>0, <1>1, <1>2, <1>5
  <2>2. InPlay
    BY <1>1, <1>5, <2>1 DEF InPlay
  <2>3. Intact => Intact'
    BY <1>1, <1>5 DEF level, received, Intact, IntactOf, ap_apply_level_items
  <2>4. FusesOf(gs, map) => FusesOf(gs', map')
    BY <1>1, <1>5 DEF level, FusesOf
  <2>5. Flow' /\ Asked'
    BY <1>1, <1>2, <1>5, <2>1 DEF Control, Flow, Asked
  <2>6. PlayIntact'
    BY <2>2, <2>3 DEF Control, PlayIntact, Trusted
  <2>7. Fused'
    BY <1>1, <2>1, <2>2, <2>4 DEF Control, Fused, FusesOf
  <2>. QED  BY <2>5, <2>6, <2>7 DEF Control
<1>6. CASE ~inGame /\ new
  <2>1. gs'.levelState = "ResetGame" /\ pc' = "start" /\ load_game_error' = error
    BY <1>1, <1>6
  <2>2. ~InPlay'
    BY <2>1 DEF InPlay
  <2>3. Cuts = {} => asked' = "new" /\ ~load_game_error'
    BY <1>2, <1>6, <2>1
  <2>. QED  BY <1>1, <1>2, <1>6, <2>1, <2>2, <2>3 DEF Control, Flow, PlayIntact, Fused, FusesOf, Asked
<1>7. CASE ~inGame /\ ~new
  <2>1. gs'.levelState = gs.levelState /\ pc' = "title" /\ load_game_error' = error /\ asked' = "return"
        /\ error = load_game_error
    BY <1>1, <1>2, <1>7
  <2>2. ~InPlay'
    BY <2>1 DEF InPlay
  <2>. QED  BY <1>1, <1>2, <1>7, <2>1, <2>2 DEF Control, Flow, PlayIntact, Fused, FusesOf, Asked
<1>. QED  BY <1>3, <1>4, <1>5, <1>6, <1>7

\* The cards of the wristwatch menu.
LEMMA MenuControl == ASSUME Base, Control, US_RunCards PROVE Control'
<1>0. /\ gs \in GameStates /\ load_game_error \in BOOLEAN /\ inGame \in BOOLEAN
      /\ ck_startingDifficulty \in BOOLEAN /\ ck_startingSavedGame \in BOOLEAN
  BY DEF Base, Types
<1>1. CASE MenuSave
  <2>1. /\ pc = "menu" /\ inGame /\ CK_SaveGame(7)
        /\ UNCHANGED <<pc, ck_gameState, level, received, flags, inGame, asked>>
    BY <1>1 DEF MenuSave
  <2>2. InPlay' = InPlay
    BY <2>1 DEF flags, InPlay, gs
  <2>3. Intact' = Intact /\ FusesOf(gs', map') = FusesOf(gs, map)
    BY <2>1 DEF level, received, Intact, IntactOf, ap_apply_level_items, gs, FusesOf
  <2>4. PlayIntact'
    BY <2>2, <2>3 DEF Control, PlayIntact, Trusted
  <2>5. ASSUME Cuts = {} PROVE FusesOf(save'.game, save'.map)
    <3>1. InPlay
      BY <2>1, <2>5 DEF Control, Fused, InPlay
    <3>. QED  BY <2>1, <2>5, <3>1, SaveFuses DEF Control, Fused
  <2>6. Fused'
    BY <2>1, <2>2, <2>3, <2>5 DEF flags, Control, Fused, FusesOf
  <2>7. Flow' /\ Asked'
    BY <2>1 DEF flags, Control, Flow, Asked, gs
  <2>. QED  BY <2>4, <2>6, <2>7 DEF Control
<1>2. CASE MenuLoadFails
  <2>1. /\ pc = "menu" /\ pc' = "menu" /\ load_game_error' = TRUE /\ gs' = Restored(gs)
        /\ save # NoSave /\ ~US_LoadMain(TRUE)
        /\ UNCHANGED <<received, ck_startingDifficulty, ck_startingSavedGame, inGame, save, asked>>
    BY <1>2 DEF MenuLoadFails, gs
  <2>2. Cuts # {}
    BY <2>1, WholeOrFails DEF Base, US_LoadMain
  <2>3. gs'.levelState = gs.levelState
    BY <1>0, <2>1, RestoredFields DEF Base
  <2>4. ~InPlay'
    BY <2>1 DEF InPlay
  <2>. QED  BY <2>1, <2>2, <2>3, <2>4 DEF Control, Flow, PlayIntact, Fused, Asked
<1>3. ASSUME NEW errno \in ErrnoSet, MenuLoad(errno) PROVE Control'
  <2> DEFINE new == ck_startingDifficulty
             error == load_game_error \/ LoadFails
             g == Restored(gs)
  <2>1. /\ pc = "menu" /\ save # NoSave /\ US_LoadMain(errno) /\ CK_LoadGame /\ asked' = "saved"
        /\ CloseMenu(g, new, TRUE, error)
    BY <1>3 DEF MenuLoad
  <2>2. g \in GameStates /\ g.levelState = gs.levelState
    BY <1>0, RestoredFields DEF Base
  <2>3. error \in BOOLEAN
    BY <1>0 DEF LoadFails
  <2>4. \E saved \in BOOLEAN : saved = TRUE /\ CloseMenu(g, new, saved, error)
    BY <2>1
  <2> HIDE DEF g, error
  <2>5. /\ ck_startingDifficulty' = new /\ ck_startingSavedGame' = TRUE
        /\ load_game_error' = (error /\ ~inGame)
        /\ UNCHANGED <<received, inGame, save>>
        /\ ~new => /\ gs'.keyGems = g.keyGems /\ gs'.wetsuit = g.wetsuit
                   /\ gs'.fusesRemaining = g.fusesRemaining
        /\ inGame => /\ pc' = IF gs'.levelState = "Playing" THEN "poll" ELSE "after"
                     /\ gs'.levelState = "LoadedGame"
        /\ ~inGame => /\ pc' = "start"
                      /\ new => gs'.levelState = "ResetGame"
                      /\ ~new => gs'.levelState = "LoadedGame"
    BY <1>0, <2>2, <2>3, <2>4, CloseMenuFields DEF Base
  <2>6. inGame => ~new
    BY <2>1 DEF Control, Flow
  <2>7. Cuts = {} => ~new /\ ~load_game_error /\ save.cut = 7
    BY <2>1, WholeOrFails DEF Base, Control, Fused, Asked
  <2>8. Cuts = {} => ~load_game_error'
    <3>1. Cuts = {} => ~LoadFails
      BY <2>7 DEF LoadFails
    <3>2. Cuts = {} => error = FALSE
      BY <1>0, <2>7, <3>1 DEF error
    <3>. QED  BY <2>5, <3>2
  <2>9. CASE new
    <3>1. ~InPlay'
      BY <2>5, <2>6, <2>9 DEF InPlay
    <3>. QED  BY <2>5, <2>6, <2>7, <2>9, <3>1 DEF Control, Flow, PlayIntact, Fused, Asked
  <2>10. CASE ~new
    <3>1. /\ gs'.levelState = "LoadedGame" /\ pc' \in {"start", "after"}
          /\ pc' = "start" => ~inGame'
      BY <1>0, <2>5, <2>10
    <3>2. ASSUME Trusted PROVE Intact' /\ (Cuts = {} => FusesOf(gs', map'))
      <4>1. save.cut = 7
        BY <2>1, <3>2, WholeOrFails DEF Base
      <4>. QED  BY <1>0, <2>1, <2>5, <2>10, <4>1, WholeFile DEF g, received
    <3>3. Cuts = {} => Trusted
      BY DEF Trusted
    <3>4. PlayIntact'
      BY <3>2 DEF PlayIntact, Trusted
    <3>5. Fused'
      BY <2>5, <2>8, <3>2, <3>3 DEF Control, Fused, FusesOf
    <3>6. Flow' /\ Asked'
      BY <2>1, <2>5, <2>10, <3>1 DEF Control, Flow, Asked
    <3>. QED  BY <3>4, <3>5, <3>6 DEF Control
  <2>. QED  BY <2>9, <2>10
<1>4. CASE MenuNewGame \/ MenuReturn \/ MenuEndGame
  <2>1. /\ UNCHANGED level
        /\ \E new, saved, error \in BOOLEAN :
             /\ CloseMenu(gs, new, saved, error) /\ saved = ck_startingSavedGame
             /\ \/ new = TRUE /\ error = load_game_error /\ asked' = "new"
                \/ new = ck_startingDifficulty /\ error = load_game_error /\ asked' = "return"
                \/ inGame /\ new = ck_startingDifficulty /\ error = TRUE /\ asked' = "none"
    BY <1>0, <1>4 DEF MenuNewGame, MenuReturn, MenuEndGame
  <2>. QED  BY <2>1, CloseMenuControl
<1>. QED  BY <1>1, <1>2, <1>3, <1>4 DEF US_RunCards

\* Where the game loop goes: into play with a level intact, or to a place where none is.
LEMMA LoopControlStep ==
    ASSUME Control, UNCHANGED save, pc' \in {"poll", "over", "tryAgain", "scores"},
           ck_startingDifficulty' => pc' = "scores" /\ Cuts # {},
           Cuts = {} => ~load_game_error' /\ asked' \notin {"new", "saved"},
           pc' = "poll" => /\ gs'.levelState = "Playing" /\ inGame'
                           /\ Trusted => Intact'
                           /\ Cuts = {} => FusesOf(gs', map')
    PROVE  Control'
<1>1. InPlay' => pc' = "poll"
  BY DEF InPlay
<1>2. Flow' /\ Asked'
  BY DEF Flow, Asked
<1>3. PlayIntact'
  BY <1>1 DEF PlayIntact, Trusted
<1>4. Fused'
  BY <1>1 DEF Control, Fused, FusesOf
<1>. QED  BY <1>2, <1>3, <1>4 DEF Control

\* The game loop between levels.
LEMMA LoopControl == ASSUME Base, Control, CK_GameLoop PROVE Control'
<1>0. /\ Types /\ gs \in GameStates /\ gs.currentLevel \in Levels \cup {0} /\ gs.numLives \in Int
      /\ ca_mapOn \in Levels \cup {0} /\ ck_startingDifficulty \in BOOLEAN
      /\ gs.levelsDone \in SUBSET (Levels \cup {0})
  BY DEF Base, Types, GameStates
<1>1. CASE ResetDifficultyAndLevel
  <2>1. /\ LoadLevel(gs) /\ ck_startingDifficulty' = FALSE /\ asked' = "none"
        /\ UNCHANGED <<received, save, load_game_error>>
    BY <1>1 DEF ResetDifficultyAndLevel, AskedOnce, Rest
  <2>2. ap_items' = ap_items
    BY <2>1 DEF received
  <2>3. pc' = "poll" /\ gs'.levelState = "Playing" /\ inGame' /\ Intact' /\ FusesOf(gs', map')
    BY <1>0, <2>1, <2>2, LoadLevelStep
  <2>4. Cuts = {} => ~load_game_error'
    BY <2>1 DEF Control, Fused
  <2>. QED  BY <2>1, <2>3, <2>4, LoopControlStep
<1>2. CASE ReplayLevel
  <2>1. /\ pc \in {"start", "after"} /\ gs.levelState = "LoadedGame" /\ asked' = "none"
        /\ gs' = [gs EXCEPT !.levelState = "Playing"] /\ pc' = "poll" /\ inGame' = TRUE
        /\ UNCHANGED <<level, received, save, ck_startingDifficulty, load_game_error>>
    BY <1>2 DEF ReplayLevel, CK_PlayLoop, Rest, gs
  <2>2. InPlay /\ ~ck_startingDifficulty
    BY <2>1 DEF InPlay, Control, Flow
  <2>3. /\ gs'.levelState = "Playing" /\ gs'.keyGems = gs.keyGems /\ gs'.wetsuit = gs.wetsuit
        /\ gs'.fusesRemaining = gs.fusesRemaining
    BY <1>0, <2>1 DEF GameStates
  <2>4. Trusted => Intact'
    <3>1. Trusted => Intact
      BY <2>2 DEF Control, PlayIntact
    <3>. QED  BY <2>1, <2>3, <3>1 DEF level, received, Intact, IntactOf, ap_apply_level_items
  <2>5. Cuts = {} => FusesOf(gs', map') /\ ~load_game_error'
    BY <2>1, <2>2, <2>3 DEF level, Control, Fused, FusesOf
  <2>. QED  BY <2>1, <2>2, <2>3, <2>4, <2>5, LoopControlStep
<1>3. CASE AbortGame
  <2>1. /\ pc = "after" /\ gs.levelState = "AbortGame" /\ pc' = "scores" /\ asked' = "none"
        /\ UNCHANGED <<save, ck_startingDifficulty, load_game_error>>
    BY <1>3 DEF AbortGame, Rest
  <2>2. Cuts = {} => ~ck_startingDifficulty /\ ~load_game_error
    BY <2>1 DEF Control, Fused, Asked
  <2>. QED  BY <1>0, <2>1, <2>2, LoopControlStep
\* The steps that go on to the next level or end the game.
<1>4. ASSUME NEW g \in GameStates,
             \/ NextLevel(g)
             \/ pc' = "tryAgain",
             \/ pc = "tryAgain"
             \/ pc = "after" /\ gs.levelState \notin {"ResetGame", "LoadedGame", "AbortGame"},
             UNCHANGED <<received, ck_startingDifficulty, save, asked>>,
             Cuts = {} => ~load_game_error'
      PROVE  Control'
  <2>1. ap_items' = ap_items
    BY <1>4 DEF received
  <2>2. /\ pc' \in {"poll", "over", "tryAgain"}
        /\ pc' = "poll" => /\ gs'.levelState = "Playing" /\ inGame'
                           /\ Intact' /\ FusesOf(gs', map')
    BY <1>0, <1>4, <2>1, NextLevelFields
  <2>3. ~ck_startingDifficulty /\ (Cuts = {} => asked \notin {"new", "saved"})
    BY <1>4 DEF Control, Flow, Asked
  <2>. QED  BY <1>4, <2>2, <2>3, LoopControlStep
<1>5. ASSUME Kept PROVE /\ UNCHANGED <<received, ck_startingDifficulty, save, asked>>
                        /\ Cuts = {} => ~load_game_error'
  BY <1>5 DEF Kept, Control, Fused
<1>6. CASE GracefulExit \/ MapLeft
  <2> DEFINE g == [gs EXCEPT !.keyGems = {}]
  <2>1. /\ NextLevel(g) /\ Kept /\ pc = "after"
        /\ gs.levelState \notin {"ResetGame", "LoadedGame", "AbortGame"}
    BY <1>6 DEF GracefulExit, MapLeft, Ended
  <2>2. g \in GameStates
    BY <1>0 DEF GameStates
  <2> HIDE DEF g
  <2>. QED  BY <1>4, <1>5, <2>1, <2>2
<1>7. CASE CK_TryAgainMenu
  <2> DEFINE g == [gs EXCEPT !.keyGems = {}, !.numLives = @ - 1]
  <2>1. /\ NextLevel(g) \/ pc' = "tryAgain"
        /\ Kept /\ pc = "after" /\ gs.levelState = "Died"
    BY <1>7 DEF CK_TryAgainMenu, Ended, gs
  <2>2. g \in GameStates
    <3>1. g = [gs EXCEPT !.keyGems = {}, !.numLives = gs.numLives - 1] /\ gs.numLives - 1 \in Int
      BY <1>0 DEF GameStates
    <3> HIDE DEF g
    <3>. QED  BY <1>0, <3>1 DEF GameStates
  <2> HIDE DEF g
  <2>. QED  BY <1>4, <1>5, <2>1, <2>2
<1>8. CASE TryAgain
  <2>1. PICK l \in {0, gs.currentLevel} : NextLevel([gs EXCEPT !.currentLevel = l])
    BY <1>8 DEF TryAgain
  <2> DEFINE g == [gs EXCEPT !.currentLevel = l]
  <2>2. NextLevel(g) /\ Kept /\ pc = "tryAgain"
    BY <1>8, <2>1 DEF TryAgain
  <2>3. g \in GameStates
    BY <1>0 DEF GameStates
  <2> HIDE DEF g
  <2>. QED  BY <1>4, <1>5, <2>2, <2>3
<1>9. CASE LevelComplete
  <2> DEFINE g == [gs EXCEPT !.keyGems = {}, !.currentLevel = 0,
                             !.levelsDone = gs.levelsDone \cup {ca_mapOn}]
  <2>1. /\ NextLevel(g) /\ Kept /\ pc = "after"
        /\ gs.levelState \notin {"ResetGame", "LoadedGame", "AbortGame"}
    BY <1>9 DEF LevelComplete, Ended
  <2>2. g \in GameStates
    BY <1>0 DEF GameStates
  <2> HIDE DEF g
  <2>. QED  BY <1>4, <1>5, <2>1, <2>2
<1>10. CASE DestroyedQED
  <2> DEFINE g == [gs EXCEPT !.keyGems = {}, !.currentLevel = 0]
  <2>1. /\ NextLevel(g) /\ Kept /\ pc = "after" /\ gs.levelState = "DestroyedQED"
    BY <1>10 DEF DestroyedQED, Ended
  <2>2. g \in GameStates
    BY <1>0 DEF GameStates
  <2> HIDE DEF g
  <2>. QED  BY <1>4, <1>5, <2>1, <2>2
<1>11. ASSUME NEW errno \in ErrnoSet, TryAgainQuickLoad(errno) PROVE Control'
  <2> DEFINE z == [gs EXCEPT !.currentLevel = 0]
             g == Restored(z)
  <2>1. /\ pc = "tryAgain" /\ save # NoSave
        /\ UNCHANGED <<received, save, ck_startingDifficulty, asked>>
        /\ load_game_error' = (load_game_error \/ LoadFails)
        /\ \/ US_LoadMain(errno) /\ CK_LoadGame /\ CK_PlayLoop(g)
           \/ NextLevel(g)
    BY <1>11 DEF TryAgainQuickLoad, Rest
  <2>2. z \in GameStates
    BY <1>0 DEF GameStates
  <2>3. g \in GameStates
    BY <1>0, <2>2, RestoredFields
  <2>4. Cuts = {} => ~load_game_error'
    <3>1. Cuts = {} => save.cut = 7
      BY <1>0, <2>1, WholeOrFails
    <3>2. Cuts = {} => ~LoadFails
      BY <3>1 DEF LoadFails
    <3>3. Cuts = {} => ~load_game_error
      BY DEF Control, Fused
    <3>. QED  BY <2>1, <3>2, <3>3
  <2> HIDE DEF z, g
  <2>5. CASE NextLevel(g)
    BY <1>4, <2>1, <2>3, <2>4, <2>5
  <2>6. CASE US_LoadMain(errno) /\ CK_LoadGame /\ CK_PlayLoop(g)
    <3>1. gs' = [g EXCEPT !.levelState = "Playing"] /\ pc' = "poll" /\ inGame' = TRUE
      BY <2>6 DEF CK_PlayLoop, gs
    <3>2. /\ gs'.levelState = "Playing" /\ gs'.keyGems = g.keyGems /\ gs'.wetsuit = g.wetsuit
          /\ gs'.fusesRemaining = g.fusesRemaining
      BY <2>3, <3>1 DEF GameStates
    <3>3. Trusted => save.cut = 7
      BY <1>0, <2>1, <2>6, WholeOrFails
    <3>4. Trusted => Intact' /\ (Cuts = {} => FusesOf(gs', map'))
      BY <2>1, <2>2, <2>6, <3>2, <3>3, WholeFile DEF g, received
    <3>5. Cuts = {} => Trusted
      BY DEF Trusted
    <3>6. ~ck_startingDifficulty /\ (Cuts = {} => asked \notin {"new", "saved"})
      BY <2>1 DEF Control, Flow, Asked
    <3>. QED  BY <2>1, <2>4, <3>1, <3>2, <3>4, <3>5, <3>6, LoopControlStep
  <2>. QED  BY <2>1, <2>5, <2>6
<1>. QED  BY <1>1, <1>2, <1>3, <1>6, <1>7, <1>8, <1>9, <1>10, <1>11 DEF CK_GameLoop

\* Every step keeps the control.
LEMMA ControlNext == ASSUME Base, Control, [Next]_vars PROVE Control'
<1>1. CASE UNCHANGED vars
  <2>1. InPlay' = InPlay
    BY <1>1 DEF vars, flags, InPlay, gs
  <2>2. Intact' = Intact /\ FusesOf(gs', map') = FusesOf(gs, map)
    BY <1>1 DEF vars, level, received, Intact, IntactOf, ap_apply_level_items, gs, FusesOf
  <2>3. PlayIntact' /\ Fused'
    BY <1>1, <2>1, <2>2 DEF vars, flags, Control, PlayIntact, Trusted, Fused, FusesOf
  <2>4. Flow' /\ Asked'
    BY <1>1 DEF vars, flags, Control, Flow, Asked, gs
  <2>. QED  BY <2>3, <2>4 DEF Control
<1>2. CASE Next
  BY <1>2, LaunchControl, DemosControl, PollControl, FrameControl, KeysControl, MenuControl,
     LoopControl DEF Next
<1>. QED  BY <1>1, <1>2

(***************************************************************************)
(* The theorems.                                                           *)
(***************************************************************************)
LEMMA Invariance == Spec => [](Base /\ Control)
<1>1. Init => Base /\ Control
  BY InitBase, InitControl
<1>2. (Base /\ Control) /\ [Next]_vars => (Base /\ Control)'
  BY BaseNext, ControlNext
<1>. QED  BY <1>1, <1>2, PTL DEF Spec

\* The types, with the bounds that the lives and the extra Keens keep whatever is saved,
\* loaded, died or received: a game never has more lives than it started with and was given,
\* and is over with the last one (ck_game.c 1181-1186).
THEOREM TypeCorrect == Spec => []TypeOK
<1>1. ASSUME Base PROVE TypeOK
  <2>1. /\ Types /\ gs \in GameStates /\ LivesOf(gs) /\ Granted \in Nat
    BY <1>1, GrantedGrows DEF Base, Types, Lives
  <2>2. /\ MaxFiller \in Nat /\ NewLives \in Nat /\ filler \in 0..MaxFiller /\ launches \in Nat
        /\ gs.extra \in Nat /\ gs.numLives \in Int
    BY <2>1, ConstantsType DEF Types, GameStates
  <2>3. Granted <= MaxFiller * launches /\ MaxFiller * launches \in Int
    <3>1. MaxFiller * launches = MaxFiller * (launches - 1) + MaxFiller
          /\ MaxFiller * (launches - 1) \in Int /\ MaxFiller * launches \in Int
      BY <2>2
    <3>. QED  BY <2>2, <3>1 DEF Granted
  <2>4. /\ gs.numLives \in -1 .. NewLives + MaxFiller * launches
        /\ gs.extra \in 0 .. MaxFiller * launches
    BY <2>1, <2>2, <2>3 DEF LivesOf
  <2>5. gs \in [levelState : LevelStates, levelsDone : SUBSET (Levels \cup {0}), wetsuit : BOOLEAN,
               fusesRemaining : Int, keyGems : SUBSET Keys, currentLevel : Levels \cup {0},
               numLives : -1 .. NewLives + MaxFiller * launches,
               extra : 0 .. MaxFiller * launches]
    BY <2>1, <2>4 DEF GameStates
  <2>6. save.cut \in -1 .. 7
    BY <2>1, CutType
  <2>. QED  BY <2>1, <2>5, <2>6 DEF Types, TypeOK, Maps
<1>. QED  BY <1>1, Invariance, PTL

\* Whatever is saved, loaded, cut off or restarted, a level that the game counts as done
\* was reported to AP: the file cannot know more than the client was told (ck_game.c
\* 949-990; ap_client.cpp 905-935).
THEOREM DoneLevelsAreChecked == Spec => []DoneIsChecked
<1>1. Base => DoneIsChecked
  BY DEF Base, Done, DoneIsChecked
<1>. QED  BY <1>1, Invariance, PTL

\* With whole files, or a short read that sets errno, no key is lost and none is free.
THEOREM KeysAreAccounted == ASSUME Trusted PROVE Spec => []KeysAccounted
<1>1. Control => KeysAccounted
  BY DEF Control, PlayIntact, InPlay, Intact, IntactOf, KeysAccounted, Playing
<1>. QED  BY <1>1, Invariance, PTL

\* Under the same condition the player has the pogo stick and the wetsuit in a level exactly
\* if he has received them (ap_client.cpp 437-447, 979-990).  Nothing is said of lives, which the
\* replay may lose (FreshLaunchReplay).
THEOREM EffectsAreItems == ASSUME Trusted PROVE Spec => []EffectsMatchItems
<1>1. Control => EffectsMatchItems
  BY DEF Control, PlayIntact, InPlay, Intact, IntactOf, EffectsMatchItems, Playing
<1>. QED  BY <1>1, Invariance, PTL

\* Without cut files the fuses still to break are those on the map.
THEOREM FusesAreCounted == ASSUME Cuts = {} PROVE Spec => []FusesCounted
<1>1. Control => FusesCounted
  BY DEF Control, Fused, FusesOf, InPlay, FusesCounted, Playing
<1>. QED  BY <1>1, Invariance, PTL

\* Without cut files no game starts that the player did not ask for, and none that he asked
\* for is forgotten.
THEOREM StartsAsAsked == ASSUME Cuts = {} PROVE Spec => []StartsWhatWasAsked
<1>1. Control => StartsWhatWasAsked
  BY DEF Control, Asked, StartsWhatWasAsked
<1>. QED  BY <1>1, Invariance, PTL

====
