---- MODULE DeathLinkProofs ----
(***************************************************************************)
(* Proofs about DeathLink for every level size, speed of the game and      *)
(* number of lives.  The inductive invariant says why the flags cannot     *)
(* swallow a death of Keen's own: no kill is left waiting to be swallowed, *)
(* and whatever is pending arrived while DeathLink was on.                 *)
(***************************************************************************)
EXTENDS DeathLink, TLAPS

\* The flags between two steps.
FlagsOK ==
    /\ ap_suppress_death_send = FALSE
    /\ ap_pending_death \in BOOLEAN /\ inbox \in BOOLEAN
    /\ online \in BOOLEAN /\ ap_death_link_enabled \in BOOLEAN
    /\ sent \in BOOLEAN /\ owed \in BOOLEAN
    /\ (ap_pending_death \/ online) => ap_death_link_enabled

\* A dying Keen has died, and LS_Died is a death or an abort.
DeadOK ==
    /\ action = "keenDie" => cause # "none"
    /\ DiedOrAborted
    /\ numLives \in Int /\ numLives <= Lives /\ place \in Places

Inv == FlagsOK /\ OwnDeathAnnounced /\ DeadOK

\* What ap_on_death does to the flags, for a death whose kill is not marked as incoming
\* unless it is, and is so marked only while DeathLink is on.
LEMMA OnDeath ==
    ASSUME FlagsOK, OwnDeathAnnounced,
           NEW whose \in {"own", "link"}, NEW p \in BOOLEAN, NEW s \in BOOLEAN,
           s = (whose = "link"), p \/ s => ap_death_link_enabled,
           ap_on_death(whose, p, s), UNCHANGED link
    PROVE  FlagsOK' /\ OwnDeathAnnounced' /\ cause' # "none"
BY DEF FlagsOK, OwnDeathAnnounced, ap_on_death, link

\* A death whose flags need no swallowing.
LEMMA NothingDied ==
    ASSUME FlagsOK, OwnDeathAnnounced, NEW p \in BOOLEAN, p => ap_pending_death,
           NoDeath(p, FALSE), UNCHANGED link
    PROVE  FlagsOK' /\ OwnDeathAnnounced' /\ UNCHANGED cause
BY DEF FlagsOK, OwnDeathAnnounced, NoDeath, link, life

\* A kill, or the refusal of one, of something Keen meets.
LEMMA KillKeen ==
    ASSUME FlagsOK, OwnDeathAnnounced, NEW god,
           CK_KillKeen("own", god, ap_pending_death, ap_suppress_death_send), UNCHANGED link
    PROVE  /\ FlagsOK' /\ OwnDeathAnnounced'
           /\ cause' = cause \/ cause' # "none"
           /\ action' = action \/ cause' # "none"
<1>0. /\ ap_pending_death \in BOOLEAN /\ ap_suppress_death_send = FALSE
      /\ ap_pending_death => ap_death_link_enabled
  BY DEF FlagsOK
<1>1. CASE ck_invincibilityTimer # 0 \/ god
  <2>1. NoDeath(ap_pending_death, FALSE) /\ action' = action
    BY <1>0, <1>1 DEF CK_KillKeen
  <2>. QED  BY <1>0, <2>1, NothingDied DEF NoDeath, life
<1>2. CASE ~(ck_invincibilityTimer # 0 \/ god)
  <2>1. ap_on_death("own", ap_pending_death, FALSE)
    BY <1>0, <1>2 DEF CK_KillKeen
  <2>. QED  BY <1>0, <2>1, OnDeath
<1>. QED  BY <1>1, <1>2

\* The flags are clear when the program starts.
LEMMA InitInv == ASSUME DeathLinkAssumption, Init PROVE Inv
<1>1. FlagsOK /\ OwnDeathAnnounced
  BY DEF Init, FlagsOK, OwnDeathAnnounced
<1>2. DeadOK
  BY DEF Init, DeadOK, DiedOrAborted, DeathLinkAssumption
<1>. QED  BY <1>1, <1>2 DEF Inv

\* The steps that leave the flags and the history alone.
LEMMA FlagsUnchanged ==
    ASSUME FlagsOK, OwnDeathAnnounced, UNCHANGED <<link, flags, life>>
    PROVE  FlagsOK' /\ OwnDeathAnnounced' /\ UNCHANGED cause
BY DEF FlagsOK, OwnDeathAnnounced, link, flags, life

\* Receiving a DeathLink sets the pending flag only.
LEMMA PollInv == ASSUME Inv, ap_client_poll PROVE Inv'
<1>1. FlagsOK' /\ OwnDeathAnnounced'
  BY DEF Inv, FlagsOK, OwnDeathAnnounced, ap_client_poll, link, life
<1>2. DeadOK'
  BY DEF Inv, DeadOK, DiedOrAborted, ap_client_poll, life, game, body
<1>. QED  BY <1>1, <1>2 DEF Inv

\* Applying a pending death sets and consumes the suppression in one step, or drops the death.
LEMMA ApplyInv == ASSUME Inv, Apply PROVE Inv'
<1>0. /\ ap_suppress_death_send = FALSE /\ ap_pending_death \in BOOLEAN
      /\ ap_pending_death => ap_death_link_enabled
  BY DEF Inv, FlagsOK
<1>1. CASE ap_pending_death /\ CanDie
  <2>1. ap_on_death("link", FALSE, TRUE) /\ action' = "keenDie"
    BY <1>1 DEF Apply, ap_apply_pending_death, CK_KillKeen, CanDie
  <2>2. FlagsOK' /\ OwnDeathAnnounced' /\ cause' # "none"
    BY <1>0, <1>1, <2>1, OnDeath DEF Apply, Inv
  <2>. QED  BY <2>2 DEF Inv, DeadOK, DiedOrAborted, Apply, game
<1>2. CASE ~(ap_pending_death /\ CanDie)
  <2>1. NoDeath(FALSE, FALSE) /\ action' = action
    BY <1>0, <1>2 DEF Apply, ap_apply_pending_death, NoKill
  <2>2. FlagsOK' /\ OwnDeathAnnounced' /\ UNCHANGED cause
    BY <2>1, NothingDied DEF Apply, Inv
  <2>. QED  BY <2>1, <2>2 DEF Inv, DeadOK, DiedOrAborted, Apply, game
<1>. QED  BY <1>1, <1>2

\* A dead Keen who leaves the screen, and one who walks on or into a door, send nothing.
LEMMA ThinkInv == ASSUME Inv, KeenTurn PROVE Inv'
<1>1. CASE KeenThinks
  <2>1. FlagsOK' /\ OwnDeathAnnounced' /\ UNCHANGED cause
    BY <1>1, FlagsUnchanged DEF KeenThinks, Inv
  <2>. QED  BY <1>1, <2>1 DEF KeenThinks, Inv, DeadOK, DiedOrAborted, game
<1>2. CASE CK4_KillKeenUnderwater
  <2>1. FlagsOK' /\ OwnDeathAnnounced' /\ cause' # "none"
    BY <1>2, OnDeath DEF CK4_KillKeenUnderwater, Inv, FlagsOK
  <2>. QED  BY <1>2, <2>1 DEF CK4_KillKeenUnderwater, Inv, DeadOK, DiedOrAborted, game
<1>3. CASE CK_KeenPressUp \/ CK_KeenEnterDoor
  <2>1. FlagsOK' /\ OwnDeathAnnounced' /\ UNCHANGED cause
    BY <1>3, FlagsUnchanged DEF CK_KeenPressUp, CK_KeenEnterDoor, Inv
  <2>. QED  BY <1>3, <2>1 DEF CK_KeenPressUp, CK_KeenEnterDoor, Inv, DeadOK, DiedOrAborted, game
<1>. QED  BY <1>1, <1>2, <1>3 DEF KeenTurn

\* A creature that kills, and the Dopefish that eats, announce the death of a living Keen.
LEMMA MeetsInv == ASSUME Inv, Meets \/ CreaturesDone PROVE Inv'
<1>1. CASE CreatureKills
  BY <1>1, KillKeen DEF CreatureKills, Killed, Inv, DeadOK, DiedOrAborted, game
<1>2. CASE CK4_DopefishCol \/ CK4_DopefishEat \/ LevelEnds \/ CreaturesDone
  <2>1. FlagsOK' /\ OwnDeathAnnounced' /\ UNCHANGED cause
    BY <1>2, FlagsUnchanged DEF CK4_DopefishCol, CK4_DopefishEat, LevelEnds, CreaturesDone, Inv
  <2>. QED  BY <1>2, <2>1 DEF CK4_DopefishCol, CK4_DopefishEat, LevelEnds, CreaturesDone,
                              Inv, DeadOK, DiedOrAborted, game, body
<1>. QED  BY <1>1, <1>2 DEF Meets

\* A deadly tile kills as a creature does.
LEMMA TilesInv == ASSUME Inv, CK_KeenCheckSpecialTileInfo PROVE Inv'
<1>0. ap_suppress_death_send = FALSE /\ ap_pending_death \in BOOLEAN
  BY DEF Inv, FlagsOK
<1>1. CASE NoKill(ap_pending_death)
  <2>1. FlagsOK' /\ OwnDeathAnnounced' /\ UNCHANGED <<cause, action>>
    BY <1>0, <1>1, NothingDied DEF NoKill, CK_KeenCheckSpecialTileInfo, Inv
  <2>. QED  BY <2>1 DEF CK_KeenCheckSpecialTileInfo, Inv, DeadOK, DiedOrAborted, game
<1>2. CASE Killed
  BY <1>2, KillKeen DEF Killed, CK_KeenCheckSpecialTileInfo, Inv, DeadOK, DiedOrAborted, game
<1>. QED  BY <1>1, <1>2 DEF CK_KeenCheckSpecialTileInfo

\* Falling out of the map announces, once more if Keen was dead already.
LEMMA BottomInv == ASSUME Inv, FallsOff PROVE Inv'
<1>1. CASE row < MapHeight - 1 \/ ~isPlayer
  <2>1. FlagsOK' /\ OwnDeathAnnounced' /\ UNCHANGED cause
    BY <1>1, FlagsUnchanged DEF FallsOff, Inv
  <2>. QED  BY <1>1, <2>1 DEF FallsOff, Inv, DeadOK, DiedOrAborted, game, body
<1>2. CASE ~(row < MapHeight - 1 \/ ~isPlayer)
  <2>1. FlagsOK' /\ OwnDeathAnnounced' /\ cause' # "none"
    BY <1>2, OnDeath DEF FallsOff, Inv, FlagsOK
  <2>. QED  BY <1>2, <2>1 DEF FallsOff, Inv, DeadOK, DiedOrAborted, game, body
<1>. QED  BY <1>1, <1>2

\* The camera moves no flag.
LEMMA CameraInv == ASSUME Inv, Camera PROVE Inv'
<1>0. ap_suppress_death_send = FALSE /\ ap_pending_death \in BOOLEAN
  BY DEF Inv, FlagsOK
<1>1. CASE NoKill(ap_pending_death) /\ levelState' \in {levelState, "LS_LevelComplete"}
  <2>1. FlagsOK' /\ OwnDeathAnnounced' /\ UNCHANGED <<cause, action>>
    BY <1>0, <1>1, NothingDied DEF NoKill, Camera, Inv
  <2>. QED  BY <1>1, <2>1 DEF Camera, Inv, DeadOK, DiedOrAborted, game
<1>2. CASE /\ CK_KillKeen("own", FALSE, ap_pending_death, ap_suppress_death_send)
           /\ UNCHANGED levelState
  BY <1>2, KillKeen DEF Camera, Inv, DeadOK, DiedOrAborted, game
<1>. QED  BY <1>1, <1>2 DEF Camera, CK_NormalCamera, CameraFollows

\* The keys move no flag of a death: CTRL+R is not announced.
LEMMA KeysInv == ASSUME Inv, CK_CheckKeys PROVE Inv'
<1>1. FlagsOK' /\ OwnDeathAnnounced' /\ UNCHANGED cause
  BY FlagsUnchanged DEF CK_CheckKeys, Inv
<1>. QED  BY <1>1 DEF CK_CheckKeys, Inv, DeadOK, DiedOrAborted, body

\* A new life starts with a clean history and keeps the flags.
LEMMA PlayInv ==
    ASSUME Inv, NEW p \in Places, Play(p), numLives' \in Int, numLives' <= Lives
    PROVE  Inv'
BY DEF Play, Inv, FlagsOK, OwnDeathAnnounced, DeadOK, DiedOrAborted, link, flags

\* Between two lives, the game loop clears what the life recorded.
LEMMA GameLoopInv == ASSUME DeathLinkAssumption, Inv, GameLoop PROVE Inv'
<1>1. CASE LevelComplete
  BY <1>1, PlayInv DEF LevelComplete, Inv, DeadOK, DeathLinkAssumption
<1>2. CASE GracefulExit
  BY <1>2, PlayInv DEF GracefulExit, Inv, DeadOK, DeathLinkAssumption
<1>3. CASE CK_TryAgainMenu
  <2>1. numLives' \in Int /\ numLives' <= Lives
    BY <1>3 DEF CK_TryAgainMenu, Inv, DeadOK, DeathLinkAssumption
  <2>2. CASE numLives > 0
    <3>1. PICK p \in {place, "map"} : Play(p)
      BY <1>3, <2>2 DEF CK_TryAgainMenu
    <3>2. p \in Places
      BY DEF Inv, DeadOK, DeathLinkAssumption
    <3>. QED  BY <2>1, <3>1, <3>2, PlayInv
  <2>3. CASE ~(numLives > 0)
    <3>1. FlagsOK' /\ OwnDeathAnnounced' /\ UNCHANGED cause
      BY <1>3, <2>3, FlagsUnchanged DEF CK_TryAgainMenu, Inv
    <3>. QED  BY <1>3, <2>1, <2>3, <3>1 DEF CK_TryAgainMenu, Inv, DeadOK, DiedOrAborted, body
  <2>. QED  BY <2>2, <2>3
<1>4. CASE CK_NewGame
  BY <1>4, PlayInv DEF CK_NewGame, DeathLinkAssumption
<1>. QED  BY <1>1, <1>2, <1>3, <1>4 DEF GameLoop

\* The network sets no flag by itself: handlers run inside the poll only.
LEMMA NetworkInv == ASSUME Inv, Network PROVE Inv'
<1>1. FlagsOK'
  BY DEF Inv, FlagsOK, Network, SlotConnected, Disconnected, RemoteDeath, Others, link, life
<1>2. OwnDeathAnnounced' /\ DeadOK'
  BY DEF Inv, OwnDeathAnnounced, DeadOK, DiedOrAborted, Network, SlotConnected,
         Disconnected, RemoteDeath, Others, life, game, body
<1>. QED  BY <1>1, <1>2 DEF Inv

\* Every step keeps the invariant.
LEMMA NextInv == ASSUME DeathLinkAssumption, Inv, [Next]_vars PROVE Inv'
<1>1. CASE FrameGoesOn
  BY <1>1, PollInv, ApplyInv, ThinkInv, MeetsInv, TilesInv, BottomInv, CameraInv, KeysInv
     DEF FrameGoesOn
<1>2. CASE Meets
  BY <1>2, MeetsInv
<1>3. CASE GameLoop
  BY <1>3, GameLoopInv
<1>4. CASE Network
  BY <1>4, NetworkInv
<1>5. CASE UNCHANGED vars
  <2>1. FlagsOK' /\ OwnDeathAnnounced' /\ UNCHANGED cause
    BY <1>5, FlagsUnchanged DEF vars, Inv
  <2>. QED  BY <1>5, <2>1 DEF vars, Inv, DeadOK, DiedOrAborted, game, body
<1>. QED  BY <1>1, <1>2, <1>3, <1>4, <1>5 DEF Next

(***************************************************************************)
(* The theorems.                                                           *)
(***************************************************************************)
\* The inductive invariant of the flags, the announcements and the causes of LS_Died.
THEOREM Invariance == Spec => []Inv
<1>1. Init => Inv
  BY InitInv, DeathLinkAssumption
<1>2. Inv /\ [Next]_vars => Inv'
  BY NextInv, DeathLinkAssumption
<1>. QED  BY <1>1, <1>2, PTL DEF Spec

\* ap_on_death (ap_hooks.c 167-178): no death of Keen's own is swallowed by the flag that
\* marks an incoming one, however the two interleave.
THEOREM OwnDeathsAreAnnounced == Spec => []OwnDeathAnnounced
<1>1. Inv => OwnDeathAnnounced
  BY DEF Inv
<1>. QED  BY <1>1, Invariance, PTL

\* ap_apply_pending_death (ap_hooks.c 180-197): the kill it makes is not sent back by that
\* very call.
THEOREM AppliesInSilence == Spec => AppliedInSilence
<1>1. Inv /\ [Next]_vars => [phase = "apply" => UNCHANGED sent]_vars
  <2>. SUFFICES ASSUME Inv, Next, phase = "apply" PROVE sent' = sent
    OBVIOUS
  <2>1. CASE Apply
    <3>0. ap_suppress_death_send = FALSE /\ sent \in BOOLEAN
      BY DEF Inv, FlagsOK
    <3>1. CASE ap_pending_death /\ CanDie
      <4>1. ap_on_death("link", FALSE, TRUE)
        BY <2>1, <3>1 DEF Apply, ap_apply_pending_death, CK_KillKeen, CanDie
      <4>. QED  BY <3>0, <4>1 DEF ap_on_death
    <3>2. CASE ~(ap_pending_death /\ CanDie)
      BY <2>1, <3>2 DEF Apply, ap_apply_pending_death, NoKill, NoDeath, life
    <3>. QED  BY <3>1, <3>2
  <2>2. CASE Network
    BY <2>2 DEF Network, SlotConnected, Disconnected, RemoteDeath, Others, life
  <2>. QED  BY <2>1, <2>2 DEF Next, FrameGoesOn, KeenTurn, Meets, GameLoop, Step,
              ap_client_poll, KeenThinks, CK_KeenPressUp, CK_KeenEnterDoor,
              CK4_KillKeenUnderwater, CreatureKills,
              CK4_DopefishCol, CK4_DopefishEat, LevelEnds, CreaturesDone,
              CK_KeenCheckSpecialTileInfo, FallsOff, Camera, CK_CheckKeys,
              LevelComplete, GracefulExit, CK_TryAgainMenu, CK_NewGame
<1>. QED  BY <1>1, Invariance, PTL DEF Spec, AppliedInSilence

\* CK_GameLoop (ck_game.c 959-970) with CTRL+R (ck_play.c 1288-1304): a life is lost only
\* in a life in which Keen died.
THEOREM LivesAreLostByDeath == Spec => ALostLifeIsADeath
<1>1. Inv /\ [Next]_vars => [numLives' < numLives => cause # "none"]_vars
  <2>. SUFFICES ASSUME Inv, Next, numLives' < numLives PROVE cause # "none"
    OBVIOUS
  <2>0. numLives \in Int /\ numLives <= Lives /\ DiedOrAborted
    BY DEF Inv, DeadOK
  <2>1. CASE CK_TryAgainMenu
    BY <2>0, <2>1 DEF CK_TryAgainMenu, Aborted, DiedOrAborted
  <2>2. CASE CK_NewGame
    BY <2>0, <2>2, DeathLinkAssumption DEF CK_NewGame, DeathLinkAssumption
  <2>3. CASE numLives' = numLives
    BY <2>0, <2>3
  <2>. QED  BY <2>1, <2>2, <2>3 DEF Next, FrameGoesOn, KeenTurn, Meets, GameLoop, Network,
              ap_client_poll, Apply, KeenThinks, CK_KeenPressUp, CK_KeenEnterDoor,
              CK4_KillKeenUnderwater, CreatureKills,
              CK4_DopefishCol, CK4_DopefishEat, LevelEnds, CreaturesDone,
              CK_KeenCheckSpecialTileInfo, FallsOff, Camera, CK_CheckKeys,
              LevelComplete, GracefulExit, SlotConnected, Disconnected, RemoteDeath,
              Others, game
<1>. QED  BY <1>1, Invariance, PTL DEF Spec, ALostLifeIsADeath
====
