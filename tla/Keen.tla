---- MODULE Keen ----
(***************************************************************************)
(* Keen (ck_keen.c, and his part of CK_PlayLoop in ck_play.c): what he     *)
(* does in a frame, step by step.  The controls are read, Keen's action    *)
(* thinks, as often as the tics of the frame let it, he is moved, others   *)
(* touch him, the special tiles around him act, and his draw function      *)
(* looks at the ground.                                                    *)
(*                                                                         *)
(* Places and speeds are abstracted: after a movement Keen stands on any   *)
(* kind of ground, and what is before him is any of what the episode has   *)
(* there.  He keeps still, though, while an action keeps him in place.     *)
(***************************************************************************)
EXTENDS KeenActions, FiniteSets

CONSTANTS
    Starts,             \* how a level may start: the episode, the AP items Keen has of
                        \* {"stunner", "pogo"}, whether jump and pogo together fire, the
                        \* gems, security cards and shots Keen has, and what of switches and
                        \* doors is there; "exit" is a door out of the level (Keen 5)
    MaxSync,            \* the most tics of a frame (SD_GetSpriteSync)
    JumpTime,           \* the tics a jump is held
    DoorTime,           \* the tics of invincibility at a door (110)
    DeathTime,          \* the tics of invincibility of the dying (30)
    PlatformsPass       \* what the platforms of the levels pass, of {"pole", "holder"}

ASSUME KeenAssumption ==
    /\ Starts \subseteq [ep : {4, 5, 6}, has : SUBSET {"stunner", "pogo"}, twoButton : BOOLEAN,
                       gems : Nat, card : {0, 1}, shots : Nat,
                       places : SUBSET {"switch", "door", "securityDoor", "exit"}]
    /\ MaxSync \in Nat \ {0} /\ JumpTime \in Nat \ {0}
    /\ DoorTime \in Nat /\ DeathTime \in Nat /\ PlatformsPass \subseteq {"pole", "holder"}

VARIABLES
    start,          \* how the level started
    phase,          \* where in the frame the play loop is
    ticsLeft,       \* the tics of the frame that CK_RunAction has left
    k               \* Keen, ck_keenState, what he carries and the input of the frame

vars == <<start, phase, ticsLeft, k>>

ep == start.ep                  \* ck_currentEpisode->ep
has == start.has                \* ap_has_stunner, ap_has_pogo
twoButton == start.twoButton    \* ck_twoButtonFiring

Buttons == {"jump", "pogo", "shoot"}
Controls == {b \in SUBSET Buttons : Cardinality(b) <= 1 \/ (b = {"jump", "pogo"} /\ "pogo" \in has)}
Frames == [x : {"none", "ahead", "back"}, y : {-1, 0, 1}, buttons : Controls]

Places == {"nothing"} \cup start.places      \* what may be before Keen

Start ==
    [act |-> "keenStanding", actionTimer |-> 0, clipped |-> "normal", topTI |-> "floor",
     user1 |-> "nothing",       \* where keenSlide leads
     platform |-> FALSE,        \* ck_keenState
     jumpTimer |-> 0, keenSliding |-> FALSE, isPressed |-> {}, wasPressed |-> {}, pogoTimer |-> 0,
     invincible |-> 0,          \* ck_invincibilityTimer
     gems |-> start.gems, card |-> start.card, shots |-> start.shots, level |-> "LS_Playing",
     x |-> "none", y |-> 0,     \* ck_inputFrame
     sync |-> 0,                \* SD_GetSpriteSync: the tics of the frame
     \* history: a press of the fire button that has not become a shot; a use of up since it
     \* was pressed; one more of these than there were presses; the doors opened by gems; the
     \* gems that fell from his hand
     due |-> FALSE, used |-> FALSE, extraShot |-> FALSE, extraUse |-> FALSE,
     opened |-> 0, lostGems |-> 0]

Init ==
    /\ start \in Starts
    /\ phase = "input" /\ ticsLeft = 0
    /\ \/ k = Start
       \/ ep = 4 /\ k = [Start EXCEPT !.act = "KeenSwim0", !.topTI = "none"]

(***************************************************************************)
(* Helpers on Keen's record.                                               *)
(***************************************************************************)
Does(s, act) == [s EXCEPT !.act = act]

\* CK_SetAction2 moves Keen by nothing, which finds no ground for the unclipped.  What he
\* was sliding to is not looked at again.
CK_SetAction2(s, act) ==
    [s EXCEPT !.act = act, !.actionTimer = 0, !.user1 = "nothing",
              !.topTI = IF s.clipped = "not" /\ s.topTI # "platform" THEN "none" ELSE @]

FallsFree(s) == [CK_SetAction2([s EXCEPT !.clipped = "normal"], "keenFall1") EXCEPT !.jumpTimer = 0]

\* The gem that Keen is putting into a holder when something else becomes of him.
DropsGem(s) == [s EXCEPT !.lostGems = IF s.act = "keenPlaceGem" THEN @ + 1 ELSE @]

CK_KillKeen(s) ==
    IF s.invincible > 0 \/ s.act = "keenNot" THEN s
    ELSE [CK_SetAction2([DropsGem(s) EXCEPT !.clipped = "not"], IF ep = 4 /\ s.act \in SwimActs
                                                       THEN "KeenSwimDie0" ELSE "keenDie0")
             EXCEPT !.invincible = DeathTime]

Pressed(s, button) == button \in s.isPressed /\ button \notin s.wasPressed
Handled(s, button) == [s EXCEPT !.wasPressed = @ \cup {button}]

\* The fire button: nothing follows without the stunner.
Fires(s, act) ==
    LET t == Handled(s, "shoot")
    IN IF "stunner" \notin has THEN t ELSE [t EXCEPT !.act = act, !.due = TRUE]

Jumps(s, time) == [Handled(s, "jump") EXCEPT !.act = "keenJump1", !.jumpTimer = time]

StartsPogo(s) ==
    LET t == Handled(s, "pogo")
    IN IF "pogo" \notin has THEN t ELSE [t EXCEPT !.act = "keenPogo1", !.jumpTimer = JumpTime + 1]

(***************************************************************************)
(* Before a switch or a door.  `here` says what is before Keen, whether he *)
(* stands right before it, whether there is a pole and whether something   *)
(* firm is under him.                                                      *)
(***************************************************************************)
Here == [place : Places, aligned : BOOLEAN, pole : BOOLEAN, firm : BOOLEAN]
Nowhere == [place |-> "nothing", aligned |-> FALSE, pole |-> FALSE, firm |-> FALSE]

\* What of it Keen looks at.
Seen(s) ==
    {here \in Here :
        /\ s.act \in PoleActs \/ (s.y # -1 /\ s.act # "keenSlide") => here.place = "nothing"
        /\ here.place = "nothing" /\ s.act # "keenSlide" => ~here.aligned
        /\ s.y = 0 /\ s.act \notin PoleActs => ~here.pole
        /\ s.act \notin PoleActs \cup {"keenLookDown1", "keenLookDown2", "keenLookDown3"} => ~here.firm}
Uses(s) == [s EXCEPT !.keenSliding = TRUE, !.used = TRUE, !.extraUse = @ \/ s.used]

\* What CK_KeenPressUp returns.
CK_KeenPressesUp(s, here) ==
    here.place # "nothing" /\ ~(here.place = "securityDoor" /\ here.aligned /\ s.card = 0)

CK_KeenPressUp(s, here) ==
    CASE here.place = "nothing" -> s
      [] here.place # "nothing" /\ ~here.aligned ->
            [s EXCEPT !.act = "keenSlide", !.user1 = here.place, !.keenSliding = TRUE]
      [] here.place = "switch" /\ here.aligned -> Does(Uses(s), "keenPressSwitch1")
      [] here.place = "securityDoor" /\ here.aligned /\ s.card > 0 ->
            [Uses(s) EXCEPT !.card = 0, !.act = "keenEnterSecurityDoor", !.user1 = "door"]
      [] here.place = "securityDoor" /\ here.aligned /\ s.card = 0 ->
            [s EXCEPT !.act = "keenStanding", !.keenSliding = TRUE]
      [] here.place \in {"door", "exit"} /\ here.aligned ->
            [Uses(s) EXCEPT !.invincible = DoorTime, !.act = "keenEnterDoor0", !.user1 = here.place]

\* Where he has slid to he does what he slid for; at a gem holder there is nothing to do.
CK_KeenSlide(s, here) ==
    LET there == [here EXCEPT !.place = IF s.user1 = "holder" THEN "nothing" ELSE s.user1]
        t == [s EXCEPT !.user1 = "nothing"]
    IN IF ~here.aligned THEN s
       ELSE IF CK_KeenPressesUp(t, there) THEN CK_KeenPressUp(t, there)
       ELSE Does(CK_KeenPressUp(t, there), "keenStanding")

CK_KeenTryClimbPole(s) == [s EXCEPT !.clipped = "not", !.act = "keenPoleSit"]

(***************************************************************************)
(* Think functions on the ground.                                          *)
(***************************************************************************)
Surfs(s) == IF s.topTI = "platform" /\ ep = 5 THEN Does(s, "keenRidePlatform") ELSE s

UpFires(s) == IF s.y = -1 THEN "keenShootUp1" ELSE "keenShoot1"

\* Jump and pogo pressed together while running: the pogo wins.
RunsOn(s) ==
    LET t == IF Pressed(s, "jump") THEN Jumps(s, JumpTime) ELSE s
    IN CASE Pressed(s, "shoot") -> Fires(s, UpFires(s))
         [] ~Pressed(s, "shoot") /\ Pressed(s, "pogo") -> StartsPogo(t)
         [] OTHER -> t

\* A security door that stays closed stops Keen, unless a button is pressed too.
CK_KeenRuns(s, here) ==
    CASE s.y # 0 /\ here.pole -> CK_KeenTryClimbPole(s)
      [] s.y = -1 /\ ~here.pole ->
            IF s.keenSliding THEN s
            ELSE LET t == CK_KeenPressUp(s, here) IN IF CK_KeenPressesUp(s, here) THEN t ELSE RunsOn(t)
      [] OTHER -> RunsOn(s)

CK_HandleInputOnGround(s, here) ==
    LET t == Surfs(s) IN
    CASE s.x # "none" -> CK_KeenRuns(Does(t, "keenRun1"), here)
      [] s.x = "none" /\ Pressed(t, "shoot") -> Fires(t, UpFires(s))
      [] s.x = "none" /\ ~Pressed(t, "shoot") /\ Pressed(t, "jump") -> Jumps(t, JumpTime)
      [] s.x = "none" /\ ~Pressed(t, "shoot") /\ ~Pressed(t, "jump") /\ Pressed(t, "pogo") -> StartsPogo(t)
      [] OTHER ->
            CASE s.y # 0 /\ here.pole -> CK_KeenTryClimbPole(t)
              [] s.y = -1 /\ ~here.pole ->
                    LET u == IF t.keenSliding THEN t ELSE CK_KeenPressUp(t, here)
                    IN IF ~t.keenSliding /\ CK_KeenPressesUp(s, here) THEN u ELSE Does(u, "keenLookUp1")
              [] s.y = 1 /\ ~here.pole -> Does(t, "keenLookDown1")
              [] OTHER -> t

CK_KeenRunningThink(s, here) ==
    IF s.x = "none" THEN CK_HandleInputOnGround(Does(s, "keenStanding"), here) ELSE CK_KeenRuns(s, here)

Stands(s, here) == CK_HandleInputOnGround(Does(s, "keenStanding"), here)

\* Left alone Keen looks around, gets bored, and in the end he reads.
IdleActs == {"keenIdle", "keenBored1", "keenOpenBook1"}
CK_KeenStandingThink(s, here) ==
    IF s.x # "none" \/ s.y # 0 \/ s.isPressed # {} THEN {Stands(s, here)}
    ELSE {Surfs(s)} \cup (IF s.topTI # "platform" THEN {Does(s, act) : act \in IdleActs} ELSE {})

CK_KeenReadThink(s) ==
    IF s.x # "none" \/ s.isPressed \cap {"jump", "pogo"} # {}
    THEN Does(s, "keenStowBook1") ELSE s

CK_KeenLookUpThink(s, here) ==
    IF s.y # -1 \/ s.x # "none" \/ Pressed(s, "jump") \/ Pressed(s, "pogo") \/ "shoot" \in s.isPressed
    THEN Stands(s, here) ELSE s

\* A jump while he looks down lets Keen through a floor that is open from below, if
\* nothing is under it.
CK_KeenLookDownThink(s, here) ==
    LET down == Pressed(s, "jump") /\ s.topTI \in {"floor", "platform"}
        t == IF down THEN Handled(s, "jump") ELSE s
    IN IF down THEN IF here.firm THEN t
                    ELSE [t EXCEPT !.platform = FALSE, !.act = "keenFall1"]
       ELSE IF s.y # 1 \/ s.x # "none" \/ Pressed(s, "jump") \/ Pressed(s, "pogo")
            THEN Does(s, "keenLookDown4") ELSE s

(***************************************************************************)
(* Think functions in the air.                                             *)
(***************************************************************************)
NextOf(s) == IF Rows[s.act].next = {} THEN s ELSE Does(s, CHOOSE act \in Rows[s.act].next : TRUE)

AirFires(s) ==
    Fires(s, IF s.y = -1 THEN "keenJumpShootUp1"
             ELSE IF s.y = 0 THEN "keenJumpShoot1" ELSE "keenJumpShootDown1")

Held(s) == IF s.jumpTimer <= s.sync THEN 0 ELSE s.jumpTimer - s.sync

\* The rise ends with the jump timer or with the button; `falls` says that Keen has begun
\* to fall without the timer.
CK_KeenJumpThink(s, here, falls) ==
    LET t == [s EXCEPT !.jumpTimer = IF "jump" \in s.isPressed THEN Held(s) ELSE 0]
        u == IF s.jumpTimer > 0 THEN IF t.jumpTimer = 0 THEN NextOf(t) ELSE t
             ELSE IF falls /\ s.act \notin {"keenFall1", "keenFall2"} THEN NextOf(s) ELSE s
    IN CASE Pressed(u, "shoot") -> AirFires(u)
         [] ~Pressed(u, "shoot") /\ Pressed(u, "pogo") ->
               LET v == Handled(u, "pogo")
               IN IF "pogo" \notin has THEN v ELSE [v EXCEPT !.act = "keenPogo2", !.jumpTimer = 0]
         [] ~Pressed(u, "shoot") /\ ~Pressed(u, "pogo") /\ s.y = -1 /\ here.pole -> CK_KeenTryClimbPole(u)
         [] OTHER -> u

CK_KeenPogoBounceThink(s) == [s EXCEPT !.jumpTimer = JumpTime + 1]

CK_KeenPogoThink(s) ==
    LET t == [s EXCEPT !.jumpTimer = Held(s)]
        u == IF s.jumpTimer > 0 THEN IF t.jumpTimer = 0 THEN NextOf(t) ELSE t ELSE s
    IN CASE Pressed(u, "shoot") -> AirFires(u)
         [] ~Pressed(u, "shoot") /\ Pressed(u, "pogo") -> Does(Handled(u, "pogo"), "keenFall1")
         [] OTHER -> u

(***************************************************************************)
(* Think functions on poles and ledges.                                    *)
(***************************************************************************)
\* He stays unclipped.
LeavesPoleUnclipped(s) == [s EXCEPT !.act = "keenFall1", !.jumpTimer = 0]

LeavesPole(s) == [s EXCEPT !.act = "keenFall1", !.jumpTimer = 0, !.clipped = "normal"]

CK_KeenPoleHandleInput(s) ==
    CASE Pressed(s, "shoot") -> Fires(s, "keenPoleShoot1")
      [] ~Pressed(s, "shoot") /\ Pressed(s, "jump") -> [Jumps(s, JumpTime - 1) EXCEPT !.clipped = "normal"]
      [] OTHER -> s

\* Down: where the pole ends Keen falls.
CK_KeenPoleDownThink(s, here) ==
    IF ~here.pole THEN LeavesPole(s)
    ELSE CK_KeenPoleHandleInput(Does(s, CASE s.y = 0 -> "keenPoleSit"
                                          [] s.y = -1 -> "keenPoleUp1"
                                          [] OTHER -> s.act))

CK_KeenPoleSitThink(s, here) ==
    CASE s.y = 1 -> CK_KeenPoleDownThink(Does(s, "keenPoleDown1"), here)
      [] s.y = -1 -> Does(s, "keenPoleUp1")
      [] s.y = 0 /\ s.x # "none" /\ here.firm -> LeavesPole(s)
      [] OTHER -> CK_KeenPoleHandleInput(s)

CK_KeenPoleUpThink(s, here) ==
    CASE ~here.pole -> CK_KeenPoleHandleInput(Does(s, "keenPoleSit"))
      [] here.pole /\ s.y = 0 -> Does(s, "keenPoleSit")
      [] here.pole /\ s.y = 1 -> CK_KeenPoleDownThink(Does(s, "keenPoleDown1"), here)
      [] OTHER -> CK_KeenPoleHandleInput(s)

CK_KeenHangThink(s) ==
    CASE s.y = -1 \/ s.x = "ahead" -> Does(s, "keenPull1")
      [] s.y # -1 /\ s.x # "ahead" /\ (s.y = 1 \/ s.x = "back") ->
            [s EXCEPT !.act = "keenFall1", !.clipped = "normal"]
      [] OTHER -> s

CK_KeenPullThink4(s) == [s EXCEPT !.clipped = "normal"]

(***************************************************************************)
(* The other think functions.                                              *)
(***************************************************************************)
\* The shots are not looked at.
SpawnShotAnyway(s) == [s EXCEPT !.shots = @ - 1, !.due = FALSE, !.extraShot = @ \/ ~s.due]

CK_KeenSpawnShot(s) ==
    [s EXCEPT !.shots = IF @ > 0 THEN @ - 1 ELSE 0, !.due = FALSE, !.extraShot = @ \/ ~s.due]

\* The door that the holder points to opens.
CK_KeenPlaceGem(s) == [s EXCEPT !.opened = @ + 1]

CK_KeenEnterDoor(s) ==
    IF s.user1 = "exit" THEN [s EXCEPT !.level = "LS_LevelComplete", !.act = "keenEnteredDoor"]
    ELSE [CK_SetAction2([s EXCEPT !.clipped = "not"], "keenStanding")
             EXCEPT !.clipped = "normal"]

CK_KeenDeathThink(s, gone) == IF gone THEN [s EXCEPT !.level = "LS_Died"] ELSE s

CK4_KeenSwim(s) == IF Pressed(s, "jump") THEN NextOf(Handled(s, "jump")) ELSE s

CK4_KeenSwimFast(s) ==
    [IF Pressed(s, "jump") THEN Handled(s, "jump") ELSE s
        EXCEPT !.act = IF @ = "KeenSwimFast0" THEN "KeenSwimFast1" ELSE "KeenSwimFast0"]

\* What the think function of Keen's action may make of him.
Thinks(s, here) ==
    LET think == Rows[s.act].think IN
    CASE think = "KeenStandingThink" -> CK_KeenStandingThink(s, here)
      [] think = "HandleInputOnGround" -> {CK_HandleInputOnGround(s, here)}
      [] think = "KeenRunningThink" -> {CK_KeenRunningThink(s, here)}
      [] think = "KeenReadThink" -> {CK_KeenReadThink(s)}
      [] think = "KeenLookUpThink" -> {CK_KeenLookUpThink(s, here)}
      [] think = "KeenLookDownThink" -> {CK_KeenLookDownThink(s, here)}
      [] think = "KeenSlide" -> {CK_KeenSlide(s, here)}
      [] think = "KeenJumpThink" -> {CK_KeenJumpThink(s, here, falls) : falls \in BOOLEAN}
      [] think = "KeenPogoBounceThink" -> {CK_KeenPogoBounceThink(s)}
      [] think = "KeenPogoThink" -> {CK_KeenPogoThink(s)}
      [] think = "KeenPoleSitThink" -> {CK_KeenPoleSitThink(s, here)}
      [] think = "KeenPoleUpThink" -> {CK_KeenPoleUpThink(s, here)}
      [] think = "KeenPoleDownThink" -> {CK_KeenPoleDownThink(s, here)}
      [] think = "KeenHangThink" -> {CK_KeenHangThink(s)}
      [] think = "KeenPullThink4" -> {CK_KeenPullThink4(s)}
      [] think = "KeenSpawnShot" -> {CK_KeenSpawnShot(s)}
      [] think = "KeenPlaceGem" -> {CK_KeenPlaceGem(s)}
      [] think = "KeenEnterDoor" -> {CK_KeenEnterDoor(s)}
      [] think = "KeenDeathThink" -> {CK_KeenDeathThink(s, gone) : gone \in BOOLEAN}
      [] think = "KeenSwim" -> {CK4_KeenSwim(s)}
      [] think = "KeenSwimFast" -> {CK4_KeenSwimFast(s)}
      \* the map changes (switches), Keen walks through the door, or he falls
      [] OTHER -> {s}

(***************************************************************************)
(* A frame.  First death links and the controls.                           *)
(***************************************************************************)
CK_HandleInput(s, f, tics) ==
    LET r == [s EXCEPT !.x = f.x, !.y = f.y, !.sync = tics]
        t == IF f.y # -1 THEN [r EXCEPT !.keenSliding = FALSE, !.used = FALSE] ELSE r
        late == t.pogoTimer <= 1
    IN CASE ~twoButton -> [t EXCEPT !.isPressed = f.buttons, !.wasPressed = @ \cap f.buttons]
         [] twoButton /\ f.buttons = {"jump", "pogo"} ->
               [t EXCEPT !.isPressed = {"shoot"}, !.wasPressed = @ \ {"jump", "pogo"}]
         [] twoButton /\ f.buttons = {"pogo"} ->
               [t EXCEPT !.isPressed = IF late THEN @ \cap {"pogo"} ELSE {"pogo"},
                         !.wasPressed = @ \cap {"pogo"},
                         !.pogoTimer = IF late THEN @ + tics ELSE @]
         [] twoButton /\ f.buttons \in SUBSET {"jump"} ->
               LET pogo == IF t.pogoTimer > 0 THEN {"pogo"} ELSE {}
               IN [t EXCEPT !.isPressed = f.buttons \cup pogo,
                            !.wasPressed = @ \cap (f.buttons \cup pogo), !.pogoTimer = 0]

Inputs(s) ==
    {CK_HandleInput(t, f, tics) :
        t \in {s, CK_KillKeen(s)},
        f \in {g \in Frames : twoButton => "shoot" \notin g.buttons}, tics \in 1 .. MaxSync}

(***************************************************************************)
(* CK_RunAction: the action thinks for the tics of the frame; when its     *)
(* timer runs out, the next action thinks for the rest of them.            *)
(***************************************************************************)
\* The tics of a frame that ends before the timer are lost.
ActionThinkForgets(s, time) ==
    LET row == Rows[s.act]
        lasts == row.timer > time \/ row.timer = 0
        thoughts == IF row.type = "once" /\ lasts THEN {s} ELSE UNION {Thinks(s, here) : here \in Seen(s)}
    IN IF row.type = "each" \/ lasts THEN {[keen |-> t, left |-> 0] : t \in thoughts}
       ELSE UNION {{[keen |-> Does(t, act), left |-> time - row.timer] :
                        act \in IF t.act # s.act THEN {t.act} ELSE row.next} : t \in thoughts}

CK_ActionThink(s, time) ==
    LET row == Rows[s.act]
        newTime == time + s.actionTimer
        lasts == row.timer > newTime \/ row.timer = 0
        thoughts == IF row.type = "once" /\ lasts THEN {s} ELSE UNION {Thinks(s, here) : here \in Seen(s)}
        Timer(t) == IF t.act # s.act THEN 0 ELSE IF row.type = "each" THEN t.actionTimer ELSE newTime
        After(t) == IF t.act # s.act THEN {t.act} ELSE row.next
    IN IF row.type = "each" \/ lasts
       THEN {[keen |-> [t EXCEPT !.actionTimer = Timer(t)], left |-> 0] : t \in thoughts}
       ELSE UNION {{[keen |-> [t EXCEPT !.act = act, !.actionTimer = 0], left |-> newTime - row.timer] :
                        act \in After(t)} : t \in thoughts}

\* When no tics are left, only whether Keen is steered counts of the controls.
Thought(results) ==
    \E r \in results :
        /\ ticsLeft' = r.left
        /\ phase' = IF r.left > 0 THEN "rest" ELSE "move"
        /\ k' = IF r.left > 0 THEN r.keen
                ELSE [r.keen EXCEPT !.y = 0, !.x = IF @ = "none" THEN @ ELSE "ahead",
                                    !.isPressed = IF twoButton THEN @ ELSE {}]

Think ==
    /\ phase = "input" /\ k.level = "LS_Playing"
    /\ \E s \in Inputs(k) : Thought(CK_ActionThink(s, s.sync))
    /\ UNCHANGED start

ThinkOn ==
    /\ phase = "rest"
    /\ Thought(CK_ActionThink(k, IF k.act \in ProtectAnimation \/ Rows[k.act].timer > ticsLeft
                                 THEN ticsLeft ELSE Rows[k.act].timer - 1))
    /\ UNCHANGED start

(***************************************************************************)
(* The movement: CK_PhysUpdateNormalObj finds the ground, and a platform   *)
(* takes Keen with it (CK_KeenRidePlatform) unless he has left it.         *)
(***************************************************************************)
Still == {"keenPressSwitch1", "keenPressSwitch2", "keenPlaceGem"}
Grounds == {"none", "floor", "deadly"} \cup (IF ep = 5 THEN {"fuse"} ELSE {})

CK_PhysUpdateNormalObj(s) ==
    {[s EXCEPT !.topTI = ground] : ground \in
        IF s.clipped = "not" THEN {"none"}
        ELSE IF s.act \in Still /\ s.topTI \in Grounds \ {"none"} THEN {s.topTI} ELSE Grounds}

Rises(s) ==
    \/ s.act \in DieActs \/ s.jumpTimer > 0
    \/ s.act \in PoleActs \cup LedgeActs /\ "pole" \notin PlatformsPass

CK_KeenRidePlatform(s) ==
    IF ~s.platform THEN {s}
    ELSE {[s EXCEPT !.platform = FALSE]} \cup (IF Rises(s) THEN {} ELSE {[s EXCEPT !.topTI = "platform"]})

Move ==
    /\ phase = "move"
    /\ \E s \in CK_PhysUpdateNormalObj(k) : k' \in CK_KeenRidePlatform(s)
    /\ phase' = "collide"
    /\ UNCHANGED <<start, ticsLeft>>

(***************************************************************************)
(* Others: what touches Keen, and the smash of a bloogguard.               *)
(***************************************************************************)
Stunned(s) == CK_SetAction2(DropsGem(s), "keenStunned0")

\* Keen comes down on a platform, unless his head meets the ceiling.
CK_PhysPushY(s) ==
    {[s EXCEPT !.platform = TRUE, !.topTI = "platform"], [s EXCEPT !.platform = TRUE, !.topTI = "none"]}

Ammo(s) == [s EXCEPT !.shots = IF @ < start.shots THEN @ + 1 ELSE @]

CK_KeenColFunc(s) ==
    {Ammo(s)}
    \cup (IF s.platform THEN {} ELSE CK_PhysPushY(s))
    \cup (IF ep = 4 THEN {[s EXCEPT !.level = "LS_Foot"]} ELSE {})
    \cup (IF ep = 4 /\ s.topTI # "none" THEN {[s EXCEPT !.level = "LS_CouncilRescued"]} ELSE {})
    \cup (IF ep = 6 THEN {Stunned(s)} ELSE {})

CK_KeenSpecialColFunc(s) ==
    CK_PhysPushY(FallsFree(s)) \cup {FallsFree(s)} \cup (IF ep = 4 THEN {CK_KillKeen(s)} ELSE {})

CK4_KeenSwimCol(s) == {Ammo(s), [s EXCEPT !.level = "LS_CouncilRescued"]}

Touched(s) ==
    LET collide == Rows[s.act].collide IN
    CASE collide = "KeenColFunc" -> CK_KeenColFunc(s)
      [] collide = "KeenSpecialColFunc" -> CK_KeenSpecialColFunc(s)
      [] collide = "KeenSwimCol" -> CK4_KeenSwimCol(s)
      [] OTHER -> {}

CK6_BloogguardSmash(s) == IF ep = 6 /\ s.topTI # "none" THEN {Stunned(s)} ELSE {}

Touch ==
    /\ phase = "collide"
    /\ k' \in Touched(k) \cup CK6_BloogguardSmash(k) \cup {CK_KillKeen(k)}
    /\ phase' = "draw"
    /\ UNCHANGED <<start, ticsLeft>>

NoTouch ==
    /\ phase = "collide" /\ phase' = "draw"
    /\ UNCHANGED <<start, ticsLeft, k>>

(***************************************************************************)
(* The special tile around Keen, of which there is one at a time, and no   *)
(* gem holder at a switch or a door.                                       *)
(***************************************************************************)
\* Keen may be putting a gem into a holder already.
AtHolderTwice(s) ==
    /\ s.topTI # "none" /\ s.gems > 0
    /\ s.act \notin DoorActs \cup {"keenEnterSecurityDoor"} /\ s.user1 \in {"nothing", "holder"}
    /\ s.topTI = "platform" => "holder" \in PlatformsPass

\* Keen need not stand.
AtHolderInTheAir(s) ==
    /\ s.gems > 0 /\ s.act # "keenPlaceGem"
    /\ s.act \notin DoorActs \cup Still \cup {"keenEnterSecurityDoor"} /\ s.user1 \in {"nothing", "holder"}

AtHolder(s) ==
    /\ s.topTI # "none" /\ s.gems > 0 /\ s.act # "keenPlaceGem"
    /\ s.act \notin DoorActs \cup Still \cup {"keenEnterSecurityDoor"} /\ s.user1 \in {"nothing", "holder"}
    /\ s.topTI = "platform" => "holder" \in PlatformsPass

CK_KeenCheckSpecialTileInfo(s) ==
    {s, CK_KillKeen(s)}
    \cup (IF AtHolder(s)
          THEN {[CK_SetAction2(s, "keenPlaceGem") EXCEPT !.gems = @ - 1],
                [s EXCEPT !.user1 = "holder", !.act = "keenSlide"]}
          ELSE {})

(***************************************************************************)
(* The draw functions.  A Keen who has not moved is not drawn; but then    *)
(* they would find what they found before.                                 *)
(***************************************************************************)
Grounded(s) ==
    CASE s.topTI = "none" -> [CK_SetAction2(s, "keenFall1") EXCEPT !.jumpTimer = 0]
      [] s.topTI = "deadly" -> CK_KillKeen(s)
      [] OTHER -> s

CK_KeenDrawFunc(s) == {Grounded(s)}

\* A wall stops the run.
CK_KeenRunDrawFunc(s) ==
    {Grounded(s)} \cup (IF Grounded(s) = s THEN {[s EXCEPT !.actionTimer = 0, !.act = "keenStanding"]} ELSE {})

LandAct(s) ==
    CASE s.act = "keenJumpShoot1" -> "keenShoot1"
      [] s.act = "keenJumpShootUp1" -> "keenShootUp1"
      [] s.act \notin {"keenJumpShoot1", "keenJumpShootUp1"} /\ s.x # "none" -> "keenRun1"
      [] OTHER -> "keenStanding"

HitsHead(s) == {s, [s EXCEPT !.jumpTimer = 0]}
Firm(s) == s.topTI # "platform" \/ s.jumpTimer = 0

\* Keen lands, or falls past a ledge and grabs it.
CK_KeenJumpDrawFunc(s) ==
    CASE s.topTI = "deadly" -> {CK_KillKeen(s)}
      [] s.topTI \notin {"none", "deadly"} ->
            {IF Firm(s) THEN CK_SetAction2(s, LandAct(s)) ELSE s}
      [] s.topTI = "none" ->
            HitsHead(s) \cup (IF s.jumpTimer = 0 /\ s.x # "none"
                              THEN {CK_SetAction2([s EXCEPT !.clipped = "not"], "keenHang1")} ELSE {})

CK_KeenPogoDrawFunc(s) ==
    CASE s.topTI = "deadly" -> {CK_KillKeen(s)}
      [] s.topTI \notin {"none", "deadly"} ->
            {IF Firm(s) THEN [CK_SetAction2(s, "keenPogo2") EXCEPT !.jumpTimer = JumpTime + 1] ELSE s}
      [] s.topTI = "none" -> HitsHead(s)

\* At the foot of the pole.
CK_KeenPoleDownDrawFunc(s) == {s, CK_SetAction2([s EXCEPT !.clipped = "normal"], "keenLookDown1")}

Drawn(s) ==
    LET draw == Rows[s.act].draw IN
    CASE draw = "KeenDrawFunc" -> CK_KeenDrawFunc(s)
      [] draw = "KeenRunDrawFunc" -> CK_KeenRunDrawFunc(s)
      [] draw = "KeenJumpDrawFunc" -> CK_KeenJumpDrawFunc(s)
      [] draw = "KeenPogoDrawFunc" -> CK_KeenPogoDrawFunc(s)
      [] draw = "KeenPoleDownDrawFunc" -> CK_KeenPoleDownDrawFunc(s)
      [] OTHER -> {s}

\* Keen, alive or dead, is below the map.
FallsOut(s) ==
    IF s.topTI = "none" /\ s.act \in AirActs \cup DieActs
    THEN {[s EXCEPT !.level = "LS_Died"]} ELSE {}

\* The end of the frame.
Ages(s) ==
    [s EXCEPT !.invincible = IF @ <= s.sync THEN 0 ELSE @ - s.sync, !.x = "none", !.sync = 0]

Draw ==
    /\ phase = "draw"
    /\ \E t \in CK_KeenCheckSpecialTileInfo(k) : \E s \in Drawn(t) \cup FallsOut(t) : k' = Ages(s)
    /\ phase' = "input"
    /\ UNCHANGED <<start, ticsLeft>>

Next == Think \/ ThinkOn \/ Move \/ Touch \/ NoTouch \/ Draw

\* The play loop goes on while the level is played: Next is enabled just then, and all of
\* its steps change one of these two.
Phases == {"input", "rest", "move", "collide", "draw"}
GoesOn == (k.level = "LS_Playing" \/ phase # "input") /\ phase' \in Phases /\ ticsLeft' \in 0 .. MaxSync
Fairness == WF_<<phase, ticsLeft>>(GoesOn)

Spec == Init /\ [][Next]_vars /\ Fairness

(***************************************************************************)
(* Properties.                                                             *)
(***************************************************************************)
\* No stunner, no shots; no pogo, no bounces.
ItemsGateMoves ==
    /\ "pogo" \notin has => k.act \notin PogoActs
    /\ "stunner" \notin has => k.shots = start.shots

\* Types, and what Keen's items let him do, in whatever action he is.
KeenTypeOK ==
    /\ ItemsGateMoves
    /\ k.act \in Acts /\ k.actionTimer \in 0 .. 2
    /\ k.clipped \in {"normal", "not"}
    /\ k.topTI \in Grounds \cup {"platform"}
    /\ k.user1 \in Places \cup {"holder", "door"}
    /\ k.jumpTimer \in 0 .. JumpTime + 1 /\ k.pogoTimer \in 0 .. 1 + MaxSync
    /\ k.isPressed \subseteq Buttons /\ k.wasPressed \subseteq Buttons
    /\ k.gems \in 0 .. start.gems /\ k.card \in {0, 1} /\ k.shots \in 0 .. start.shots
    /\ phase \in Phases /\ ticsLeft \in 0 .. MaxSync

\* A press of the fire button is one shot at most, wherever it was pressed and whatever
\* came between the press and the shot: a landing, a platform, a slow frame.  Up is for one
\* switch or one door until it is let go: the door behind a door does not take Keen back
\* (keenSliding).
PressesCountOnce == ~k.extraShot /\ ~k.extraUse

\* Keen goes through walls on poles, on ledges and when he dies, and at no other time.
ClippedAsActs ==
    k.clipped = "not" <=> k.act \in PoleActs \cup (LedgeActs \ {"keenPull5"}) \cup DieActs

\* No gem is spent twice or for nothing: each is still carried, has opened its door, is in
\* Keen's hand before the holder, or fell from it when he died or was stunned there.
GemsAccounted ==
    k.gems + k.opened + k.lostGems + (IF k.act = "keenPlaceGem" THEN 1 ELSE 0) = start.gems

\* The dead stay dead: nothing that is still to come of the frame, or of the next ones,
\* gives Keen another action.
DeadStayDead == [][k.act \in DieActs => k'.act \in DieActs \cup {"keenNot"}]_vars

\* What Keen has begun at a door or a switch, or pulling himself up, comes to an end,
\* however short the frames are.
Busy == (BusyActs \ {"keenSlide", "keenDie0", "keenNot"}) \cup (LedgeActs \ {"keenHang2"})
BusyEnds == k.act \in Busy ~> (k.act \notin Busy \/ k.level # "LS_Playing")

====
