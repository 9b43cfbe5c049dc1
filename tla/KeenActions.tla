---- MODULE KeenActions ----
(***************************************************************************)
(* The actions of Keen (the first rows of ACTION.CK4, .CK5 and .CK6).  A   *)
(* row has the type of the action, the length of its timer in tics, its    *)
(* think, collide and draw functions and its next action.  Lengths are     *)
(* scaled down: 0 is no timer, 1 is one tic and 2 stands for the longer    *)
(* ones.  Frames that share their functions are one action.                *)
(***************************************************************************)
EXTENDS Integers

Row(type, timer, think, collide, draw, next) ==
    [type |-> type, timer |-> timer, think |-> think, collide |-> collide, draw |-> draw, next |-> next]

\* On the ground.
GroundActs == {"keenStanding", "keenIdle", "keenBored1", "keenOpenBook1", "keenReadBook1",
               "keenStowBook1", "keenRidePlatform", "keenLookUp1", "keenLookUp2",
               "keenLookDown1", "keenLookDown2", "keenLookDown3", "keenLookDown4", "keenRun1",
               "keenShoot1", "keenShoot2", "keenShootUp1", "keenShootUp2", "keenStunned0"}
GroundRows ==
    [act \in GroundActs |->
        CASE act = "keenStanding"     -> Row("frame", 2, "KeenStandingThink", "KeenColFunc", "KeenDrawFunc", {"keenStanding"})
          [] act = "keenIdle"         -> Row("frame", 2, "KeenStandingThink", "KeenColFunc", "KeenDrawFunc", {"keenStanding"})
          [] act = "keenBored1"       -> Row("frame", 2, "KeenStandingThink", "KeenColFunc", "KeenDrawFunc", {"keenBored1", "keenStanding"})
          [] act = "keenOpenBook1"    -> Row("once", 2, "NULL", "KeenColFunc", "KeenDrawFunc", {"keenOpenBook1", "keenReadBook1"})
          [] act = "keenReadBook1"    -> Row("frame", 2, "KeenReadThink", "KeenColFunc", "KeenDrawFunc", {"keenReadBook1"})
          [] act = "keenStowBook1"    -> Row("once", 2, "NULL", "KeenColFunc", "KeenDrawFunc", {"keenStowBook1", "keenStanding"})
          [] act = "keenRidePlatform" -> Row("frame", 2, "HandleInputOnGround", "KeenColFunc", "KeenDrawFunc", {"keenRidePlatform"})
          [] act = "keenLookUp1"      -> Row("frame", 2, "KeenLookUpThink", "KeenColFunc", "KeenDrawFunc", {"keenLookUp2"})
          [] act = "keenLookUp2"      -> Row("each", 0, "KeenLookUpThink", "KeenSpecialColFunc", "KeenDrawFunc", {})
          [] act = "keenLookDown1"    -> Row("frame", 2, "KeenLookDownThink", "KeenColFunc", "KeenDrawFunc", {"keenLookDown2"})
          [] act = "keenLookDown2"    -> Row("frame", 2, "KeenLookDownThink", "KeenSpecialColFunc", "KeenDrawFunc", {"keenLookDown3"})
          [] act = "keenLookDown3"    -> Row("each", 0, "KeenLookDownThink", "KeenSpecialColFunc", "KeenDrawFunc", {})
          [] act = "keenLookDown4"    -> Row("once", 2, "NULL", "KeenColFunc", "KeenDrawFunc", {"keenStanding"})
          [] act = "keenRun1"         -> Row("frame", 2, "KeenRunningThink", "KeenColFunc", "KeenRunDrawFunc", {"keenRun1"})
          [] act = "keenShoot1"       -> Row("once", 2, "KeenSpawnShot", "KeenColFunc", "KeenDrawFunc", {"keenShoot2"})
          [] act = "keenShoot2"       -> Row("once", 2, "NULL", "KeenColFunc", "KeenDrawFunc", {"keenStanding"})
          [] act = "keenShootUp1"     -> Row("once", 2, "KeenSpawnShot", "KeenColFunc", "KeenDrawFunc", {"keenShootUp2"})
          [] act = "keenShootUp2"     -> Row("once", 2, "NULL", "KeenColFunc", "KeenDrawFunc", {"keenLookUp1"})
          [] act = "keenStunned0"     -> Row("once", 2, "Fall", "KeenColFunc", "KeenDrawFunc", {"keenStanding"})]

\* At switches, gem holders and doors; nothing that Keen touches counts.
BusyActs == {"keenPressSwitch1", "keenPressSwitch2", "keenPlaceGem", "keenSlide",
             "keenEnterSecurityDoor", "keenEnterDoor0", "keenEnterDoor1", "keenEnterDoor2",
             "keenEnterDoor3", "keenEnterDoor4", "keenEnteredDoor", "keenDie0", "keenNot"}
BusyRows ==
    [act \in BusyActs |->
        CASE act = "keenPressSwitch1"      -> Row("once", 2, "KeenPressSwitchThink", "NULL", "KeenDrawFunc", {"keenPressSwitch2"})
          [] act = "keenPressSwitch2"      -> Row("once", 2, "NULL", "NULL", "KeenDrawFunc", {"keenStanding"})
          [] act = "keenPlaceGem"          -> Row("once", 2, "KeenPlaceGem", "NULL", "KeenDrawFunc", {"keenPressSwitch2"})
          [] act = "keenSlide"             -> Row("each", 0, "KeenSlide", "NULL", "BasicDrawFunc1", {})
          [] act = "keenEnterSecurityDoor" -> Row("once", 2, "NULL", "NULL", "BasicDrawFunc1", {"keenEnterDoor0"})
          [] act = "keenEnterDoor0"        -> Row("once", 1, "KeenEnterDoor0", "NULL", "BasicDrawFunc1", {"keenEnterDoor1"})
          [] act = "keenEnterDoor1"        -> Row("once", 1, "KeenEnterDoor1", "NULL", "BasicDrawFunc1", {"keenEnterDoor2"})
          [] act = "keenEnterDoor2"        -> Row("once", 1, "KeenEnterDoor0", "NULL", "BasicDrawFunc1", {"keenEnterDoor3"})
          [] act = "keenEnterDoor3"        -> Row("once", 1, "KeenEnterDoor1", "NULL", "BasicDrawFunc1", {"keenEnterDoor4"})
          [] act = "keenEnterDoor4"        -> Row("once", 1, "KeenEnterDoor", "NULL", "BasicDrawFunc1", {"keenStanding"})
          [] act = "keenEnteredDoor"       -> Row("once", 2, "KeenEnterDoor", "NULL", "BasicDrawFunc1", {"keenStanding"})
          [] act = "keenDie0"              -> Row("each", 2, "KeenDeathThink", "NULL", "BasicDrawFunc1", {"keenDie0"})
          [] act = "keenNot"               -> Row("each", 2, "NULL", "NULL", "BasicDrawFunc1", {})]

\* In the air.
AirActs == {"keenJump1", "keenJump2", "keenFall1", "keenFall2", "keenPogo1", "keenPogo2",
            "keenPogo3", "keenJumpShoot1", "keenJumpShoot2", "keenJumpShoot3",
            "keenJumpShootUp1", "keenJumpShootUp2", "keenJumpShootDown1",
            "keenJumpShootDown2"}
AirRows ==
    [act \in AirActs |->
        CASE act = "keenJump1"          -> Row("each", 0, "KeenJumpThink", "KeenColFunc", "KeenJumpDrawFunc", {"keenJump2"})
          [] act = "keenJump2"          -> Row("each", 0, "KeenJumpThink", "KeenColFunc", "KeenJumpDrawFunc", {"keenFall1"})
          [] act = "keenFall1"          -> Row("frame", 2, "KeenJumpThink", "KeenColFunc", "KeenJumpDrawFunc", {"keenFall2"})
          [] act = "keenFall2"          -> Row("frame", 2, "KeenJumpThink", "KeenColFunc", "KeenJumpDrawFunc", {"keenFall1"})
          [] act = "keenPogo1"          -> Row("once", 1, "KeenPogoBounceThink", "KeenColFunc", "KeenPogoDrawFunc", {"keenPogo2"})
          [] act = "keenPogo2"          -> Row("each", 0, "KeenPogoThink", "KeenColFunc", "KeenPogoDrawFunc", {"keenPogo3"})
          [] act = "keenPogo3"          -> Row("each", 0, "KeenPogoThink", "KeenColFunc", "KeenPogoDrawFunc", {})
          [] act = "keenJumpShoot1"     -> Row("frame", 2, "Fall", "KeenColFunc", "KeenJumpDrawFunc", {"keenJumpShoot2"})
          [] act = "keenJumpShoot2"     -> Row("frame", 1, "KeenSpawnShot", "KeenColFunc", "KeenJumpDrawFunc", {"keenJumpShoot3"})
          [] act = "keenJumpShoot3"     -> Row("frame", 2, "Fall", "KeenColFunc", "KeenJumpDrawFunc", {"keenFall1"})
          [] act = "keenJumpShootUp1"   -> Row("frame", 2, "Fall", "KeenColFunc", "KeenJumpDrawFunc", {"keenJumpShootUp2"})
          [] act = "keenJumpShootUp2"   -> Row("frame", 1, "KeenSpawnShot", "KeenColFunc", "KeenJumpDrawFunc", {"keenJumpShoot3"})
          [] act = "keenJumpShootDown1" -> Row("frame", 2, "Fall", "KeenColFunc", "KeenJumpDrawFunc", {"keenJumpShootDown2"})
          [] act = "keenJumpShootDown2" -> Row("frame", 1, "KeenSpawnShot", "KeenColFunc", "KeenJumpDrawFunc", {"keenJumpShoot3"})]

\* On poles and ledges.
HangActs == {"keenPoleSit", "keenPoleUp1", "keenPoleDown1", "keenPoleShoot1",
             "keenPoleShoot2", "keenHang1", "keenHang2", "keenPull1", "keenPull4",
             "keenPull5"}
HangRows ==
    [act \in HangActs |->
        CASE act = "keenPoleSit"    -> Row("each", 0, "KeenPoleSitThink", "KeenSpecialColFunc", "KeenSpecialDrawFunc", {})
          [] act = "keenPoleUp1"    -> Row("frame", 2, "KeenPoleUpThink", "KeenSpecialColFunc", "KeenSpecialDrawFunc", {"keenPoleUp1"})
          [] act = "keenPoleDown1"  -> Row("once", 2, "KeenPoleDownThink", "KeenSpecialColFunc", "KeenPoleDownDrawFunc", {"keenPoleDown1"})
          [] act = "keenPoleShoot1" -> Row("once", 2, "KeenSpawnShot", "KeenSpecialColFunc", "KeenSpecialDrawFunc", {"keenPoleShoot2"})
          [] act = "keenPoleShoot2" -> Row("once", 2, "NULL", "KeenSpecialColFunc", "KeenSpecialDrawFunc", {"keenPoleSit"})
          [] act = "keenHang1"      -> Row("once", 2, "NULL", "KeenSpecialColFunc", "KeenSpecialDrawFunc", {"keenHang2"})
          [] act = "keenHang2"      -> Row("each", 0, "KeenHangThink", "KeenSpecialColFunc", "KeenSpecialDrawFunc", {})
          [] act = "keenPull1"      -> Row("once", 2, "NULL", "KeenSpecialColFunc", "KeenSpecialDrawFunc", {"keenPull4"})
          [] act = "keenPull4"      -> Row("once", 2, "KeenPullThink4", "KeenSpecialColFunc", "KeenSpecialDrawFunc", {"keenPull5"})
          [] act = "keenPull5"      -> Row("once", 2, "NULL", "KeenSpecialColFunc", "KeenSpecialDrawFunc", {"keenStanding"})]

\* Under water, in Keen 4.
SwimActs == {"KeenSwim0", "KeenSwim1", "KeenSwimFast0", "KeenSwimFast1", "KeenSwimDie0"}
SwimRows ==
    [act \in SwimActs |->
        CASE act = "KeenSwim0"     -> Row("frame", 2, "KeenSwim", "KeenSwimCol", "KeenSwimDraw", {"KeenSwim1"})
          [] act = "KeenSwim1"     -> Row("frame", 2, "KeenSwim", "KeenSwimCol", "KeenSwimDraw", {"KeenSwim0"})
          [] act = "KeenSwimFast0" -> Row("frame", 2, "KeenSwimFast", "KeenSwimCol", "KeenSwimDraw", {"KeenSwim1"})
          [] act = "KeenSwimFast1" -> Row("frame", 2, "KeenSwimFast", "KeenSwimCol", "KeenSwimDraw", {"KeenSwim0"})
          [] act = "KeenSwimDie0"  -> Row("each", 2, "KeenDeathThink", "NULL", "BasicDrawFunc1", {"KeenSwimDie0"})]

Acts == GroundActs \cup BusyActs \cup AirActs \cup HangActs \cup SwimActs
Rows ==
    [act \in Acts |-> IF act \in GroundActs THEN GroundRows[act]
                     ELSE IF act \in BusyActs THEN BusyRows[act]
                     ELSE IF act \in AirActs THEN AirRows[act]
                     ELSE IF act \in HangActs THEN HangRows[act]
                     ELSE SwimRows[act]]

\* The shots from a jump are not among them.
ProtectAnimationNoShots == {"keenPogo1", "keenPogo2", "keenPogo3", "keenRun1"}

\* Rows whose timer of one tic must not be cut by the rest of a frame (protectAnimation).
ProtectAnimation == {"keenPogo1", "keenPogo2", "keenPogo3", "keenRun1",
                     "keenJumpShoot2", "keenJumpShootUp2", "keenJumpShootDown2"}

DoorActs == {"keenEnterDoor0", "keenEnterDoor1", "keenEnterDoor2", "keenEnterDoor3", "keenEnterDoor4"}
PoleActs == {"keenPoleSit", "keenPoleUp1", "keenPoleDown1", "keenPoleShoot1", "keenPoleShoot2"}
LedgeActs == {"keenHang1", "keenHang2", "keenPull1", "keenPull4", "keenPull5"}
DieActs == {"keenDie0", "KeenSwimDie0"}
PogoActs == {"keenPogo1", "keenPogo2", "keenPogo3"}
====
