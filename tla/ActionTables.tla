---- MODULE ActionTables ----
(***************************************************************************)
(* The action tables (src/data/keen4/ACTION.CK4, keen5/ACTION.CK5,         *)
(* keen6e14/ACTION.CK6): what the creatures of an episode do.  A row has   *)
(* the type of the action, the functions it names and what may follow it.  *)
(* A "frame" action thinks every frame and has no timer, a "once" action   *)
(* thinks when its timer runs out, a "both" action does both and a "never" *)
(* action, whose timer is 0, only moves.  Frames of an animation that      *)
(* share their functions are one action, named after the first; `next` is  *)
(* then any of what follows the frames.                                    *)
(***************************************************************************)
EXTENDS Integers, TLC

Row(type, think, collide, draw, next) ==
    [type |-> type, think |-> think, collide |-> collide, draw |-> draw, next |-> next]

\* Keen, as far as the creatures look at him, and his shots.
KeenActs == {"keenStanding", "keenJump1", "keenPogo2"}

CommonActs == {"NULL", "keenStanding", "keenJump1", "keenPogo2", "keenDie0", "keenShot1",
               "keenShotHit1", "keenStunned0", "itemNotify", "DoorOpen1", "SecurityDoorOpen",
               "fallingitem", "item"}
CommonRows == [act \in CommonActs |->
    CASE act = "NULL"             -> Row("frame", "NULL", "NULL", "NULL", {"NULL"})
      [] act = "keenStanding"     -> Row("never", "NULL", "NULL", "NULL", {"keenStanding"})
      [] act = "keenJump1"        -> Row("never", "NULL", "NULL", "NULL", {"keenStanding"})
      [] act = "keenPogo2"        -> Row("never", "NULL", "NULL", "NULL", {"keenStanding"})
      [] act = "keenDie0"         -> Row("frame", "CK_KeenDeathThink", "NULL", "CK_BasicDrawFunc1", {"keenDie0"})
      [] act = "keenShot1"        -> Row("once", "CK_ShotThink", "NULL", "CK_ShotDrawFunc", {"keenShot1"})
      [] act = "keenShotHit1"     -> Row("once", "NULL", "NULL", "CK_BasicDrawFunc1", {"keenShotHit1", "NULL"})
      [] act = "keenStunned0"     -> Row("once", "CK_Fall", "NULL", "NULL", {"keenStanding"})
      [] act = "itemNotify"       -> Row("once", "NULL", "NULL", "CK_BasicDrawFunc1", {"NULL"})
      [] act = "DoorOpen1"        -> Row("once", "CK_DoorOpen", "NULL", "NULL", {"DoorOpen1", "NULL"})
      [] act = "SecurityDoorOpen" -> Row("once", "CK_SecurityDoorOpen", "NULL", "NULL", {"SecurityDoorOpen"})
      [] act = "fallingitem"      -> Row("both", "CK_FallingItem", "NULL", "CK_BasicDrawFunc1", {"fallingitem"})
      [] act = "item"             -> Row("once", "CK_PointItem", "NULL", "CK_BasicDrawFunc1", {"item"})]

\* Keen 4.
SlugActs == {"CouncilWalk0", "CouncilPause", "SlugMove0", "SlugMove1", "SlugSliming0", "SlugStunned0",
             "SlugStunned1", "SlugSlime0", "SlugSlimeEvap0", "Mushroom0"}
SlugRows == [act \in SlugActs |->
    CASE act = "CouncilWalk0"   -> Row("once", "CK4_CouncilWalk", "NULL", "CK_BasicDrawFunc2", {"CouncilWalk0"})
      [] act = "CouncilPause"   -> Row("once", "NULL", "NULL", "CK_BasicDrawFunc1", {"CouncilWalk0"})
      [] act = "SlugMove0"      -> Row("once", "NULL", "CK4_SlugCol", "CK_BasicDrawFunc3", {"SlugMove1"})
      [] act = "SlugMove1"      -> Row("once", "CK4_SlugMove", "CK4_SlugCol", "CK_BasicDrawFunc3", {"SlugMove0"})
      [] act = "SlugSliming0"   -> Row("once", "CK4_SlugSlime", "CK4_SlugCol", "CK_BasicDrawFunc3", {"SlugMove0"})
      [] act = "SlugStunned0"   -> Row("frame", "CK_Fall", "NULL", "CK_BasicDrawFunc4", {"NULL"})
      [] act = "SlugStunned1"   -> Row("frame", "CK_Fall", "NULL", "CK_BasicDrawFunc4", {"NULL"})
      [] act = "SlugSlime0"     -> Row("once", "NULL", "CK_LethalCol", "CK_BasicDrawFunc1", {"SlugSlimeEvap0"})
      [] act = "SlugSlimeEvap0" -> Row("once", "NULL", "NULL", "CK_BasicDrawFunc1", {"NULL"})
      [] act = "Mushroom0"      -> Row("both", "CK4_MushroomMove", "CK4_MushroomCol", "CK4_MushroomDraw", {"Mushroom0"})]

BirdActs == {"Egg0", "Eggshell0", "EggshellBitA0", "EggshellBitB0", "EggshellBitC0", "BirdHatched0",
             "BirdWalk0", "BirdWalk3", "BirdFly0", "BirdLand0", "BirdStunned0", "BirdRecover0",
             "BirdRecover3"}
BirdRows == [act \in BirdActs |->
    CASE act = "Egg0"          -> Row("frame", "NULL", "CK4_EggCol", "CK_BasicDrawFunc1", {"NULL"})
      [] act = "Eggshell0"     -> Row("once", "NULL", "NULL", "CK_BasicDrawFunc1", {"NULL"})
      [] act = "EggshellBitA0" -> Row("frame", "CK_Fall", "NULL", "CK4_EggshellDraw", {"NULL"})
      [] act = "EggshellBitB0" -> Row("frame", "CK_Fall", "NULL", "CK4_EggshellDraw", {"NULL"})
      [] act = "EggshellBitC0" -> Row("frame", "CK_Fall", "NULL", "CK4_EggshellDraw", {"NULL"})
      [] act = "BirdHatched0"  -> Row("once", "NULL", "CK4_BirdHatchedCol", "CK4_BirdDraw", {"BirdWalk0"})
      [] act = "BirdWalk0"     -> Row("once", "NULL", "CK4_BirdCol", "CK4_BirdDraw", {"BirdWalk0", "BirdWalk3"})
      [] act = "BirdWalk3"     -> Row("once", "CK4_BirdWalk", "CK4_BirdCol", "CK4_BirdDraw", {"BirdWalk0"})
      [] act = "BirdFly0"      -> Row("both", "CK4_BirdFly", "CK4_BirdCol", "CK4_BirdFlyingDraw", {"BirdFly0"})
      [] act = "BirdLand0"     -> Row("frame", "CK_Fall2", "CK4_BirdCol", "CK4_BirdLandingDraw", {"NULL"})
      [] act = "BirdStunned0"  -> Row("both", "CK_Fall", "CK4_BirdHatchedCol", "CK_BasicDrawFunc1", {"BirdRecover0"})
      [] act = "BirdRecover0"  -> Row("once", "NULL", "CK4_BirdHatchedCol", "CK_BasicDrawFunc1", {"BirdRecover0", "BirdRecover3"})
      [] act = "BirdRecover3"  -> Row("once", "CK4_BirdRecover", "CK4_BirdHatchedCol", "CK_BasicDrawFunc1", {"BirdWalk0"})]

ArachnutActs == {"ArachnutWalk0", "ArachnutWalk3", "ArachnutStunned0", "ArachnutRecover0",
                 "SkypestFly0", "SkypestSquish0", "SkypestPreen0", "SkypestPreen16", "WormmouthMove0",
                 "WormmouthPeep0", "WormmouthPeep2", "WormmouthPeep3", "WormmouthPeep6",
                 "WormmouthPeep7", "WormmouthBite0", "WormmouthStunned0"}
ArachnutRows == [act \in ArachnutActs |->
    CASE act = "ArachnutWalk0"     -> Row("once", "NULL", "CK4_ArachnutCol", "CK_BasicDrawFunc2", {"ArachnutWalk0", "ArachnutWalk3"})
      [] act = "ArachnutWalk3"     -> Row("once", "CK4_ArachnutSearch", "CK4_ArachnutCol", "CK_BasicDrawFunc2", {"ArachnutWalk0"})
      [] act = "ArachnutStunned0"  -> Row("once", "NULL", "CK4_ArachnutStunnedCol", "CK_BasicDrawFunc1", {"ArachnutRecover0"})
      [] act = "ArachnutRecover0"  -> Row("once", "NULL", "CK4_ArachnutStunnedCol", "CK_BasicDrawFunc1", {"ArachnutRecover0", "ArachnutWalk0"})
      [] act = "SkypestFly0"       -> Row("both", "CK4_SkypestFly", "CK4_SkypestAirCol", "CK4_SkypestDraw", {"SkypestFly0"})
      [] act = "SkypestSquish0"    -> Row("frame", "NULL", "NULL", "CK_BasicDrawFunc1", {"SkypestSquish0"})
      [] act = "SkypestPreen0"     -> Row("once", "NULL", "CK4_SkypestGroundCol", "CK_BasicDrawFunc1", {"SkypestPreen0", "SkypestPreen16"})
      [] act = "SkypestPreen16"    -> Row("once", "CK4_SkypestTakeoff", "CK4_SkypestGroundCol", "CK_BasicDrawFunc1", {"SkypestFly0"})
      [] act = "WormmouthMove0"    -> Row("once", "CK4_WormmouthMove", "NULL", "CK_BasicDrawFunc2", {"WormmouthMove0"})
      [] act = "WormmouthPeep0"    -> Row("once", "NULL", "CK4_WormmouthCheckShot", "CK_BasicDrawFunc1", {"WormmouthPeep0", "WormmouthPeep2"})
      [] act = "WormmouthPeep2"    -> Row("once", "CK4_WormmouthLookLeft", "CK4_WormmouthCheckShot", "CK_BasicDrawFunc1", {"WormmouthPeep3"})
      [] act = "WormmouthPeep3"    -> Row("once", "NULL", "CK4_WormmouthCheckShot", "CK_BasicDrawFunc1", {"WormmouthPeep3", "WormmouthPeep6"})
      [] act = "WormmouthPeep6"    -> Row("once", "CK4_WormmouthLookRight", "CK4_WormmouthCheckShot", "CK_BasicDrawFunc1", {"WormmouthPeep7"})
      [] act = "WormmouthPeep7"    -> Row("once", "CK4_WormmouthGoToPlayer", "NULL", "CK_BasicDrawFunc1", {"WormmouthMove0"})
      [] act = "WormmouthBite0"    -> Row("once", "NULL", "CK4_WormmouthCol", "CK_BasicDrawFunc1", {"WormmouthBite0", "WormmouthMove0"})
      [] act = "WormmouthStunned0" -> Row("frame", "CK_Fall", "NULL", "CK_BasicDrawFunc4", {"NULL"})]

CloudActs == {"CloudDormant0", "CloudAwaken0", "CloudMove0", "CloudCheckStrike0", "CloudMoveB0",
              "CloudStrike0", "CloudStrike3", "CloudStrike4", "Lightning0", "BerkeloidMove0",
              "BerkeloidThrow0", "BerkeloidThrow5", "BerkeloidThrow6", "BerkeloidThrow11",
              "FireballAir0", "FireballGround0"}
CloudRows == [act \in CloudActs |->
    CASE act = "CloudDormant0"     -> Row("frame", "NULL", "CK4_CloudCol", "CK_BasicDrawFunc1", {"NULL"})
      [] act = "CloudAwaken0"      -> Row("once", "NULL", "NULL", "CK4_CloudDraw", {"CloudMove0"})
      [] act = "CloudMove0"        -> Row("frame", "CK4_CloudMove", "NULL", "CK4_CloudDraw", {"NULL"})
      [] act = "CloudCheckStrike0" -> Row("frame", "CK4_CloudCheckStrike", "NULL", "CK4_CloudDraw", {"NULL"})
      [] act = "CloudMoveB0"       -> Row("both", "CK_Glide", "NULL", "CK4_CloudDraw", {"CloudMove0"})
      [] act = "CloudStrike0"      -> Row("once", "NULL", "NULL", "CK_BasicDrawFunc1", {"CloudStrike0", "CloudStrike3"})
      [] act = "CloudStrike3"      -> Row("once", "CK4_CloudStrike", "NULL", "CK_BasicDrawFunc1", {"CloudStrike4"})
      [] act = "CloudStrike4"      -> Row("once", "NULL", "NULL", "CK_BasicDrawFunc1", {"CloudStrike4", "CloudMoveB0"})
      [] act = "Lightning0"        -> Row("once", "NULL", "CK_LethalCol", "CK_BasicDrawFunc1", {"Lightning0", "NULL"})
      [] act = "BerkeloidMove0"    -> Row("once", "CK4_BerkeloidMove", "CK4_BerkeloidCol", "CK4_BerkeloidDraw", {"BerkeloidMove0"})
      [] act = "BerkeloidThrow0"   -> Row("once", "CK_SetDraw", "CK4_BerkeloidCol", "CK4_BerkeloidHover", {"BerkeloidThrow0", "BerkeloidThrow5"})
      [] act = "BerkeloidThrow5"   -> Row("once", "CK4_BerkeloidThrow", "CK4_BerkeloidCol", "CK4_BerkeloidHover", {"BerkeloidThrow6"})
      [] act = "BerkeloidThrow6"   -> Row("once", "CK_SetDraw", "CK4_BerkeloidCol", "CK4_BerkeloidHover", {"BerkeloidThrow6", "BerkeloidThrow11"})
      [] act = "BerkeloidThrow11"  -> Row("once", "CK4_BerkeloidThrowDone", "CK4_BerkeloidCol", "CK4_BerkeloidHover", {"BerkeloidMove0"})
      [] act = "FireballAir0"      -> Row("both", "CK_Fall2", "CK_LethalCol", "CK4_FireballDraw", {"FireballAir0"})
      [] act = "FireballGround0"   -> Row("once", "NULL", "CK4_BerkeloidCol", "CK_BasicDrawFunc1", {"FireballGround0", "NULL"})]

FootActs == {"FootPoof0", "Inchworm0", "Foot0", "Foot1", "Bounder0", "BounderMoveHorz0",
             "BounderStunned0", "LickHop0", "LickHop1", "LickHop3", "LickFlame0", "LickStunned0",
             "AxisPlatform", "FallPlat0", "FallPlat1", "FallPlat2"}
FootRows == [act \in FootActs |->
    CASE act = "FootPoof0"        -> Row("once", "NULL", "NULL", "CK_BasicDrawFunc1", {"FootPoof0", "NULL"})
      [] act = "Inchworm0"        -> Row("once", "CK4_InchwormMove", "CK4_InchwormCol", "CK_BasicDrawFunc2", {"Inchworm0"})
      [] act = "Foot0"            -> Row("once", "NULL", "NULL", "CK_BasicDrawFunc1", {"Foot1"})
      [] act = "Foot1"            -> Row("frame", "NULL", "CK4_FootCol", "CK_BasicDrawFunc1", {"NULL"})
      [] act = "Bounder0"         -> Row("both", "CK_Fall", "CK4_BounderCheckShot", "CK4_BounderDraw", {"Bounder0"})
      [] act = "BounderMoveHorz0" -> Row("both", "CK_Fall", "CK4_BounderCheckShot", "CK4_BounderDraw", {"BounderMoveHorz0"})
      [] act = "BounderStunned0"  -> Row("frame", "CK_Fall", "NULL", "CK_BasicDrawFunc4", {"BounderStunned0", "NULL"})
      [] act = "LickHop0"         -> Row("once", "CK4_LickMove", "CK4_LickCheckShot", "CK_BasicDrawFunc1", {"LickHop1"})
      [] act = "LickHop1"         -> Row("frame", "CK_Fall", "CK4_LickCheckShot", "CK4_LickDraw", {"LickHop1", "NULL"})
      [] act = "LickHop3"         -> Row("once", "NULL", "CK4_LickCheckShot", "CK_BasicDrawFunc1", {"LickHop0"})
      [] act = "LickFlame0"       -> Row("once", "NULL", "CK4_LickCol", "CK_BasicDrawFunc1", {"LickFlame0", "LickHop1"})
      [] act = "LickStunned0"     -> Row("frame", "CK_Fall", "NULL", "CK_BasicDrawFunc4", {"LickStunned0", "NULL"})
      [] act = "AxisPlatform"     -> Row("frame", "CK_AxisPlatform", "NULL", "CK4_PlatformDraw", {"NULL"})
      [] act = "FallPlat0"        -> Row("frame", "CK_FallPlatSit", "NULL", "CK_BasicDrawFunc1", {"NULL"})
      [] act = "FallPlat1"        -> Row("frame", "CK_FallPlatFall", "NULL", "CK_BasicDrawFunc1", {"NULL"})
      [] act = "FallPlat2"        -> Row("frame", "CK_FallPlatRise", "NULL", "CK_BasicDrawFunc1", {"NULL"})]

SmirkyActs == {"Smirky0", "Smirky1", "SmirkyTele0", "SmirkyTele3", "SmirkyTele4", "SmirkyJump0",
               "SmirkyStunned0", "StolenItem0", "Mimrock0", "MimrockWalk0", "MimrockJump0",
               "MimrockJump2", "MimrockBounce0", "MimrockStunned0"}
SmirkyRows == [act \in SmirkyActs |->
    CASE act = "Smirky0"         -> Row("once", "NULL", "CK4_SmirkyCol", "CK_BasicDrawFunc1", {"Smirky1"})
      [] act = "Smirky1"         -> Row("once", "CK4_SmirkySearch", "CK4_SmirkyCol", "CK_BasicDrawFunc1", {"NULL"})
      [] act = "SmirkyTele0"     -> Row("once", "NULL", "CK4_SmirkyCol", "CK_BasicDrawFunc1", {"SmirkyTele0", "SmirkyTele3"})
      [] act = "SmirkyTele3"     -> Row("once", "CK4_SmirkyTeleport", "CK4_SmirkyCol", "CK_BasicDrawFunc1", {"SmirkyTele4"})
      [] act = "SmirkyTele4"     -> Row("once", "NULL", "CK4_SmirkyCol", "CK_BasicDrawFunc1", {"SmirkyTele4", "SmirkyJump0"})
      [] act = "SmirkyJump0"     -> Row("both", "CK_Fall2", "CK4_SmirkyCol", "CK4_SmirkyDraw", {"SmirkyJump0"})
      [] act = "SmirkyStunned0"  -> Row("frame", "CK_Fall", "NULL", "CK_BasicDrawFunc4", {"SmirkyStunned0", "NULL"})
      [] act = "StolenItem0"     -> Row("once", "NULL", "NULL", "CK_BasicDrawFunc1", {"StolenItem0", "NULL"})
      [] act = "Mimrock0"        -> Row("once", "CK4_MimrockWait", "NULL", "CK_BasicDrawFunc2", {"Mimrock0"})
      [] act = "MimrockWalk0"    -> Row("once", "CK4_MimrockCheckJump", "CK4_MimrockCol", "CK_BasicDrawFunc2", {"MimrockWalk0", "Mimrock0"})
      [] act = "MimrockJump0"    -> Row("both", "CK_Fall2", "CK4_MimrockAirCol", "CK4_MimrockJumpDraw", {"MimrockJump0", "MimrockJump2"})
      [] act = "MimrockJump2"    -> Row("frame", "CK_Fall2", "CK4_MimrockAirCol", "CK4_MimrockJumpDraw", {"MimrockJump0"})
      [] act = "MimrockBounce0"  -> Row("frame", "CK_Fall", "CK4_MimrockCol", "CK4_MimrockBounceDraw", {"NULL"})
      [] act = "MimrockStunned0" -> Row("frame", "CK_Fall", "NULL", "CK_BasicDrawFunc4", {"MimrockStunned0", "NULL"})]

FishActs == {"DopefishSwim0", "DopefishEat0", "DopefishBurp0", "DopefishBurp1", "DopefishBurp2",
             "DopefishBurp3", "SchoolfishEaten0", "KeenEaten0", "KeenEaten1", "DopeBubble0",
             "SchoolfishSwim0"}
FishRows == [act \in FishActs |->
    CASE act = "DopefishSwim0"    -> Row("both", "CK4_DopefishMove", "CK4_DopefishCol", "CK4_FishDraw", {"DopefishSwim0"})
      [] act = "DopefishEat0"     -> Row("frame", "CK4_DopefishEat", "NULL", "CK_BasicDrawFunc1", {"NULL"})
      [] act = "DopefishBurp0"    -> Row("once", "NULL", "NULL", "CK_BasicDrawFunc1", {"DopefishBurp1"})
      [] act = "DopefishBurp1"    -> Row("once", "CK4_DopefishBurp", "NULL", "CK_BasicDrawFunc1", {"DopefishBurp2"})
      [] act = "DopefishBurp2"    -> Row("once", "NULL", "NULL", "CK_BasicDrawFunc1", {"DopefishBurp3"})
      [] act = "DopefishBurp3"    -> Row("frame", "CK4_DopefishAfterBurp", "NULL", "CK_BasicDrawFunc1", {"DopefishSwim0"})
      [] act = "SchoolfishEaten0" -> Row("frame", "NULL", "NULL", "CK_BasicDrawFunc1", {"NULL"})
      [] act = "KeenEaten0"       -> Row("frame", "NULL", "NULL", "CK_BasicDrawFunc1", {"KeenEaten1"})
      [] act = "KeenEaten1"       -> Row("once", "CK4_KillKeenUnderwater", "NULL", "CK_BasicDrawFunc1", {"KeenEaten1"})
      [] act = "DopeBubble0"      -> Row("frame", "CK4_Bubbles", "NULL", "CK_BasicDrawFunc1", {"DopeBubble0"})
      [] act = "SchoolfishSwim0"  -> Row("both", "CK4_SchoolfishMove", "NULL", "CK4_FishDraw", {"SchoolfishSwim0"})]

SpriteActs == {"Sprite0", "SpriteAiming0", "SpriteShooting0", "SpriteShooting1", "SpriteBullet0",
               "Mine0", "MineExplode0", "Lindsey0", "DartGun0", "DartHorz0", "DartUp0", "DartDown0",
               "Wetsuit0"}
SpriteRows == [act \in SpriteActs |->
    CASE act = "Sprite0"         -> Row("frame", "CK4_SpritePatrol", "CK_LethalCol", "CK_BasicDrawFunc1", {"Sprite0"})
      [] act = "SpriteAiming0"   -> Row("once", "CK4_SpriteAim", "CK_LethalCol", "CK_BasicDrawFunc1", {"Sprite0"})
      [] act = "SpriteShooting0" -> Row("once", "CK4_SpriteShoot", "CK_LethalCol", "CK_BasicDrawFunc1", {"SpriteShooting1"})
      [] act = "SpriteShooting1" -> Row("once", "NULL", "CK_LethalCol", "CK_BasicDrawFunc1", {"Sprite0"})
      [] act = "SpriteBullet0"   -> Row("once", "NULL", "CK_LethalCol", "CK4_ProjectileDraw", {"SpriteBullet0"})
      [] act = "Mine0"           -> Row("frame", "CK_AxisPlatform", "CK4_MineCol", "CK_BasicDrawFunc1", {"Mine0"})
      [] act = "MineExplode0"    -> Row("once", "NULL", "NULL", "CK_BasicDrawFunc1", {"MineExplode0", "NULL"})
      [] act = "Lindsey0"        -> Row("both", "CK4_LindseyFloat", "NULL", "CK_BasicDrawFunc1", {"Lindsey0"})
      [] act = "DartGun0"        -> Row("once", "CK4_DartGun", "NULL", "NULL", {"DartGun0"})
      [] act = "DartHorz0"       -> Row("once", "NULL", "CK_LethalCol", "CK4_ProjectileDraw", {"DartHorz0"})
      [] act = "DartUp0"         -> Row("once", "NULL", "CK_LethalCol", "CK4_ProjectileDraw", {"DartUp0"})
      [] act = "DartDown0"       -> Row("once", "NULL", "CK_LethalCol", "CK4_ProjectileDraw", {"DartDown0"})
      [] act = "Wetsuit0"        -> Row("once", "NULL", "CK4_WetsuitCol", "CK_BasicDrawFunc1", {"Wetsuit0"})]

Acts4 == SlugActs \cup BirdActs \cup ArachnutActs \cup CloudActs \cup FootActs \cup SmirkyActs \cup FishActs \cup SpriteActs
Actions4 ==
    [act \in Acts4 |-> IF act \in SlugActs THEN SlugRows[act]
                     ELSE IF act \in BirdActs THEN BirdRows[act]
                     ELSE IF act \in ArachnutActs THEN ArachnutRows[act]
                     ELSE IF act \in CloudActs THEN CloudRows[act]
                     ELSE IF act \in FootActs THEN FootRows[act]
                     ELSE IF act \in SmirkyActs THEN SmirkyRows[act]
                     ELSE IF act \in FishActs THEN FishRows[act]
                     ELSE SpriteRows[act]]

\* Keen 5.
Fixture5Acts == {"FuseExplosion0", "QED0", "LevelEnd", "AxisPlatform", "purpleAxisPlatform",
                 "FallPlat0", "FallPlat1", "FallPlat2", "StandPlatform", "GoPlat0", "purpleGoPlat",
                 "Volte0", "VolteStunned", "sneakPlatWait", "sneakPlatSneak", "sneakPlatReturn",
                 "turretWait", "turretShoot", "turretShot1", "turretShotHit1"}
Fixture5Rows == [act \in Fixture5Acts |->
    CASE act = "FuseExplosion0"     -> Row("once", "NULL", "NULL", "CK_BasicDrawFunc1", {"FuseExplosion0", "NULL"})
      [] act = "QED0"               -> Row("never", "NULL", "NULL", "NULL", {"QED0"})
      [] act = "LevelEnd"           -> Row("once", "CK5_LevelEnd", "NULL", "CK_BasicDrawFunc1", {"NULL"})
      [] act = "AxisPlatform"       -> Row("frame", "CK_AxisPlatform", "NULL", "CK_BasicDrawFunc1", {"NULL"})
      [] act = "purpleAxisPlatform" -> Row("frame", "CK5_PurpleAxisPlatform", "NULL", "CK_BasicDrawFunc1", {"purpleAxisPlatform"})
      [] act = "FallPlat0"          -> Row("frame", "CK_FallPlatSit", "NULL", "CK_BasicDrawFunc1", {"NULL"})
      [] act = "FallPlat1"          -> Row("frame", "CK_FallPlatFall", "NULL", "CK_BasicDrawFunc1", {"NULL"})
      [] act = "FallPlat2"          -> Row("frame", "CK_FallPlatRise", "NULL", "CK_BasicDrawFunc1", {"NULL"})
      [] act = "StandPlatform"      -> Row("once", "NULL", "NULL", "CK_BasicDrawFunc1", {"StandPlatform"})
      [] act = "GoPlat0"            -> Row("frame", "CK_GoPlatThink", "NULL", "CK_BasicDrawFunc1", {"NULL"})
      [] act = "purpleGoPlat"       -> Row("frame", "CK5_PurpleGoPlatThink", "NULL", "CK_BasicDrawFunc1", {"purpleGoPlat"})
      [] act = "Volte0"             -> Row("both", "CK5_VolteMove", "CK5_VolteCol", "CK_BasicDrawFunc1", {"Volte0"})
      [] act = "VolteStunned"       -> Row("once", "NULL", "NULL", "CK_BasicDrawFunc1", {"Volte0"})
      [] act = "sneakPlatWait"      -> Row("frame", "CK_SneakPlatThink", "NULL", "CK_BasicDrawFunc1", {"NULL"})
      [] act = "sneakPlatSneak"     -> Row("once", "NULL", "NULL", "CK_BasicDrawFunc1", {"sneakPlatReturn"})
      [] act = "sneakPlatReturn"    -> Row("once", "NULL", "NULL", "CK_BasicDrawFunc1", {"sneakPlatWait"})
      [] act = "turretWait"         -> Row("once", "NULL", "NULL", "CK_BasicDrawFunc1", {"turretShoot"})
      [] act = "turretShoot"        -> Row("once", "CK_TurretShoot", "NULL", "CK_BasicDrawFunc1", {"turretWait"})
      [] act = "turretShot1"        -> Row("both", "CK_Glide", "CK_TurretShotCol", "CK_TurretShotDraw", {"turretShot1"})
      [] act = "turretShotHit1"     -> Row("once", "NULL", "NULL", "CK_BasicDrawFunc1", {"turretShotHit1", "NULL"})]

SparkyActs == {"Sparky0", "Sparky1", "SparkySearch0", "SparkySearch3", "SparkySearch4",
               "SparkySearch7", "SparkyPrepCharge0", "SparkyPrepCharge3", "SparkyCharge0",
               "SparkyCharge1", "SparkyCharge2", "SparkyCharge3", "SparkyTurn0", "SparkyStunned0"}
SparkyRows == [act \in SparkyActs |->
    CASE act = "Sparky0"           -> Row("once", "CK5_SparkyWait", "CK5_SparkyCol", "CK5_SparkyTileCol", {"Sparky1"})
      [] act = "Sparky1"           -> Row("once", "NULL", "CK5_SparkyCol", "CK5_SparkyTileCol", {"Sparky1", "Sparky0"})
      [] act = "SparkySearch0"     -> Row("once", "NULL", "CK5_SparkyCol", "CK_BasicDrawFunc1", {"SparkySearch0", "SparkySearch3"})
      [] act = "SparkySearch3"     -> Row("once", "CK5_SparkySearchLeft", "CK5_SparkyCol", "CK5_SparkyTileCol", {"SparkySearch4"})
      [] act = "SparkySearch4"     -> Row("once", "NULL", "CK5_SparkyCol", "CK_BasicDrawFunc1", {"SparkySearch4", "SparkySearch7"})
      [] act = "SparkySearch7"     -> Row("once", "CK5_SparkySearchRight", "CK5_SparkyCol", "CK5_SparkyTileCol", {"Sparky1"})
      [] act = "SparkyPrepCharge0" -> Row("once", "NULL", "CK5_SparkyCol", "CK5_SparkyTileCol", {"SparkyPrepCharge0", "SparkyPrepCharge3"})
      [] act = "SparkyPrepCharge3" -> Row("once", "CK5_SparkyPrepareCharge", "CK5_SparkyCol", "CK5_SparkyTileCol", {"SparkyPrepCharge0"})
      [] act = "SparkyCharge0"     -> Row("once", "NULL", "CK5_SparkyCol", "CK5_SparkyTileCol", {"SparkyCharge1"})
      [] act = "SparkyCharge1"     -> Row("once", "CK5_SparkyCharge0", "CK5_SparkyCol", "CK5_SparkyTileCol", {"SparkyCharge2"})
      [] act = "SparkyCharge2"     -> Row("once", "NULL", "CK5_SparkyCol", "CK5_SparkyTileCol", {"SparkyCharge3"})
      [] act = "SparkyCharge3"     -> Row("once", "CK5_SparkyCharge1", "CK5_SparkyCol", "CK5_SparkyTileCol", {"SparkyCharge0"})
      [] act = "SparkyTurn0"       -> Row("once", "NULL", "CK5_SparkyCol", "CK_BasicDrawFunc1", {"SparkyTurn0", "Sparky0"})
      [] act = "SparkyStunned0"    -> Row("frame", "CK_Fall", "NULL", "CK_BasicDrawFunc4", {"NULL"})]

AmptonActs == {"Ampton0", "AmptonTurn0", "AmptonPole0", "AmptonPole2", "AmptonDismount0",
               "AmptonDismount1", "AmptonComp0", "AmptonComp4", "AmptonStunned0", "Slice0",
               "SliceDiag0", "SliceDie0"}
AmptonRows == [act \in AmptonActs |->
    CASE act = "Ampton0"         -> Row("once", "CK5_AmptonWalk", "CK5_AmptonCol", "CK5_AmptonTileCol", {"Ampton0"})
      [] act = "AmptonTurn0"     -> Row("once", "NULL", "CK5_AmptonCol", "CK_BasicDrawFunc1", {"Ampton0"})
      [] act = "AmptonPole0"     -> Row("once", "NULL", "CK5_AmptonCol", "CK_BasicDrawFunc1", {"AmptonPole0", "AmptonPole2"})
      [] act = "AmptonPole2"     -> Row("frame", "CK5_AmptonPoleClimb", "CK5_AmptonCol", "CK_BasicDrawFunc1", {"NULL"})
      [] act = "AmptonDismount0" -> Row("once", "NULL", "CK5_AmptonCol", "CK_BasicDrawFunc1", {"AmptonDismount1"})
      [] act = "AmptonDismount1" -> Row("once", "CK5_AmptonSwitch", "CK5_AmptonCol", "CK_BasicDrawFunc1", {"Ampton0"})
      [] act = "AmptonComp0"     -> Row("once", "NULL", "CK5_AmptonCol", "CK_BasicDrawFunc1", {"AmptonComp0", "AmptonComp4"})
      [] act = "AmptonComp4"     -> Row("once", "CK5_AmptonSwitch", "CK5_AmptonCol", "CK_BasicDrawFunc1", {"Ampton0"})
      [] act = "AmptonStunned0"  -> Row("frame", "CK_Fall", "NULL", "CK_BasicDrawFunc4", {"NULL"})
      [] act = "Slice0"          -> Row("frame", "CK_AxisPlatform", "CK5_SliceCol", "CK_BasicDrawFunc1", {"NULL"})
      [] act = "SliceDiag0"      -> Row("never", "NULL", "CK5_SliceCol", "CK5_SliceDiagTileCol", {"SliceDiag0"})
      [] act = "SliceDie0"       -> Row("once", "NULL", "NULL", "CK_BasicDrawFunc1", {"NULL"})]

ShellyActs == {"Shelly0", "ShellyWait0", "ShellyWait1", "ShellyDive0", "ShellyDive1", "ShellyDieAir",
               "ShellyDieGround", "ShellyExplode0", "ShellyBits0", "ShellyBits1", "Mine0", "Mine1",
               "Mine2", "MineExplode0", "MineExplode3", "MineExplode4", "MineShrap0"}
ShellyRows == [act \in ShellyActs |->
    CASE act = "Shelly0"         -> Row("once", "NULL", "CK5_ShellyCol", "CK5_ShellyGroundTileCol", {"Shelly0"})
      [] act = "ShellyWait0"     -> Row("both", "CK5_ShellyWait", "CK5_ShellyCol", "CK_BasicDrawFunc1", {"ShellyWait1"})
      [] act = "ShellyWait1"     -> Row("once", "CK5_ShellyStartJump", "CK5_ShellyCol", "CK_BasicDrawFunc1", {"Shelly0"})
      [] act = "ShellyDive0"     -> Row("both", "CK_Fall", "CK5_ShellyCol", "CK5_ShellyAirTileCol", {"ShellyDive1"})
      [] act = "ShellyDive1"     -> Row("frame", "CK_Fall", "CK5_ShellyCol", "CK5_ShellyAirTileCol", {"NULL"})
      [] act = "ShellyDieAir"    -> Row("once", "CK5_SpawnShellyBits", "NULL", "CK5_ShellyAirTileCol", {"NULL"})
      [] act = "ShellyDieGround" -> Row("once", "CK5_SpawnShellyBits", "NULL", "CK5_ShellyAirTileCol", {"NULL"})
      [] act = "ShellyExplode0"  -> Row("once", "NULL", "CK_DeadlyCol", "CK_BasicDrawFunc1", {"ShellyExplode0", "NULL"})
      [] act = "ShellyBits0"     -> Row("frame", "CK_Fall", "CK_DeadlyCol", "CK_ShrapnelTileCol", {"NULL"})
      [] act = "ShellyBits1"     -> Row("frame", "CK_Fall", "CK_DeadlyCol", "CK_ShrapnelTileCol", {"NULL"})
      [] act = "Mine0"           -> Row("frame", "CK5_MineMove", "CK5_MineCol", "CK5_MineTileCol", {"NULL"})
      [] act = "Mine1"           -> Row("frame", "CK5_MineMoveDotsToCenter", "CK5_MineCol", "CK5_MineTileCol", {"Mine2"})
      [] act = "Mine2"           -> Row("frame", "CK5_MineMoveDotsToSides", "CK5_MineCol", "CK5_MineTileCol", {"Mine0"})
      [] act = "MineExplode0"    -> Row("once", "NULL", "CK5_MineCol", "CK_BasicDrawFunc1", {"MineExplode0", "MineExplode3"})
      [] act = "MineExplode3"    -> Row("once", "CK5_MineExplode", "CK5_MineCol", "CK_BasicDrawFunc1", {"MineExplode4"})
      [] act = "MineExplode4"    -> Row("once", "NULL", "CK_DeadlyCol", "CK_BasicDrawFunc1", {"MineExplode4", "NULL"})
      [] act = "MineShrap0"      -> Row("frame", "CK_Fall", "CK5_MineShrapCol", "CK_ShrapnelTileCol", {"NULL"})]

RoboActs == {"Robo0", "RoboShoot0", "RoboShoot2", "RoboShot0", "RoboShotHit0", "SpirogripAttachDown",
             "SpirogripReleaseDown", "SpirogripAttachLeft", "SpirogripReleaseLeft",
             "SpirogripAttachRight", "SpirogripReleaseRight", "SpirogripAttachUp", "SpirogripReleaseUp"}
RoboRows == [act \in RoboActs |->
    CASE act = "Robo0"                 -> Row("once", "CK5_RoboMove", "CK5_RoboCol", "CK_BasicDrawFunc2", {"Robo0"})
      [] act = "RoboShoot0"            -> Row("once", "NULL", "CK_DeadlyCol", "CK_BasicDrawFunc1", {"RoboShoot0", "RoboShoot2"})
      [] act = "RoboShoot2"            -> Row("once", "CK5_RoboShoot", "CK_DeadlyCol", "CK_BasicDrawFunc1", {"RoboShoot0"})
      [] act = "RoboShot0"             -> Row("both", "CK_Glide", "CK5_RoboShotCol", "CK5_RoboShotTileCol", {"RoboShot0"})
      [] act = "RoboShotHit0"          -> Row("once", "NULL", "NULL", "CK_BasicDrawFunc1", {"RoboShotHit0", "NULL"})
      [] act = "SpirogripAttachDown"   -> Row("once", "NULL", "CK_DeadlyCol", "CK_BasicDrawFunc1", {"SpirogripReleaseDown"})
      [] act = "SpirogripReleaseDown"  -> Row("once", "NULL", "CK_DeadlyCol", "CK_BasicDrawFunc1", {"SpirogripSpin6"})
      [] act = "SpirogripAttachLeft"   -> Row("once", "NULL", "CK_DeadlyCol", "CK_BasicDrawFunc1", {"SpirogripReleaseLeft"})
      [] act = "SpirogripReleaseLeft"  -> Row("once", "NULL", "CK_DeadlyCol", "CK_BasicDrawFunc1", {"SpirogripSpin8"})
      [] act = "SpirogripAttachRight"  -> Row("once", "NULL", "CK_DeadlyCol", "CK_BasicDrawFunc1", {"SpirogripReleaseRight"})
      [] act = "SpirogripReleaseRight" -> Row("once", "NULL", "CK_DeadlyCol", "CK_BasicDrawFunc1", {"SpirogripSpin4"})
      [] act = "SpirogripAttachUp"     -> Row("once", "NULL", "CK_DeadlyCol", "CK_BasicDrawFunc1", {"SpirogripReleaseUp"})
      [] act = "SpirogripReleaseUp"    -> Row("once", "NULL", "CK_DeadlyCol", "CK_BasicDrawFunc1", {"SpirogripSpin2"})]

SpirogripActs == {"SpirogripSpin8", "SpirogripSpin1", "SpirogripSpin2", "SpirogripSpin3",
                  "SpirogripSpin4", "SpirogripSpin5", "SpirogripSpin6", "SpirogripSpin7",
                  "SpirogripFlyDown", "SpirogripFlyLeft", "SpirogripFlyRight", "SpirogripFlyUp"}
SpirogripRows == [act \in SpirogripActs |->
    CASE act = "SpirogripSpin8"    -> Row("once", "NULL", "CK_DeadlyCol", "CK_BasicDrawFunc1", {"SpirogripSpin1"})
      [] act = "SpirogripSpin1"    -> Row("once", "CK5_SpirogripSpin", "CK_DeadlyCol", "CK_BasicDrawFunc1", {"SpirogripSpin2"})
      [] act = "SpirogripSpin2"    -> Row("once", "NULL", "CK_DeadlyCol", "CK_BasicDrawFunc1", {"SpirogripSpin3"})
      [] act = "SpirogripSpin3"    -> Row("once", "CK5_SpirogripSpin", "CK_DeadlyCol", "CK_BasicDrawFunc1", {"SpirogripSpin4"})
      [] act = "SpirogripSpin4"    -> Row("once", "NULL", "CK_DeadlyCol", "CK_BasicDrawFunc1", {"SpirogripSpin5"})
      [] act = "SpirogripSpin5"    -> Row("once", "CK5_SpirogripSpin", "CK_DeadlyCol", "CK_BasicDrawFunc1", {"SpirogripSpin6"})
      [] act = "SpirogripSpin6"    -> Row("once", "NULL", "CK_DeadlyCol", "CK_BasicDrawFunc1", {"SpirogripSpin7"})
      [] act = "SpirogripSpin7"    -> Row("once", "CK5_SpirogripSpin", "CK_DeadlyCol", "CK_BasicDrawFunc1", {"SpirogripSpin8"})
      [] act = "SpirogripFlyDown"  -> Row("never", "NULL", "CK_DeadlyCol", "CK5_SpirogripFlyDraw", {"SpirogripAttachDown"})
      [] act = "SpirogripFlyLeft"  -> Row("never", "NULL", "CK_DeadlyCol", "CK5_SpirogripFlyDraw", {"SpirogripAttachLeft"})
      [] act = "SpirogripFlyRight" -> Row("never", "NULL", "CK_DeadlyCol", "CK5_SpirogripFlyDraw", {"SpirogripAttachRight"})
      [] act = "SpirogripFlyUp"    -> Row("never", "NULL", "CK_DeadlyCol", "CK5_SpirogripFlyDraw", {"SpirogripAttachUp"})]

MasterActs == {"Spindred0", "Master0", "Master3", "MasterShoot0", "MasterShoot1", "MasterTele0",
               "MasterTele1", "MasterTele2", "MasterTele3", "MasterBall0", "MasterSparks0"}
MasterRows == [act \in MasterActs |->
    CASE act = "Spindred0"     -> Row("both", "CK5_SpindredBounce", "CK_DeadlyCol", "CK5_SpindredTileCol", {"Spindred0"})
      [] act = "Master0"       -> Row("once", "NULL", "CK5_MasterCol", "CK_BasicDrawFunc1", {"Master0", "Master3"})
      [] act = "Master3"       -> Row("once", "CK5_MasterStand", "CK5_MasterCol", "CK_BasicDrawFunc1", {"Master0"})
      [] act = "MasterShoot0"  -> Row("once", "CK5_MasterShoot", "CK_DeadlyCol", "CK_BasicDrawFunc1", {"MasterShoot1"})
      [] act = "MasterShoot1"  -> Row("once", "NULL", "CK_DeadlyCol", "CK_BasicDrawFunc1", {"Master0"})
      [] act = "MasterTele0"   -> Row("once", "NULL", "CK_DeadlyCol", "CK_BasicDrawFunc1", {"MasterTele1"})
      [] act = "MasterTele1"   -> Row("once", "CK5_MasterTele", "CK_DeadlyCol", "CK_BasicDrawFunc1", {"MasterTele2"})
      [] act = "MasterTele2"   -> Row("frame", "CK_Fall", "NULL", "CK5_MasterTeleTileCol", {"MasterTele3"})
      [] act = "MasterTele3"   -> Row("once", "NULL", "CK_DeadlyCol", "CK_BasicDrawFunc1", {"Master0"})
      [] act = "MasterBall0"   -> Row("both", "CK_Fall2", "CK5_MasterBallCol", "CK5_MasterBallTileCol", {"MasterBall0"})
      [] act = "MasterSparks0" -> Row("both", "CK_Fall", "CK5_MasterBallCol", "CK5_MasterSparksTileCol", {"MasterSparks0"})]

ShikadiActs == {"ShikadiStand0", "ShikadiWalk0", "ShikadiPole0", "ShikadiPole1", "ShikadiStun0",
                "PoleZap0", "ShocksundStand0", "ShocksundStand1", "ShocksundShoot0", "ShocksundShoot1",
                "Shocksund0", "Shocksund3", "ShocksundJump0", "BarkShot0", "BarkShotDie0",
                "ShocksundStun0", "Sphereful0", "KorathWalk1", "KorathWait", "KorathStun0"}
ShikadiRows == [act \in ShikadiActs |->
    CASE act = "ShikadiStand0"   -> Row("once", "NULL", "CK5_ShikadiCol", "CK5_ShikadiTileCol", {"ShikadiStand0", "ShikadiWalk0"})
      [] act = "ShikadiWalk0"    -> Row("once", "CK5_ShikadiWalk", "CK5_ShikadiCol", "CK5_ShikadiTileCol", {"ShikadiWalk0"})
      [] act = "ShikadiPole0"    -> Row("once", "CK5_ShikadiPole", "CK5_ShikadiCol", "CK5_ShikadiTileCol", {"ShikadiPole1"})
      [] act = "ShikadiPole1"    -> Row("once", "NULL", "CK5_ShikadiCol", "CK5_ShikadiTileCol", {"ShikadiWalk0"})
      [] act = "ShikadiStun0"    -> Row("frame", "CK_Fall", "NULL", "CK_BasicDrawFunc4", {"NULL"})
      [] act = "PoleZap0"        -> Row("frame", "CK5_PoleZap", "CK_DeadlyCol", "CK_BasicDrawFunc1", {"PoleZap0"})
      [] act = "ShocksundStand0" -> Row("once", "NULL", "CK5_ShocksundCol", "CK5_ShocksundGroundTileCol", {"ShocksundStand1"})
      [] act = "ShocksundStand1" -> Row("once", "CK5_ShocksundStand", "CK5_ShocksundCol", "CK5_ShocksundGroundTileCol", {"ShocksundStand0"})
      [] act = "ShocksundShoot0" -> Row("once", "NULL", "CK5_ShocksundCol", "CK5_ShocksundGroundTileCol", {"ShocksundShoot1"})
      [] act = "ShocksundShoot1" -> Row("once", "CK5_ShocksundShoot", "CK5_ShocksundCol", "CK5_ShocksundGroundTileCol", {"Shocksund0"})
      [] act = "Shocksund0"      -> Row("once", "NULL", "CK5_ShocksundCol", "CK5_ShocksundGroundTileCol", {"Shocksund0", "Shocksund3"})
      [] act = "Shocksund3"      -> Row("once", "CK5_ShocksundSearch", "CK5_ShocksundCol", "CK5_ShocksundGroundTileCol", {"Shocksund0"})
      [] act = "ShocksundJump0"  -> Row("frame", "CK_Fall", "CK5_ShocksundCol", "CK5_ShocksundJumpTileCol", {"Shocksund0"})
      [] act = "BarkShot0"       -> Row("both", "CK_Glide", "CK5_BarkShotCol", "CK5_BarkShotTileCol", {"BarkShot0"})
      [] act = "BarkShotDie0"    -> Row("once", "NULL", "NULL", "CK_BasicDrawFunc1", {"BarkShotDie0", "NULL"})
      [] act = "ShocksundStun0"  -> Row("frame", "CK_Fall", "NULL", "CK_BasicDrawFunc4", {"NULL"})
      [] act = "Sphereful0"      -> Row("both", "CK5_SpherefulBounce", "CK_DeadlyCol", "CK5_SpherefulTileCol", {"Sphereful0"})
      [] act = "KorathWalk1"     -> Row("once", "CK5_KorathWalk", "CK5_KorathColFunc", "CK_BasicDrawFunc2", {"KorathWalk1"})
      [] act = "KorathWait"      -> Row("once", "NULL", "CK5_KorathColFunc", "CK_BasicDrawFunc2", {"KorathWalk1"})
      [] act = "KorathStun0"     -> Row("frame", "CK_Fall", "NULL", "CK_BasicDrawFunc4", {"NULL"})]

Acts5 == Fixture5Acts \cup SparkyActs \cup AmptonActs \cup ShellyActs \cup RoboActs \cup SpirogripActs \cup MasterActs \cup
          ShikadiActs
Actions5 ==
    [act \in Acts5 |-> IF act \in Fixture5Acts THEN Fixture5Rows[act]
                     ELSE IF act \in SparkyActs THEN SparkyRows[act]
                     ELSE IF act \in AmptonActs THEN AmptonRows[act]
                     ELSE IF act \in ShellyActs THEN ShellyRows[act]
                     ELSE IF act \in RoboActs THEN RoboRows[act]
                     ELSE IF act \in SpirogripActs THEN SpirogripRows[act]
                     ELSE IF act \in MasterActs THEN MasterRows[act]
                     ELSE ShikadiRows[act]]

\* Keen 6.
Fixture6Acts == {"Sandwich0", "Rope0", "Passcard0", "Molly0", "AxisPlatform", "FallPlat0", "FallPlat1",
                 "FallPlat2", "StandPlatform", "GoPlat0", "sneakPlatWait", "sneakPlatSneak",
                 "sneakPlatReturn"}
Fixture6Rows == [act \in Fixture6Acts |->
    CASE act = "Sandwich0"       -> Row("frame", "NULL", "CK6_StoryItemCol", "CK_BasicDrawFunc1", {"NULL"})
      [] act = "Rope0"           -> Row("frame", "NULL", "CK6_StoryItemCol", "CK_BasicDrawFunc1", {"NULL"})
      [] act = "Passcard0"       -> Row("frame", "NULL", "CK6_StoryItemCol", "CK_BasicDrawFunc1", {"NULL"})
      [] act = "Molly0"          -> Row("once", "NULL", "CK6_StoryItemCol", "CK_BasicDrawFunc1", {"Molly0"})
      [] act = "AxisPlatform"    -> Row("frame", "CK_AxisPlatform", "NULL", "CK_BasicDrawFunc1", {"NULL"})
      [] act = "FallPlat0"       -> Row("frame", "CK_FallPlatSit", "NULL", "CK_BasicDrawFunc1", {"NULL"})
      [] act = "FallPlat1"       -> Row("frame", "CK_FallPlatFall", "NULL", "CK_BasicDrawFunc1", {"NULL"})
      [] act = "FallPlat2"       -> Row("frame", "CK_FallPlatRise", "NULL", "CK_BasicDrawFunc1", {"NULL"})
      [] act = "StandPlatform"   -> Row("once", "NULL", "NULL", "CK_BasicDrawFunc1", {"StandPlatform"})
      [] act = "GoPlat0"         -> Row("frame", "CK_GoPlatThink", "NULL", "CK6_GoPlatDraw", {"NULL"})
      [] act = "sneakPlatWait"   -> Row("frame", "CK_SneakPlatThink", "NULL", "CK_BasicDrawFunc1", {"NULL"})
      [] act = "sneakPlatSneak"  -> Row("once", "NULL", "NULL", "CK_BasicDrawFunc1", {"sneakPlatReturn"})
      [] act = "sneakPlatReturn" -> Row("once", "NULL", "NULL", "CK_BasicDrawFunc1", {"sneakPlatWait"})]

BloogActs == {"BloogWalk0", "BloogStunned0", "BloogguardWalk0", "BloogguardClub0", "BloogguardClub2",
              "BloogguardClub3", "BloogguardStunned0", "BloogletRRun0", "BloogletRStunned0",
              "BloogletYRun0", "BloogletYStunned0", "BloogletBRun0", "BloogletBStunned0",
              "BloogletGRun0", "BloogletGStunned0"}
BloogRows == [act \in BloogActs |->
    CASE act = "BloogWalk0"         -> Row("once", "CK6_Bloog", "CK6_BloogCol", "CK_BasicDrawFunc2", {"BloogWalk0"})
      [] act = "BloogStunned0"      -> Row("frame", "CK_Fall", "NULL", "CK_BasicDrawFunc4", {"BloogStunned0"})
      [] act = "BloogguardWalk0"    -> Row("once", "CK6_BloogguardWalk", "CK6_BloogguardCol", "CK6_MultihitDraw", {"BloogguardWalk0"})
      [] act = "BloogguardClub0"    -> Row("once", "NULL", "CK6_BloogguardCol", "CK6_MultihitDraw", {"BloogguardClub0", "BloogguardClub2"})
      [] act = "BloogguardClub2"    -> Row("once", "CK6_BloogguardSmash", "CK6_BloogguardCol", "CK6_MultihitDraw", {"BloogguardClub3"})
      [] act = "BloogguardClub3"    -> Row("once", "NULL", "CK6_BloogguardCol", "CK6_MultihitDraw", {"BloogguardWalk0"})
      [] act = "BloogguardStunned0" -> Row("frame", "CK_Fall", "NULL", "CK_BasicDrawFunc4", {"BloogguardStunned0"})
      [] act = "BloogletRRun0"      -> Row("once", "CK6_Bloog", "CK6_BloogletCol", "CK_BasicDrawFunc2", {"BloogletRRun0"})
      [] act = "BloogletRStunned0"  -> Row("frame", "CK_Fall", "NULL", "CK_BasicDrawFunc4", {"NULL"})
      [] act = "BloogletYRun0"      -> Row("once", "CK6_Bloog", "CK6_BloogletCol", "CK_BasicDrawFunc2", {"BloogletYRun0"})
      [] act = "BloogletYStunned0"  -> Row("frame", "CK_Fall", "NULL", "CK_BasicDrawFunc4", {"NULL"})
      [] act = "BloogletBRun0"      -> Row("once", "CK6_Bloog", "CK6_BloogletCol", "CK_BasicDrawFunc2", {"BloogletBRun0"})
      [] act = "BloogletBStunned0"  -> Row("frame", "CK_Fall", "NULL", "CK_BasicDrawFunc4", {"NULL"})
      [] act = "BloogletGRun0"      -> Row("once", "CK6_Bloog", "CK6_BloogletCol", "CK_BasicDrawFunc2", {"BloogletGRun0"})
      [] act = "BloogletGStunned0"  -> Row("frame", "CK_Fall", "NULL", "CK_BasicDrawFunc4", {"NULL"})]

NospikeActs == {"NospikeSit0", "NospikeWalk0", "NospikeCharge0", "NospikeFall0", "NospikeFall1",
                "NospikeFall2", "NospikeFall3", "NospikeStunned0", "GikWalk0", "GikJump0", "GikSlide0",
                "GikEndSlide0", "turretWait", "turretShoot", "turretShot1", "turretShotHit1"}
NospikeRows == [act \in NospikeActs |->
    CASE act = "NospikeSit0"     -> Row("once", "NULL", "CK6_NospikeCol", "CK_BasicDrawFunc2", {"NospikeWalk0"})
      [] act = "NospikeWalk0"    -> Row("once", "CK6_NospikeWalk", "CK6_NospikeCol", "CK_BasicDrawFunc2", {"NospikeWalk0"})
      [] act = "NospikeCharge0"  -> Row("once", "CK6_NospikeCharge", "CK6_NospikeCol", "CK6_NospikeChargeDraw", {"NospikeCharge0"})
      [] act = "NospikeFall0"    -> Row("once", "NULL", "NULL", "CK_BasicDrawFunc1", {"NospikeFall1"})
      [] act = "NospikeFall1"    -> Row("once", "CK6_NospikeFall", "NULL", "CK6_NospikeFallDraw", {"NospikeFall2"})
      [] act = "NospikeFall2"    -> Row("once", "NULL", "NULL", "CK_BasicDrawFunc1", {"NospikeFall3"})
      [] act = "NospikeFall3"    -> Row("frame", "CK_Fall", "NULL", "CK6_NospikeFallDraw2", {"NULL"})
      [] act = "NospikeStunned0" -> Row("frame", "CK_Fall", "NULL", "CK_BasicDrawFunc4", {"NospikeStunned0"})
      [] act = "GikWalk0"        -> Row("once", "CK6_GikWalk", "CK_CarryKeenCol", "CK_BasicDrawFunc2", {"GikWalk0"})
      [] act = "GikJump0"        -> Row("frame", "CK_Fall", "CK_PushKeenCol", "CK6_GikJumpDraw", {"GikSlide0"})
      [] act = "GikSlide0"       -> Row("both", "CK6_GikSlide", "CK_LethalCol", "CK6_GikSlideDraw", {"GikSlide0"})
      [] act = "GikEndSlide0"    -> Row("once", "NULL", "CK_LethalCol", "CK_BasicDrawFunc2", {"GikWalk0"})
      [] act = "turretWait"      -> Row("once", "NULL", "NULL", "CK_BasicDrawFunc1", {"turretShoot"})
      [] act = "turretShoot"     -> Row("once", "CK_TurretShoot", "NULL", "CK_BasicDrawFunc1", {"turretWait"})
      [] act = "turretShot1"     -> Row("both", "CK_Glide", "CK_TurretShotCol", "CK_TurretShotDraw", {"turretShot1"})
      [] act = "turretShotHit1"  -> Row("once", "NULL", "NULL", "CK_BasicDrawFunc1", {"turretShotHit1", "NULL"})]

OrbatrixActs == {"OrbatrixFloat0", "OrbatrixCurl0", "OrbatrixCurl2", "OrbatrixUncurl0",
                 "OrbatrixUncurl1", "OrbatrixUncurl2", "OrbatrixBounce0", "BipStand0", "BipWalk0",
                 "BipSquished0", "BipshipFly0", "BipShot0", "BipshipTurn0", "BipshipHit0",
                 "BipshipHit1", "BipshipHit2", "BipshipSmoke0"}
OrbatrixRows == [act \in OrbatrixActs |->
    CASE act = "OrbatrixFloat0"  -> Row("once", "CK6_OrbatrixFloat", "CK6_OrbatrixCol", "CK6_OrbatrixDraw", {"OrbatrixFloat0"})
      [] act = "OrbatrixCurl0"   -> Row("both", "NULL", "CK6_OrbatrixCol", "CK6_OrbatrixDraw", {"OrbatrixCurl0", "OrbatrixCurl2"})
      [] act = "OrbatrixCurl2"   -> Row("frame", "CK6_OrbatrixCurl", "CK6_OrbatrixCol", "CK6_OrbatrixDraw", {"OrbatrixBounce0"})
      [] act = "OrbatrixUncurl0" -> Row("frame", "CK6_OrbatrixUncurlThink", "CK6_OrbatrixCol2", "CK_BasicDrawFunc1", {"OrbatrixUncurl1"})
      [] act = "OrbatrixUncurl1" -> Row("once", "NULL", "CK6_OrbatrixCol2", "CK_BasicDrawFunc1", {"OrbatrixUncurl2"})
      [] act = "OrbatrixUncurl2" -> Row("both", "NULL", "CK6_OrbatrixCol", "CK6_OrbatrixDraw", {"OrbatrixUncurl2", "OrbatrixFloat0"})
      [] act = "OrbatrixBounce0" -> Row("both", "CK_Fall", "CK6_OrbatrixCol2", "CK6_OrbatrixBounceDraw", {"OrbatrixBounce0"})
      [] act = "BipStand0"       -> Row("once", "NULL", "CK6_BipCol", "CK_BasicDrawFunc2", {"BipWalk0"})
      [] act = "BipWalk0"        -> Row("once", "CK6_BipWalk", "CK6_BipCol", "CK_BasicDrawFunc2", {"BipWalk0"})
      [] act = "BipSquished0"    -> Row("frame", "CK_Fall", "NULL", "CK_BasicDrawFunc1", {"NULL"})
      [] act = "BipshipFly0"     -> Row("frame", "CK6_BipshipFly", "CK6_BipshipCol", "CK_BasicDrawFunc1", {"BipshipFly0"})
      [] act = "BipShot0"        -> Row("frame", "CK_Glide", "CK_LethalCol", "CK6_BipShotDraw", {"NULL"})
      [] act = "BipshipTurn0"    -> Row("both", "CK6_BipshipTurn", "CK6_BipshipCol", "CK_BasicDrawFunc1", {"BipshipTurn0", "BipshipFly0"})
      [] act = "BipshipHit0"     -> Row("frame", "CK_Fall", "NULL", "CK_DieOnContactDraw", {"BipshipHit1"})
      [] act = "BipshipHit1"     -> Row("once", "CK6_BipshipCrash", "NULL", "CK_DieOnContactDraw", {"BipshipHit2"})
      [] act = "BipshipHit2"     -> Row("once", "NULL", "NULL", "CK_DieOnContactDraw", {"BipshipHit2"})
      [] act = "BipshipSmoke0"   -> Row("once", "NULL", "NULL", "CK_BasicDrawFunc1", {"BipshipSmoke0", "NULL"})]

FleexActs == {"FlectTurn0", "FlectTurn1", "FlectWalk0", "FlectStunned0", "FleexWalk0", "FleexTrack0",
              "FleexSearch0", "FleexSearch1", "FleexStunned0"}
FleexRows == [act \in FleexActs |->
    CASE act = "FlectTurn0"    -> Row("frame", "CK6_FlectTurn", "CK6_FlectCol", "CK6_FlectDraw", {"FlectWalk0"})
      [] act = "FlectTurn1"    -> Row("once", "NULL", "CK6_FlectCol", "CK6_FlectDraw", {"FlectWalk0"})
      [] act = "FlectWalk0"    -> Row("once", "CK6_FlectWalk", "CK6_FlectCol", "CK6_FlectDraw", {"FlectWalk0"})
      [] act = "FlectStunned0" -> Row("frame", "CK_Fall", "NULL", "CK_BasicDrawFunc4", {"FlectStunned0"})
      [] act = "FleexWalk0"    -> Row("once", "CK6_FleexWalk", "CK6_FleexCol", "CK6_MultihitDraw", {"FleexWalk0"})
      [] act = "FleexTrack0"   -> Row("once", "NULL", "CK6_FleexCol", "CK6_MultihitDraw", {"FleexTrack0", "FleexWalk0"})
      [] act = "FleexSearch0"  -> Row("once", "NULL", "CK6_FleexCol", "CK6_MultihitDraw", {"FleexSearch1"})
      [] act = "FleexSearch1"  -> Row("once", "CK6_FleexSearch", "CK6_FleexCol", "CK6_MultihitDraw", {"FleexTrack0"})
      [] act = "FleexStunned0" -> Row("frame", "CK_Fall", "NULL", "CK_BasicDrawFunc4", {"NULL"})]

BobbaActs == {"BobbaJump0", "BobbaJump1", "BobbaStand0", "BobbaShoot0", "BobbaTwinkle0",
              "BobbaTwinkle3", "BobbaFireball0", "BobbaFireballHits0"}
BobbaRows == [act \in BobbaActs |->
    CASE act = "BobbaJump0"         -> Row("both", "CK_Fall", "CK6_BobbaCol", "CK6_BobbaJumpDraw", {"BobbaJump1"})
      [] act = "BobbaJump1"         -> Row("frame", "CK_Fall", "CK6_BobbaCol", "CK6_BobbaJumpDraw", {"BobbaJump1"})
      [] act = "BobbaStand0"        -> Row("once", "CK6_Bobba", "CK6_BobbaCol", "CK_BasicDrawFunc1", {"BobbaJump0"})
      [] act = "BobbaShoot0"        -> Row("once", "NULL", "CK6_BobbaCol", "CK_BasicDrawFunc1", {"BobbaJump0"})
      [] act = "BobbaTwinkle0"      -> Row("once", "NULL", "NULL", "CK_BasicDrawFunc1", {"BobbaTwinkle0", "BobbaTwinkle3"})
      [] act = "BobbaTwinkle3"      -> Row("once", "CK6_BobbaFireball", "NULL", "CK_BasicDrawFunc1", {"BobbaFireball0"})
      [] act = "BobbaFireball0"     -> Row("once", "NULL", "CK_LethalCol", "CK6_BobbaFireballDraw", {"BobbaFireball0"})
      [] act = "BobbaFireballHits0" -> Row("once", "NULL", "NULL", "CK_BasicDrawFunc1", {"BobbaFireballHits0", "NULL"})]

CeilickActs == {"BabobbaJump0", "BabobbaJump1", "BabobbaSit0", "BabobbaSit1", "BabobbaStunned0",
                "BabobbaNap0", "BabobbaShotStart0", "BabobbaShot0", "BabobbaShot1",
                "BabobbaShotVanish0", "BabobbaShotVanish1", "Blorb0", "CeilickWait0",
                "CeilickStrike00", "CeilickStrike0", "CeilickStrike9", "CeilickStrike10",
                "CeilickStrike11", "CeilickStunned0"}
CeilickRows == [act \in CeilickActs |->
    CASE act = "BabobbaJump0"       -> Row("both", "CK_Fall", "CK6_BabobbaCol", "CK6_BabobbaJumpDraw", {"BabobbaJump1"})
      [] act = "BabobbaJump1"       -> Row("frame", "CK_Fall", "CK6_BabobbaCol", "CK6_BabobbaJumpDraw", {"BabobbaJump1"})
      [] act = "BabobbaSit0"        -> Row("once", "CK6_BabobbaSit", "CK6_BabobbaCol", "CK_BasicDrawFunc1", {"BabobbaJump0"})
      [] act = "BabobbaSit1"        -> Row("once", "NULL", "CK6_BabobbaCol", "CK_BasicDrawFunc1", {"BabobbaSit0"})
      [] act = "BabobbaStunned0"    -> Row("frame", "CK_Fall", "NULL", "CK_BasicDrawFunc4", {"BabobbaStunned0", "NULL"})
      [] act = "BabobbaNap0"        -> Row("once", "NULL", "CK6_BabobbaNapCol", "CK_BasicDrawFunc1", {"BabobbaNap0", "BabobbaSit0"})
      [] act = "BabobbaShotStart0"  -> Row("frame", "CK_Fall", "CK_LethalCol", "CK_ShrapnelTileCol", {"BabobbaShot0"})
      [] act = "BabobbaShot0"       -> Row("once", "CK6_BabobbaShot", "CK_LethalCol", "CK_BasicDrawFunc1", {"BabobbaShot1"})
      [] act = "BabobbaShot1"       -> Row("once", "NULL", "CK_LethalCol", "CK_BasicDrawFunc1", {"BabobbaShot0"})
      [] act = "BabobbaShotVanish0" -> Row("once", "CK6_BabobbaShotVanish", "CK_LethalCol", "CK_BasicDrawFunc1", {"BabobbaShotVanish1"})
      [] act = "BabobbaShotVanish1" -> Row("once", "NULL", "NULL", "CK_BasicDrawFunc1", {"BabobbaShotVanish0"})
      [] act = "Blorb0"             -> Row("once", "NULL", "CK_LethalCol", "CK6_BlorbDraw", {"Blorb0"})
      [] act = "CeilickWait0"       -> Row("frame", "CK6_Ceilick", "NULL", "CK_BasicDrawFunc1", {"NULL"})
      [] act = "CeilickStrike00"    -> Row("once", "NULL", "NULL", "CK_BasicDrawFunc1", {"CeilickStrike0"})
      [] act = "CeilickStrike0"     -> Row("once", "NULL", "CK_LethalCol", "CK_BasicDrawFunc1", {"CeilickStrike0", "CeilickStrike9"})
      [] act = "CeilickStrike9"     -> Row("once", "NULL", "NULL", "CK_BasicDrawFunc1", {"CeilickStrike10"})
      [] act = "CeilickStrike10"    -> Row("once", "CK6_CeilickDescend", "CK6_CeilickCol", "CK_BasicDrawFunc1", {"CeilickStrike11"})
      [] act = "CeilickStrike11"    -> Row("once", "NULL", "CK6_CeilickCol", "CK_BasicDrawFunc1", {"CeilickStrike11", "CeilickWait0"})
      [] act = "CeilickStunned0"    -> Row("frame", "CK6_CeilickStunned", "NULL", "CK_BasicDrawFunc4", {"NULL"})]

Acts6 == Fixture6Acts \cup BloogActs \cup NospikeActs \cup OrbatrixActs \cup FleexActs \cup BobbaActs \cup CeilickActs
Actions6 ==
    [act \in Acts6 |-> IF act \in Fixture6Acts THEN Fixture6Rows[act]
                     ELSE IF act \in BloogActs THEN BloogRows[act]
                     ELSE IF act \in NospikeActs THEN NospikeRows[act]
                     ELSE IF act \in OrbatrixActs THEN OrbatrixRows[act]
                     ELSE IF act \in FleexActs THEN FleexRows[act]
                     ELSE IF act \in BobbaActs THEN BobbaRows[act]
                     ELSE CeilickRows[act]]

\* The table of an episode: its own rows before the common ones.
Table4 ==
    [act \in Acts4 \cup CommonActs |-> IF act \in Acts4 THEN Actions4[act] ELSE CommonRows[act]]

Table5 ==
    [act \in Acts5 \cup CommonActs |-> IF act \in Acts5 THEN Actions5[act] ELSE CommonRows[act]]

Table6 ==
    [act \in Acts6 \cup CommonActs |-> IF act \in Acts6 THEN Actions6[act] ELSE CommonRows[act]]

Actions ==
    [episode \in 4 .. 6 |-> CASE episode = 4 -> Table4
                              [] episode = 5 -> Table5
                              [] OTHER       -> Table6]
====
