---- MODULE CreatureProofs ----
(***************************************************************************)
(* Proofs about CreatureLevel: what the functions and the tables of the    *)
(* three episodes have in common.                                          *)
(*                                                                         *)
(* The inductive invariant gives each action a kind, and a kind says what  *)
(* the objects with such an action are: of which type, how clipped, with   *)
(* which counters.  A row of the table names only functions that the       *)
(* objects of its kind can run, and is followed by actions of its kind; so *)
(* a function is proved once, for the kinds that name it.  Nearly all      *)
(* steps are safe: each object they leave is good, and there are no more   *)
(* shots, feet, inchworms or fish than before.                             *)
(***************************************************************************)
EXTENDS CreatureLevel, FiniteSetTheorems, Induction

(***************************************************************************)
(* Kinds of actions.  What an object's action says of the object: most say *)
(* nothing ("plain").  An action of another kind belongs to objects of one *)
(* type, and some of them bound a counter or settle how the object is      *)
(* clipped.                                                                *)
(***************************************************************************)
Birds == {"BirdHatched0", "BirdWalk0", "BirdWalk3", "BirdLand0"}
Dopefishes == {"DopefishBurp0", "DopefishBurp1", "DopefishBurp2", "DopefishBurp3"}
Arachnuts == {"ArachnutWalk0", "ArachnutWalk3", "ArachnutStunned0", "ArachnutRecover0"}
Stunned4 == {"SlugStunned0", "SlugStunned1", "BirdStunned0", "BirdRecover0", "BirdRecover3",
             "WormmouthStunned0", "BounderStunned0", "LickStunned0", "SmirkyStunned0", "MimrockStunned0"}
Shots == {"keenShot1", "keenShotHit1"}

Kind4(act) ==
    IF act = "Mushroom0" THEN "Mushroom"
    ELSE IF act = "Inchworm0" THEN "Inchworm"
    ELSE IF act \in {"Foot0", "Foot1"} THEN "Foot"
    ELSE IF act \in Birds THEN "Bird"
    ELSE IF act = "BirdFly0" THEN "flying"
    ELSE IF act \in Arachnuts THEN "Arachnut"
    ELSE IF act \in Dopefishes THEN "Dopefish"
    ELSE IF act = "DopefishSwim0" THEN "swimming"
    ELSE IF act = "DopefishEat0" THEN "eating"
    ELSE IF act = "SchoolfishSwim0" THEN "Schoolfish"
    ELSE IF act = "SchoolfishEaten0" THEN "eatenFish"
    ELSE IF act = "KeenEaten0" THEN "eaten"
    ELSE IF act \in Stunned4 THEN "stunned"
    ELSE IF act \in Shots THEN "shot"
    ELSE "plain"

Sparkies == {"Sparky0", "Sparky1", "SparkySearch0", "SparkySearch3", "SparkySearch4", "SparkySearch7",
             "SparkyCharge0", "SparkyCharge1", "SparkyCharge2", "SparkyCharge3", "SparkyTurn0",
             "Shelly0", "ShellyWait0", "ShellyWait1", "ShellyDive0", "ShellyDive1", "ShellyDieAir",
             "ShellyDieGround"}
Amptons == {"Ampton0", "AmptonTurn0", "AmptonDismount0", "AmptonDismount1", "AmptonComp0", "AmptonComp4"}
Shikadis == {"ShikadiStand0", "ShikadiWalk0", "ShikadiPole0", "ShikadiPole1"}
Shocksunds == {"ShocksundShoot0", "ShocksundShoot1", "Shocksund0", "Shocksund3", "ShocksundJump0"}
Stunned5 == {"SparkyStunned0", "AmptonStunned0", "ShikadiStun0", "ShocksundStun0", "KorathStun0"}

Kind5(act) ==
    IF act \in Sparkies THEN "Sparky"
    ELSE IF act \in {"SparkyPrepCharge0", "SparkyPrepCharge3"} THEN "preparing"
    ELSE IF act \in Amptons THEN "Ampton"
    ELSE IF act \in {"AmptonPole0", "AmptonPole2"} THEN "pole"
    ELSE IF act \in {"Slice0", "SliceDiag0"} THEN "SliceStar"
    ELSE IF act = "SliceDie0" THEN "dyingStar"
    ELSE IF act \in {"RoboShoot0", "RoboShoot2"} THEN "robo"
    ELSE IF act = "Spindred0" THEN "Spindred"
    ELSE IF act \in Shikadis THEN "Shikadi"
    ELSE IF act \in Shocksunds THEN "Shocksund"
    ELSE IF act \in {"ShocksundStand0", "ShocksundStand1"} THEN "standing"
    ELSE IF act = "Sphereful0" THEN "Sphereful"
    ELSE IF act \in Stunned5 THEN "stunned"
    ELSE IF act \in Shots THEN "shot"
    ELSE "plain"

Guards == {"BloogguardWalk0", "BloogguardClub0", "BloogguardClub2", "BloogguardClub3"}
Blooglets == {"BloogletRRun0", "BloogletYRun0", "BloogletBRun0", "BloogletGRun0"}
Falling == {"NospikeFall0", "NospikeFall1", "NospikeFall2", "NospikeFall3"}
Flects == {"FlectTurn0", "FlectTurn1", "FlectWalk0"}
Fleexes == {"FleexWalk0", "FleexTrack0", "FleexSearch0", "FleexSearch1"}
Bobbas == {"BobbaJump0", "BobbaJump1", "BobbaStand0", "BobbaShoot0"}
Babobbas == {"BabobbaJump0", "BabobbaJump1", "BabobbaSit0", "BabobbaSit1", "BabobbaNap0"}
Ceilicks == {"CeilickWait0", "CeilickStrike00", "CeilickStrike0", "CeilickStrike9", "CeilickStrike10",
             "CeilickStrike11"}
Stunned6 == {"BloogStunned0", "BloogguardStunned0", "BloogletRStunned0", "BloogletYStunned0",
             "BloogletBStunned0", "BloogletGStunned0", "NospikeStunned0", "FlectStunned0",
             "FleexStunned0", "BabobbaStunned0", "CeilickStunned0"}

Kind6(act) ==
    IF act = "Sandwich0" THEN "Sandwich"
    ELSE IF act = "Rope0" THEN "Rope"
    ELSE IF act = "Passcard0" THEN "Passcard"
    ELSE IF act = "Molly0" THEN "Molly"
    ELSE IF act = "BloogWalk0" THEN "Bloog"
    ELSE IF act \in Guards THEN "Bloogguard"
    ELSE IF act \in Blooglets THEN "Blooglet"
    ELSE IF act \in {"NospikeSit0", "NospikeWalk0", "NospikeCharge0"} THEN "Nospike"
    ELSE IF act \in Falling THEN "falling"
    ELSE IF act \in Flects THEN "Flect"
    ELSE IF act \in Fleexes THEN "Fleex"
    ELSE IF act \in Bobbas THEN "Bobba"
    ELSE IF act \in Babobbas THEN "Babobba"
    ELSE IF act \in {"BabobbaShotStart0", "BabobbaShot0", "BabobbaShot1"} THEN "burning"
    ELSE IF act \in {"BabobbaShotVanish0", "BabobbaShotVanish1"} THEN "vanishing"
    ELSE IF act = "Blorb0" THEN "Blorb"
    ELSE IF act = "OrbatrixBounce0" THEN "bouncing"
    ELSE IF act \in Ceilicks THEN "Ceilick"
    ELSE IF act \in Stunned6 THEN "stunned"
    ELSE IF act \in Shots THEN "shot"
    ELSE "plain"

Kind(e, act) == IF e = 4 THEN Kind4(act) ELSE IF e = 5 THEN Kind5(act) ELSE Kind6(act)

\* The types whose objects never have a plain action, and the type that a kind says an
\* object has.
Bound == {"Mushroom", "Inchworm", "Foot", "Bird", "Dopefish", "Schoolfish",
          "Sparky", "Ampton", "SliceStar", "Spindred", "Shikadi", "Shocksund", "Sphereful",
          "Sandwich", "Rope", "Passcard", "Molly", "Bloog", "Bloogguard", "Blooglet", "Nospike",
          "Flect", "Fleex", "Bobba", "Babobba", "Blorb", "Ceilick"}
TypeOf(kind) ==
    IF kind = "flying" THEN "Bird"
    ELSE IF kind \in {"swimming", "eating"} THEN "Dopefish"
    ELSE IF kind = "eatenFish" THEN "Schoolfish"
    ELSE IF kind = "preparing" THEN "Sparky"
    ELSE IF kind = "pole" THEN "Ampton"
    ELSE IF kind = "dyingStar" THEN "SliceStar"
    ELSE IF kind = "standing" THEN "Shocksund"
    ELSE IF kind = "falling" THEN "Nospike"
    ELSE kind

\* The types that say nothing of the action.
Ordinary == {"Nothing", "Friendly", "Item", "Platform", "Turret", "EnemyShot", "Null",
             "CouncilMember", "Slug", "Egg", "Skypest", "Wormmouth", "Cloud", "Bolt", "Berkeloid",
             "Bounder", "Lick", "Smirky", "Mimrock", "Sprite", "Mine", "Lindsey", "Wetsuit",
             "Volte", "Robo", "Spirogrip", "Master", "Korath", "QED",
             "Gik", "Orbatrix", "Bip", "Bipship"}
Types == Bound \cup Ordinary \cup {"Player", "Stunner", "StunnedCreature", "Arachnut"}

ActsOf(e) == CommonActs \cup IF e = 4 THEN Acts4 ELSE IF e = 5 THEN Acts5 ELSE Acts6
Acts == ActsOf(4) \cup ActsOf(5) \cup ActsOf(6)

ObjType ==
    [type : Types, act : Acts, active : {"active", "onscreen", "always", "inactive"},
     clipped : {"normal", "simple", "not"}, user1 : Int, user2 : Int, user3 : Int,
     user4 : Types \cup {""}, ptr : Ids, hit : Types \cup {""}]

\* An object's type, and what it was stunned as.
TypeFits(e, kind, o) ==
    /\ o.type \in Bound \/ TypeOf(kind) \in Bound => o.type = TypeOf(kind)
    /\ o.type = "Arachnut" => kind = "Arachnut"
    /\ kind = "Arachnut" => o.type \in {"Arachnut", "StunnedCreature"} /\ o.hit \in {"", "Arachnut"}
    /\ kind = "stunned" => o.type = "StunnedCreature"
    /\ o.type = "StunnedCreature" => kind \in {"stunned", "Arachnut"}
    /\ o.hit # "" <=> o.type = "StunnedCreature"
    /\ kind = "shot" => o.type \in {"Stunner", "Friendly"}
    /\ o.type = "Stunner" => kind = "shot"
    /\ kind = "eaten" => o.type = "Friendly"
    /\ e = 6 /\ o.type = "StunnedCreature" => o.user4 \in StarSpecs6

\* How it is clipped, and when it is active.
ClippingFits(kind, type, active, clipped) ==
    /\ clipped = "simple" =>
          kind \in {"flying", "swimming", "Schoolfish", "eatenFish", "SliceStar", "dyingStar",
                    "Sphereful", "Blorb"}
    /\ kind \in {"flying", "swimming"} => clipped = "simple"
    /\ kind \in {"Sparky", "preparing"} => clipped = "normal"
    /\ kind = "Ampton" => clipped # "not"
    /\ kind = "pole" => clipped = "not"
    /\ kind \in {"Schoolfish", "eatenFish", "eaten"} \/ type = "Player" => active = "active"

\* Its counters.
CountersFit(kind, user1, user2, user3) ==
    /\ kind = "Mushroom" => user1 < NumJumps
    /\ kind = "Inchworm" => user2 < InchwormCount
    /\ kind = "preparing" => user1 \in 1 .. ChargeDelay
    /\ kind = "SliceStar" => user1 > 0
    /\ kind = "robo" => user1 \in 1 .. RoboShots
    /\ kind = "Spindred" => user1 < NumBounces
    /\ kind = "standing" => user1 \in 1 .. StandTime
    /\ kind \in {"Shikadi", "Shocksund", "standing", "Bloogguard", "Fleex"} => user2 > 0
    /\ kind \in {"Nospike", "falling"} => user3 > 0
    /\ kind = "Nospike" => user1 < AirHangTime
    /\ kind \in {"Bobba", "Babobba"} => user1 < HopsPerShot
    /\ kind = "burning" => user1 < DecayTime
    /\ kind = "vanishing" => user1 < VanishTime
    /\ kind = "bouncing" => user1 \in 1 .. BounceCount

Fits(e, kind, o) ==
    /\ TypeFits(e, kind, o)
    /\ ClippingFits(kind, o.type, o.active, o.clipped)
    /\ CountersFit(kind, o.user1, o.user2, o.user3)

Good(e, o) == o \in ObjType /\ o.act \in ActsOf(e) /\ Fits(e, Kind(e, o.act), o)

\* The objects of a level.
World(e, os) ==
    /\ os \in [Ids -> ObjType]
    /\ \A k \in Ids : Good(e, os[k])
    /\ os[0].type \in {"Player", "Friendly"}

\* What a step makes of one object: there are no more shots, feet, worms and fish than
\* before; the Dopefish starts no meal, and whatever waits to be eaten goes on waiting.
Rare == {"Stunner", "Foot", "Inchworm", "Dopefish", "Schoolfish"}
Waiting == {"eatenFish", "eaten"}
Turns(e, o, o2) ==
    /\ o2.type \in Rare => o2.type = o.type
    /\ Kind(e, o2.act) = "eating" => Kind(e, o.act) = "eating" /\ o2.ptr = o.ptr
    /\ Kind(e, o.act) \in Waiting => Kind(e, o2.act) \in Waiting

Keeps(e, os, os2) == World(e, os2) /\ \A k \in Ids : Turns(e, os[k], os2[k])

Stunners(os) == {k \in Ids : os[k].type = "Stunner"}

\* The steps that respect all this: nearly all of them.
SafeStep ==
    /\ Keeps(ck_currentEpisode, objs, objs')
    /\ UNCHANGED <<ck_currentEpisode, numShots, quitMessage, fired>>
    /\ levelState' \in LevelStates
    /\ killer' = killer \/ (killer' # <<>> /\ killer'[2] \in {"", "Arachnut"})
    /\ \/ stuns' = stuns
       \/ stuns' = stuns + 1 /\ \E s \in Stunners(objs) : s \notin Stunners(objs')

IndInv ==
    /\ ck_currentEpisode \in 4 .. 6
    /\ World(ck_currentEpisode, objs)
    /\ numShots \in Nat /\ fired \in Nat /\ numShots + fired = MaxShots
    /\ quitMessage = "" /\ levelState \in LevelStates /\ stuns \in Nat
    /\ ShotsAreSpent /\ OneFoot /\ VictimWaits
    /\ \A i, j \in Ids : Is(i, "Dopefish") /\ Is(j, "Dopefish") => i = j

(***************************************************************************)
(* The functions that actions of a kind name.                              *)
(***************************************************************************)
Named4(kind) ==
    IF kind = "Mushroom"
        THEN {"NULL", "CK4_MushroomMove", "CK4_MushroomCol", "CK4_MushroomDraw"}
    ELSE IF kind = "Inchworm"
        THEN {"NULL", "CK_BasicDrawFunc2", "CK4_InchwormMove", "CK4_InchwormCol"}
    ELSE IF kind = "Foot"
        THEN {"NULL", "CK_BasicDrawFunc1", "CK4_FootCol"}
    ELSE IF kind = "Bird"
        THEN {"NULL", "CK4_BirdHatchedCol", "CK4_BirdDraw", "CK4_BirdCol", "CK4_BirdWalk",
              "CK_Fall2", "CK4_BirdLandingDraw"}
    ELSE IF kind = "flying"
        THEN {"NULL", "CK4_BirdCol", "CK4_BirdFly", "CK4_BirdFlyingDraw"}
    ELSE IF kind = "Arachnut"
        THEN {"NULL", "CK_BasicDrawFunc1", "CK_BasicDrawFunc2", "CK4_ArachnutCol",
              "CK4_ArachnutSearch", "CK4_ArachnutStunnedCol"}
    ELSE IF kind = "Dopefish"
        THEN {"NULL", "CK_BasicDrawFunc1", "CK4_DopefishBurp", "CK4_DopefishAfterBurp"}
    ELSE IF kind = "swimming"
        THEN {"NULL", "CK4_DopefishMove", "CK4_DopefishCol", "CK4_FishDraw"}
    ELSE IF kind = "eating"
        THEN {"NULL", "CK_BasicDrawFunc1", "CK4_DopefishEat"}
    ELSE IF kind = "Schoolfish"
        THEN {"NULL", "CK4_FishDraw", "CK4_SchoolfishMove"}
    ELSE IF kind \in {"eatenFish", "eaten"}
        THEN {"NULL", "CK_BasicDrawFunc1"}
    ELSE IF kind = "stunned"
        THEN {"NULL", "CK_BasicDrawFunc1", "CK_Fall", "CK_BasicDrawFunc4", "CK4_BirdHatchedCol",
              "CK4_BirdRecover"}
    ELSE IF kind = "shot"
        THEN {"NULL", "CK_BasicDrawFunc1", "CK_ShotThink", "CK_ShotDrawFunc"}
    ELSE {"NULL", "CK_KeenDeathThink", "CK_BasicDrawFunc1", "CK_Fall", "CK_DoorOpen",
          "CK_SecurityDoorOpen", "CK_FallingItem", "CK_PointItem", "CK4_CouncilWalk",
          "CK_BasicDrawFunc2", "CK4_SlugCol", "CK_BasicDrawFunc3", "CK4_SlugMove", "CK4_SlugSlime",
          "CK_LethalCol", "CK4_EggCol", "CK4_EggshellDraw", "CK_Fall2", "CK4_SkypestFly",
          "CK4_SkypestAirCol", "CK4_SkypestDraw", "CK4_SkypestGroundCol", "CK4_SkypestTakeoff",
          "CK4_WormmouthMove", "CK4_WormmouthCheckShot", "CK4_WormmouthLookLeft",
          "CK4_WormmouthLookRight", "CK4_WormmouthGoToPlayer", "CK4_WormmouthCol", "CK4_CloudCol",
          "CK4_CloudDraw", "CK4_CloudMove", "CK4_CloudCheckStrike", "CK_Glide", "CK4_CloudStrike",
          "CK4_BerkeloidMove", "CK4_BerkeloidCol", "CK4_BerkeloidDraw", "CK_SetDraw",
          "CK4_BerkeloidHover", "CK4_BerkeloidThrow", "CK4_BerkeloidThrowDone", "CK4_FireballDraw",
          "CK4_BounderCheckShot", "CK4_BounderDraw", "CK4_LickMove", "CK4_LickCheckShot",
          "CK4_LickDraw", "CK4_LickCol", "CK_AxisPlatform", "CK4_PlatformDraw", "CK_FallPlatSit",
          "CK_FallPlatFall", "CK_FallPlatRise", "CK4_SmirkyCol", "CK4_SmirkySearch",
          "CK4_SmirkyTeleport", "CK4_SmirkyDraw", "CK4_MimrockWait", "CK4_MimrockCheckJump",
          "CK4_MimrockCol", "CK4_MimrockAirCol", "CK4_MimrockJumpDraw", "CK4_MimrockBounceDraw",
          "CK4_KillKeenUnderwater", "CK4_Bubbles", "CK4_SpritePatrol", "CK4_SpriteAim",
          "CK4_SpriteShoot", "CK4_ProjectileDraw", "CK4_MineCol", "CK4_LindseyFloat", "CK4_DartGun",
          "CK4_WetsuitCol"}

Named5(kind) ==
    IF kind = "Sparky"
        THEN {"NULL", "CK_BasicDrawFunc1", "CK_Fall", "CK5_SparkyWait", "CK5_SparkyCol",
              "CK5_SparkyTileCol", "CK5_SparkySearchLeft", "CK5_SparkySearchRight",
              "CK5_SparkyCharge0", "CK5_SparkyCharge1", "CK5_ShellyCol", "CK5_ShellyGroundTileCol",
              "CK5_ShellyWait", "CK5_ShellyStartJump", "CK5_ShellyAirTileCol", "CK5_SpawnShellyBits"}
    ELSE IF kind = "preparing"
        THEN {"NULL", "CK5_SparkyCol", "CK5_SparkyTileCol", "CK5_SparkyPrepareCharge"}
    ELSE IF kind = "Ampton"
        THEN {"NULL", "CK_BasicDrawFunc1", "CK5_AmptonWalk", "CK5_AmptonCol", "CK5_AmptonTileCol",
              "CK5_AmptonSwitch"}
    ELSE IF kind = "pole"
        THEN {"NULL", "CK_BasicDrawFunc1", "CK5_AmptonCol", "CK5_AmptonPoleClimb"}
    ELSE IF kind = "SliceStar"
        THEN {"NULL", "CK_BasicDrawFunc1", "CK_AxisPlatform", "CK5_SliceCol", "CK5_SliceDiagTileCol"}
    ELSE IF kind = "dyingStar"
        THEN {"NULL", "CK_BasicDrawFunc1"}
    ELSE IF kind = "robo"
        THEN {"NULL", "CK_BasicDrawFunc1", "CK_DeadlyCol", "CK5_RoboShoot"}
    ELSE IF kind = "Spindred"
        THEN {"NULL", "CK_DeadlyCol", "CK5_SpindredBounce", "CK5_SpindredTileCol"}
    ELSE IF kind = "Shikadi"
        THEN {"NULL", "CK5_ShikadiCol", "CK5_ShikadiTileCol", "CK5_ShikadiWalk", "CK5_ShikadiPole"}
    ELSE IF kind = "Shocksund"
        THEN {"NULL", "CK_Fall", "CK5_ShocksundCol", "CK5_ShocksundGroundTileCol",
              "CK5_ShocksundShoot", "CK5_ShocksundSearch", "CK5_ShocksundJumpTileCol"}
    ELSE IF kind = "standing"
        THEN {"NULL", "CK5_ShocksundCol", "CK5_ShocksundGroundTileCol", "CK5_ShocksundStand"}
    ELSE IF kind = "Sphereful"
        THEN {"NULL", "CK_DeadlyCol", "CK5_SpherefulBounce", "CK5_SpherefulTileCol"}
    ELSE IF kind = "stunned"
        THEN {"NULL", "CK_Fall", "CK_BasicDrawFunc4"}
    ELSE IF kind = "shot"
        THEN {"NULL", "CK_BasicDrawFunc1", "CK_ShotThink", "CK_ShotDrawFunc"}
    ELSE {"NULL", "CK_KeenDeathThink", "CK_BasicDrawFunc1", "CK_Fall", "CK_DoorOpen",
          "CK_SecurityDoorOpen", "CK_FallingItem", "CK_PointItem", "CK5_LevelEnd",
          "CK_AxisPlatform", "CK5_PurpleAxisPlatform", "CK_FallPlatSit", "CK_FallPlatFall",
          "CK_FallPlatRise", "CK_GoPlatThink", "CK5_PurpleGoPlatThink", "CK5_VolteMove",
          "CK5_VolteCol", "CK_SneakPlatThink", "CK_TurretShoot", "CK_Glide", "CK_TurretShotCol",
          "CK_TurretShotDraw", "CK_DeadlyCol", "CK_ShrapnelTileCol", "CK5_MineMove", "CK5_MineCol",
          "CK5_MineTileCol", "CK5_MineMoveDotsToCenter", "CK5_MineMoveDotsToSides",
          "CK5_MineExplode", "CK5_MineShrapCol", "CK5_RoboMove", "CK5_RoboCol", "CK_BasicDrawFunc2",
          "CK5_RoboShotCol", "CK5_RoboShotTileCol", "CK5_SpirogripSpin", "CK5_SpirogripFlyDraw",
          "CK5_MasterCol", "CK5_MasterStand", "CK5_MasterShoot", "CK5_MasterTele",
          "CK5_MasterTeleTileCol", "CK_Fall2", "CK5_MasterBallCol", "CK5_MasterBallTileCol",
          "CK5_MasterSparksTileCol", "CK5_PoleZap", "CK5_BarkShotCol", "CK5_BarkShotTileCol",
          "CK5_KorathWalk", "CK5_KorathColFunc"}

Named6(kind) ==
    IF kind \in {"Sandwich", "Rope", "Passcard", "Molly"}
        THEN {"NULL", "CK_BasicDrawFunc1", "CK6_StoryItemCol"}
    ELSE IF kind = "Bloog"
        THEN {"NULL", "CK6_Bloog", "CK6_BloogCol", "CK_BasicDrawFunc2"}
    ELSE IF kind = "Bloogguard"
        THEN {"NULL", "CK6_BloogguardWalk", "CK6_BloogguardCol", "CK6_MultihitDraw",
              "CK6_BloogguardSmash"}
    ELSE IF kind = "Blooglet"
        THEN {"NULL", "CK6_Bloog", "CK_BasicDrawFunc2", "CK6_BloogletCol"}
    ELSE IF kind = "Nospike"
        THEN {"NULL", "CK_BasicDrawFunc2", "CK6_NospikeCol", "CK6_NospikeWalk", "CK6_NospikeCharge",
              "CK6_NospikeChargeDraw"}
    ELSE IF kind = "falling"
        THEN {"NULL", "CK_BasicDrawFunc1", "CK_Fall", "CK6_NospikeFall", "CK6_NospikeFallDraw",
              "CK6_NospikeFallDraw2"}
    ELSE IF kind = "Flect"
        THEN {"NULL", "CK6_FlectTurn", "CK6_FlectCol", "CK6_FlectDraw", "CK6_FlectWalk"}
    ELSE IF kind = "Fleex"
        THEN {"NULL", "CK6_MultihitDraw", "CK6_FleexWalk", "CK6_FleexCol", "CK6_FleexSearch"}
    ELSE IF kind = "Bobba"
        THEN {"NULL", "CK_BasicDrawFunc1", "CK_Fall", "CK6_BobbaCol", "CK6_BobbaJumpDraw",
              "CK6_Bobba"}
    ELSE IF kind = "Babobba"
        THEN {"NULL", "CK_BasicDrawFunc1", "CK_Fall", "CK6_BabobbaCol", "CK6_BabobbaJumpDraw",
              "CK6_BabobbaSit", "CK6_BabobbaNapCol"}
    ELSE IF kind = "burning"
        THEN {"NULL", "CK_BasicDrawFunc1", "CK_Fall", "CK_LethalCol", "CK_ShrapnelTileCol",
              "CK6_BabobbaShot"}
    ELSE IF kind = "vanishing"
        THEN {"NULL", "CK_BasicDrawFunc1", "CK_LethalCol", "CK6_BabobbaShotVanish"}
    ELSE IF kind = "Blorb"
        THEN {"NULL", "CK_LethalCol", "CK6_BlorbDraw"}
    ELSE IF kind = "bouncing"
        THEN {"NULL", "CK_Fall", "CK6_OrbatrixCol2", "CK6_OrbatrixBounceDraw"}
    ELSE IF kind = "Ceilick"
        THEN {"NULL", "CK_BasicDrawFunc1", "CK_LethalCol", "CK6_Ceilick", "CK6_CeilickDescend",
              "CK6_CeilickCol"}
    ELSE IF kind = "stunned"
        THEN {"NULL", "CK_Fall", "CK_BasicDrawFunc4", "CK6_CeilickStunned"}
    ELSE IF kind = "shot"
        THEN {"NULL", "CK_BasicDrawFunc1", "CK_ShotThink", "CK_ShotDrawFunc"}
    ELSE {"NULL", "CK_KeenDeathThink", "CK_BasicDrawFunc1", "CK_Fall", "CK_DoorOpen",
          "CK_SecurityDoorOpen", "CK_FallingItem", "CK_PointItem", "CK_AxisPlatform",
          "CK_FallPlatSit", "CK_FallPlatFall", "CK_FallPlatRise", "CK_GoPlatThink",
          "CK6_GoPlatDraw", "CK_SneakPlatThink", "CK_BasicDrawFunc2", "CK6_GikWalk",
          "CK_CarryKeenCol", "CK_PushKeenCol", "CK6_GikJumpDraw", "CK6_GikSlide", "CK_LethalCol",
          "CK6_GikSlideDraw", "CK_TurretShoot", "CK_Glide", "CK_TurretShotCol", "CK_TurretShotDraw",
          "CK6_OrbatrixFloat", "CK6_OrbatrixCol", "CK6_OrbatrixDraw", "CK6_OrbatrixCurl",
          "CK6_OrbatrixUncurlThink", "CK6_OrbatrixCol2", "CK6_BipCol", "CK6_BipWalk",
          "CK6_BipshipFly", "CK6_BipshipCol", "CK6_BipShotDraw", "CK6_BipshipTurn",
          "CK_DieOnContactDraw", "CK6_BipshipCrash", "CK6_BobbaFireball", "CK6_BobbaFireballDraw"}

Named(e, kind) == IF e = 4 THEN Named4(kind) ELSE IF e = 5 THEN Named5(kind) ELSE Named6(kind)

\* The actions that something of another kind follows.  Only the first of them leaves it
\* to its timer.
Breaks == {"BirdRecover3", "DopefishBurp3", "KeenEaten0", "OrbatrixCurl2"}

\* The functions that choose what the row names next.
Followers == {"CK_BasicDrawFunc4", "CK_DieOnContactDraw", "CK_ShrapnelTileCol",
              "CK5_MineMoveDotsToCenter", "CK5_MineMoveDotsToSides", "CK5_SpirogripFlyDraw",
              "CK5_MasterTeleTileCol", "CK6_GikJumpDraw", "CK6_OrbatrixUncurlThink"}

\* A row of the table.
Served(e, act, row) == {row.think, row.collide, row.draw} \subseteq Named(e, Kind(e, act))
Followed(e, act, row) ==
    \A n \in row.next :
        n # "NULL" /\ act \notin Breaks => n \in ActsOf(e) /\ Kind(e, n) = Kind(e, act)
Special == Breaks \cup {"SchoolfishEaten0", "keenStunned0"}
Timed(act, row) ==
    act \in Special =>
        /\ act # "keenStunned0" => row.think \notin Followers \cup {"CK_Fall", "CK_Fall2"} /\ row.draw \notin Followers
        /\ act \notin {"keenStunned0", "BirdRecover3"} => row.type = "frame"
        /\ act = "BirdRecover3" => row.think = "CK4_BirdRecover"
        /\ act = "keenStunned0" => "NULL" \notin row.next

Sound(e, act, row) ==
    Served(e, act, row) /\ Followed(e, act, row) /\ Timed(act, row)

\* Every row of the tables is sound: it names functions of its action's kind, and what follows
\* is of that kind too.
LEMMA Common4Sound == ASSUME NEW a \in CommonActs PROVE Sound(4, a, CommonRows[a])
<1>1. /\ CommonActs \subseteq ActsOf(4)
      /\ \A x : Kind(4, x) = Kind4(x) /\ Named(4, x) = Named4(x)
  BY DEF ActsOf, Kind, Named, Acts4
<1>2. CommonRows[a].think \in Named4(Kind4(a))
  BY DEF CommonActs, CommonRows, Row, Named4, Kind4, Birds, Dopefishes, Arachnuts, Stunned4, Shots
<1>3. CommonRows[a].collide \in Named4(Kind4(a))
  BY DEF CommonActs, CommonRows, Row, Named4, Kind4, Birds, Dopefishes, Arachnuts, Stunned4, Shots
<1>4. CommonRows[a].draw \in Named4(Kind4(a))
  BY DEF CommonActs, CommonRows, Row, Named4, Kind4, Birds, Dopefishes, Arachnuts, Stunned4, Shots
<1>5. \A n \in CommonRows[a].next : n # "NULL" /\ a \notin Breaks => n \in CommonActs /\ Kind4(n) = Kind4(a)
  BY SMTT(30) DEF CommonActs, CommonRows, Row, Breaks, Kind4, Birds, Dopefishes, Arachnuts, Stunned4, Shots
<1>6. a \in Special => a = "keenStunned0"
  BY DEF CommonActs, Special, Breaks
<1>7. CommonRows["keenStunned0"] = Row("once", "CK_Fall", "NULL", "NULL", {"keenStanding"})
  BY DEF CommonActs, CommonRows
<1>8. Timed(a, CommonRows[a])
  BY <1>6, <1>7 DEF Timed, Row, Followers
<1> QED  BY <1>1, <1>2, <1>3, <1>4, <1>5, <1>8 DEF Sound, Served, Followed

LEMMA SlugSound == ASSUME NEW a \in SlugActs PROVE Sound(4, a, SlugRows[a])
<1>1. /\ SlugActs \subseteq ActsOf(4)
      /\ \A x : Kind(4, x) = Kind4(x) /\ Named(4, x) = Named4(x)
  BY DEF ActsOf, Kind, Named, Acts4
<1>2. SlugRows[a].think \in Named4(Kind4(a))
  BY DEF SlugActs, SlugRows, Row, Named4, Kind4, Birds, Dopefishes, Arachnuts, Stunned4, Shots
<1>3. SlugRows[a].collide \in Named4(Kind4(a))
  BY DEF SlugActs, SlugRows, Row, Named4, Kind4, Birds, Dopefishes, Arachnuts, Stunned4, Shots
<1>4. SlugRows[a].draw \in Named4(Kind4(a))
  BY DEF SlugActs, SlugRows, Row, Named4, Kind4, Birds, Dopefishes, Arachnuts, Stunned4, Shots
<1>5. \A n \in SlugRows[a].next : n # "NULL" /\ a \notin Breaks => n \in SlugActs /\ Kind4(n) = Kind4(a)
  BY SMTT(30) DEF SlugActs, SlugRows, Row, Breaks, Kind4, Birds, Dopefishes, Arachnuts, Stunned4, Shots
<1>6. a \notin Special
  BY DEF SlugActs, Special, Breaks
<1> QED  BY <1>1, <1>2, <1>3, <1>4, <1>5, <1>6 DEF Sound, Served, Followed, Timed, Special

LEMMA BirdSound == ASSUME NEW a \in BirdActs PROVE Sound(4, a, BirdRows[a])
<1>1. /\ BirdActs \subseteq ActsOf(4)
      /\ \A x : Kind(4, x) = Kind4(x) /\ Named(4, x) = Named4(x)
  BY DEF ActsOf, Kind, Named, Acts4
<1>2. BirdRows[a].think \in Named4(Kind4(a))
  BY DEF BirdActs, BirdRows, Row, Named4, Kind4, Birds, Dopefishes, Arachnuts, Stunned4, Shots
<1>3. BirdRows[a].collide \in Named4(Kind4(a))
  BY DEF BirdActs, BirdRows, Row, Named4, Kind4, Birds, Dopefishes, Arachnuts, Stunned4, Shots
<1>4. BirdRows[a].draw \in Named4(Kind4(a))
  BY DEF BirdActs, BirdRows, Row, Named4, Kind4, Birds, Dopefishes, Arachnuts, Stunned4, Shots
<1>5. \A n \in BirdRows[a].next : n # "NULL" /\ a \notin Breaks => n \in BirdActs /\ Kind4(n) = Kind4(a)
  BY SMTT(30) DEF BirdActs, BirdRows, Row, Breaks, Kind4, Birds, Dopefishes, Arachnuts, Stunned4, Shots
<1>6. a \in Special => a = "BirdRecover3"
  BY DEF BirdActs, Special, Breaks
<1>7. BirdRows["BirdRecover3"] = Row("once", "CK4_BirdRecover", "CK4_BirdHatchedCol", "CK_BasicDrawFunc1", {"BirdWalk0"})
  BY DEF BirdActs, BirdRows
<1>8. Timed(a, BirdRows[a])
  BY <1>6, <1>7 DEF Timed, Row, Followers
<1> QED  BY <1>1, <1>2, <1>3, <1>4, <1>5, <1>8 DEF Sound, Served, Followed

LEMMA ArachnutSound == ASSUME NEW a \in ArachnutActs PROVE Sound(4, a, ArachnutRows[a])
<1>1. /\ ArachnutActs \subseteq ActsOf(4)
      /\ \A x : Kind(4, x) = Kind4(x) /\ Named(4, x) = Named4(x)
  BY DEF ActsOf, Kind, Named, Acts4
<1>2. ArachnutRows[a].think \in Named4(Kind4(a))
  BY DEF ArachnutActs, ArachnutRows, Row, Named4, Kind4, Birds, Dopefishes, Arachnuts, Stunned4, Shots
<1>3. ArachnutRows[a].collide \in Named4(Kind4(a))
  BY DEF ArachnutActs, ArachnutRows, Row, Named4, Kind4, Birds, Dopefishes, Arachnuts, Stunned4, Shots
<1>4. ArachnutRows[a].draw \in Named4(Kind4(a))
  BY DEF ArachnutActs, ArachnutRows, Row, Named4, Kind4, Birds, Dopefishes, Arachnuts, Stunned4, Shots
<1>5. \A n \in ArachnutRows[a].next : n # "NULL" /\ a \notin Breaks => n \in ArachnutActs /\ Kind4(n) = Kind4(a)
  BY SMTT(30) DEF ArachnutActs, ArachnutRows, Row, Breaks, Kind4, Birds, Dopefishes, Arachnuts, Stunned4, Shots
<1>6. a \notin Special
  BY DEF ArachnutActs, Special, Breaks
<1> QED  BY <1>1, <1>2, <1>3, <1>4, <1>5, <1>6 DEF Sound, Served, Followed, Timed, Special

LEMMA CloudSound == ASSUME NEW a \in CloudActs PROVE Sound(4, a, CloudRows[a])
<1>1. /\ CloudActs \subseteq ActsOf(4)
      /\ \A x : Kind(4, x) = Kind4(x) /\ Named(4, x) = Named4(x)
  BY DEF ActsOf, Kind, Named, Acts4
<1>2. CloudRows[a].think \in Named4(Kind4(a))
  BY DEF CloudActs, CloudRows, Row, Named4, Kind4, Birds, Dopefishes, Arachnuts, Stunned4, Shots
<1>3. CloudRows[a].collide \in Named4(Kind4(a))
  BY DEF CloudActs, CloudRows, Row, Named4, Kind4, Birds, Dopefishes, Arachnuts, Stunned4, Shots
<1>4. CloudRows[a].draw \in Named4(Kind4(a))
  BY DEF CloudActs, CloudRows, Row, Named4, Kind4, Birds, Dopefishes, Arachnuts, Stunned4, Shots
<1>5. \A n \in CloudRows[a].next : n # "NULL" /\ a \notin Breaks => n \in CloudActs /\ Kind4(n) = Kind4(a)
  BY SMTT(30) DEF CloudActs, CloudRows, Row, Breaks, Kind4, Birds, Dopefishes, Arachnuts, Stunned4, Shots
<1>6. a \notin Special
  BY DEF CloudActs, Special, Breaks
<1> QED  BY <1>1, <1>2, <1>3, <1>4, <1>5, <1>6 DEF Sound, Served, Followed, Timed, Special

LEMMA FootSound == ASSUME NEW a \in FootActs PROVE Sound(4, a, FootRows[a])
<1>1. /\ FootActs \subseteq ActsOf(4)
      /\ \A x : Kind(4, x) = Kind4(x) /\ Named(4, x) = Named4(x)
  BY DEF ActsOf, Kind, Named, Acts4
<1>2. FootRows[a].think \in Named4(Kind4(a))
  BY DEF FootActs, FootRows, Row, Named4, Kind4, Birds, Dopefishes, Arachnuts, Stunned4, Shots
<1>3. FootRows[a].collide \in Named4(Kind4(a))
  BY DEF FootActs, FootRows, Row, Named4, Kind4, Birds, Dopefishes, Arachnuts, Stunned4, Shots
<1>4. FootRows[a].draw \in Named4(Kind4(a))
  BY DEF FootActs, FootRows, Row, Named4, Kind4, Birds, Dopefishes, Arachnuts, Stunned4, Shots
<1>5. \A n \in FootRows[a].next : n # "NULL" /\ a \notin Breaks => n \in FootActs /\ Kind4(n) = Kind4(a)
  BY SMTT(30) DEF FootActs, FootRows, Row, Breaks, Kind4, Birds, Dopefishes, Arachnuts, Stunned4, Shots
<1>6. a \notin Special
  BY DEF FootActs, Special, Breaks
<1> QED  BY <1>1, <1>2, <1>3, <1>4, <1>5, <1>6 DEF Sound, Served, Followed, Timed, Special

LEMMA SmirkySound == ASSUME NEW a \in SmirkyActs PROVE Sound(4, a, SmirkyRows[a])
<1>1. /\ SmirkyActs \subseteq ActsOf(4)
      /\ \A x : Kind(4, x) = Kind4(x) /\ Named(4, x) = Named4(x)
  BY DEF ActsOf, Kind, Named, Acts4
<1>2. SmirkyRows[a].think \in Named4(Kind4(a))
  BY DEF SmirkyActs, SmirkyRows, Row, Named4, Kind4, Birds, Dopefishes, Arachnuts, Stunned4, Shots
<1>3. SmirkyRows[a].collide \in Named4(Kind4(a))
  BY DEF SmirkyActs, SmirkyRows, Row, Named4, Kind4, Birds, Dopefishes, Arachnuts, Stunned4, Shots
<1>4. SmirkyRows[a].draw \in Named4(Kind4(a))
  BY DEF SmirkyActs, SmirkyRows, Row, Named4, Kind4, Birds, Dopefishes, Arachnuts, Stunned4, Shots
<1>5. \A n \in SmirkyRows[a].next : n # "NULL" /\ a \notin Breaks => n \in SmirkyActs /\ Kind4(n) = Kind4(a)
  BY SMTT(30) DEF SmirkyActs, SmirkyRows, Row, Breaks, Kind4, Birds, Dopefishes, Arachnuts, Stunned4, Shots
<1>6. a \notin Special
  BY DEF SmirkyActs, Special, Breaks
<1> QED  BY <1>1, <1>2, <1>3, <1>4, <1>5, <1>6 DEF Sound, Served, Followed, Timed, Special

LEMMA FishSound == ASSUME NEW a \in FishActs PROVE Sound(4, a, FishRows[a])
<1>1. /\ FishActs \subseteq ActsOf(4)
      /\ \A x : Kind(4, x) = Kind4(x) /\ Named(4, x) = Named4(x)
  BY DEF ActsOf, Kind, Named, Acts4
<1>2. FishRows[a].think \in Named4(Kind4(a))
  BY DEF FishActs, FishRows, Row, Named4, Kind4, Birds, Dopefishes, Arachnuts, Stunned4, Shots
<1>3. FishRows[a].collide \in Named4(Kind4(a))
  BY DEF FishActs, FishRows, Row, Named4, Kind4, Birds, Dopefishes, Arachnuts, Stunned4, Shots
<1>4. FishRows[a].draw \in Named4(Kind4(a))
  BY DEF FishActs, FishRows, Row, Named4, Kind4, Birds, Dopefishes, Arachnuts, Stunned4, Shots
<1>5. \A n \in FishRows[a].next : n # "NULL" /\ a \notin Breaks => n \in FishActs /\ Kind4(n) = Kind4(a)
  BY SMTT(30) DEF FishActs, FishRows, Row, Breaks, Kind4, Birds, Dopefishes, Arachnuts, Stunned4, Shots
<1>6. a \in Special => a \in {"DopefishBurp3", "KeenEaten0", "SchoolfishEaten0"}
  BY DEF FishActs, Special, Breaks
<1>7. FishRows["DopefishBurp3"] = Row("frame", "CK4_DopefishAfterBurp", "NULL", "CK_BasicDrawFunc1", {"DopefishSwim0"})
  BY DEF FishActs, FishRows
<1>8. FishRows["KeenEaten0"] = Row("frame", "NULL", "NULL", "CK_BasicDrawFunc1", {"KeenEaten1"})
  BY DEF FishActs, FishRows
<1>9. FishRows["SchoolfishEaten0"] = Row("frame", "NULL", "NULL", "CK_BasicDrawFunc1", {"NULL"})
  BY DEF FishActs, FishRows
<1>10. Timed(a, FishRows[a])
  BY <1>6, <1>7, <1>8, <1>9 DEF Timed, Row, Followers
<1> QED  BY <1>1, <1>2, <1>3, <1>4, <1>5, <1>10 DEF Sound, Served, Followed

LEMMA SpriteSound == ASSUME NEW a \in SpriteActs PROVE Sound(4, a, SpriteRows[a])
<1>1. /\ SpriteActs \subseteq ActsOf(4)
      /\ \A x : Kind(4, x) = Kind4(x) /\ Named(4, x) = Named4(x)
  BY DEF ActsOf, Kind, Named, Acts4
<1>2. SpriteRows[a].think \in Named4(Kind4(a))
  BY DEF SpriteActs, SpriteRows, Row, Named4, Kind4, Birds, Dopefishes, Arachnuts, Stunned4, Shots
<1>3. SpriteRows[a].collide \in Named4(Kind4(a))
  BY DEF SpriteActs, SpriteRows, Row, Named4, Kind4, Birds, Dopefishes, Arachnuts, Stunned4, Shots
<1>4. SpriteRows[a].draw \in Named4(Kind4(a))
  BY DEF SpriteActs, SpriteRows, Row, Named4, Kind4, Birds, Dopefishes, Arachnuts, Stunned4, Shots
<1>5. \A n \in SpriteRows[a].next : n # "NULL" /\ a \notin Breaks => n \in SpriteActs /\ Kind4(n) = Kind4(a)
  BY SMTT(30) DEF SpriteActs, SpriteRows, Row, Breaks, Kind4, Birds, Dopefishes, Arachnuts, Stunned4, Shots
<1>6. a \notin Special
  BY DEF SpriteActs, Special, Breaks
<1> QED  BY <1>1, <1>2, <1>3, <1>4, <1>5, <1>6 DEF Sound, Served, Followed, Timed, Special

LEMMA Common5Sound == ASSUME NEW a \in CommonActs PROVE Sound(5, a, CommonRows[a])
<1>1. /\ CommonActs \subseteq ActsOf(5)
      /\ \A x : Kind(5, x) = Kind5(x) /\ Named(5, x) = Named5(x)
  BY DEF ActsOf, Kind, Named, Acts5
<1>2. CommonRows[a].think \in Named5(Kind5(a))
  BY DEF CommonActs, CommonRows, Row, Named5, Kind5, Sparkies, Amptons, Shikadis, Shocksunds, Stunned5, Shots
<1>3. CommonRows[a].collide \in Named5(Kind5(a))
  BY DEF CommonActs, CommonRows, Row, Named5, Kind5, Sparkies, Amptons, Shikadis, Shocksunds, Stunned5, Shots
<1>4. CommonRows[a].draw \in Named5(Kind5(a))
  BY DEF CommonActs, CommonRows, Row, Named5, Kind5, Sparkies, Amptons, Shikadis, Shocksunds, Stunned5, Shots
<1>5. \A n \in CommonRows[a].next : n # "NULL" /\ a \notin Breaks => n \in CommonActs /\ Kind5(n) = Kind5(a)
  BY SMTT(30) DEF CommonActs, CommonRows, Row, Breaks, Kind5, Sparkies, Amptons, Shikadis, Shocksunds, Stunned5, Shots
<1>6. a \in Special => a = "keenStunned0"
  BY DEF CommonActs, Special, Breaks
<1>7. CommonRows["keenStunned0"] = Row("once", "CK_Fall", "NULL", "NULL", {"keenStanding"})
  BY DEF CommonActs, CommonRows
<1>8. Timed(a, CommonRows[a])
  BY <1>6, <1>7 DEF Timed, Row, Followers
<1> QED  BY <1>1, <1>2, <1>3, <1>4, <1>5, <1>8 DEF Sound, Served, Followed

LEMMA Fixture5Sound == ASSUME NEW a \in Fixture5Acts PROVE Sound(5, a, Fixture5Rows[a])
<1>1. /\ Fixture5Acts \subseteq ActsOf(5)
      /\ \A x : Kind(5, x) = Kind5(x) /\ Named(5, x) = Named5(x)
  BY DEF ActsOf, Kind, Named, Acts5
<1>2. Fixture5Rows[a].think \in Named5(Kind5(a))
  BY DEF Fixture5Acts, Fixture5Rows, Row, Named5, Kind5, Sparkies, Amptons, Shikadis, Shocksunds, Stunned5, Shots
<1>3. Fixture5Rows[a].collide \in Named5(Kind5(a))
  BY DEF Fixture5Acts, Fixture5Rows, Row, Named5, Kind5, Sparkies, Amptons, Shikadis, Shocksunds, Stunned5, Shots
<1>4. Fixture5Rows[a].draw \in Named5(Kind5(a))
  BY DEF Fixture5Acts, Fixture5Rows, Row, Named5, Kind5, Sparkies, Amptons, Shikadis, Shocksunds, Stunned5, Shots
<1>5. \A n \in Fixture5Rows[a].next : n # "NULL" /\ a \notin Breaks => n \in Fixture5Acts /\ Kind5(n) = Kind5(a)
  BY SMTT(30) DEF Fixture5Acts, Fixture5Rows, Row, Breaks, Kind5, Sparkies, Amptons, Shikadis, Shocksunds, Stunned5, Shots
<1>6. a \notin Special
  BY DEF Fixture5Acts, Special, Breaks
<1> QED  BY <1>1, <1>2, <1>3, <1>4, <1>5, <1>6 DEF Sound, Served, Followed, Timed, Special

LEMMA SparkySound == ASSUME NEW a \in SparkyActs PROVE Sound(5, a, SparkyRows[a])
<1>1. /\ SparkyActs \subseteq ActsOf(5)
      /\ \A x : Kind(5, x) = Kind5(x) /\ Named(5, x) = Named5(x)
  BY DEF ActsOf, Kind, Named, Acts5
<1>2. SparkyRows[a].think \in Named5(Kind5(a))
  BY DEF SparkyActs, SparkyRows, Row, Named5, Kind5, Sparkies, Amptons, Shikadis, Shocksunds, Stunned5, Shots
<1>3. SparkyRows[a].collide \in Named5(Kind5(a))
  BY DEF SparkyActs, SparkyRows, Row, Named5, Kind5, Sparkies, Amptons, Shikadis, Shocksunds, Stunned5, Shots
<1>4. SparkyRows[a].draw \in Named5(Kind5(a))
  BY DEF SparkyActs, SparkyRows, Row, Named5, Kind5, Sparkies, Amptons, Shikadis, Shocksunds, Stunned5, Shots
<1>5. \A n \in SparkyRows[a].next : n # "NULL" /\ a \notin Breaks => n \in SparkyActs /\ Kind5(n) = Kind5(a)
  BY SMTT(30) DEF SparkyActs, SparkyRows, Row, Breaks, Kind5, Sparkies, Amptons, Shikadis, Shocksunds, Stunned5, Shots
<1>6. a \notin Special
  BY DEF SparkyActs, Special, Breaks
<1> QED  BY <1>1, <1>2, <1>3, <1>4, <1>5, <1>6 DEF Sound, Served, Followed, Timed, Special

LEMMA AmptonSound == ASSUME NEW a \in AmptonActs PROVE Sound(5, a, AmptonRows[a])
<1>1. /\ AmptonActs \subseteq ActsOf(5)
      /\ \A x : Kind(5, x) = Kind5(x) /\ Named(5, x) = Named5(x)
  BY DEF ActsOf, Kind, Named, Acts5
<1>2. AmptonRows[a].think \in Named5(Kind5(a))
  BY DEF AmptonActs, AmptonRows, Row, Named5, Kind5, Sparkies, Amptons, Shikadis, Shocksunds, Stunned5, Shots
<1>3. AmptonRows[a].collide \in Named5(Kind5(a))
  BY DEF AmptonActs, AmptonRows, Row, Named5, Kind5, Sparkies, Amptons, Shikadis, Shocksunds, Stunned5, Shots
<1>4. AmptonRows[a].draw \in Named5(Kind5(a))
  BY DEF AmptonActs, AmptonRows, Row, Named5, Kind5, Sparkies, Amptons, Shikadis, Shocksunds, Stunned5, Shots
<1>5. \A n \in AmptonRows[a].next : n # "NULL" /\ a \notin Breaks => n \in AmptonActs /\ Kind5(n) = Kind5(a)
  BY SMTT(30) DEF AmptonActs, AmptonRows, Row, Breaks, Kind5, Sparkies, Amptons, Shikadis, Shocksunds, Stunned5, Shots
<1>6. a \notin Special
  BY DEF AmptonActs, Special, Breaks
<1> QED  BY <1>1, <1>2, <1>3, <1>4, <1>5, <1>6 DEF Sound, Served, Followed, Timed, Special

LEMMA ShellySound == ASSUME NEW a \in ShellyActs PROVE Sound(5, a, ShellyRows[a])
<1>1. /\ ShellyActs \subseteq ActsOf(5)
      /\ \A x : Kind(5, x) = Kind5(x) /\ Named(5, x) = Named5(x)
  BY DEF ActsOf, Kind, Named, Acts5
<1>2. ShellyRows[a].think \in Named5(Kind5(a))
  BY DEF ShellyActs, ShellyRows, Row, Named5, Kind5, Sparkies, Amptons, Shikadis, Shocksunds, Stunned5, Shots
<1>3. ShellyRows[a].collide \in Named5(Kind5(a))
  BY DEF ShellyActs, ShellyRows, Row, Named5, Kind5, Sparkies, Amptons, Shikadis, Shocksunds, Stunned5, Shots
<1>4. ShellyRows[a].draw \in Named5(Kind5(a))
  BY DEF ShellyActs, ShellyRows, Row, Named5, Kind5, Sparkies, Amptons, Shikadis, Shocksunds, Stunned5, Shots
<1>5. \A n \in ShellyRows[a].next : n # "NULL" /\ a \notin Breaks => n \in ShellyActs /\ Kind5(n) = Kind5(a)
  BY SMTT(30) DEF ShellyActs, ShellyRows, Row, Breaks, Kind5, Sparkies, Amptons, Shikadis, Shocksunds, Stunned5, Shots
<1>6. a \notin Special
  BY DEF ShellyActs, Special, Breaks
<1> QED  BY <1>1, <1>2, <1>3, <1>4, <1>5, <1>6 DEF Sound, Served, Followed, Timed, Special

LEMMA RoboSound == ASSUME NEW a \in RoboActs PROVE Sound(5, a, RoboRows[a])
<1>1. /\ RoboActs \cup SpirogripActs \subseteq ActsOf(5)
      /\ \A x : Kind(5, x) = Kind5(x) /\ Named(5, x) = Named5(x)
  BY DEF ActsOf, Kind, Named, Acts5
<1>2. RoboRows[a].think \in Named5(Kind5(a))
  BY DEF RoboActs, RoboRows, Row, Named5, Kind5, Sparkies, Amptons, Shikadis, Shocksunds, Stunned5, Shots
<1>3. RoboRows[a].collide \in Named5(Kind5(a))
  BY DEF RoboActs, RoboRows, Row, Named5, Kind5, Sparkies, Amptons, Shikadis, Shocksunds, Stunned5, Shots
<1>4. RoboRows[a].draw \in Named5(Kind5(a))
  BY DEF RoboActs, RoboRows, Row, Named5, Kind5, Sparkies, Amptons, Shikadis, Shocksunds, Stunned5, Shots
<1>5. \A n \in RoboRows[a].next : n # "NULL" /\ a \notin Breaks => n \in RoboActs \cup SpirogripActs /\ Kind5(n) = Kind5(a)
  BY SMTT(30) DEF RoboActs, SpirogripActs, RoboRows, Row, Breaks, Kind5, Sparkies, Amptons, Shikadis, Shocksunds, Stunned5, Shots
<1>6. a \notin Special
  BY DEF RoboActs, Special, Breaks
<1> QED  BY <1>1, <1>2, <1>3, <1>4, <1>5, <1>6 DEF Sound, Served, Followed, Timed, Special

LEMMA SpirogripSound == ASSUME NEW a \in SpirogripActs PROVE Sound(5, a, SpirogripRows[a])
<1>1. /\ RoboActs \cup SpirogripActs \subseteq ActsOf(5)
      /\ \A x : Kind(5, x) = Kind5(x) /\ Named(5, x) = Named5(x)
  BY DEF ActsOf, Kind, Named, Acts5
<1>2. SpirogripRows[a].think \in Named5(Kind5(a))
  BY DEF SpirogripActs, SpirogripRows, Row, Named5, Kind5, Sparkies, Amptons, Shikadis, Shocksunds, Stunned5, Shots
<1>3. SpirogripRows[a].collide \in Named5(Kind5(a))
  BY DEF SpirogripActs, SpirogripRows, Row, Named5, Kind5, Sparkies, Amptons, Shikadis, Shocksunds, Stunned5, Shots
<1>4. SpirogripRows[a].draw \in Named5(Kind5(a))
  BY DEF SpirogripActs, SpirogripRows, Row, Named5, Kind5, Sparkies, Amptons, Shikadis, Shocksunds, Stunned5, Shots
<1>5. \A n \in SpirogripRows[a].next : n # "NULL" /\ a \notin Breaks => n \in RoboActs \cup SpirogripActs /\ Kind5(n) = Kind5(a)
  BY SMTT(30) DEF RoboActs, SpirogripActs, SpirogripRows, Row, Breaks, Kind5, Sparkies, Amptons, Shikadis, Shocksunds, Stunned5, Shots
<1>6. a \notin Special
  BY DEF SpirogripActs, Special, Breaks
<1> QED  BY <1>1, <1>2, <1>3, <1>4, <1>5, <1>6 DEF Sound, Served, Followed, Timed, Special

LEMMA MasterSound == ASSUME NEW a \in MasterActs PROVE Sound(5, a, MasterRows[a])
<1>1. /\ MasterActs \subseteq ActsOf(5)
      /\ \A x : Kind(5, x) = Kind5(x) /\ Named(5, x) = Named5(x)
  BY DEF ActsOf, Kind, Named, Acts5
<1>2. MasterRows[a].think \in Named5(Kind5(a))
  BY DEF MasterActs, MasterRows, Row, Named5, Kind5, Sparkies, Amptons, Shikadis, Shocksunds, Stunned5, Shots
<1>3. MasterRows[a].collide \in Named5(Kind5(a))
  BY DEF MasterActs, MasterRows, Row, Named5, Kind5, Sparkies, Amptons, Shikadis, Shocksunds, Stunned5, Shots
<1>4. MasterRows[a].draw \in Named5(Kind5(a))
  BY DEF MasterActs, MasterRows, Row, Named5, Kind5, Sparkies, Amptons, Shikadis, Shocksunds, Stunned5, Shots
<1>5. \A n \in MasterRows[a].next : n # "NULL" /\ a \notin Breaks => n \in MasterActs /\ Kind5(n) = Kind5(a)
  BY SMTT(30) DEF MasterActs, MasterRows, Row, Breaks, Kind5, Sparkies, Amptons, Shikadis, Shocksunds, Stunned5, Shots
<1>6. a \notin Special
  BY DEF MasterActs, Special, Breaks
<1> QED  BY <1>1, <1>2, <1>3, <1>4, <1>5, <1>6 DEF Sound, Served, Followed, Timed, Special

LEMMA ShikadiSound == ASSUME NEW a \in ShikadiActs PROVE Sound(5, a, ShikadiRows[a])
<1>1. /\ ShikadiActs \subseteq ActsOf(5)
      /\ \A x : Kind(5, x) = Kind5(x) /\ Named(5, x) = Named5(x)
  BY DEF ActsOf, Kind, Named, Acts5
<1>2. ShikadiRows[a].think \in Named5(Kind5(a))
  BY DEF ShikadiActs, ShikadiRows, Row, Named5, Kind5, Sparkies, Amptons, Shikadis, Shocksunds, Stunned5, Shots
<1>3. ShikadiRows[a].collide \in Named5(Kind5(a))
  BY DEF ShikadiActs, ShikadiRows, Row, Named5, Kind5, Sparkies, Amptons, Shikadis, Shocksunds, Stunned5, Shots
<1>4. ShikadiRows[a].draw \in Named5(Kind5(a))
  BY DEF ShikadiActs, ShikadiRows, Row, Named5, Kind5, Sparkies, Amptons, Shikadis, Shocksunds, Stunned5, Shots
<1>5. \A n \in ShikadiRows[a].next : n # "NULL" /\ a \notin Breaks => n \in ShikadiActs /\ Kind5(n) = Kind5(a)
  BY SMTT(30) DEF ShikadiActs, ShikadiRows, Row, Breaks, Kind5, Sparkies, Amptons, Shikadis, Shocksunds, Stunned5, Shots
<1>6. a \notin Special
  BY DEF ShikadiActs, Special, Breaks
<1> QED  BY <1>1, <1>2, <1>3, <1>4, <1>5, <1>6 DEF Sound, Served, Followed, Timed, Special

LEMMA Common6Sound == ASSUME NEW a \in CommonActs PROVE Sound(6, a, CommonRows[a])
<1>1. /\ CommonActs \subseteq ActsOf(6)
      /\ \A x : Kind(6, x) = Kind6(x) /\ Named(6, x) = Named6(x)
  BY DEF ActsOf, Kind, Named, Acts6
<1>2. CommonRows[a].think \in Named6(Kind6(a))
  BY DEF CommonActs, CommonRows, Row, Named6, Kind6, Guards, Blooglets, Falling, Flects, Fleexes, Bobbas, Babobbas, Ceilicks, Stunned6, Shots
<1>3. CommonRows[a].collide \in Named6(Kind6(a))
  BY DEF CommonActs, CommonRows, Row, Named6, Kind6, Guards, Blooglets, Falling, Flects, Fleexes, Bobbas, Babobbas, Ceilicks, Stunned6, Shots
<1>4. CommonRows[a].draw \in Named6(Kind6(a))
  BY DEF CommonActs, CommonRows, Row, Named6, Kind6, Guards, Blooglets, Falling, Flects, Fleexes, Bobbas, Babobbas, Ceilicks, Stunned6, Shots
<1>5. \A n \in CommonRows[a].next : n # "NULL" /\ a \notin Breaks => n \in CommonActs /\ Kind6(n) = Kind6(a)
  BY SMTT(30) DEF CommonActs, CommonRows, Row, Breaks, Kind6, Guards, Blooglets, Falling, Flects, Fleexes, Bobbas, Babobbas, Ceilicks, Stunned6, Shots
<1>6. a \in Special => a = "keenStunned0"
  BY DEF CommonActs, Special, Breaks
<1>7. CommonRows["keenStunned0"] = Row("once", "CK_Fall", "NULL", "NULL", {"keenStanding"})
  BY DEF CommonActs, CommonRows
<1>8. Timed(a, CommonRows[a])
  BY <1>6, <1>7 DEF Timed, Row, Followers
<1> QED  BY <1>1, <1>2, <1>3, <1>4, <1>5, <1>8 DEF Sound, Served, Followed

LEMMA Fixture6Sound == ASSUME NEW a \in Fixture6Acts PROVE Sound(6, a, Fixture6Rows[a])
<1>1. /\ Fixture6Acts \subseteq ActsOf(6)
      /\ \A x : Kind(6, x) = Kind6(x) /\ Named(6, x) = Named6(x)
  BY DEF ActsOf, Kind, Named, Acts6
<1>2. Fixture6Rows[a].think \in Named6(Kind6(a))
  BY DEF Fixture6Acts, Fixture6Rows, Row, Named6, Kind6, Guards, Blooglets, Falling, Flects, Fleexes, Bobbas, Babobbas, Ceilicks, Stunned6, Shots
<1>3. Fixture6Rows[a].collide \in Named6(Kind6(a))
  BY DEF Fixture6Acts, Fixture6Rows, Row, Named6, Kind6, Guards, Blooglets, Falling, Flects, Fleexes, Bobbas, Babobbas, Ceilicks, Stunned6, Shots
<1>4. Fixture6Rows[a].draw \in Named6(Kind6(a))
  BY DEF Fixture6Acts, Fixture6Rows, Row, Named6, Kind6, Guards, Blooglets, Falling, Flects, Fleexes, Bobbas, Babobbas, Ceilicks, Stunned6, Shots
<1>5. \A n \in Fixture6Rows[a].next : n # "NULL" /\ a \notin Breaks => n \in Fixture6Acts /\ Kind6(n) = Kind6(a)
  BY SMTT(30) DEF Fixture6Acts, Fixture6Rows, Row, Breaks, Kind6, Guards, Blooglets, Falling, Flects, Fleexes, Bobbas, Babobbas, Ceilicks, Stunned6, Shots
<1>6. a \notin Special
  BY DEF Fixture6Acts, Special, Breaks
<1> QED  BY <1>1, <1>2, <1>3, <1>4, <1>5, <1>6 DEF Sound, Served, Followed, Timed, Special

LEMMA BloogSound == ASSUME NEW a \in BloogActs PROVE Sound(6, a, BloogRows[a])
<1>1. /\ BloogActs \subseteq ActsOf(6)
      /\ \A x : Kind(6, x) = Kind6(x) /\ Named(6, x) = Named6(x)
  BY DEF ActsOf, Kind, Named, Acts6
<1>2. BloogRows[a].think \in Named6(Kind6(a))
  BY DEF BloogActs, BloogRows, Row, Named6, Kind6, Guards, Blooglets, Falling, Flects, Fleexes, Bobbas, Babobbas, Ceilicks, Stunned6, Shots
<1>3. BloogRows[a].collide \in Named6(Kind6(a))
  BY DEF BloogActs, BloogRows, Row, Named6, Kind6, Guards, Blooglets, Falling, Flects, Fleexes, Bobbas, Babobbas, Ceilicks, Stunned6, Shots
<1>4. BloogRows[a].draw \in Named6(Kind6(a))
  BY DEF BloogActs, BloogRows, Row, Named6, Kind6, Guards, Blooglets, Falling, Flects, Fleexes, Bobbas, Babobbas, Ceilicks, Stunned6, Shots
<1>5. \A n \in BloogRows[a].next : n # "NULL" /\ a \notin Breaks => n \in BloogActs /\ Kind6(n) = Kind6(a)
  BY SMTT(30) DEF BloogActs, BloogRows, Row, Breaks, Kind6, Guards, Blooglets, Falling, Flects, Fleexes, Bobbas, Babobbas, Ceilicks, Stunned6, Shots
<1>6. a \notin Special
  BY DEF BloogActs, Special, Breaks
<1> QED  BY <1>1, <1>2, <1>3, <1>4, <1>5, <1>6 DEF Sound, Served, Followed, Timed, Special

LEMMA NospikeSound == ASSUME NEW a \in NospikeActs PROVE Sound(6, a, NospikeRows[a])
<1>1. /\ NospikeActs \subseteq ActsOf(6)
      /\ \A x : Kind(6, x) = Kind6(x) /\ Named(6, x) = Named6(x)
  BY DEF ActsOf, Kind, Named, Acts6
<1>2. NospikeRows[a].think \in Named6(Kind6(a))
  BY DEF NospikeActs, NospikeRows, Row, Named6, Kind6, Guards, Blooglets, Falling, Flects, Fleexes, Bobbas, Babobbas, Ceilicks, Stunned6, Shots
<1>3. NospikeRows[a].collide \in Named6(Kind6(a))
  BY DEF NospikeActs, NospikeRows, Row, Named6, Kind6, Guards, Blooglets, Falling, Flects, Fleexes, Bobbas, Babobbas, Ceilicks, Stunned6, Shots
<1>4. NospikeRows[a].draw \in Named6(Kind6(a))
  BY DEF NospikeActs, NospikeRows, Row, Named6, Kind6, Guards, Blooglets, Falling, Flects, Fleexes, Bobbas, Babobbas, Ceilicks, Stunned6, Shots
<1>5. \A n \in NospikeRows[a].next : n # "NULL" /\ a \notin Breaks => n \in NospikeActs /\ Kind6(n) = Kind6(a)
  BY SMTT(30) DEF NospikeActs, NospikeRows, Row, Breaks, Kind6, Guards, Blooglets, Falling, Flects, Fleexes, Bobbas, Babobbas, Ceilicks, Stunned6, Shots
<1>6. a \notin Special
  BY DEF NospikeActs, Special, Breaks
<1> QED  BY <1>1, <1>2, <1>3, <1>4, <1>5, <1>6 DEF Sound, Served, Followed, Timed, Special

LEMMA OrbatrixSound == ASSUME NEW a \in OrbatrixActs PROVE Sound(6, a, OrbatrixRows[a])
<1>1. /\ OrbatrixActs \subseteq ActsOf(6)
      /\ \A x : Kind(6, x) = Kind6(x) /\ Named(6, x) = Named6(x)
  BY DEF ActsOf, Kind, Named, Acts6
<1>2. OrbatrixRows[a].think \in Named6(Kind6(a))
  BY DEF OrbatrixActs, OrbatrixRows, Row, Named6, Kind6, Guards, Blooglets, Falling, Flects, Fleexes, Bobbas, Babobbas, Ceilicks, Stunned6, Shots
<1>3. OrbatrixRows[a].collide \in Named6(Kind6(a))
  BY DEF OrbatrixActs, OrbatrixRows, Row, Named6, Kind6, Guards, Blooglets, Falling, Flects, Fleexes, Bobbas, Babobbas, Ceilicks, Stunned6, Shots
<1>4. OrbatrixRows[a].draw \in Named6(Kind6(a))
  BY DEF OrbatrixActs, OrbatrixRows, Row, Named6, Kind6, Guards, Blooglets, Falling, Flects, Fleexes, Bobbas, Babobbas, Ceilicks, Stunned6, Shots
<1>5. \A n \in OrbatrixRows[a].next : n # "NULL" /\ a \notin Breaks => n \in OrbatrixActs /\ Kind6(n) = Kind6(a)
  BY SMTT(30) DEF OrbatrixActs, OrbatrixRows, Row, Breaks, Kind6, Guards, Blooglets, Falling, Flects, Fleexes, Bobbas, Babobbas, Ceilicks, Stunned6, Shots
<1>6. a \in Special => a = "OrbatrixCurl2"
  BY DEF OrbatrixActs, Special, Breaks
<1>7. OrbatrixRows["OrbatrixCurl2"] = Row("frame", "CK6_OrbatrixCurl", "CK6_OrbatrixCol", "CK6_OrbatrixDraw", {"OrbatrixBounce0"})
  BY DEF OrbatrixActs, OrbatrixRows
<1>8. Timed(a, OrbatrixRows[a])
  BY <1>6, <1>7 DEF Timed, Row, Followers
<1> QED  BY <1>1, <1>2, <1>3, <1>4, <1>5, <1>8 DEF Sound, Served, Followed

LEMMA FleexSound == ASSUME NEW a \in FleexActs PROVE Sound(6, a, FleexRows[a])
<1>1. /\ FleexActs \subseteq ActsOf(6)
      /\ \A x : Kind(6, x) = Kind6(x) /\ Named(6, x) = Named6(x)
  BY DEF ActsOf, Kind, Named, Acts6
<1>2. FleexRows[a].think \in Named6(Kind6(a))
  BY DEF FleexActs, FleexRows, Row, Named6, Kind6, Guards, Blooglets, Falling, Flects, Fleexes, Bobbas, Babobbas, Ceilicks, Stunned6, Shots
<1>3. FleexRows[a].collide \in Named6(Kind6(a))
  BY DEF FleexActs, FleexRows, Row, Named6, Kind6, Guards, Blooglets, Falling, Flects, Fleexes, Bobbas, Babobbas, Ceilicks, Stunned6, Shots
<1>4. FleexRows[a].draw \in Named6(Kind6(a))
  BY DEF FleexActs, FleexRows, Row, Named6, Kind6, Guards, Blooglets, Falling, Flects, Fleexes, Bobbas, Babobbas, Ceilicks, Stunned6, Shots
<1>5. \A n \in FleexRows[a].next : n # "NULL" /\ a \notin Breaks => n \in FleexActs /\ Kind6(n) = Kind6(a)
  BY SMTT(30) DEF FleexActs, FleexRows, Row, Breaks, Kind6, Guards, Blooglets, Falling, Flects, Fleexes, Bobbas, Babobbas, Ceilicks, Stunned6, Shots
<1>6. a \notin Special
  BY DEF FleexActs, Special, Breaks
<1> QED  BY <1>1, <1>2, <1>3, <1>4, <1>5, <1>6 DEF Sound, Served, Followed, Timed, Special

LEMMA BobbaSound == ASSUME NEW a \in BobbaActs PROVE Sound(6, a, BobbaRows[a])
<1>1. /\ BobbaActs \subseteq ActsOf(6)
      /\ \A x : Kind(6, x) = Kind6(x) /\ Named(6, x) = Named6(x)
  BY DEF ActsOf, Kind, Named, Acts6
<1>2. BobbaRows[a].think \in Named6(Kind6(a))
  BY DEF BobbaActs, BobbaRows, Row, Named6, Kind6, Guards, Blooglets, Falling, Flects, Fleexes, Bobbas, Babobbas, Ceilicks, Stunned6, Shots
<1>3. BobbaRows[a].collide \in Named6(Kind6(a))
  BY DEF BobbaActs, BobbaRows, Row, Named6, Kind6, Guards, Blooglets, Falling, Flects, Fleexes, Bobbas, Babobbas, Ceilicks, Stunned6, Shots
<1>4. BobbaRows[a].draw \in Named6(Kind6(a))
  BY DEF BobbaActs, BobbaRows, Row, Named6, Kind6, Guards, Blooglets, Falling, Flects, Fleexes, Bobbas, Babobbas, Ceilicks, Stunned6, Shots
<1>5. \A n \in BobbaRows[a].next : n # "NULL" /\ a \notin Breaks => n \in BobbaActs /\ Kind6(n) = Kind6(a)
  BY SMTT(30) DEF BobbaActs, BobbaRows, Row, Breaks, Kind6, Guards, Blooglets, Falling, Flects, Fleexes, Bobbas, Babobbas, Ceilicks, Stunned6, Shots
<1>6. a \notin Special
  BY DEF BobbaActs, Special, Breaks
<1> QED  BY <1>1, <1>2, <1>3, <1>4, <1>5, <1>6 DEF Sound, Served, Followed, Timed, Special

LEMMA CeilickSound == ASSUME NEW a \in CeilickActs PROVE Sound(6, a, CeilickRows[a])
<1>1. /\ CeilickActs \subseteq ActsOf(6)
      /\ \A x : Kind(6, x) = Kind6(x) /\ Named(6, x) = Named6(x)
  BY DEF ActsOf, Kind, Named, Acts6
<1>2. CeilickRows[a].think \in Named6(Kind6(a))
  BY DEF CeilickActs, CeilickRows, Row, Named6, Kind6, Guards, Blooglets, Falling, Flects, Fleexes, Bobbas, Babobbas, Ceilicks, Stunned6, Shots
<1>3. CeilickRows[a].collide \in Named6(Kind6(a))
  BY DEF CeilickActs, CeilickRows, Row, Named6, Kind6, Guards, Blooglets, Falling, Flects, Fleexes, Bobbas, Babobbas, Ceilicks, Stunned6, Shots
<1>4. CeilickRows[a].draw \in Named6(Kind6(a))
  BY DEF CeilickActs, CeilickRows, Row, Named6, Kind6, Guards, Blooglets, Falling, Flects, Fleexes, Bobbas, Babobbas, Ceilicks, Stunned6, Shots
<1>5. \A n \in CeilickRows[a].next : n # "NULL" /\ a \notin Breaks => n \in CeilickActs /\ Kind6(n) = Kind6(a)
  BY SMTT(30) DEF CeilickActs, CeilickRows, Row, Breaks, Kind6, Guards, Blooglets, Falling, Flects, Fleexes, Bobbas, Babobbas, Ceilicks, Stunned6, Shots
<1>6. a \notin Special
  BY DEF CeilickActs, Special, Breaks
<1> QED  BY <1>1, <1>2, <1>3, <1>4, <1>5, <1>6 DEF Sound, Served, Followed, Timed, Special

\* The tables of the three episodes are made of these groups.
LEMMA Actions4Sound == \A a \in Acts4 : Sound(4, a, Actions4[a])
  BY SlugSound, BirdSound, ArachnutSound, CloudSound, FootSound, SmirkySound, FishSound, SpriteSound DEF Acts4, Actions4

LEMMA Actions5Sound == \A a \in Acts5 : Sound(5, a, Actions5[a])
  BY Fixture5Sound, SparkySound, AmptonSound, ShellySound, RoboSound, SpirogripSound, MasterSound, ShikadiSound DEF Acts5, Actions5

LEMMA Actions6Sound == \A a \in Acts6 : Sound(6, a, Actions6[a])
  BY Fixture6Sound, BloogSound, NospikeSound, OrbatrixSound, FleexSound, BobbaSound, CeilickSound DEF Acts6, Actions6

\* The whole table of an episode.
LEMMA ActionsDomain == ASSUME NEW e \in 4 .. 6 PROVE DOMAIN Actions[e] = ActsOf(e)
<1>2. Actions[e] = IF e = 4 THEN Table4 ELSE IF e = 5 THEN Table5 ELSE Table6
  BY DEF Actions
<1> QED  BY <1>2 DEF Table4, Table5, Table6, ActsOf

LEMMA TableSound == ASSUME NEW e \in 4 .. 6, NEW a \in ActsOf(e) PROVE Sound(e, a, Actions[e][a])
<1>2. Actions[e] = IF e = 4 THEN Table4 ELSE IF e = 5 THEN Table5 ELSE Table6
  BY DEF Actions
<1>3. CASE e = 4
  <2>1. Actions[e][a] = IF a \in Acts4 THEN Actions4[a] ELSE CommonRows[a]
    BY <1>2, <1>3 DEF Table4, ActsOf
  <2> QED  BY <2>1, <1>3, Actions4Sound, Common4Sound DEF ActsOf
<1>4. CASE e = 5
  <2>1. Actions[e][a] = IF a \in Acts5 THEN Actions5[a] ELSE CommonRows[a]
    BY <1>2, <1>4 DEF Table5, ActsOf
  <2> QED  BY <2>1, <1>4, Actions5Sound, Common5Sound DEF ActsOf
<1>5. CASE e = 6
  <2>1. Actions[e][a] = IF a \in Acts6 THEN Actions6[a] ELSE CommonRows[a]
    BY <1>2, <1>5 DEF Table6, ActsOf
  <2> QED  BY <2>1, <1>5, Actions6Sound, Common6Sound DEF ActsOf
<1> QED  BY <1>3, <1>4, <1>5

(***************************************************************************)
(* What steps do to objects.                                               *)
(***************************************************************************)
\* The kinds that say nothing of the type, but something of a counter.
Loose == {"plain", "robo", "burning", "vanishing", "bouncing"}
Akin(k, k2) == TypeOf(k2) = TypeOf(k) \/ {k, k2} \subseteq Loose

KindAt(i) == Kind(ck_currentEpisode, objs[i].act)

\* The actions of an episode, and Keen's object.
LEMMA ActsIn == \A e \in 4 .. 6 : ActsOf(e) \subseteq Acts
  BY DEF Acts

LEMMA ZeroId == 0 \in Ids
  BY CreaturesAssumption DEF Ids

\* What the invariant says of one object, and the table of its action.
LEMMA ObjectAt ==
    ASSUME IndInv, NEW i \in Ids
    PROVE  /\ ck_currentEpisode \in 4 .. 6
           /\ objs \in [Ids -> ObjType] /\ objs[i] \in ObjType
           /\ Good(ck_currentEpisode, objs[i]) /\ Fits(ck_currentEpisode, KindAt(i), objs[i])
           /\ objs[i].act \in ActsOf(ck_currentEpisode)
           /\ Sound(ck_currentEpisode, objs[i].act, Action(i))
<1>1. ck_currentEpisode \in 4 .. 6 /\ World(ck_currentEpisode, objs)
  BY DEF IndInv
<1>2. objs \in [Ids -> ObjType] /\ Good(ck_currentEpisode, objs[i])
  BY <1>1 DEF World
<1>3. objs[i].act \in ActsOf(ck_currentEpisode)
  BY <1>2 DEF Good
<1> QED  BY <1>1, <1>2, <1>3, TableSound DEF Good, Action, KindAt

\* The functions of the table tell the kind of an action.
LEMMA NamedAt ==
    ASSUME IndInv, NEW i \in Ids
    PROVE  /\ ck_currentEpisode = 4 =>
                  {Action(i).think, Action(i).collide, Action(i).draw} \subseteq Named4(KindAt(i))
           /\ ck_currentEpisode = 5 =>
                  {Action(i).think, Action(i).collide, Action(i).draw} \subseteq Named5(KindAt(i))
           /\ ck_currentEpisode = 6 =>
                  {Action(i).think, Action(i).collide, Action(i).draw} \subseteq Named6(KindAt(i))
  BY ObjectAt DEF Sound, Served, Named, KindAt

\* Nothing changes.
LEMMA SelfKeeps == IndInv => Keeps(ck_currentEpisode, objs, objs)
  BY DEF IndInv, Keeps, Turns

\* One object changes.
LEMMA PutKeeps ==
    ASSUME NEW e, NEW before, NEW os, NEW i \in Ids, NEW o, Keeps(e, before, os),
           Good(e, o), Turns(e, before[i], o), i = 0 => o.type \in {"Player", "Friendly"}
    PROVE  Keeps(e, before, [os EXCEPT ![i] = o])
<1> DEFINE new == [os EXCEPT ![i] = o]
<1>1. os \in [Ids -> ObjType] /\ o \in ObjType
  BY DEF Keeps, World, Good
<1>2. new \in [Ids -> ObjType] /\ new[i] = o /\ \A k \in Ids : k # i => new[k] = os[k]
  BY <1>1
<1>3. 0 \in Ids
  BY CreaturesAssumption DEF Ids
<1>4. new[0].type \in {"Player", "Friendly"}
  BY <1>2, <1>3 DEF Keeps, World
<1> HIDE DEF new
<1>5. ASSUME NEW k \in Ids PROVE Good(e, new[k]) /\ Turns(e, before[k], new[k])
  BY <1>2 DEF Keeps, World
<1> QED  BY <1>2, <1>4, <1>5 DEF Keeps, World, new

\* Another action of its kind.
LEMMA ActGood ==
    ASSUME NEW e \in 4 .. 6, NEW o, Good(e, o), NEW act \in ActsOf(e), Kind(e, act) = Kind(e, o.act)
    PROVE  Good(e, [o EXCEPT !.act = act])
<1> DEFINE new == [o EXCEPT !.act = act]
<1>1. o \in ObjType
  BY DEF Good
<1>2. new \in ObjType /\ new.act = act
  BY <1>1, ActsIn DEF ObjType
<1>a. /\ new.type = o.type /\ new.active = o.active /\ new.clipped = o.clipped
      /\ new.user1 = o.user1 /\ new.user2 = o.user2 /\ new.user3 = o.user3
      /\ new.user4 = o.user4 /\ new.hit = o.hit
  BY <1>1 DEF ObjType
<1> HIDE DEF new
<1>3. Fits(e, Kind(e, o.act), o) <=> Fits(e, Kind(e, o.act), new)
  BY <1>a DEF Fits, TypeFits, ClippingFits, CountersFit
<1>4. Good(e, new)
  BY <1>2, <1>3 DEF Good
<1> QED  BY <1>4 DEF new

\* An object that stays of its type and changes its clipping and its counters with its
\* kind.
LEMMA VariesGood ==
    ASSUME NEW e, NEW o, NEW o2 \in ObjType, Good(e, o), o2.act \in ActsOf(e),
           o2.type = o.type, o2.hit = o.hit, o2.active = o.active, o2.user4 = o.user4,
           Kind(e, o2.act) = Kind(e, o.act) \/
              (/\ Akin(Kind(e, o.act), Kind(e, o2.act))
               /\ Kind(e, o.act) \notin Waiting /\ Kind(e, o2.act) \notin Waiting \cup {"eating"}),
           o2.ptr = o.ptr \/ Kind(e, o2.act) # "eating",
           ClippingFits(Kind(e, o2.act), o2.type, o2.active, o2.clipped),
           CountersFit(Kind(e, o2.act), o2.user1, o2.user2, o2.user3)
    PROVE  Good(e, o2) /\ Turns(e, o, o2)
<1> DEFINE k == Kind(e, o.act)
           k2 == Kind(e, o2.act)
<1>1. TypeFits(e, k, o)
  BY DEF Good, Fits
<1> HIDE DEF k, k2
<1>2. TypeFits(e, k2, o2)
  <2>1. CASE k2 = k
    BY <1>1, <2>1 DEF TypeFits
  <2>2. CASE k2 # k
    <3>1. Akin(k, k2)
      BY <2>2 DEF k, k2
    <3>2. CASE {k, k2} \subseteq Loose
      BY <1>1, <3>2 DEF TypeFits, TypeOf, Loose, Bound
    <3>3. CASE TypeOf(k2) = TypeOf(k)
      <4>1. TypeOf(k) \in Bound /\ k \notin {"Arachnut", "stunned", "shot", "eaten"} /\ k2 \notin {"Arachnut", "stunned", "shot", "eaten"}
        BY <2>2, <3>3 DEF TypeOf, Bound
      <4> QED  BY <1>1, <4>1, <3>3 DEF TypeFits
    <3> QED  BY <3>1, <3>2, <3>3 DEF Akin
  <2> QED  BY <2>1, <2>2
<1>3. Good(e, o2)
  BY <1>2 DEF Good, Fits, k2
<1>4. Turns(e, o, o2)
  BY DEF Turns, Waiting
<1> QED  BY <1>3, <1>4

\* The effects of a step are safe where the objects they make of the level are good.
LEMMA SafeBecomes ==
    ASSUME IndInv, NEW os, Keeps(ck_currentEpisode, objs, os), Becomes(os)
    PROVE  SafeStep
  BY DEF IndInv, Becomes, Others, SafeStep

\* A level that ends.
LEMMA SafeEnds ==
    ASSUME IndInv, NEW state \in LevelStates, EndsLevel(objs, state)
    PROVE  SafeStep
  BY SelfKeeps DEF EndsLevel, SafeStep

\* What an action of the kinds that say nothing says: that nothing was stunned, and more of
\* a shot.
LEMMA PlainGood ==
    ASSUME NEW e \in 4 .. 6, NEW o \in ObjType, o.act \in ActsOf(e), Kind(e, o.act) = "plain",
           o.type \in Ordinary \/ o.type = "Player", o.hit = "",
           o.clipped # "simple", o.type = "Player" => o.active = "active"
    PROVE  Good(e, o)
<1>1. Fits(e, "plain", o)
  BY DEF Fits, TypeFits, ClippingFits, CountersFit, TypeOf, Bound, Ordinary
<1> QED  BY <1>1 DEF Good

\* The actions that the three episodes share.
LEMMA CommonKinds ==
    ASSUME NEW e \in 4 .. 6
    PROVE  /\ CommonActs \subseteq ActsOf(e)
           /\ Kind(e, "keenShot1") = "shot" /\ Kind(e, "keenShotHit1") = "shot"
           /\ \A a \in CommonActs \ Shots : Kind(e, a) = "plain"
<1>1. CommonActs \subseteq ActsOf(e)
  BY DEF ActsOf
<1>2. Kind(e, "keenShot1") = "shot" /\ Kind(e, "keenShotHit1") = "shot"
  BY DEF Kind, Kind4, Kind5, Kind6, Birds, Dopefishes, Arachnuts, Stunned4, Shots,
         Sparkies, Amptons, Shikadis, Shocksunds, Stunned5,
         Guards, Blooglets, Falling, Flects, Fleexes, Bobbas, Babobbas, Ceilicks, Stunned6
<1>3. ASSUME NEW a \in CommonActs \ Shots PROVE Kind4(a) = "plain"
  BY DEF CommonActs, Kind4, Birds, Dopefishes, Arachnuts, Stunned4, Shots
<1>4. ASSUME NEW a \in CommonActs \ Shots PROVE Kind5(a) = "plain"
  BY DEF CommonActs, Kind5, Sparkies, Amptons, Shikadis, Shocksunds, Stunned5, Shots
<1>5. ASSUME NEW a \in CommonActs \ Shots PROVE Kind6(a) = "plain"
  BY DEF CommonActs, Kind6, Guards, Blooglets, Falling, Flects, Fleexes, Bobbas, Babobbas, Ceilicks, Stunned6, Shots
<1> QED  BY <1>1, <1>2, <1>3, <1>4, <1>5 DEF Kind

\* New objects of a plain action.
LEMMA ObjGood ==
    ASSUME NEW e \in 4 .. 6, NEW ty \in Ordinary, NEW act \in ActsOf(e),
           NEW ac \in {"active", "onscreen", "always", "inactive"},
           Kind(e, act) = "plain"
    PROVE  Good(e, Obj(ty, act, ac)) /\ Obj(ty, act, ac).type = ty
           /\ Obj(ty, act, ac).act = act
<1> DEFINE o == Obj(ty, act, ac)
<1>1. 0 \in Ids
  BY CreaturesAssumption DEF Ids
<1>2. o.act = act /\ o.type = ty /\ o.hit = "" /\ o.clipped = "normal"
  BY DEF Obj
<1>3. o \in ObjType
  BY <1>1, ActsIn DEF Obj, ObjType, Types
<1> HIDE DEF o
<1>4. ty # "Player"
  BY DEF Ordinary
<1>5. Good(e, o)
  BY <1>2, <1>3, <1>4, PlainGood
<1> QED  BY <1>2, <1>5 DEF o

\* An empty slot.
LEMMA NothingGood == \A e \in 4 .. 6 : Good(e, Nothing) /\ Nothing.type = "Nothing" /\ Kind(e, Nothing.act) = "plain"
<1> SUFFICES ASSUME NEW e \in 4 .. 6
             PROVE  Good(e, Nothing) /\ Nothing.type = "Nothing" /\ Kind(e, Nothing.act) = "plain"
  OBVIOUS
<1>1. "NULL" \in ActsOf(e) /\ Kind(e, "NULL") = "plain"
  BY CommonKinds DEF CommonActs, Shots
<1>2. "Nothing" \in Ordinary
  BY DEF Ordinary
<1>3. Obj("Nothing", "NULL", "inactive").type = "Nothing" /\ Obj("Nothing", "NULL", "inactive").act = "NULL"
      /\ Good(e, Obj("Nothing", "NULL", "inactive"))
  BY <1>1, <1>2, ObjGood
<1> QED  BY <1>1, <1>3 DEF Nothing

\* What waits to be eaten is a fish, or Keen.
LEMMA WaitingType ==
    ASSUME NEW e, NEW o, Good(e, o), Kind(e, o.act) \in Waiting
    PROVE  o.type \in {"Schoolfish", "Friendly"}
  BY DEF Good, Fits, TypeFits, TypeOf, Waiting, Bound

\* Nobody removes Keen, or what waits to be eaten.
LEMMA RemoveKeeps ==
    ASSUME NEW e \in 4 .. 6, NEW before, NEW os, NEW i \in Ids, i # 0, Keeps(e, before, os),
           Kind(e, before[i].act) \notin Waiting
    PROVE  Keeps(e, before, CK_RemoveObj(os, i))
<1>1. Turns(e, before[i], Nothing)
  BY NothingGood DEF Turns, Rare
<1> QED  BY <1>1, NothingGood, PutKeeps DEF CK_RemoveObj

\* A new object that is neither a shot nor one of the rare ones takes a slot or none.
LEMMA NewKeeps ==
    ASSUME NEW e \in 4 .. 6, NEW before, NEW os, NEW obj, Keeps(e, before, os),
           Good(e, obj), obj.type \notin Rare, Kind(e, obj.act) # "eating"
    PROVE  Keeps(e, before, CK_GetNewObj(os, obj))
<1> DEFINE free == {i \in Ids : os[i].type = "Nothing"}
           slot == CHOOSE i \in free : \A j \in free : i <= j
<1>1. CASE free = {}
  BY <1>1 DEF CK_GetNewObj
<1>2. CASE free # {}
  <2>1. free \in SUBSET Nat
    BY CreaturesAssumption DEF Ids
  <2>2. \E i \in free : \A j \in free : i <= j
    <3> HIDE DEF free
    <3> QED  BY <1>2, <2>1, LeastElement
  <2>3. slot \in free
    BY <2>2
  <2> HIDE DEF slot
  <2>4. slot \in Ids /\ os[slot].type = "Nothing"
    BY <2>3
  <2>5. slot # 0
    BY <2>4 DEF Keeps, World
  <2>6. Kind(e, before[slot].act) \notin Waiting
    <3>1. Good(e, os[slot]) /\ Turns(e, before[slot], os[slot])
      BY <2>4 DEF Keeps, World
    <3> QED  BY <3>1, <2>4, WaitingType DEF Turns
  <2>7. Turns(e, before[slot], obj)
    BY <2>6 DEF Turns
  <2>8. Keeps(e, before, [os EXCEPT ![slot] = obj])
    BY <2>4, <2>5, <2>7, PutKeeps
  <2> QED  BY <1>2, <2>8 DEF CK_GetNewObj, slot
<1> QED  BY <1>1, <1>2

\* A new object of a plain action.
LEMMA NewPlainKeeps ==
    ASSUME NEW e \in 4 .. 6, NEW before, NEW os, Keeps(e, before, os),
           NEW ty \in Ordinary, NEW act \in ActsOf(e),
           NEW ac \in {"active", "onscreen", "always", "inactive"},
           Kind(e, act) = "plain"
    PROVE  Keeps(e, before, CK_GetNewObj(os, Obj(ty, act, ac)))
<1>1. ty \notin Rare
  BY DEF Rare, Ordinary
<1>2. Good(e, Obj(ty, act, ac)) /\ Obj(ty, act, ac).type = ty
      /\ Obj(ty, act, ac).act = act
  BY ObjGood
<1> QED  BY <1>1, <1>2, NewKeeps

\* An object takes another action of its kind.
LEMMA ActKeeps ==
    ASSUME NEW e \in 4 .. 6, NEW before, NEW os, NEW i \in Ids, NEW act \in ActsOf(e),
           Keeps(e, before, os), Kind(e, act) = Kind(e, os[i].act)
    PROVE  Keeps(e, before, SetAct(os, i, act))
<1> DEFINE o == [os[i] EXCEPT !.act = act]
<1>1. os \in [Ids -> ObjType] /\ os[i] \in ObjType /\ Good(e, os[i]) /\ Turns(e, before[i], os[i])
  BY DEF Keeps, World
<1>2. Good(e, o)
  BY <1>1, ActGood
<1>3. o.act = act /\ o.type = os[i].type /\ o.ptr = os[i].ptr
  BY <1>1 DEF ObjType
<1>4. SetAct(os, i, act) = [os EXCEPT ![i] = o]
  BY <1>1 DEF SetAct
<1> HIDE DEF o
<1>5. Turns(e, before[i], o)
  BY <1>1, <1>3 DEF Turns
<1>6. i = 0 => o.type \in {"Player", "Friendly"}
  BY <1>3 DEF Keeps, World
<1>7. Keeps(e, before, [os EXCEPT ![i] = o])
  BY <1>2, <1>5, <1>6, PutKeeps
<1> QED  BY <1>4, <1>7

\* The shot that hits.
LEMMA ShotHitKeeps ==
    ASSUME NEW e \in 4 .. 6, NEW before, NEW os, NEW s \in Ids, Keeps(e, before, os),
           os[s].type = "Stunner" \/ Kind(e, os[s].act) = "shot"
    PROVE  /\ Keeps(e, before, CK_ShotHit(os, s))
           /\ CK_ShotHit(os, s)[s].type # "Stunner"
<1> DEFINE o == [os[s] EXCEPT !.type = "Friendly", !.act = "keenShotHit1"]
<1>1. os \in [Ids -> ObjType] /\ os[s] \in ObjType /\ Good(e, os[s]) /\ Turns(e, before[s], os[s])
  BY DEF Keeps, World
<1>2. Kind(e, os[s].act) = "shot"
  BY <1>1 DEF Good, Fits, TypeFits
<1>3. "keenShotHit1" \in ActsOf(e) /\ "keenShotHit1" \in Acts /\ Kind(e, "keenShotHit1") = "shot"
  BY CommonKinds, ActsIn DEF CommonActs
<1>4. "Friendly" \in Types
  BY DEF Types, Ordinary
<1>5. o \in ObjType
  BY <1>1, <1>3, <1>4 DEF ObjType
<1>6. /\ o.type = "Friendly" /\ o.act = "keenShotHit1" /\ o.hit = os[s].hit
      /\ o.active = os[s].active /\ o.clipped = os[s].clipped
  BY <1>1 DEF ObjType
<1>7. CK_ShotHit(os, s) = [os EXCEPT ![s] = o]
  BY <1>1 DEF CK_ShotHit
<1> HIDE DEF o
<1>8. Fits(e, "shot", o)
  <2>1. Fits(e, "shot", os[s])
    BY <1>1, <1>2 DEF Good
  <2> QED  BY <2>1, <1>6 DEF Fits, TypeFits, ClippingFits, CountersFit, TypeOf, Bound
<1>9. Good(e, o)
  BY <1>3, <1>5, <1>6, <1>8 DEF Good
<1>10. Turns(e, before[s], o)
  BY <1>1, <1>2, <1>3, <1>6 DEF Turns, Rare, Waiting
<1>11. Keeps(e, before, [os EXCEPT ![s] = o])
  BY <1>6, <1>9, <1>10, PutKeeps
<1>12. [os EXCEPT ![s] = o][s] = o
  BY <1>1
<1> QED  BY <1>6, <1>7, <1>11, <1>12

\* Keen is not a shot.
LEMMA ShotIsNotKeen == ASSUME NEW e, NEW os, World(e, os), NEW s, os[s].type = "Stunner" PROVE s # 0
  BY DEF World

\* A shot that is spent and nothing else.
LEMMA SafeDeflects ==
    ASSUME IndInv, NEW s \in Ids, Is(s, "Stunner"), Deflects(s)
    PROVE  SafeStep
<1>1. Keeps(ck_currentEpisode, objs, CK_ShotHit(objs, s))
  BY SelfKeeps, ShotHitKeeps, s \in Ids DEF Is, IndInv
<1> QED  BY <1>1, SafeBecomes DEF Deflects

\* What becomes of an object in two parts of a step.
LEMMA TurnsTwice ==
    ASSUME NEW e, NEW o, NEW o2, NEW o3, Turns(e, o, o2), Turns(e, o2, o3)
    PROVE  Turns(e, o, o3)
  BY DEF Turns

\* May object o take this action, with this clipping and these counters?
Suits(e, o, act, clipped, user1, user2, user3) ==
    /\ act \in ActsOf(e)
    /\ \/ Kind(e, act) = Kind(e, o.act)
       \/ /\ Akin(Kind(e, o.act), Kind(e, act))
          /\ Kind(e, o.act) \notin Waiting /\ Kind(e, act) \notin Waiting \cup {"eating"}
    /\ clipped \in {"normal", "simple", "not"}
    /\ user1 \in Int /\ user2 \in Int /\ user3 \in Int
    /\ ClippingFits(Kind(e, act), o.type, o.active, clipped)
    /\ CountersFit(Kind(e, act), user1, user2, user3)

\* An object that takes it.
LEMMA SuitsKeeps ==
    ASSUME NEW e \in 4 .. 6, NEW before, NEW os, NEW i \in Ids, Keeps(e, before, os),
           NEW o \in ObjType, Suits(e, os[i], o.act, o.clipped, o.user1, o.user2, o.user3),
           o.type = os[i].type, o.hit = os[i].hit, o.active = os[i].active,
           o.user4 = os[i].user4, o.ptr = os[i].ptr \/ Kind(e, o.act) # "eating"
    PROVE  Keeps(e, before, [os EXCEPT ![i] = o])
<1>1. Good(e, os[i]) /\ Turns(e, before[i], os[i])
  BY DEF Keeps, World
<1>2. Good(e, o) /\ Turns(e, os[i], o)
  BY <1>1, VariesGood DEF Suits
<1>3. Turns(e, before[i], o)
  BY <1>1, <1>2, TurnsTwice
<1>4. i = 0 => o.type \in {"Player", "Friendly"}
  BY DEF Keeps, World
<1> QED  BY <1>2, <1>3, <1>4, PutKeeps

\* The fields that the functions of the creatures set together.
LEMMA User1Keeps ==
    ASSUME NEW e \in 4 .. 6, NEW before, NEW os, NEW i \in Ids, Keeps(e, before, os),
           NEW u1 \in Int,
           Suits(e, os[i], os[i].act, os[i].clipped, u1, os[i].user2, os[i].user3)
    PROVE  Keeps(e, before, [os EXCEPT ![i].user1 = u1])
<1> DEFINE o == [os[i] EXCEPT !.user1 = u1]
<1>1. os \in [Ids -> ObjType] /\ os[i] \in ObjType
  BY DEF Keeps, World
<1>2. o \in ObjType
  BY <1>1, ActsIn DEF ObjType
<1>3. /\ o.type = os[i].type /\ o.hit = os[i].hit /\ o.active = os[i].active
      /\ o.user4 = os[i].user4 /\ o.act = os[i].act /\ o.clipped = os[i].clipped
      /\ o.user1 = u1 /\ o.user2 = os[i].user2 /\ o.user3 = os[i].user3
      /\ o.ptr = os[i].ptr
  BY <1>1 DEF ObjType
<1>4. [os EXCEPT ![i].user1 = u1] = [os EXCEPT ![i] = o]
  BY <1>1
<1> HIDE DEF o
<1>5. Keeps(e, before, [os EXCEPT ![i] = o])
  BY <1>2, <1>3, SuitsKeeps
<1> QED  BY <1>4, <1>5

LEMMA User1ActKeeps ==
    ASSUME NEW e \in 4 .. 6, NEW before, NEW os, NEW i \in Ids, Keeps(e, before, os),
           NEW u1 \in Int, NEW act \in ActsOf(e),
           Suits(e, os[i], act, os[i].clipped, u1, os[i].user2, os[i].user3)
    PROVE  Keeps(e, before, [os EXCEPT ![i].user1 = u1, ![i].act = act])
<1> DEFINE o == [os[i] EXCEPT !.user1 = u1, !.act = act]
<1>1. os \in [Ids -> ObjType] /\ os[i] \in ObjType
  BY DEF Keeps, World
<1>2. o \in ObjType
  BY <1>1, ActsIn DEF ObjType
<1>3. /\ o.type = os[i].type /\ o.hit = os[i].hit /\ o.active = os[i].active
      /\ o.user4 = os[i].user4 /\ o.act = act /\ o.clipped = os[i].clipped
      /\ o.user1 = u1 /\ o.user2 = os[i].user2 /\ o.user3 = os[i].user3
      /\ o.ptr = os[i].ptr
  BY <1>1 DEF ObjType
<1>4. [os EXCEPT ![i].user1 = u1, ![i].act = act] = [os EXCEPT ![i] = o]
  BY <1>1
<1> HIDE DEF o
<1>5. Keeps(e, before, [os EXCEPT ![i] = o])
  BY <1>2, <1>3, SuitsKeeps
<1> QED  BY <1>4, <1>5

LEMMA User1ActClippedKeeps ==
    ASSUME NEW e \in 4 .. 6, NEW before, NEW os, NEW i \in Ids, Keeps(e, before, os),
           NEW act \in ActsOf(e), NEW clipped \in {"normal", "simple", "not"}, NEW u1 \in Int,
           Suits(e, os[i], act, clipped, u1, os[i].user2, os[i].user3)
    PROVE  Keeps(e, before, [os EXCEPT ![i].act = act, ![i].clipped = clipped, ![i].user1 = u1])
<1> DEFINE o == [os[i] EXCEPT !.act = act, !.clipped = clipped, !.user1 = u1]
<1>1. os \in [Ids -> ObjType] /\ os[i] \in ObjType
  BY DEF Keeps, World
<1>2. o \in ObjType
  BY <1>1, ActsIn DEF ObjType
<1>3. /\ o.type = os[i].type /\ o.hit = os[i].hit /\ o.active = os[i].active
      /\ o.user4 = os[i].user4 /\ o.act = act /\ o.clipped = clipped /\ o.user1 = u1
      /\ o.user2 = os[i].user2 /\ o.user3 = os[i].user3 /\ o.ptr = os[i].ptr
  BY <1>1 DEF ObjType
<1>4. [os EXCEPT ![i].act = act, ![i].clipped = clipped, ![i].user1 = u1] = [os EXCEPT ![i] = o]
  BY <1>1
<1> HIDE DEF o
<1>5. Keeps(e, before, [os EXCEPT ![i] = o])
  BY <1>2, <1>3, SuitsKeeps
<1> QED  BY <1>4, <1>5

LEMMA ActClippedKeeps ==
    ASSUME NEW e \in 4 .. 6, NEW before, NEW os, NEW i \in Ids, Keeps(e, before, os),
           NEW act \in ActsOf(e), NEW clipped \in {"normal", "simple", "not"},
           Suits(e, os[i], act, clipped, os[i].user1, os[i].user2, os[i].user3)
    PROVE  Keeps(e, before, [os EXCEPT ![i].act = act, ![i].clipped = clipped])
<1> DEFINE o == [os[i] EXCEPT !.act = act, !.clipped = clipped]
<1>1. os \in [Ids -> ObjType] /\ os[i] \in ObjType
  BY DEF Keeps, World
<1>2. o \in ObjType
  BY <1>1, ActsIn DEF ObjType
<1>3. /\ o.type = os[i].type /\ o.hit = os[i].hit /\ o.active = os[i].active
      /\ o.user4 = os[i].user4 /\ o.act = act /\ o.clipped = clipped
      /\ o.user1 = os[i].user1 /\ o.user2 = os[i].user2 /\ o.user3 = os[i].user3
      /\ o.ptr = os[i].ptr
  BY <1>1 DEF ObjType
<1>4. [os EXCEPT ![i].act = act, ![i].clipped = clipped] = [os EXCEPT ![i] = o]
  BY <1>1
<1> HIDE DEF o
<1>5. Keeps(e, before, [os EXCEPT ![i] = o])
  BY <1>2, <1>3, SuitsKeeps
<1> QED  BY <1>4, <1>5

LEMMA User12Keeps ==
    ASSUME NEW e \in 4 .. 6, NEW before, NEW os, NEW i \in Ids, Keeps(e, before, os),
           NEW u1 \in Int, NEW u2 \in Int,
           Suits(e, os[i], os[i].act, os[i].clipped, u1, u2, os[i].user3)
    PROVE  Keeps(e, before, [os EXCEPT ![i].user1 = u1, ![i].user2 = u2])
<1> DEFINE o == [os[i] EXCEPT !.user1 = u1, !.user2 = u2]
<1>1. os \in [Ids -> ObjType] /\ os[i] \in ObjType
  BY DEF Keeps, World
<1>2. o \in ObjType
  BY <1>1, ActsIn DEF ObjType
<1>3. /\ o.type = os[i].type /\ o.hit = os[i].hit /\ o.active = os[i].active
      /\ o.user4 = os[i].user4 /\ o.act = os[i].act /\ o.clipped = os[i].clipped
      /\ o.user1 = u1 /\ o.user2 = u2 /\ o.user3 = os[i].user3 /\ o.ptr = os[i].ptr
  BY <1>1 DEF ObjType
<1>4. [os EXCEPT ![i].user1 = u1, ![i].user2 = u2] = [os EXCEPT ![i] = o]
  BY <1>1
<1> HIDE DEF o
<1>5. Keeps(e, before, [os EXCEPT ![i] = o])
  BY <1>2, <1>3, SuitsKeeps
<1> QED  BY <1>4, <1>5

LEMMA User2Keeps ==
    ASSUME NEW e \in 4 .. 6, NEW before, NEW os, NEW i \in Ids, Keeps(e, before, os),
           NEW u2 \in Int,
           Suits(e, os[i], os[i].act, os[i].clipped, os[i].user1, u2, os[i].user3)
    PROVE  Keeps(e, before, [os EXCEPT ![i].user2 = u2])
<1> DEFINE o == [os[i] EXCEPT !.user2 = u2]
<1>1. os \in [Ids -> ObjType] /\ os[i] \in ObjType
  BY DEF Keeps, World
<1>2. o \in ObjType
  BY <1>1, ActsIn DEF ObjType
<1>3. /\ o.type = os[i].type /\ o.hit = os[i].hit /\ o.active = os[i].active
      /\ o.user4 = os[i].user4 /\ o.act = os[i].act /\ o.clipped = os[i].clipped
      /\ o.user1 = os[i].user1 /\ o.user2 = u2 /\ o.user3 = os[i].user3
      /\ o.ptr = os[i].ptr
  BY <1>1 DEF ObjType
<1>4. [os EXCEPT ![i].user2 = u2] = [os EXCEPT ![i] = o]
  BY <1>1
<1> HIDE DEF o
<1>5. Keeps(e, before, [os EXCEPT ![i] = o])
  BY <1>2, <1>3, SuitsKeeps
<1> QED  BY <1>4, <1>5

LEMMA User2ActKeeps ==
    ASSUME NEW e \in 4 .. 6, NEW before, NEW os, NEW i \in Ids, Keeps(e, before, os),
           NEW u2 \in Int, NEW act \in ActsOf(e),
           Suits(e, os[i], act, os[i].clipped, os[i].user1, u2, os[i].user3)
    PROVE  Keeps(e, before, [os EXCEPT ![i].user2 = u2, ![i].act = act])
<1> DEFINE o == [os[i] EXCEPT !.user2 = u2, !.act = act]
<1>1. os \in [Ids -> ObjType] /\ os[i] \in ObjType
  BY DEF Keeps, World
<1>2. o \in ObjType
  BY <1>1, ActsIn DEF ObjType
<1>3. /\ o.type = os[i].type /\ o.hit = os[i].hit /\ o.active = os[i].active
      /\ o.user4 = os[i].user4 /\ o.act = act /\ o.clipped = os[i].clipped
      /\ o.user1 = os[i].user1 /\ o.user2 = u2 /\ o.user3 = os[i].user3
      /\ o.ptr = os[i].ptr
  BY <1>1 DEF ObjType
<1>4. [os EXCEPT ![i].user2 = u2, ![i].act = act] = [os EXCEPT ![i] = o]
  BY <1>1
<1> HIDE DEF o
<1>5. Keeps(e, before, [os EXCEPT ![i] = o])
  BY <1>2, <1>3, SuitsKeeps
<1> QED  BY <1>4, <1>5

LEMMA User12ActKeeps ==
    ASSUME NEW e \in 4 .. 6, NEW before, NEW os, NEW i \in Ids, Keeps(e, before, os),
           NEW u1 \in Int, NEW u2 \in Int, NEW act \in ActsOf(e),
           Suits(e, os[i], act, os[i].clipped, u1, u2, os[i].user3)
    PROVE  Keeps(e, before, [os EXCEPT ![i].user1 = u1, ![i].user2 = u2, ![i].act = act])
<1> DEFINE o == [os[i] EXCEPT !.user1 = u1, !.user2 = u2, !.act = act]
<1>1. os \in [Ids -> ObjType] /\ os[i] \in ObjType
  BY DEF Keeps, World
<1>2. o \in ObjType
  BY <1>1, ActsIn DEF ObjType
<1>3. /\ o.type = os[i].type /\ o.hit = os[i].hit /\ o.active = os[i].active
      /\ o.user4 = os[i].user4 /\ o.act = act /\ o.clipped = os[i].clipped
      /\ o.user1 = u1 /\ o.user2 = u2 /\ o.user3 = os[i].user3 /\ o.ptr = os[i].ptr
  BY <1>1 DEF ObjType
<1>4. [os EXCEPT ![i].user1 = u1, ![i].user2 = u2, ![i].act = act] = [os EXCEPT ![i] = o]
  BY <1>1
<1> HIDE DEF o
<1>5. Keeps(e, before, [os EXCEPT ![i] = o])
  BY <1>2, <1>3, SuitsKeeps
<1> QED  BY <1>4, <1>5

LEMMA User23Keeps ==
    ASSUME NEW e \in 4 .. 6, NEW before, NEW os, NEW i \in Ids, Keeps(e, before, os),
           NEW u2 \in Int, NEW u3 \in Int,
           Suits(e, os[i], os[i].act, os[i].clipped, os[i].user1, u2, u3)
    PROVE  Keeps(e, before, [os EXCEPT ![i].user2 = u2, ![i].user3 = u3])
<1> DEFINE o == [os[i] EXCEPT !.user2 = u2, !.user3 = u3]
<1>1. os \in [Ids -> ObjType] /\ os[i] \in ObjType
  BY DEF Keeps, World
<1>2. o \in ObjType
  BY <1>1, ActsIn DEF ObjType
<1>3. /\ o.type = os[i].type /\ o.hit = os[i].hit /\ o.active = os[i].active
      /\ o.user4 = os[i].user4 /\ o.act = os[i].act /\ o.clipped = os[i].clipped
      /\ o.user1 = os[i].user1 /\ o.user2 = u2 /\ o.user3 = u3 /\ o.ptr = os[i].ptr
  BY <1>1 DEF ObjType
<1>4. [os EXCEPT ![i].user2 = u2, ![i].user3 = u3] = [os EXCEPT ![i] = o]
  BY <1>1
<1> HIDE DEF o
<1>5. Keeps(e, before, [os EXCEPT ![i] = o])
  BY <1>2, <1>3, SuitsKeeps
<1> QED  BY <1>4, <1>5

LEMMA ActPtrKeeps ==
    ASSUME NEW e \in 4 .. 6, NEW before, NEW os, NEW i \in Ids, Keeps(e, before, os),
           NEW act \in ActsOf(e), NEW p \in Ids,
           Suits(e, os[i], act, os[i].clipped, os[i].user1, os[i].user2, os[i].user3),
           Kind(e, act) # "eating"
    PROVE  Keeps(e, before, [os EXCEPT ![i].act = act, ![i].ptr = p])
<1> DEFINE o == [os[i] EXCEPT !.act = act, !.ptr = p]
<1>1. os \in [Ids -> ObjType] /\ os[i] \in ObjType
  BY DEF Keeps, World
<1>2. o \in ObjType
  BY <1>1, ActsIn DEF ObjType
<1>3. /\ o.type = os[i].type /\ o.hit = os[i].hit /\ o.active = os[i].active
      /\ o.user4 = os[i].user4 /\ o.act = act /\ o.clipped = os[i].clipped
      /\ o.user1 = os[i].user1 /\ o.user2 = os[i].user2 /\ o.user3 = os[i].user3
      /\ o.ptr = p
  BY <1>1 DEF ObjType
<1>4. [os EXCEPT ![i].act = act, ![i].ptr = p] = [os EXCEPT ![i] = o]
  BY <1>1
<1> HIDE DEF o
<1>5. Keeps(e, before, [os EXCEPT ![i] = o])
  BY <1>2, <1>3, SuitsKeeps
<1> QED  BY <1>4, <1>5

LEMMA PtrKeeps ==
    ASSUME NEW e \in 4 .. 6, NEW before, NEW os, NEW i \in Ids, Keeps(e, before, os),
           NEW p \in Ids,
           Suits(e, os[i], os[i].act, os[i].clipped, os[i].user1, os[i].user2, os[i].user3),
           Kind(e, os[i].act) # "eating"
    PROVE  Keeps(e, before, [os EXCEPT ![i].ptr = p])
<1> DEFINE o == [os[i] EXCEPT !.ptr = p]
<1>1. os \in [Ids -> ObjType] /\ os[i] \in ObjType
  BY DEF Keeps, World
<1>2. o \in ObjType
  BY <1>1, ActsIn DEF ObjType
<1>3. /\ o.type = os[i].type /\ o.hit = os[i].hit /\ o.active = os[i].active
      /\ o.user4 = os[i].user4 /\ o.act = os[i].act /\ o.clipped = os[i].clipped
      /\ o.user1 = os[i].user1 /\ o.user2 = os[i].user2 /\ o.user3 = os[i].user3
      /\ o.ptr = p
  BY <1>1 DEF ObjType
<1>4. [os EXCEPT ![i].ptr = p] = [os EXCEPT ![i] = o]
  BY <1>1
<1> HIDE DEF o
<1>5. Keeps(e, before, [os EXCEPT ![i] = o])
  BY <1>2, <1>3, SuitsKeeps
<1> QED  BY <1>4, <1>5

LEMMA User3Keeps ==
    ASSUME NEW e \in 4 .. 6, NEW before, NEW os, NEW i \in Ids, Keeps(e, before, os),
           NEW u3 \in Int,
           Suits(e, os[i], os[i].act, os[i].clipped, os[i].user1, os[i].user2, u3)
    PROVE  Keeps(e, before, [os EXCEPT ![i].user3 = u3])
<1> DEFINE o == [os[i] EXCEPT !.user3 = u3]
<1>1. os \in [Ids -> ObjType] /\ os[i] \in ObjType
  BY DEF Keeps, World
<1>2. o \in ObjType
  BY <1>1, ActsIn DEF ObjType
<1>3. /\ o.type = os[i].type /\ o.hit = os[i].hit /\ o.active = os[i].active
      /\ o.user4 = os[i].user4 /\ o.act = os[i].act /\ o.clipped = os[i].clipped
      /\ o.user1 = os[i].user1 /\ o.user2 = os[i].user2 /\ o.user3 = u3
      /\ o.ptr = os[i].ptr
  BY <1>1 DEF ObjType
<1>4. [os EXCEPT ![i].user3 = u3] = [os EXCEPT ![i] = o]
  BY <1>1
<1> HIDE DEF o
<1>5. Keeps(e, before, [os EXCEPT ![i] = o])
  BY <1>2, <1>3, SuitsKeeps
<1> QED  BY <1>4, <1>5

LEMMA User3ActKeeps ==
    ASSUME NEW e \in 4 .. 6, NEW before, NEW os, NEW i \in Ids, Keeps(e, before, os),
           NEW u3 \in Int, NEW act \in ActsOf(e),
           Suits(e, os[i], act, os[i].clipped, os[i].user1, os[i].user2, u3)
    PROVE  Keeps(e, before, [os EXCEPT ![i].user3 = u3, ![i].act = act])
<1> DEFINE o == [os[i] EXCEPT !.user3 = u3, !.act = act]
<1>1. os \in [Ids -> ObjType] /\ os[i] \in ObjType
  BY DEF Keeps, World
<1>2. o \in ObjType
  BY <1>1, ActsIn DEF ObjType
<1>3. /\ o.type = os[i].type /\ o.hit = os[i].hit /\ o.active = os[i].active
      /\ o.user4 = os[i].user4 /\ o.act = act /\ o.clipped = os[i].clipped
      /\ o.user1 = os[i].user1 /\ o.user2 = os[i].user2 /\ o.user3 = u3
      /\ o.ptr = os[i].ptr
  BY <1>1 DEF ObjType
<1>4. [os EXCEPT ![i].user3 = u3, ![i].act = act] = [os EXCEPT ![i] = o]
  BY <1>1
<1> HIDE DEF o
<1>5. Keeps(e, before, [os EXCEPT ![i] = o])
  BY <1>2, <1>3, SuitsKeeps
<1> QED  BY <1>4, <1>5

(***************************************************************************)
(* What the think functions return to.                                     *)
(***************************************************************************)
\* The action of an object runs after its think: the timer may run out, and the next action is
\* of the kind.
LEMMA SafeThink ==
    ASSUME IndInv, NEW i \in Ids, i # 0 \/ objs[i].act = "keenStunned0",
           Action(i).think # "CK4_BirdRecover",
           NEW os, Keeps(ck_currentEpisode, objs, os), CK_ActionThink(i, os)
    PROVE  SafeStep
<1>1. CASE Becomes(os)
  BY <1>1, SafeBecomes
<1>2. ASSUME Action(i).type \in {"once", "both"}, os[i].act = objs[i].act,
             NEW act \in Action(i).next,
             Becomes(IF act = "NULL" THEN CK_RemoveObj(os, i) ELSE SetAct(os, i, act))
      PROVE  SafeStep
  <2>1. /\ ck_currentEpisode \in 4 .. 6 /\ Followed(ck_currentEpisode, objs[i].act, Action(i))
        /\ Timed(objs[i].act, Action(i)) /\ Good(ck_currentEpisode, objs[i])
    BY ObjectAt DEF Sound
  <2>2. objs[i].act \notin Breaks \cup {"SchoolfishEaten0"}
    BY <1>2, <2>1 DEF Timed, Special, Breaks
  <2>3. CASE act = "NULL"
    <3>1. i # 0
      BY <2>1, <1>2, <2>3 DEF Timed, Special
    <3>2. KindAt(i) \notin Waiting
      BY <2>2, <2>1 DEF KindAt, Kind, Kind4, Kind5, Kind6, Waiting, Breaks
    <3>3. Keeps(ck_currentEpisode, objs, CK_RemoveObj(os, i))
      BY <3>1, <3>2, <2>1, RemoveKeeps DEF KindAt
    <3> QED  BY <3>3, <1>2, <2>3, SafeBecomes
  <2>4. CASE act # "NULL"
    <3>1. act \in ActsOf(ck_currentEpisode) /\ Kind(ck_currentEpisode, act) = Kind(ck_currentEpisode, os[i].act)
      BY <2>1, <2>2, <2>4, <1>2 DEF Followed
    <3>2. Keeps(ck_currentEpisode, objs, SetAct(os, i, act))
      BY <3>1, <2>1, ActKeeps
    <3> QED  BY <3>2, <1>2, <2>4, SafeBecomes
  <2> QED  BY <2>3, <2>4
<1> QED  BY <1>1, <1>2 DEF CK_ActionThink

\* Actions of a kind.
LEMMA GoesKeeps ==
    ASSUME IndInv, NEW i \in Ids, NEW act \in ActsOf(ck_currentEpisode) \cup {objs[i].act},
           Kind(ck_currentEpisode, act) = KindAt(i)
    PROVE  Keeps(ck_currentEpisode, objs, Goes(i, act))
<1>1. ck_currentEpisode \in 4 .. 6 /\ objs[i].act \in ActsOf(ck_currentEpisode)
  BY ObjectAt
<1> QED  BY <1>1, SelfKeeps, ActKeeps DEF Goes, KindAt

\* A think or a draw that chooses among actions of the kind.
LEMMA SafeMay ==
    ASSUME IndInv, NEW i \in Ids, i # 0, NEW function, function # "CK4_BirdRecover", NEW acts,
           May(i, function, acts),
           \A act \in acts : act \in ActsOf(ck_currentEpisode) /\ Kind(ck_currentEpisode, act) = KindAt(i)
    PROVE  SafeStep
<1>1. PICK act \in acts \cup {objs[i].act} : Thinks(i, function) /\ Chooses(i, act)
  BY DEF May
<1>2. Keeps(ck_currentEpisode, objs, Goes(i, act))
  BY <1>1, GoesKeeps DEF KindAt
<1> QED  BY <1>1, <1>2, SafeThink DEF Chooses, Thinks

\* The same for a draw.
LEMMA SafeDraws ==
    ASSUME IndInv, NEW i \in Ids, NEW function, NEW acts, DrawsTo(i, function, acts),
           \A act \in acts : act \in ActsOf(ck_currentEpisode) /\ Kind(ck_currentEpisode, act) = KindAt(i)
    PROVE  SafeStep
<1>1. PICK act \in acts : Becomes(Goes(i, act))
  BY DEF DrawsTo
<1>2. Keeps(ck_currentEpisode, objs, Goes(i, act))
  BY <1>1, GoesKeeps
<1> QED  BY <1>1, <1>2, SafeBecomes

(***************************************************************************)
(* Killing Keen and stunning creatures.                                    *)
(***************************************************************************)
\* Keen takes another of his actions, unless he waits to be eaten.
LEMMA KeenKeeps ==
    ASSUME NEW e \in 4 .. 6, NEW before, NEW os, Keeps(e, before, os), NEW act \in ActsOf(e),
           Kind(e, act) = "plain", Kind(e, before[0].act) \notin Waiting
    PROVE  Keeps(e, before, SetAct(os, 0, act))
<1> DEFINE o == [os[0] EXCEPT !.act = act]
<1>1. os \in [Ids -> ObjType] /\ os[0] \in ObjType /\ Good(e, os[0])
      /\ os[0].type \in {"Player", "Friendly"}
  BY ZeroId DEF Keeps, World
<1>2. o \in ObjType
  BY <1>1, ActsIn DEF ObjType
<1>3. /\ o.act = act /\ o.type = os[0].type /\ o.active = os[0].active
      /\ o.clipped = os[0].clipped /\ o.hit = os[0].hit
  BY <1>1 DEF ObjType
<1>4. SetAct(os, 0, act) = [os EXCEPT ![0] = o]
  BY <1>1 DEF SetAct
<1> HIDE DEF o
<1>5. Fits(e, Kind(e, os[0].act), os[0])
  BY <1>1 DEF Good
<1>6. os[0].hit = "" /\ os[0].clipped # "simple" /\ (os[0].type = "Player" => os[0].active = "active")
  <2> DEFINE kind == Kind(e, os[0].act)
  <2> HIDE DEF kind
  <2>1. Fits(e, kind, os[0])
    BY <1>5 DEF kind
  <2> QED  BY <2>1, <1>1 DEF Fits, TypeFits, ClippingFits, TypeOf, Bound
<1>7. o.type \in Ordinary \/ o.type = "Player"
  BY <1>1, <1>3 DEF Ordinary
<1>8. Good(e, o)
  BY <1>2, <1>3, <1>6, <1>7, PlainGood
<1>9. Turns(e, before[0], o)
  BY <1>1, <1>3 DEF Turns, Rare
<1> QED  BY <1>1, <1>3, <1>4, <1>8, <1>9, PutKeeps, ZeroId

\* What was not stunned, or only an arachnut, has no other hit.
LEMMA HitOf ==
    ASSUME IndInv, NEW i \in Ids, KindAt(i) # "stunned"
    PROVE  objs[i].hit \in {"", "Arachnut"}
<1> DEFINE kind == KindAt(i)
<1> HIDE DEF kind
<1>1. TypeFits(ck_currentEpisode, kind, objs[i])
  BY ObjectAt DEF Fits, kind
<1> QED  BY <1>1 DEF TypeFits, kind

\* A creature that may kill Keen does, unless he is dying.
LEMMA SafeKill ==
    ASSUME IndInv, NEW i \in Ids, KindAt(i) # "stunned", NEW os,
           Keeps(ck_currentEpisode, objs, os), CK_KillKeen(i, os)
    PROVE  SafeStep
<1>1. CASE Dying
  BY <1>1, SafeBecomes DEF CK_KillKeen
<1>2. CASE ~Dying
  <2>1. ck_currentEpisode \in 4 .. 6
    BY DEF IndInv
  <2>2. "keenDie0" \in ActsOf(ck_currentEpisode) /\ Kind(ck_currentEpisode, "keenDie0") = "plain"
    BY <2>1, CommonKinds DEF CommonActs, Shots
  <2>3. Kind(ck_currentEpisode, objs[0].act) \notin Waiting
    <3>1. Good(ck_currentEpisode, objs[0]) /\ objs[0].type \in {"Player", "Friendly"}
      BY ZeroId DEF IndInv, World
    <3>2. Kind(ck_currentEpisode, objs[0].act) # "eatenFish"
      BY <3>1 DEF Good, Fits, TypeFits, TypeOf, Bound
    <3>3. Kind(ck_currentEpisode, objs[0].act) # "eaten"
      BY <1>2, <2>1 DEF Dying, Kind, Kind4, Kind5, Kind6
    <3> QED  BY <3>2, <3>3 DEF Waiting
  <2>4. Keeps(ck_currentEpisode, objs, SetAct(os, 0, "keenDie0"))
    BY <2>1, <2>2, <2>3, KeenKeeps
  <2>5. objs' = SetAct(os, 0, "keenDie0") /\ killer' = <<objs[i].type, objs[i].hit>>
        /\ UNCHANGED <<ck_currentEpisode, numShots, levelState, quitMessage, stuns, fired>>
    BY <1>2 DEF CK_KillKeen
  <2>6. killer' # <<>> /\ killer'[2] \in {"", "Arachnut"}
    BY <2>5, HitOf
  <2> QED  BY <2>4, <2>5, <2>6 DEF SafeStep, IndInv
<1> QED  BY <1>1, <1>2

\* A creature is stunned: it keeps its type, and the stars know a place for it.
LEMMA StunGood ==
    ASSUME NEW e \in 4 .. 6, NEW o, Good(e, o), NEW act \in ActsOf(e),
           o.clipped # "simple", e = 6 => o.type \in StarSpecs6,
           \/ Kind(e, act) = "stunned"
           \/ Kind(e, act) = "Arachnut" /\ Kind(e, o.act) = "Arachnut",
           Kind(e, o.act) \notin Waiting
    PROVE  Good(e, StunnedAs(o, act)) /\ Turns(e, o, StunnedAs(o, act))
<1> DEFINE o2 == StunnedAs(o, act)
           k == Kind(e, o.act)
           k2 == Kind(e, act)
<1>1. o \in ObjType /\ TypeFits(e, k, o)
  BY DEF Good, Fits
<1>2. "StunnedCreature" \in Types
  BY DEF Types
<1>a. act \in Acts /\ o.type \in Types \cup {""}
      /\ (IF o.hit = "" THEN o.type ELSE o.hit) \in Types \cup {""}
  BY <1>1, ActsIn DEF ObjType
<1>3. o2 \in ObjType
  <2>1. ASSUME NEW h \in Types \cup {""}, NEW n \in Int
        PROVE  [o EXCEPT !.user1 = n, !.user2 = n, !.user3 = n, !.user4 = o.type, !.act = act,
                         !.type = "StunnedCreature", !.hit = h] \in ObjType
    BY <1>1, <1>2, <1>a DEF ObjType
  <2>2. 0 \in Int
    OBVIOUS
  <2> QED  BY <1>a, <2>1, <2>2, Zenon DEF StunnedAs
<1>4. /\ o2.act = act /\ o2.type = "StunnedCreature" /\ o2.user4 = o.type
      /\ o2.clipped = o.clipped /\ o2.hit = IF o.hit = "" THEN o.type ELSE o.hit
  BY <1>1 DEF StunnedAs, ObjType
<1>5. o.type # ""
  BY <1>1 DEF ObjType, Types, Bound, Ordinary
<1> HIDE DEF o2, k, k2
<1>6. TypeFits(e, k2, o2)
  <2>1. CASE k2 = "stunned"
    BY <2>1, <1>4, <1>5 DEF TypeFits, TypeOf, Bound
  <2>2. CASE k2 = "Arachnut" /\ k = "Arachnut"
    BY <2>2, <1>1, <1>4, <1>5 DEF TypeFits, TypeOf, Bound
  <2> QED  BY <2>1, <2>2 DEF k, k2
<1>7. ClippingFits(k2, o2.type, o2.active, o2.clipped)
      /\ CountersFit(k2, o2.user1, o2.user2, o2.user3)
  BY <1>4 DEF k2, ClippingFits, CountersFit
<1>8. Good(e, o2)
  BY <1>3, <1>4, <1>6, <1>7 DEF Good, Fits, k2
<1>9. Turns(e, o, o2)
  BY <1>4 DEF Turns, Rare, k2
<1> QED  BY <1>8, <1>9 DEF o2

\* The objects after a creature is stunned and the shot spent.
LEMMA StunKeeps ==
    ASSUME NEW e \in 4 .. 6, NEW before, NEW os, Keeps(e, before, os), NEW i \in Ids, i # 0,
           NEW act \in ActsOf(e),
           os[i].clipped # "simple", e = 6 => os[i].type \in StarSpecs6,
           \/ Kind(e, act) = "stunned"
           \/ Kind(e, act) = "Arachnut" /\ Kind(e, os[i].act) = "Arachnut",
           Kind(e, os[i].act) \notin Waiting
    PROVE  Keeps(e, before, [os EXCEPT ![i] = StunnedAs(@, act)])
<1>1. os \in [Ids -> ObjType] /\ Good(e, os[i]) /\ Turns(e, before[i], os[i])
  BY DEF Keeps, World
<1>2. Good(e, StunnedAs(os[i], act)) /\ Turns(e, os[i], StunnedAs(os[i], act))
  BY <1>1, StunGood
<1>3. Turns(e, before[i], StunnedAs(os[i], act))
  BY <1>1, <1>2, TurnsTwice
<1>4. Keeps(e, before, [os EXCEPT ![i] = StunnedAs(os[i], act)])
  BY <1>2, <1>3, PutKeeps
<1> QED  BY <1>4

\* A creature that may be stunned is.
LEMMA SafeStun ==
    ASSUME IndInv, NEW i \in Ids, i # 0, NEW s \in Ids, i # s, Is(s, "Stunner"),
           NEW os, Keeps(ck_currentEpisode, objs, os), os[s] = objs[s],
           NEW act \in ActsOf(ck_currentEpisode), CK_StunCreature(os, i, s, act),
           os[i].clipped # "simple", ck_currentEpisode = 6 => os[i].type \in StarSpecs6,
           \/ Kind(ck_currentEpisode, act) = "stunned"
           \/ /\ Kind(ck_currentEpisode, act) = "Arachnut"
              /\ Kind(ck_currentEpisode, os[i].act) = "Arachnut",
           Kind(ck_currentEpisode, os[i].act) \notin Waiting
    PROVE  SafeStep
<1> DEFINE stunned == [os EXCEPT ![i] = StunnedAs(@, act)]
<1>1. ck_currentEpisode \in 4 .. 6 /\ os \in [Ids -> ObjType]
  BY DEF IndInv, Keeps, World
<1>2. Keeps(ck_currentEpisode, objs, stunned)
  BY <1>1, StunKeeps
<1>3. stunned[s].type = "Stunner"
  BY <1>1 DEF Is
<1>4. objs' = CK_ShotHit(stunned, s) /\ stuns' = stuns + 1
      /\ UNCHANGED <<ck_currentEpisode, numShots, levelState, quitMessage, killer, fired>>
  BY DEF CK_StunCreature
<1> HIDE DEF stunned
<1>5. Keeps(ck_currentEpisode, objs, objs') /\ objs'[s].type # "Stunner"
  BY <1>1, <1>2, <1>3, <1>4, ShotHitKeeps
<1>6. s \in Stunners(objs) /\ s \notin Stunners(objs')
  BY <1>5 DEF Stunners, Is
<1> QED  BY <1>4, <1>5, <1>6 DEF SafeStep, IndInv

\* How most creatures are stunned.
LEMMA SafeStuns ==
    ASSUME IndInv, NEW i \in Ids, i # 0, NEW s \in Ids, i # s, Is(s, "Stunner"),
           NEW act \in ActsOf(ck_currentEpisode), Stuns(i, s, act),
           objs[i].clipped # "simple", ck_currentEpisode = 6 => objs[i].type \in StarSpecs6,
           \/ Kind(ck_currentEpisode, act) = "stunned"
           \/ Kind(ck_currentEpisode, act) = "Arachnut" /\ KindAt(i) = "Arachnut",
           KindAt(i) \notin Waiting
    PROVE  SafeStep
  BY SelfKeeps, SafeStun DEF Stuns, KindAt

\* What an object's kind says of it.
LEMMA Typed ==
    ASSUME IndInv, NEW i \in Ids
    PROVE  /\ TypeOf(KindAt(i)) \in Bound => objs[i].type = TypeOf(KindAt(i))
           /\ objs[i].clipped = "simple" =>
                 KindAt(i) \in {"flying", "swimming", "Schoolfish", "eatenFish", "SliceStar",
                               "dyingStar", "Sphereful", "Blorb"}
<1>1. TypeFits(ck_currentEpisode, KindAt(i), objs[i]) /\ ClippingFits(KindAt(i), objs[i].type, objs[i].active, objs[i].clipped)
  BY ObjectAt DEF Fits
<1> QED  BY <1>1 DEF TypeFits, ClippingFits

(***************************************************************************)
(* The functions of the table again, and the actions that functions        *)
(* choose.                                                                 *)
(***************************************************************************)
Plainly4 ==
    {"CK_KeenDeathThink", "CK_DoorOpen", "CK_SecurityDoorOpen", "CK_FallingItem", "CK_PointItem",
     "CK4_CouncilWalk", "CK4_SlugCol", "CK_BasicDrawFunc3", "CK4_SlugMove", "CK4_SlugSlime",
     "CK_LethalCol", "CK4_EggCol", "CK4_EggshellDraw", "CK4_SkypestFly", "CK4_SkypestAirCol",
     "CK4_SkypestDraw", "CK4_SkypestGroundCol", "CK4_SkypestTakeoff", "CK4_WormmouthMove",
     "CK4_WormmouthCheckShot", "CK4_WormmouthLookLeft", "CK4_WormmouthLookRight",
     "CK4_WormmouthGoToPlayer", "CK4_WormmouthCol", "CK4_CloudCol", "CK4_CloudDraw",
     "CK4_CloudMove", "CK4_CloudCheckStrike", "CK_Glide", "CK4_CloudStrike", "CK4_BerkeloidMove",
     "CK4_BerkeloidCol", "CK4_BerkeloidDraw", "CK_SetDraw", "CK4_BerkeloidHover",
     "CK4_BerkeloidThrow", "CK4_BerkeloidThrowDone", "CK4_FireballDraw", "CK4_BounderCheckShot",
     "CK4_BounderDraw", "CK4_LickMove", "CK4_LickCheckShot", "CK4_LickDraw", "CK4_LickCol",
     "CK_AxisPlatform", "CK4_PlatformDraw", "CK_FallPlatSit", "CK_FallPlatFall",
     "CK_FallPlatRise", "CK4_SmirkyCol", "CK4_SmirkySearch", "CK4_SmirkyTeleport",
     "CK4_SmirkyDraw", "CK4_MimrockWait", "CK4_MimrockCheckJump", "CK4_MimrockCol",
     "CK4_MimrockAirCol", "CK4_MimrockJumpDraw", "CK4_MimrockBounceDraw",
     "CK4_KillKeenUnderwater", "CK4_Bubbles", "CK4_SpritePatrol", "CK4_SpriteAim",
     "CK4_SpriteShoot", "CK4_ProjectileDraw", "CK4_MineCol", "CK4_LindseyFloat", "CK4_DartGun",
     "CK4_WetsuitCol"}

\* The kinds of the actions of Keen 4, and the functions that only plain actions name.
LEMMA Kind4Range == \A act : Kind4(act) \in {"Mushroom", "Inchworm", "Foot", "Bird", "flying", "Arachnut",
                           "Dopefish", "swimming", "eating", "Schoolfish", "eatenFish", "eaten",
                           "stunned", "shot", "plain"}
  BY DEF Kind4

LEMMA Plain4 ==
    ASSUME IndInv, ck_currentEpisode = 4, NEW i \in Ids,
           NEW f \in Plainly4, f \in {Action(i).think, Action(i).collide, Action(i).draw}
    PROVE  KindAt(i) = "plain"
<1> DEFINE kind == KindAt(i)
<1>1. f \in Named4(kind)
  BY NamedAt
<1>2. kind \in {"Mushroom", "Inchworm", "Foot", "Bird", "flying", "Arachnut", "Dopefish",
                   "swimming", "eating", "Schoolfish", "eatenFish", "eaten", "stunned", "shot",
                   "plain"}
  BY Kind4Range DEF KindAt, Kind
<1> HIDE DEF kind
<1>3. kind = "plain"
  BY <1>1, <1>2 DEF Named4, Plainly4
<1> QED  BY <1>3 DEF kind

Plainly5 ==
    {"CK_KeenDeathThink", "CK_DoorOpen", "CK_SecurityDoorOpen", "CK_FallingItem", "CK_PointItem",
     "CK5_LevelEnd", "CK5_PurpleAxisPlatform", "CK_FallPlatSit", "CK_FallPlatFall",
     "CK_FallPlatRise", "CK_GoPlatThink", "CK5_PurpleGoPlatThink", "CK5_VolteMove",
     "CK5_VolteCol", "CK_SneakPlatThink", "CK_TurretShoot", "CK_Glide", "CK_TurretShotCol",
     "CK_TurretShotDraw", "CK_ShrapnelTileCol", "CK5_MineMove", "CK5_MineCol", "CK5_MineTileCol",
     "CK5_MineMoveDotsToCenter", "CK5_MineMoveDotsToSides", "CK5_MineExplode",
     "CK5_MineShrapCol", "CK5_RoboMove", "CK5_RoboCol", "CK_BasicDrawFunc2", "CK5_RoboShotCol",
     "CK5_RoboShotTileCol", "CK5_SpirogripSpin", "CK5_SpirogripFlyDraw", "CK5_MasterCol",
     "CK5_MasterStand", "CK5_MasterShoot", "CK5_MasterTele", "CK5_MasterTeleTileCol", "CK_Fall2",
     "CK5_MasterBallCol", "CK5_MasterBallTileCol", "CK5_MasterSparksTileCol", "CK5_PoleZap",
     "CK5_BarkShotCol", "CK5_BarkShotTileCol", "CK5_KorathWalk", "CK5_KorathColFunc"}

\* The same for Keen 5.
LEMMA Kind5Range == \A act : Kind5(act) \in {"Sparky", "preparing", "Ampton", "pole", "SliceStar", "dyingStar",
                           "robo", "Spindred", "Shikadi", "Shocksund", "standing", "Sphereful",
                           "stunned", "shot", "plain"}
  BY DEF Kind5

LEMMA Plain5 ==
    ASSUME IndInv, ck_currentEpisode = 5, NEW i \in Ids,
           NEW f \in Plainly5, f \in {Action(i).think, Action(i).collide, Action(i).draw}
    PROVE  KindAt(i) = "plain"
<1> DEFINE kind == KindAt(i)
<1>1. f \in Named5(kind)
  BY NamedAt
<1>2. kind \in {"Sparky", "preparing", "Ampton", "pole", "SliceStar", "dyingStar", "robo",
                   "Spindred", "Shikadi", "Shocksund", "standing", "Sphereful", "stunned",
                   "shot", "plain"}
  BY Kind5Range DEF KindAt, Kind
<1> HIDE DEF kind
<1>3. kind = "plain"
  BY <1>1, <1>2 DEF Named5, Plainly5
<1> QED  BY <1>3 DEF kind

Plainly6 ==
    {"CK_KeenDeathThink", "CK_DoorOpen", "CK_SecurityDoorOpen", "CK_FallingItem", "CK_PointItem",
     "CK_AxisPlatform", "CK_FallPlatSit", "CK_FallPlatFall", "CK_FallPlatRise", "CK_GoPlatThink",
     "CK6_GoPlatDraw", "CK_SneakPlatThink", "CK6_GikWalk", "CK_CarryKeenCol", "CK_PushKeenCol",
     "CK6_GikJumpDraw", "CK6_GikSlide", "CK6_GikSlideDraw", "CK_TurretShoot", "CK_Glide",
     "CK_TurretShotCol", "CK_TurretShotDraw", "CK6_OrbatrixFloat", "CK6_OrbatrixCol",
     "CK6_OrbatrixDraw", "CK6_OrbatrixCurl", "CK6_OrbatrixUncurlThink", "CK6_BipCol",
     "CK6_BipWalk", "CK6_BipshipFly", "CK6_BipshipCol", "CK6_BipShotDraw", "CK6_BipshipTurn",
     "CK_DieOnContactDraw", "CK6_BipshipCrash", "CK6_BobbaFireball", "CK6_BobbaFireballDraw"}

\* The same for Keen 6.
LEMMA Kind6Range == \A act : Kind6(act) \in {"Sandwich", "Rope", "Passcard", "Molly", "Bloog", "Bloogguard",
                           "Blooglet", "Nospike", "falling", "Flect", "Fleex", "Bobba",
                           "Babobba", "burning", "vanishing", "Blorb", "bouncing", "Ceilick",
                           "stunned", "shot", "plain"}
  BY DEF Kind6

LEMMA Plain6 ==
    ASSUME IndInv, ck_currentEpisode = 6, NEW i \in Ids,
           NEW f \in Plainly6, f \in {Action(i).think, Action(i).collide, Action(i).draw}
    PROVE  KindAt(i) = "plain"
<1> DEFINE kind == KindAt(i)
<1>1. f \in Named6(kind)
  BY NamedAt
<1>2. kind \in {"Sandwich", "Rope", "Passcard", "Molly", "Bloog", "Bloogguard", "Blooglet",
                   "Nospike", "falling", "Flect", "Fleex", "Bobba", "Babobba", "burning",
                   "vanishing", "Blorb", "bouncing", "Ceilick", "stunned", "shot", "plain"}
  BY Kind6Range DEF KindAt, Kind
<1> HIDE DEF kind
<1>3. kind = "plain"
  BY <1>1, <1>2 DEF Named6, Plainly6
<1> QED  BY <1>3 DEF kind

\* The actions that the functions of Keen 4 choose.
Chosen4(kind) ==
    IF kind = "Mushroom" THEN {"Mushroom0"}
    ELSE IF kind = "Inchworm" THEN {"Inchworm0"}
    ELSE IF kind = "Foot" THEN {"Foot1"}
    ELSE IF kind = "Bird" THEN {"BirdHatched0", "BirdWalk0"}
    ELSE IF kind = "flying" THEN {"BirdFly0"}
    ELSE IF kind = "Arachnut" THEN {"ArachnutWalk0", "ArachnutStunned0"}
    ELSE IF kind = "Dopefish" THEN {"DopefishBurp0"}
    ELSE IF kind = "swimming" THEN {"DopefishSwim0"}
    ELSE IF kind = "eating" THEN {"DopefishEat0"}
    ELSE IF kind = "Schoolfish" THEN {"SchoolfishSwim0"}
    ELSE IF kind = "eatenFish" THEN {"SchoolfishEaten0"}
    ELSE IF kind = "eaten" THEN {"KeenEaten0"}
    ELSE IF kind = "stunned" THEN {"SlugStunned0", "SlugStunned1", "BirdStunned0",
                                             "WormmouthStunned0", "BounderStunned0",
                                             "LickStunned0", "SmirkyStunned0", "MimrockStunned0"}
    ELSE {"CouncilWalk0", "SlugMove0", "Egg0", "SkypestFly0", "WormmouthMove0", "CloudDormant0",
          "BerkeloidMove0", "Bounder0", "LickHop1", "Smirky0", "Mimrock0", "Sprite0", "Mine0",
          "Lindsey0", "DartGun0", "Wetsuit0", "CouncilPause", "SlugSliming0", "SlugSlime0",
          "Eggshell0", "SkypestSquish0", "SkypestPreen0", "WormmouthPeep0", "WormmouthBite0",
          "CloudCheckStrike0", "CloudStrike0", "Lightning0", "CloudAwaken0", "BerkeloidThrow0",
          "FireballAir0", "FireballGround0", "BounderMoveHorz0", "LickFlame0", "LickHop3",
          "SmirkyJump0", "SmirkyTele0", "StolenItem0", "MimrockWalk0", "MimrockJump0",
          "MimrockBounce0", "KeenEaten1", "SpriteAiming0", "SpriteShooting0", "SpriteBullet0",
          "MineExplode0", "DartUp0", "DartDown0", "DartHorz0", "FallPlat0", "AxisPlatform",
          "FallPlat1", "FallPlat2"}

\* They are of the kinds that they are chosen for.
LEMMA Chosen4Kinds ==
    ASSUME NEW kind \in {"Mushroom", "Inchworm", "Foot", "Bird", "flying", "Arachnut",
                           "Dopefish", "swimming", "eating", "Schoolfish", "eatenFish", "eaten",
                           "stunned", "plain"}, NEW a \in Chosen4(kind)
    PROVE  a \in ActsOf(4) /\ Kind(4, a) = kind
<1>1. a \in Acts4
  BY DEF Chosen4, Acts4, SlugActs, BirdActs, ArachnutActs, CloudActs, FootActs, SmirkyActs, FishActs, SpriteActs
<1>2. Kind4(a) = kind
  BY DEF Chosen4, Kind4, Birds, Dopefishes, Arachnuts, Stunned4, Shots
<1> QED  BY <1>1, <1>2 DEF ActsOf, Kind

\* The actions that the functions of Keen 5 choose.
Chosen5(kind) ==
    IF kind = "Sparky" THEN {"Sparky0", "Shelly0", "SparkySearch0",
                                             "SparkyCharge0", "SparkyTurn0", "ShellyDive0",
                                             "ShellyDieAir", "ShellyDieGround", "ShellyWait0"}
    ELSE IF kind = "preparing" THEN {"SparkyPrepCharge0"}
    ELSE IF kind = "Ampton" THEN {"Ampton0", "AmptonComp0", "AmptonDismount0",
                                             "AmptonTurn0"}
    ELSE IF kind = "pole" THEN {"AmptonPole0", "AmptonPole2"}
    ELSE IF kind = "SliceStar" THEN {"Slice0", "SliceDiag0"}
    ELSE IF kind = "dyingStar" THEN {"SliceDie0"}
    ELSE IF kind = "robo" THEN {"RoboShoot0"}
    ELSE IF kind = "Spindred" THEN {"Spindred0"}
    ELSE IF kind = "Shikadi" THEN {"ShikadiStand0", "ShikadiPole0"}
    ELSE IF kind = "Shocksund" THEN {"Shocksund0", "ShocksundJump0", "ShocksundShoot0"}
    ELSE IF kind = "standing" THEN {"ShocksundStand0"}
    ELSE IF kind = "Sphereful" THEN {"Sphereful0"}
    ELSE IF kind = "stunned" THEN {"SparkyStunned0", "AmptonStunned0", "ShikadiStun0",
                                             "ShocksundStun0", "KorathStun0"}
    ELSE {"Volte0", "Mine2", "Robo0", "SpirogripAttachDown", "Master0", "KorathWalk1", "QED0",
          "LevelEnd", "VolteStunned", "ShellyBits0", "ShellyBits1", "ShellyExplode0",
          "MineExplode0", "Mine1", "MineShrap0", "RoboShot0", "RoboShotHit0", "SpirogripSpin1",
          "SpirogripFlyUp", "SpirogripSpin3", "SpirogripFlyRight", "SpirogripSpin5",
          "SpirogripFlyDown", "SpirogripSpin7", "SpirogripFlyLeft", "MasterTele0",
          "MasterShoot0", "MasterBall0", "MasterSparks0", "PoleZap0", "BarkShot0",
          "BarkShotDie0", "KorathWait", "FallPlat0", "AxisPlatform", "sneakPlatWait",
          "turretWait", "FallPlat1", "FallPlat2", "sneakPlatSneak", "turretShot1",
          "turretShotHit1"}

\* They are of the kinds that they are chosen for.
LEMMA Chosen5Kinds ==
    ASSUME NEW kind \in {"Sparky", "preparing", "Ampton", "pole", "SliceStar", "dyingStar",
                           "robo", "Spindred", "Shikadi", "Shocksund", "standing", "Sphereful",
                           "stunned", "plain"}, NEW a \in Chosen5(kind)
    PROVE  a \in ActsOf(5) /\ Kind(5, a) = kind
<1>1. a \in Acts5
  BY DEF Chosen5, Acts5, Fixture5Acts, SparkyActs, AmptonActs, ShellyActs, RoboActs, SpirogripActs, MasterActs, ShikadiActs
<1>2. Kind5(a) = kind
  BY DEF Chosen5, Kind5, Sparkies, Amptons, Shikadis, Shocksunds, Stunned5, Shots
<1> QED  BY <1>1, <1>2 DEF ActsOf, Kind

\* The actions that the functions of Keen 6 choose.
Chosen6(kind) ==
    IF kind = "Sandwich" THEN {"Sandwich0"}
    ELSE IF kind = "Rope" THEN {"Rope0"}
    ELSE IF kind = "Passcard" THEN {"Passcard0"}
    ELSE IF kind = "Molly" THEN {"Molly0"}
    ELSE IF kind = "Bloog" THEN {"BloogWalk0"}
    ELSE IF kind = "Bloogguard" THEN {"BloogguardWalk0", "BloogguardClub0"}
    ELSE IF kind = "Blooglet" THEN {"BloogletRRun0", "BloogletYRun0", "BloogletBRun0",
                                             "BloogletGRun0"}
    ELSE IF kind = "Nospike" THEN {"NospikeSit0", "NospikeCharge0", "NospikeWalk0"}
    ELSE IF kind = "falling" THEN {"NospikeFall0"}
    ELSE IF kind = "Flect" THEN {"FlectWalk0", "FlectTurn1", "FlectTurn0"}
    ELSE IF kind = "Fleex" THEN {"FleexWalk0", "FleexSearch0", "FleexSearch1"}
    ELSE IF kind = "Bobba" THEN {"BobbaJump0", "BobbaShoot0", "BobbaStand0"}
    ELSE IF kind = "Babobba" THEN {"BabobbaJump0", "BabobbaNap0", "BabobbaSit1",
                                             "BabobbaSit0"}
    ELSE IF kind = "burning" THEN {"BabobbaShotStart0"}
    ELSE IF kind = "vanishing" THEN {"BabobbaShotVanish0"}
    ELSE IF kind = "Blorb" THEN {"Blorb0"}
    ELSE IF kind = "bouncing" THEN {"OrbatrixBounce0"}
    ELSE IF kind = "Ceilick" THEN {"CeilickWait0", "CeilickStrike00"}
    ELSE IF kind = "stunned" THEN {"BloogStunned0", "BloogguardStunned0",
                                             "BloogletRStunned0", "BloogletYStunned0",
                                             "BloogletBStunned0", "BloogletGStunned0",
                                             "NospikeStunned0", "FlectStunned0", "FleexStunned0",
                                             "BabobbaStunned0", "CeilickStunned0"}
    ELSE {"GikWalk0", "OrbatrixFloat0", "BipshipFly0", "GikJump0", "GikEndSlide0",
          "OrbatrixUncurl2", "OrbatrixCurl0", "OrbatrixUncurl0", "BipStand0", "BipSquished0",
          "BipShot0", "BipshipTurn0", "BipshipHit0", "BobbaTwinkle0", "BobbaFireballHits0",
          "FallPlat0", "AxisPlatform", "sneakPlatWait", "turretWait", "FallPlat1", "FallPlat2",
          "sneakPlatSneak", "turretShot1", "turretShotHit1"}

\* They are of the kinds that they are chosen for.
LEMMA Chosen6Kinds ==
    ASSUME NEW kind \in {"Sandwich", "Rope", "Passcard", "Molly", "Bloog", "Bloogguard",
                           "Blooglet", "Nospike", "falling", "Flect", "Fleex", "Bobba",
                           "Babobba", "burning", "vanishing", "Blorb", "bouncing", "Ceilick",
                           "stunned", "plain"}, NEW a \in Chosen6(kind)
    PROVE  a \in ActsOf(6) /\ Kind(6, a) = kind
<1>1. a \in Acts6
  BY DEF Chosen6, Acts6, Fixture6Acts, BloogActs, NospikeActs, OrbatrixActs, FleexActs, BobbaActs, CeilickActs
<1>2. Kind6(a) = kind
  BY DEF Chosen6, Kind6, Guards, Blooglets, Falling, Flects, Fleexes, Bobbas, Babobbas, Ceilicks, Stunned6, Shots
<1> QED  BY <1>1, <1>2 DEF ActsOf, Kind

\* The functions of an object's action; what is stunned has no other.
FunctionsOf(i) == {Action(i).think, Action(i).collide, Action(i).draw}

\* What waits to be eaten only shows itself.
LEMMA WaitingNamed ==
    ASSUME IndInv, NEW i \in Ids, KindAt(i) \in Waiting
    PROVE  FunctionsOf(i) \subseteq {"NULL", "CK_BasicDrawFunc1"}
<1>1. ck_currentEpisode \in 4 .. 6
  BY DEF IndInv
<1>2. ck_currentEpisode = 4
  BY <1>1 DEF KindAt, Kind, Kind5, Kind6, Waiting
<1>3. KindAt(i) = "eatenFish" \/ KindAt(i) = "eaten"
  BY DEF Waiting
<1> QED  BY <1>2, <1>3, NamedAt DEF Named4, FunctionsOf

\* What is stunned falls, or hatches.
StunnedFunctions == {"NULL", "CK_BasicDrawFunc1", "CK_Fall", "CK_BasicDrawFunc4",
                     "CK4_BirdHatchedCol", "CK4_BirdRecover", "CK6_CeilickStunned"}
LEMMA StunnedNamed ==
    ASSUME IndInv, NEW i \in Ids, KindAt(i) = "stunned"
    PROVE  FunctionsOf(i) \subseteq StunnedFunctions
<1>1. ck_currentEpisode \in 4 .. 6
  BY DEF IndInv
<1>2. CASE ck_currentEpisode = 4
  BY <1>2, NamedAt DEF Named4, FunctionsOf, StunnedFunctions
<1>3. CASE ck_currentEpisode = 5
  BY <1>3, NamedAt DEF Named5, FunctionsOf, StunnedFunctions
<1>4. CASE ck_currentEpisode = 6
  BY <1>4, NamedAt DEF Named6, FunctionsOf, StunnedFunctions
<1> QED  BY <1>1, <1>2, <1>3, <1>4

\* Only the stunned have stars, and only birds recover.
LEMMA StarsAt ==
    ASSUME IndInv, NEW i \in Ids, "CK_BasicDrawFunc4" \in FunctionsOf(i)
    PROVE  KindAt(i) = "stunned"
<1>1. ck_currentEpisode \in 4 .. 6
  BY DEF IndInv
<1>2. CASE ck_currentEpisode = 4
  BY <1>2, NamedAt DEF Named4, FunctionsOf
<1>3. CASE ck_currentEpisode = 5
  BY <1>3, NamedAt DEF Named5, FunctionsOf
<1>4. CASE ck_currentEpisode = 6
  BY <1>4, NamedAt DEF Named6, FunctionsOf
<1> QED  BY <1>1, <1>2, <1>3, <1>4

LEMMA RecoverAt ==
    ASSUME IndInv, NEW i \in Ids, "CK4_BirdRecover" \in FunctionsOf(i)
    PROVE  ck_currentEpisode = 4 /\ KindAt(i) = "stunned"
<1>1. ck_currentEpisode \in 4 .. 6
  BY DEF IndInv
<1>2. CASE ck_currentEpisode = 4
  BY <1>2, NamedAt DEF Named4, FunctionsOf
<1>3. CASE ck_currentEpisode = 5
  BY <1>3, NamedAt DEF Named5, FunctionsOf
<1>4. CASE ck_currentEpisode = 6
  BY <1>4, NamedAt DEF Named6, FunctionsOf
<1> QED  BY <1>1, <1>2, <1>3, <1>4

\* Only shots fly and are drawn as shots.
LEMMA ShotAt ==
    ASSUME IndInv, NEW i \in Ids, FunctionsOf(i) \cap {"CK_ShotThink", "CK_ShotDrawFunc"} # {}
    PROVE  KindAt(i) = "shot"
<1>1. ck_currentEpisode \in 4 .. 6
  BY DEF IndInv
<1>2. CASE ck_currentEpisode = 4
  BY <1>2, NamedAt DEF Named4, FunctionsOf
<1>3. CASE ck_currentEpisode = 5
  BY <1>3, NamedAt DEF Named5, FunctionsOf
<1>4. CASE ck_currentEpisode = 6
  BY <1>4, NamedAt DEF Named6, FunctionsOf
<1> QED  BY <1>1, <1>2, <1>3, <1>4

\* Functions that choose what the row names next.
LEMMA FollowersAt ==
    ASSUME IndInv, NEW i \in Ids,
           Action(i).think \in Followers \/ Action(i).draw \in Followers, NEW act \in Action(i).next
    PROVE  /\ act # "NULL" => act \in ActsOf(ck_currentEpisode)
                              /\ Kind(ck_currentEpisode, act) = KindAt(i)
           /\ KindAt(i) \notin Waiting
<1>1. Followed(ck_currentEpisode, objs[i].act, Action(i)) /\ Timed(objs[i].act, Action(i))
  BY ObjectAt DEF Sound
<1>2. objs[i].act \notin Breaks
  BY <1>1 DEF Timed, Special, Breaks
<1>3. "NULL" \notin Followers /\ "CK_BasicDrawFunc1" \notin Followers
  BY DEF Followers
<1> QED  BY <1>1, <1>2, <1>3, WaitingNamed DEF Followed, KindAt, FunctionsOf

(***************************************************************************)
(* The functions that no episode owns.                                     *)
(***************************************************************************)
\* An object that may be removed is.
LEMMA SafeRemove ==
    ASSUME IndInv, NEW i \in Ids, i # 0, KindAt(i) \notin Waiting, Becomes(CK_RemoveObj(objs, i))
    PROVE  SafeStep
<1>1. Keeps(ck_currentEpisode, objs, CK_RemoveObj(objs, i))
  BY SelfKeeps, RemoveKeeps DEF IndInv, KindAt
<1> QED  BY <1>1, SafeBecomes

\* Every step of the machine that the creatures share.
LEMMA SafeCreatureStep ==
    ASSUME IndInv, NEW i \in Ids, i # 0, CreatureStep(i)
    PROVE  SafeStep
<1> DEFINE e == ck_currentEpisode
<1>0. e \in 4 .. 6 /\ objs \in [Ids -> ObjType] /\ objs[i] \in ObjType
  BY ObjectAt
<1>1. CASE CK_RunAction(i)
  <2>1. Action(i).think # "CK4_BirdRecover"
    BY <1>1 DEF CK_RunAction, Moves
  <2> QED  BY <1>1, <2>1, SelfKeeps, SafeThink DEF CK_RunAction
<1>2. CASE TimeUntillThink(i)
  <2>1. Action(i).draw \notin StunnedFunctions
    BY <1>2 DEF TimeUntillThink, Turners, StunnedFunctions
  <2>2. Action(i).think # "CK4_BirdRecover"
    BY <2>1, RecoverAt, StunnedNamed DEF FunctionsOf
  <2> QED  BY <1>2, <2>2, SelfKeeps, SafeThink DEF TimeUntillThink
<1>3. CASE LeavesScreen(i)
  <2>1. ClippingFits(KindAt(i), objs[i].type, objs[i].active, objs[i].clipped)
    BY ObjectAt DEF Fits
  <2>2. KindAt(i) \notin Waiting
    BY <1>3, <2>1 DEF LeavesScreen, ClippingFits, Waiting
  <2> QED  BY <1>3, <2>2, SafeRemove DEF LeavesScreen
<1>4. CASE LosesStars(i)
  <2>1. Good(e, objs[i]) /\ Fits(e, KindAt(i), objs[i])
    BY ObjectAt
  <2>2. KindAt(i) \in {"stunned", "Arachnut"}
    BY <1>4, <2>1 DEF LosesStars, Is, Fits, TypeFits
  <2>3. 0 \in Int /\ CountersFit(KindAt(i), objs[i].user1, objs[i].user2, 0)
    BY <2>2 DEF CountersFit
  <2>4. Suits(e, objs[i], objs[i].act, objs[i].clipped, objs[i].user1, objs[i].user2, 0)
    BY <1>0, <2>1, <2>3 DEF Suits, Good, Fits, KindAt, ObjType
  <2>5. Keeps(e, objs, [objs EXCEPT ![i].user3 = 0])
    BY <1>0, <2>3, <2>4, SelfKeeps, User3Keeps
  <2> QED  BY <1>4, <2>5, SafeBecomes DEF LosesStars
<1>5. CASE FallsOut(i)
  <2>1. KindAt(i) \notin Waiting
    BY <1>5, WaitingNamed DEF FallsOut, FunctionsOf
  <2> QED  BY <1>5, <2>1, SafeRemove DEF FallsOut
<1>6. CASE CK_ShotThink(i)
  <2>1. KindAt(i) \notin Waiting
    BY <1>6, WaitingNamed DEF CK_ShotThink, Thinks, FunctionsOf
  <2> QED  BY <1>6, <2>1, SafeRemove, SelfKeeps, SafeThink DEF CK_ShotThink, Thinks
<1>7. CASE CK_ShotDrawFunc(i)
  <2>1. KindAt(i) = "shot"
    BY <1>7, ShotAt DEF CK_ShotDrawFunc, Draws, FunctionsOf
  <2>2. Keeps(e, objs, CK_ShotHit(objs, i))
    BY <1>0, <2>1, SelfKeeps, ShotHitKeeps DEF KindAt
  <2> QED  BY <1>7, <2>2, SafeBecomes DEF CK_ShotDrawFunc, Deflects
<1>8. CASE CK_BasicDrawFunc4(i)
  <2> DEFINE stars == e # 6 \/ objs[i].user4 \in StarSpecs6
             turned == (objs[i].user2 + 1) % 3
             one == 1
             shown == [objs EXCEPT ![i].user2 = turned, ![i].user3 = one]
  <2>1. KindAt(i) = "stunned"
    BY <1>8, StarsAt DEF CK_BasicDrawFunc4, Draws, FunctionsOf
  <2>2. Good(e, objs[i]) /\ Fits(e, KindAt(i), objs[i])
    BY ObjectAt
  <2>3. stars
    BY <2>1, <2>2 DEF Fits, TypeFits
  <2>4. turned \in Int /\ one \in Int
    <3>1. objs[i].user2 \in Int
      BY <1>0 DEF ObjType
    <3> QED  BY <3>1
  <2>5. \/ Becomes(shown)
        \/ \E act \in Action(i).next \ {"NULL"} : Becomes(SetAct(shown, i, act))
    BY Zenon, <1>8, <2>3 DEF CK_BasicDrawFunc4
  <2> HIDE DEF turned, one
  <2>6. Suits(e, objs[i], objs[i].act, objs[i].clipped, objs[i].user1, turned, one)
    BY <1>0, <2>1, <2>2, <2>4 DEF Suits, Good, Fits, KindAt, ObjType, CountersFit
  <2>7. Keeps(e, objs, shown)
    BY <1>0, <2>4, <2>6, SelfKeeps, User23Keeps
  <2>8. shown[i].act = objs[i].act
    <3>1. shown[i] = [objs[i] EXCEPT !.user2 = turned, !.user3 = one]
      BY <1>0
    <3>2. [objs[i] EXCEPT !.user2 = turned, !.user3 = one].act = objs[i].act
      BY <1>0 DEF ObjType
    <3> QED  BY <3>1, <3>2
  <2> HIDE DEF shown
  <2>9. ASSUME NEW act \in Action(i).next, act # "NULL" PROVE Keeps(e, objs, SetAct(shown, i, act))
    <3>1. act \in ActsOf(e) /\ Kind(e, act) = Kind(e, shown[i].act)
      BY <1>8, <2>8, <2>9, FollowersAt DEF CK_BasicDrawFunc4, Draws, Followers, KindAt
    <3> QED  BY <1>0, <2>7, <3>1, ActKeeps
  <2> QED  BY <2>5, <2>7, <2>9, SafeBecomes
<1>9. CASE CK_DieOnContactDraw(i)
  <2>1. PICK act \in Action(i).next \ {"NULL"} : Becomes(Goes(i, act))
    BY <1>9 DEF CK_DieOnContactDraw
  <2>2. act \in ActsOf(e) /\ Kind(e, act) = KindAt(i)
    BY <1>9, <2>1, FollowersAt DEF CK_DieOnContactDraw, Draws, Followers
  <2> QED  BY <2>1, <2>2, GoesKeeps, SafeBecomes
<1>10. CASE CK_ShrapnelTileCol(i)
  <2>1. PICK act \in Action(i).next :
            Becomes(IF act = "NULL" THEN CK_RemoveObj(objs, i) ELSE Goes(i, act))
    BY <1>10 DEF CK_ShrapnelTileCol
  <2>2. /\ act # "NULL" => act \in ActsOf(e) /\ Kind(e, act) = KindAt(i)
        /\ KindAt(i) \notin Waiting
    BY <1>10, <2>1, FollowersAt DEF CK_ShrapnelTileCol, Draws, Followers
  <2> QED  BY <2>1, <2>2, GoesKeeps, SafeBecomes, SafeRemove
<1> QED  BY <1>1, <1>2, <1>3, <1>4, <1>5, <1>6, <1>7, <1>8, <1>9, <1>10 DEF CreatureStep

\* A creature whose function kills.
LEMMA SafeKills ==
    ASSUME IndInv, NEW i \in Ids, NEW f \in FunctionsOf(i), f \notin StunnedFunctions, Kills(i)
    PROVE  SafeStep
  BY StunnedNamed, SelfKeeps, SafeKill DEF Kills

\* Every touch that the creatures share.
LEMMA SafeCreatureTouch ==
    ASSUME IndInv, NEW i \in Ids, NEW j \in Ids, CreatureTouch(i, j)
    PROVE  SafeStep
<1>1. CASE CK_DeadlyCol(i, j)
  BY <1>1, SafeDeflects, SafeKills DEF CK_DeadlyCol, Touches, FunctionsOf, StunnedFunctions
<1>2. CASE CK_LethalCol(i, j)
  BY <1>2, SafeKills DEF CK_LethalCol, Touches, FunctionsOf, StunnedFunctions
<1> QED  BY <1>1, <1>2 DEF CreatureTouch

\* What becomes one of the friendly things that nothing is said of.
LEMMA RetypeKeeps ==
    ASSUME NEW e \in 4 .. 6, NEW before, NEW os, Keeps(e, before, os), NEW i \in Ids,
           os[i].type \in Ordinary \ {"Friendly"}, NEW act \in ActsOf(e), Kind(e, act) = "plain"
    PROVE  /\ Keeps(e, before, [os EXCEPT ![i].type = "Friendly", ![i].act = act])
           /\ Keeps(e, before, [os EXCEPT ![i].type = "Friendly", ![i].active = "onscreen",
                                          ![i].act = act])
<1> DEFINE kind == Kind(e, os[i].act)
           o == [os[i] EXCEPT !.type = "Friendly", !.act = act]
           q == [os[i] EXCEPT !.type = "Friendly", !.active = "onscreen", !.act = act]
<1>1. os \in [Ids -> ObjType] /\ os[i] \in ObjType /\ Good(e, os[i]) /\ Turns(e, before[i], os[i])
      /\ Fits(e, kind, os[i])
  BY DEF Keeps, World, Good
<1>2. "Friendly" \in Types /\ "Friendly" \in Ordinary
  BY DEF Types, Ordinary
<1>3. o \in ObjType /\ q \in ObjType
  BY <1>1, <1>2, ActsIn DEF ObjType
<1>4. /\ o.act = act /\ o.type = "Friendly" /\ o.hit = os[i].hit /\ o.clipped = os[i].clipped
      /\ q.act = act /\ q.type = "Friendly" /\ q.hit = os[i].hit /\ q.clipped = os[i].clipped
  BY <1>1 DEF ObjType
<1>5. /\ [os EXCEPT ![i].type = "Friendly", ![i].act = act] = [os EXCEPT ![i] = o]
      /\ [os EXCEPT ![i].type = "Friendly", ![i].active = "onscreen", ![i].act = act]
            = [os EXCEPT ![i] = q]
  BY <1>1
<1> HIDE DEF o, q, kind
<1>6. /\ os[i].type \notin Bound
      /\ os[i].type \notin {"Friendly", "StunnedCreature", "Stunner", "Arachnut", "Player"}
  BY DEF Ordinary, Bound
<1>7. os[i].hit = "" /\ os[i].clipped # "simple" /\ kind \notin Waiting
  BY <1>1, <1>6 DEF Fits, TypeFits, ClippingFits, TypeOf, Bound, Waiting
<1>8. Good(e, o) /\ Good(e, q)
  BY <1>2, <1>3, <1>4, <1>7, PlainGood
<1>9. Turns(e, before[i], o) /\ Turns(e, before[i], q)
  BY <1>1, <1>4, <1>7 DEF Turns, Rare, kind
<1> QED  BY <1>4, <1>5, <1>8, <1>9, PutKeeps

(***************************************************************************)
(* The fixtures.                                                           *)
(***************************************************************************)
FixtureFunctions ==
    {"CK_DoorOpen", "CK_SecurityDoorOpen", "CK_FallingItem", "CK_FallPlatSit", "CK_FallPlatFall",
     "CK_FallPlatRise", "CK_SneakPlatThink", "CK_TurretShoot", "CK_TurretShotCol", "CK_TurretShotDraw"}

\* The actions that name a function of the fixtures are plain.
LEMMA FixtureAt ==
    ASSUME IndInv, NEW i \in Ids, NEW f \in FixtureFunctions, f \in FunctionsOf(i)
    PROVE  /\ KindAt(i) = "plain"
           /\ f \in {"CK_SneakPlatThink", "CK_TurretShoot", "CK_TurretShotCol", "CK_TurretShotDraw"}
                => ck_currentEpisode \in {5, 6}
<1> DEFINE kind == KindAt(i)
<1>1. ck_currentEpisode \in 4 .. 6
  BY DEF IndInv
<1>2. CASE ck_currentEpisode = 4
  <2>1. f \in Named4(kind)
    BY <1>2, NamedAt DEF FunctionsOf
  <2>2. kind = Kind4(objs[i].act)
    BY <1>2 DEF KindAt, Kind
  <2> HIDE DEF kind
  <2>3. kind = "plain"
    BY <2>1, <2>2, Kind4Range DEF Named4, FixtureFunctions
  <2>4. f \notin {"CK_SneakPlatThink", "CK_TurretShoot", "CK_TurretShotCol", "CK_TurretShotDraw"}
    BY <2>1, <2>3 DEF Named4
  <2> QED  BY <2>3, <2>4 DEF kind
<1>3. CASE ck_currentEpisode = 5
  <2>1. f \in Named5(kind)
    BY <1>3, NamedAt DEF FunctionsOf
  <2>2. kind = Kind5(objs[i].act)
    BY <1>3 DEF KindAt, Kind
  <2> HIDE DEF kind
  <2>3. kind = "plain"
    BY <2>1, <2>2, Kind5Range DEF Named5, FixtureFunctions
  <2> QED  BY <1>3, <2>3 DEF kind
<1>4. CASE ck_currentEpisode = 6
  <2>1. f \in Named6(kind)
    BY <1>4, NamedAt DEF FunctionsOf
  <2>2. kind = Kind6(objs[i].act)
    BY <1>4 DEF KindAt, Kind
  <2> HIDE DEF kind
  <2>3. kind = "plain"
    BY <2>1, <2>2, Kind6Range DEF Named6, FixtureFunctions
  <2> QED  BY <1>4, <2>3 DEF kind
<1> QED  BY <1>1, <1>2, <1>3, <1>4

\* So are those that the fixtures choose.
LEMMA FixtureActs ==
    ASSUME NEW e \in 4 .. 6
    PROVE  /\ \A a \in {"FallPlat0", "FallPlat1", "FallPlat2", "AxisPlatform", "item", "itemNotify"} :
                  a \in ActsOf(e) /\ Kind(e, a) = "plain"
           /\ e \in {5, 6} =>
                 \A a \in {"sneakPlatWait", "sneakPlatSneak", "turretWait", "turretShot1", "turretShotHit1"} :
                     a \in ActsOf(e) /\ Kind(e, a) = "plain"
<1>1. \A a \in {"item", "itemNotify"} : a \in ActsOf(e) /\ Kind(e, a) = "plain"
  BY CommonKinds DEF CommonActs, Shots
<1>2. CASE e = 4
  <2>1. ASSUME NEW a \in {"FallPlat0", "FallPlat1", "FallPlat2", "AxisPlatform"}
        PROVE  a \in Chosen4("plain")
    BY DEF Chosen4
  <2> QED  BY <1>1, <1>2, <2>1, Chosen4Kinds
<1>3. CASE e = 5
  <2>1. ASSUME NEW a \in {"FallPlat0", "FallPlat1", "FallPlat2", "AxisPlatform",
                          "sneakPlatWait", "sneakPlatSneak", "turretWait", "turretShot1", "turretShotHit1"}
        PROVE  a \in Chosen5("plain")
    BY DEF Chosen5
  <2> QED  BY <1>1, <1>3, <2>1, Chosen5Kinds
<1>4. CASE e = 6
  <2>1. ASSUME NEW a \in {"FallPlat0", "FallPlat1", "FallPlat2", "AxisPlatform",
                          "sneakPlatWait", "sneakPlatSneak", "turretWait", "turretShot1", "turretShotHit1"}
        PROVE  a \in Chosen6("plain")
    BY DEF Chosen6
  <2> QED  BY <1>1, <1>4, <2>1, Chosen6Kinds
<1> QED  BY <1>2, <1>3, <1>4

\* An object of which nothing is said may have any counters.
LEMMA PlainSuits ==
    ASSUME IndInv, NEW i \in Ids, KindAt(i) = "plain",
           NEW act \in ActsOf(ck_currentEpisode), Kind(ck_currentEpisode, act) = "plain",
           NEW u1 \in Int, NEW u2 \in Int, NEW u3 \in Int
    PROVE  Suits(ck_currentEpisode, objs[i], act, objs[i].clipped, u1, u2, u3)
<1>1. objs[i] \in ObjType /\ ClippingFits(KindAt(i), objs[i].type, objs[i].active, objs[i].clipped)
  BY ObjectAt DEF Fits
<1>2. objs[i].clipped \in {"normal", "simple", "not"}
  BY <1>1 DEF ObjType
<1>3. CountersFit("plain", u1, u2, u3)
  BY DEF CountersFit
<1> QED  BY <1>1, <1>2, <1>3 DEF Suits, KindAt

\* The fields of an object.
LEMMA Fields ==
    ASSUME IndInv, NEW i \in Ids
    PROVE  /\ objs[i].user1 \in Int /\ objs[i].user2 \in Int /\ objs[i].user3 \in Int
           /\ objs[i].ptr \in Ids /\ objs[i].act \in ActsOf(ck_currentEpisode)
           /\ ck_currentEpisode \in 4 .. 6
  BY ObjectAt DEF ObjType

(***************************************************************************)
(* Keen himself.                                                           *)
(***************************************************************************)
\* Keen's actions are plain.
LEMMA KeenActsPlain ==
    ASSUME NEW e \in 4 .. 6, NEW act \in KeenActs \cup {"keenStunned0"}
    PROVE  act \in ActsOf(e) /\ Kind(e, act) = "plain"
<1>1. act \in CommonActs \ Shots
  BY DEF KeenActs, CommonActs, Shots
<1> QED  BY <1>1, CommonKinds

\* Keen moves, gets up after a stun, and dies.
LEMMA SafeKeenMoves ==
    ASSUME IndInv, KeenMoves
    PROVE  SafeStep
<1>1. ck_currentEpisode \in 4 .. 6 /\ objs[0].act \in KeenActs
  BY DEF IndInv, KeenMoves
<1>2. PICK act \in KeenActs : Becomes(Goes(0, act))
  BY DEF KeenMoves
<1>3. act \in ActsOf(ck_currentEpisode) /\ Kind(ck_currentEpisode, act) = "plain"
      /\ KindAt(0) = "plain"
  BY <1>1, KeenActsPlain DEF KindAt
<1> QED  BY <1>2, <1>3, ZeroId, GoesKeeps, SafeBecomes

LEMMA SafeKeenRecovers ==
    ASSUME IndInv, KeenRecovers
    PROVE  SafeStep
<1>1. At(0, "keenStunned0") /\ Action(0).think \in Moves /\ CK_ActionThink(0, objs)
  BY DEF KeenRecovers, CK_RunAction
<1>2. Action(0).think # "CK4_BirdRecover"
  BY <1>1 DEF Moves
<1> QED  BY <1>1, <1>2, ZeroId, SelfKeeps, SafeThink DEF At

LEMMA SafeKeenDies ==
    ASSUME IndInv, CK_KeenDeathThink
    PROVE  SafeStep
<1>1. "LS_Died" \in LevelStates
  BY DEF LevelStates
<1> QED  BY <1>1, SafeEnds DEF CK_KeenDeathThink

(***************************************************************************)
(* The functions of the fixtures.                                          *)
(***************************************************************************)
LEMMA SafeFixtureStep ==
    ASSUME IndInv, NEW i \in Ids, i # 0, FixtureStep(i)
    PROVE  SafeStep
<1> DEFINE e == ck_currentEpisode
<1>0. e \in 4 .. 6 /\ Keeps(e, objs, objs)
  BY SelfKeeps DEF IndInv
<1>1. CASE CK_DoorOpen(i)
  BY <1>1, <1>0, SafeThink DEF CK_DoorOpen, ThinkOnly, Thinks
<1>2. CASE CK_SecurityDoorOpen(i)
  <2> DEFINE next == objs[i].user1 + 1
  <2>1. KindAt(i) = "plain" /\ Thinks(i, "CK_SecurityDoorOpen")
    BY <1>2, FixtureAt DEF CK_SecurityDoorOpen, Thinks, FixtureFunctions, FunctionsOf
  <2>2. next \in Int
    <3>1. objs[i].user1 \in Int
      BY Fields
    <3> QED  BY <3>1
  <2>3. \/ CK_ActionThink(i, CK_RemoveObj(objs, i))
        \/ CK_ActionThink(i, [objs EXCEPT ![i].user1 = next])
    BY <1>2 DEF CK_SecurityDoorOpen, ThinkOnly
  <2> HIDE DEF next
  <2>4. Suits(e, objs[i], objs[i].act, objs[i].clipped, next, objs[i].user2, objs[i].user3)
    BY <2>1, <2>2, PlainSuits, Fields DEF KindAt
  <2>5. Keeps(e, objs, [objs EXCEPT ![i].user1 = next])
    BY <1>0, <2>2, <2>4, User1Keeps
  <2>6. Keeps(e, objs, CK_RemoveObj(objs, i))
    BY <1>0, <2>1, RemoveKeeps DEF KindAt, Waiting
  <2> QED  BY <2>1, <2>3, <2>5, <2>6, SafeThink DEF Thinks
<1>3. CASE CK_FallingItem(i)
  <2>1. KindAt(i) = "plain"
    BY <1>3, FixtureAt DEF CK_FallingItem, Thinks, FixtureFunctions, FunctionsOf
  <2>2. Keeps(e, objs, Goes(i, "item"))
    BY <1>0, <2>1, FixtureActs, GoesKeeps
  <2> QED  BY <1>3, <1>0, <2>2, SafeThink, SafeBecomes DEF CK_FallingItem, Thinks, ThinkOnly
<1>4. CASE CK_FallPlat(i)
  <2>1. KindAt(i) = "plain"
    BY <1>4, FixtureAt DEF CK_FallPlat, May, Thinks, FixtureFunctions, FunctionsOf
  <2>2. \A a \in {"FallPlat0", "FallPlat1", "FallPlat2"} : a \in ActsOf(e) /\ Kind(e, a) = KindAt(i)
    BY <1>0, <2>1, FixtureActs
  <2>3. CASE May(i, "CK_FallPlatSit", {"FallPlat1"})
    BY <2>2, <2>3, SafeMay
  <2>4. CASE May(i, "CK_FallPlatFall", {"FallPlat2"})
    BY <2>2, <2>4, SafeMay
  <2>5. CASE May(i, "CK_FallPlatRise", {"FallPlat0", "FallPlat1"})
    BY <2>2, <2>5, SafeMay
  <2> QED  BY <1>4, <2>3, <2>4, <2>5 DEF CK_FallPlat
<1>5. CASE CK_SneakPlatThink(i)
  <2>1. KindAt(i) = "plain" /\ e \in {5, 6}
    BY <1>5, FixtureAt DEF CK_SneakPlatThink, Thinks, FixtureFunctions, FunctionsOf
  <2>2. Keeps(e, objs, Goes(i, "sneakPlatSneak"))
    BY <1>0, <2>1, FixtureActs, GoesKeeps
  <2> QED  BY <1>5, <2>2, SafeBecomes DEF CK_SneakPlatThink
<1>6. CASE CK_TurretShoot(i)
  <2>1. e \in {5, 6} /\ Thinks(i, "CK_TurretShoot")
    BY <1>6, FixtureAt DEF CK_TurretShoot, Thinks, FixtureFunctions, FunctionsOf
  <2>2. "EnemyShot" \in Ordinary
    BY DEF Ordinary
  <2>3. ASSUME NEW ac \in {"active", "onscreen", "always", "inactive"}
        PROVE  Keeps(e, objs, CK_GetNewObj(objs, Obj("EnemyShot", "turretShot1", ac)))
    BY <1>0, <2>1, <2>2, FixtureActs, NewPlainKeeps
  <2>4. \/ CK_ActionThink(i, CK_GetNewObj(objs, Obj("EnemyShot", "turretShot1", "active")))
        \/ CK_ActionThink(i, CK_GetNewObj(objs, Obj("EnemyShot", "turretShot1", "onscreen")))
    BY <1>6 DEF CK_TurretShoot, ThinkOnly, Creature, Debris
  <2> QED  BY <2>1, <2>3, <2>4, SafeThink DEF Thinks
<1>7. CASE CK_TurretShotDraw(i)
  <2>1. KindAt(i) = "plain" /\ e \in {5, 6}
    BY <1>7, FixtureAt DEF CK_TurretShotDraw, DrawsTo, Draws, FixtureFunctions, FunctionsOf
  <2> QED  BY <1>0, <1>7, <2>1, FixtureActs, SafeDraws DEF CK_TurretShotDraw
<1> QED  BY <1>1, <1>2, <1>3, <1>4, <1>5, <1>6, <1>7 DEF FixtureStep

\* A shot of an enemy kills Keen and is spent, or gone.
LEMMA SafeKillGoes ==
    ASSUME IndInv, NEW i \in Ids, KindAt(i) = "plain", NEW act \in ActsOf(ck_currentEpisode),
           Kind(ck_currentEpisode, act) = "plain", CK_KillKeen(i, Goes(i, act))
    PROVE  SafeStep
  BY GoesKeeps, SafeKill

\* Every touch of a fixture, and an item that Keen takes.
LEMMA SafeFixtureTouch ==
    ASSUME IndInv, NEW i \in Ids, NEW j \in Ids, FixtureTouch(i, j)
    PROVE  SafeStep
<1>1. Action(i).collide = "CK_TurretShotCol" /\ CK_KillKeen(i, Goes(i, "turretShotHit1"))
  BY DEF FixtureTouch, CK_TurretShotCol, KeenTouches, Touches
<1>2. KindAt(i) = "plain" /\ ck_currentEpisode \in {5, 6}
  BY <1>1, FixtureAt DEF FixtureFunctions, FunctionsOf
<1> QED  BY <1>1, <1>2, FixtureActs, SafeKillGoes

LEMMA SafeTakesItem ==
    ASSUME IndInv, NEW j \in Ids, CK_KeenTakesItem(j)
    PROVE  SafeStep
<1>1. "Item" \in Ordinary \ {"Friendly"}
  BY DEF Ordinary
<1>2. objs[j].type = "Item"
  BY DEF CK_KeenTakesItem, Is
<1>3. ck_currentEpisode \in 4 .. 6 /\ Keeps(ck_currentEpisode, objs, objs)
  BY SelfKeeps DEF IndInv
<1>4. Keeps(ck_currentEpisode, objs, [objs EXCEPT ![j].type = "Friendly", ![j].act = "itemNotify"])
  <2>1. "itemNotify" \in ActsOf(ck_currentEpisode) /\ Kind(ck_currentEpisode, "itemNotify") = "plain"
    BY <1>3, FixtureActs
  <2>2. objs[j].type \in Ordinary \ {"Friendly"}
    BY <1>1, <1>2
  <2> QED  BY <1>3, <2>1, <2>2, RetypeKeeps
<1> QED  BY <1>4, SafeBecomes DEF CK_KeenTakesItem

\* The kinds of the actions that name a function of Keen 4, where not all of them are plain.
Telling4 ==
    {"CK4_MushroomMove", "CK4_MushroomCol", "CK4_MushroomDraw", "CK4_BirdHatchedCol",
     "CK4_BirdDraw", "CK4_BirdCol", "CK4_BirdWalk", "CK4_BirdFly", "CK4_BirdFlyingDraw",
     "CK4_BirdLandingDraw", "CK4_BirdRecover", "CK4_ArachnutCol", "CK4_ArachnutSearch",
     "CK4_ArachnutStunnedCol", "CK4_InchwormMove", "CK4_InchwormCol", "CK4_FootCol",
     "CK4_DopefishMove", "CK4_DopefishCol", "CK4_FishDraw", "CK4_DopefishEat",
     "CK4_DopefishBurp", "CK4_DopefishAfterBurp", "CK4_SchoolfishMove"}

KindsOf4(f) ==
    IF f \in {"CK4_MushroomMove", "CK4_MushroomCol", "CK4_MushroomDraw"} THEN {"Mushroom"}
    ELSE IF f = "CK4_BirdHatchedCol" THEN {"Bird", "stunned"}
    ELSE IF f \in {"CK4_BirdDraw", "CK4_BirdWalk", "CK4_BirdLandingDraw"} THEN {"Bird"}
    ELSE IF f = "CK4_BirdCol" THEN {"Bird", "flying"}
    ELSE IF f \in {"CK4_BirdFly", "CK4_BirdFlyingDraw"} THEN {"flying"}
    ELSE IF f = "CK4_BirdRecover" THEN {"stunned"}
    ELSE IF f \in {"CK4_ArachnutCol", "CK4_ArachnutSearch", "CK4_ArachnutStunnedCol"} THEN {"Arachnut"}
    ELSE IF f \in {"CK4_InchwormMove", "CK4_InchwormCol"} THEN {"Inchworm"}
    ELSE IF f = "CK4_FootCol" THEN {"Foot"}
    ELSE IF f \in {"CK4_DopefishMove", "CK4_DopefishCol"} THEN {"swimming"}
    ELSE IF f = "CK4_FishDraw" THEN {"Schoolfish", "swimming"}
    ELSE IF f = "CK4_DopefishEat" THEN {"eating"}
    ELSE IF f \in {"CK4_DopefishBurp", "CK4_DopefishAfterBurp"} THEN {"Dopefish"}
    ELSE {"Schoolfish"}

\* An action that names one of them is of these kinds.
LEMMA Telling4At ==
    ASSUME IndInv, ck_currentEpisode = 4, NEW i \in Ids, NEW f \in Telling4,
           f \in {Action(i).think, Action(i).collide, Action(i).draw}
    PROVE  KindAt(i) \in KindsOf4(f)
<1> DEFINE kind == KindAt(i)
<1>1. f \in Named4(kind)
  BY NamedAt
<1>2. kind \in {"Mushroom", "Inchworm", "Foot", "Bird", "flying", "Arachnut", "Dopefish",
               "swimming", "eating", "Schoolfish", "eatenFish", "eaten", "stunned", "shot",
               "plain"}
  BY Kind4Range DEF KindAt, Kind
<1> HIDE DEF kind
<1>3. kind \in KindsOf4(f)
  BY <1>1, <1>2 DEF Named4, Telling4, KindsOf4
<1> QED  BY <1>3 DEF kind

\* The kinds of the actions that name a function of Keen 5, where not all of them are plain.
Telling5 ==
    {"CK5_SparkyWait", "CK5_SparkyCol", "CK5_SparkyTileCol", "CK5_SparkySearchLeft",
     "CK5_SparkySearchRight", "CK5_SparkyPrepareCharge", "CK5_SparkyCharge0",
     "CK5_SparkyCharge1", "CK5_AmptonWalk", "CK5_AmptonCol", "CK5_AmptonTileCol",
     "CK5_AmptonPoleClimb", "CK5_AmptonSwitch", "CK5_SliceCol", "CK5_SliceDiagTileCol",
     "CK5_ShellyCol", "CK5_ShellyGroundTileCol", "CK5_ShellyWait", "CK5_ShellyStartJump",
     "CK5_ShellyAirTileCol", "CK5_SpawnShellyBits", "CK5_RoboShoot", "CK5_SpindredBounce",
     "CK5_SpindredTileCol", "CK5_ShikadiCol", "CK5_ShikadiTileCol", "CK5_ShikadiWalk",
     "CK5_ShikadiPole", "CK5_ShocksundCol", "CK5_ShocksundGroundTileCol", "CK5_ShocksundStand",
     "CK5_ShocksundShoot", "CK5_ShocksundSearch", "CK5_ShocksundJumpTileCol",
     "CK5_SpherefulBounce", "CK5_SpherefulTileCol"}

KindsOf5(f) ==
    IF f \in {"CK5_SparkyWait", "CK5_SparkySearchLeft", "CK5_SparkySearchRight",
              "CK5_SparkyCharge0", "CK5_SparkyCharge1", "CK5_ShellyCol",
              "CK5_ShellyGroundTileCol", "CK5_ShellyWait", "CK5_ShellyStartJump",
              "CK5_ShellyAirTileCol", "CK5_SpawnShellyBits"} THEN {"Sparky"}
    ELSE IF f \in {"CK5_SparkyCol", "CK5_SparkyTileCol"} THEN {"Sparky", "preparing"}
    ELSE IF f = "CK5_SparkyPrepareCharge" THEN {"preparing"}
    ELSE IF f \in {"CK5_AmptonWalk", "CK5_AmptonTileCol", "CK5_AmptonSwitch"} THEN {"Ampton"}
    ELSE IF f = "CK5_AmptonCol" THEN {"Ampton", "pole"}
    ELSE IF f = "CK5_AmptonPoleClimb" THEN {"pole"}
    ELSE IF f \in {"CK5_SliceCol", "CK5_SliceDiagTileCol"} THEN {"SliceStar"}
    ELSE IF f = "CK5_RoboShoot" THEN {"robo"}
    ELSE IF f \in {"CK5_SpindredBounce", "CK5_SpindredTileCol"} THEN {"Spindred"}
    ELSE IF f \in {"CK5_ShikadiCol", "CK5_ShikadiTileCol", "CK5_ShikadiWalk",
                   "CK5_ShikadiPole"} THEN {"Shikadi"}
    ELSE IF f \in {"CK5_ShocksundCol", "CK5_ShocksundGroundTileCol"} THEN {"Shocksund", "standing"}
    ELSE IF f = "CK5_ShocksundStand" THEN {"standing"}
    ELSE IF f \in {"CK5_ShocksundShoot", "CK5_ShocksundSearch",
                   "CK5_ShocksundJumpTileCol"} THEN {"Shocksund"}
    ELSE {"Sphereful"}

\* An action that names one of them is of these kinds.
LEMMA Telling5At ==
    ASSUME IndInv, ck_currentEpisode = 5, NEW i \in Ids, NEW f \in Telling5,
           f \in {Action(i).think, Action(i).collide, Action(i).draw}
    PROVE  KindAt(i) \in KindsOf5(f)
<1> DEFINE kind == KindAt(i)
<1>1. f \in Named5(kind)
  BY NamedAt
<1>2. kind \in {"Sparky", "preparing", "Ampton", "pole", "SliceStar", "dyingStar", "robo",
               "Spindred", "Shikadi", "Shocksund", "standing", "Sphereful", "stunned", "shot",
               "plain"}
  BY Kind5Range DEF KindAt, Kind
<1> HIDE DEF kind
<1>3. kind \in KindsOf5(f)
  BY <1>1, <1>2 DEF Named5, Telling5, KindsOf5
<1> QED  BY <1>3 DEF kind

\* The kinds of the actions that name a function of Keen 6, where not all of them are plain.
Telling6 ==
    {"CK6_StoryItemCol", "CK6_Bloog", "CK6_BloogCol", "CK6_BloogguardWalk", "CK6_BloogguardCol",
     "CK6_MultihitDraw", "CK6_BloogguardSmash", "CK6_BloogletCol", "CK6_NospikeCol",
     "CK6_NospikeWalk", "CK6_NospikeCharge", "CK6_NospikeChargeDraw", "CK6_NospikeFall",
     "CK6_NospikeFallDraw", "CK6_NospikeFallDraw2", "CK6_OrbatrixBounceDraw", "CK6_FlectTurn",
     "CK6_FlectCol", "CK6_FlectDraw", "CK6_FlectWalk", "CK6_FleexWalk", "CK6_FleexCol",
     "CK6_FleexSearch", "CK6_BobbaCol", "CK6_BobbaJumpDraw", "CK6_Bobba", "CK6_BabobbaCol",
     "CK6_BabobbaJumpDraw", "CK6_BabobbaSit", "CK6_BabobbaNapCol", "CK6_BabobbaShot",
     "CK6_BabobbaShotVanish", "CK6_BlorbDraw", "CK6_Ceilick", "CK6_CeilickDescend",
     "CK6_CeilickCol", "CK6_CeilickStunned"}

KindsOf6(f) ==
    IF f = "CK6_StoryItemCol" THEN {"Molly", "Passcard", "Rope", "Sandwich"}
    ELSE IF f = "CK6_Bloog" THEN {"Bloog", "Blooglet"}
    ELSE IF f = "CK6_BloogCol" THEN {"Bloog"}
    ELSE IF f \in {"CK6_BloogguardWalk", "CK6_BloogguardCol", "CK6_BloogguardSmash"} THEN {"Bloogguard"}
    ELSE IF f = "CK6_MultihitDraw" THEN {"Bloogguard", "Fleex"}
    ELSE IF f = "CK6_BloogletCol" THEN {"Blooglet"}
    ELSE IF f \in {"CK6_NospikeCol", "CK6_NospikeWalk", "CK6_NospikeCharge",
                   "CK6_NospikeChargeDraw"} THEN {"Nospike"}
    ELSE IF f \in {"CK6_NospikeFall", "CK6_NospikeFallDraw", "CK6_NospikeFallDraw2"} THEN {"falling"}
    ELSE IF f = "CK6_OrbatrixBounceDraw" THEN {"bouncing"}
    ELSE IF f \in {"CK6_FlectTurn", "CK6_FlectCol", "CK6_FlectDraw", "CK6_FlectWalk"} THEN {"Flect"}
    ELSE IF f \in {"CK6_FleexWalk", "CK6_FleexCol", "CK6_FleexSearch"} THEN {"Fleex"}
    ELSE IF f \in {"CK6_BobbaCol", "CK6_BobbaJumpDraw", "CK6_Bobba"} THEN {"Bobba"}
    ELSE IF f \in {"CK6_BabobbaCol", "CK6_BabobbaJumpDraw", "CK6_BabobbaSit",
                   "CK6_BabobbaNapCol"} THEN {"Babobba"}
    ELSE IF f = "CK6_BabobbaShot" THEN {"burning"}
    ELSE IF f = "CK6_BabobbaShotVanish" THEN {"vanishing"}
    ELSE IF f = "CK6_BlorbDraw" THEN {"Blorb"}
    ELSE IF f \in {"CK6_Ceilick", "CK6_CeilickDescend", "CK6_CeilickCol"} THEN {"Ceilick"}
    ELSE {"stunned"}

\* An action that names one of them is of these kinds.
LEMMA Telling6At ==
    ASSUME IndInv, ck_currentEpisode = 6, NEW i \in Ids, NEW f \in Telling6,
           f \in {Action(i).think, Action(i).collide, Action(i).draw}
    PROVE  KindAt(i) \in KindsOf6(f)
<1> DEFINE kind == KindAt(i)
<1>1. f \in Named6(kind)
  BY NamedAt
<1>2. kind \in {"Sandwich", "Rope", "Passcard", "Molly", "Bloog", "Bloogguard", "Blooglet",
               "Nospike", "falling", "Flect", "Fleex", "Bobba", "Babobba", "burning",
               "vanishing", "Blorb", "bouncing", "Ceilick", "stunned", "shot", "plain"}
  BY Kind6Range DEF KindAt, Kind
<1> HIDE DEF kind
<1>3. kind \in KindsOf6(f)
  BY <1>1, <1>2 DEF Named6, Telling6, KindsOf6
<1> QED  BY <1>3 DEF kind

(***************************************************************************)
(* What the functions of the creatures have in common.                     *)
(***************************************************************************)
\* The three episodes, and the ways to be clipped.
LEMMA Ways ==
    /\ 4 \in 4 .. 6 /\ 5 \in 4 .. 6 /\ 6 \in 4 .. 6
    /\ "normal" \in {"normal", "simple", "not"} /\ "simple" \in {"normal", "simple", "not"}
    /\ "not" \in {"normal", "simple", "not"}
  OBVIOUS

\* What the invariant says of an object's clipping and counters.
LEMMA KnownAt ==
    ASSUME IndInv, NEW i \in Ids
    PROVE  /\ ClippingFits(KindAt(i), objs[i].type, objs[i].active, objs[i].clipped)
           /\ CountersFit(KindAt(i), objs[i].user1, objs[i].user2, objs[i].user3)
           /\ objs[i].clipped \in {"normal", "simple", "not"}
           /\ Keeps(ck_currentEpisode, objs, objs)
<1>1. Fits(ck_currentEpisode, KindAt(i), objs[i]) /\ objs[i] \in ObjType
  BY ObjectAt
<1>2. objs[i].clipped \in {"normal", "simple", "not"}
  BY <1>1 DEF ObjType
<1> QED  BY <1>1, <1>2, SelfKeeps DEF Fits

\* Another action of its kind suits an object, with counters that suit the kind.
LEMMA KindSuits ==
    ASSUME IndInv, NEW i \in Ids, NEW act \in ActsOf(ck_currentEpisode),
           Kind(ck_currentEpisode, act) = KindAt(i),
           NEW u1 \in Int, NEW u2 \in Int, NEW u3 \in Int, CountersFit(KindAt(i), u1, u2, u3)
    PROVE  Suits(ck_currentEpisode, objs[i], act, objs[i].clipped, u1, u2, u3)
  BY KnownAt DEF Suits, KindAt

\* So does one of a kind of its type, if its clipping suits that too.
LEMMA AkinSuits ==
    ASSUME IndInv, NEW i \in Ids, NEW act \in ActsOf(ck_currentEpisode),
           NEW kind, Kind(ck_currentEpisode, act) = kind, Akin(KindAt(i), kind),
           KindAt(i) \notin Waiting, kind \notin Waiting \cup {"eating"},
           NEW clipped \in {"normal", "simple", "not"},
           ClippingFits(kind, objs[i].type, objs[i].active, clipped),
           NEW u1 \in Int, NEW u2 \in Int, NEW u3 \in Int, CountersFit(kind, u1, u2, u3)
    PROVE  Suits(ck_currentEpisode, objs[i], act, clipped, u1, u2, u3)
  BY DEF Suits, KindAt

\* A new object that is not clipped.
LEMMA NewUnclippedKeeps ==
    ASSUME NEW e \in 4 .. 6, NEW before, NEW os, Keeps(e, before, os),
           NEW ty \in Ordinary, NEW act \in ActsOf(e),
           NEW ac \in {"active", "onscreen", "always", "inactive"},
           Kind(e, act) = "plain"
    PROVE  Keeps(e, before, CK_GetNewObj(os, [Obj(ty, act, ac) EXCEPT !.clipped = "not"]))
<1> DEFINE o == [Obj(ty, act, ac) EXCEPT !.clipped = "not"]
<1>1. Good(e, Obj(ty, act, ac)) /\ Obj(ty, act, ac).type = ty /\ Obj(ty, act, ac).act = act
  BY ObjGood
<1>2. Obj(ty, act, ac) \in ObjType /\ Obj(ty, act, ac).hit = ""
  BY <1>1 DEF Good, Obj
<1>3. o \in ObjType
  BY <1>2 DEF ObjType
<1>4. o.type = ty /\ o.act = act /\ o.clipped = "not" /\ o.hit = ""
  BY <1>1, <1>2 DEF ObjType
<1> HIDE DEF o
<1>5. ty # "Player" /\ ty \notin Rare
  BY DEF Ordinary, Rare
<1>6. Good(e, o)
  BY <1>3, <1>4, <1>5, PlainGood
<1>7. Keeps(e, before, CK_GetNewObj(os, o))
  BY <1>4, <1>5, <1>6, NewKeeps
<1> QED  BY <1>7 DEF o

\* An object that may be removed, and a shot that is deflected by what changed.
LEMMA SafeThinkRemove ==
    ASSUME IndInv, NEW i \in Ids, i # 0, Action(i).think # "CK4_BirdRecover",
           KindAt(i) \notin Waiting, ThinkOnly(i, CK_RemoveObj(objs, i))
    PROVE  SafeStep
<1>1. Keeps(ck_currentEpisode, objs, CK_RemoveObj(objs, i))
  BY SelfKeeps, RemoveKeeps DEF IndInv, KindAt
<1> QED  BY <1>1, SafeThink DEF ThinkOnly

LEMMA SafeShotHit ==
    ASSUME IndInv, NEW s \in Ids, NEW os, Keeps(ck_currentEpisode, objs, os),
           os[s].type = "Stunner", Becomes(CK_ShotHit(os, s))
    PROVE  SafeStep
<1>1. ck_currentEpisode \in 4 .. 6
  BY DEF IndInv
<1> QED  BY <1>1, ShotHitKeeps, SafeBecomes

\* A think function that leaves all to the action.
LEMMA SafeThinkOnly ==
    ASSUME IndInv, NEW i \in Ids, i # 0, NEW f, f # "CK4_BirdRecover", Thinks(i, f), ThinkOnly(i, objs)
    PROVE  SafeStep
  BY SelfKeeps, SafeThink DEF ThinkOnly, Thinks

\* A step that changes nothing.
LEMMA SafeNothing == ASSUME IndInv, Becomes(objs) PROVE SafeStep
  BY SelfKeeps, SafeBecomes

\* A think function that only moves the object.
LEMMA SafeMoves ==
    ASSUME IndInv, NEW i \in Ids, i # 0, NEW f, f # "CK4_BirdRecover", May(i, f, {})
    PROVE  SafeStep
  BY SafeMay
====
