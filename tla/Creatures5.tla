---- MODULE Creatures5 ----
(***************************************************************************)
(* The creatures of Keen 5 (ck5_obj1.c, ck5_obj2.c, ck5_obj3.c).  The      *)
(* operators keep the names of the functions they stand for.               *)
(***************************************************************************)
EXTENDS Creatures

CONSTANTS
    ChargeDelay,        \* CK5_SparkyPrepChargeDelay
    SliceHealth,        \* CK5_SliceHealth
    RoboShots,          \* CK5_RoboNumShots
    NumBounces,         \* CK5_SpindredNumBounces
    ShikadiHealth,      \* CK5_ShikadiHealth
    ShocksundHealth,    \* CK5_ShocksundHealth
    StandTime           \* CK5_ShocksundStandTime

ASSUME Creatures5Assumption ==
    {ChargeDelay, SliceHealth, RoboShots, NumBounces, ShikadiHealth, ShocksundHealth, StandTime}
        \subseteq Nat \ {0}

(***************************************************************************)
(* What the infoplane of a level spawns.                                   *)
(***************************************************************************)
CK5_SpawnVolte == [Fixture("Volte", "Volte0") EXCEPT !.clipped = "not"]
CK5_SpawnSparky == Creature("Sparky", "Sparky0")
CK5_SpawnAmpton == Creature("Ampton", "Ampton0")
CK5_SpawnSlice == [Creature("SliceStar", "Slice0") EXCEPT !.user1 = SliceHealth]
CK5_SpawnSliceDiag == [Creature("SliceStar", "SliceDiag0") EXCEPT !.user1 = SliceHealth, !.clipped = "simple"]
CK5_SpawnShelly == Creature("Sparky", "Shelly0")
CK5_SpawnMine == [Creature("Mine", "Mine2") EXCEPT !.clipped = "not"]
CK5_SpawnRobo == Creature("Robo", "Robo0")
CK5_SpawnSpirogrip == Creature("Spirogrip", "SpirogripAttachDown")
CK5_SpawnSpindred == Creature("Spindred", "Spindred0")
CK5_SpawnMaster == Creature("Master", "Master0")
CK5_SpawnShikadi == [Creature("Shikadi", "ShikadiStand0") EXCEPT !.user2 = ShikadiHealth]
CK5_SpawnShocksund == [Creature("Shocksund", "Shocksund0") EXCEPT !.user2 = ShocksundHealth]
CK5_SpawnSphereful == [Creature("Sphereful", "Sphereful0") EXCEPT !.clipped = "simple"]
CK5_SpawnKorath == Creature("Korath", "KorathWalk1")
CK5_QEDSpawn == Creature("QED", "QED0")
CK5_SpawnLevelEnd == [Fixture("Null", "LevelEnd") EXCEPT !.clipped = "not"]

\* A shot, unless the pool is full or it would be stuck in a wall.
CK5_SpawnEnemyShot(os, act) == {os, CK_GetNewObj(os, Debris("EnemyShot", act))}

(***************************************************************************)
(* Voltes and sparkies.                                                    *)
(***************************************************************************)
CK5_VolteMove(i) == May(i, "CK5_VolteMove", {})

CK5_VolteCol(i, j) ==
    \/ KeenTouches(i, "CK5_VolteCol", j) /\ Kills(i)
    \/ ShotTouches(i, "CK5_VolteCol", j) /\ Becomes(CK_ShotHit(Goes(i, "VolteStunned"), j))

CK5_SparkyWait(i) == May(i, "CK5_SparkyWait", {"SparkySearch0"})

\* user1 counts down to the charge.
CK5_SparkyPrepareCharge(i) ==
    /\ Thinks(i, "CK5_SparkyPrepareCharge")
    /\ ThinkOnly(i, [objs EXCEPT ![i].user1 = @ - 1,
                        ![i].act = IF objs[i].user1 = 1 THEN "SparkyCharge0" ELSE @])

\* It sees Keen on that side.
SparkySees(i) == ThinkOnly(i, [objs EXCEPT ![i].user1 = ChargeDelay, ![i].act = "SparkyPrepCharge0"])
CK5_SparkySearchLeft(i) == Thinks(i, "CK5_SparkySearchLeft") /\ (SparkySees(i) \/ ThinkOnly(i, objs))
CK5_SparkySearchRight(i) == Thinks(i, "CK5_SparkySearchRight") /\ (SparkySees(i) \/ ThinkOnly(i, objs))

CK5_SparkyCharge(i) == \E f \in {"CK5_SparkyCharge0", "CK5_SparkyCharge1"} : May(i, f, {})

CK5_SparkyCol(i, j) ==
    \/ KeenTouches(i, "CK5_SparkyCol", j) /\ Kills(i)
    \/ ShotTouches(i, "CK5_SparkyCol", j) /\ Stuns(i, j, "SparkyStunned0")

CK5_SparkyTileCol(i) == DrawsTo(i, "CK5_SparkyTileCol", {"SparkyTurn0"})

(***************************************************************************)
(* Amptons, which climb poles unclipped.                                   *)
(***************************************************************************)
CK5_AmptonWalk(i) ==
    \/ May(i, "CK5_AmptonWalk", {"AmptonComp0"})
    \/ Thinks(i, "CK5_AmptonWalk") /\ ThinkOnly(i, [objs EXCEPT ![i].act = "AmptonPole0", ![i].clipped = "not"])

CK5_AmptonPoleClimb(i) ==
    /\ Thinks(i, "CK5_AmptonPoleClimb")
    /\ \/ Becomes(objs)
       \/ Becomes([objs EXCEPT ![i].act = "AmptonDismount0", ![i].clipped = "normal"])

CK5_AmptonSwitch(i) == May(i, "CK5_AmptonSwitch", {})

\* It only kills from above or below, on a pole; elsewhere it pushes.
CK5_AmptonCol(i, j) ==
    \/ KeenTouches(i, "CK5_AmptonCol", j) /\ At(i, "AmptonPole2") /\ Kills(i)
    \/ /\ ShotTouches(i, "CK5_AmptonCol", j)
       /\ CK_StunCreature([objs EXCEPT ![i].clipped = "normal"], i, j, "AmptonStunned0")

CK5_AmptonTileCol(i) == DrawsTo(i, "CK5_AmptonTileCol", {"AmptonTurn0"})

(***************************************************************************)
(* Slicestars (their health, user4, is user1 here) and shellies.           *)
(***************************************************************************)
CK5_SliceCol(i, j) ==
    \/ KeenTouches(i, "CK5_SliceCol", j) /\ Kills(i)
    \/ /\ ShotTouches(i, "CK5_SliceCol", j)
       /\ Becomes(CK_ShotHit([objs EXCEPT ![i].user1 = @ - 1,
                                          ![i].act = IF objs[i].user1 = 1 THEN "SliceDie0" ELSE @], j))

CK5_ShellyWait(i) == May(i, "CK5_ShellyWait", {"ShellyDive0"})
CK5_ShellyStartJump(i) == May(i, "CK5_ShellyStartJump", {})

CK5_SpawnShellyBits(i) ==
    /\ Thinks(i, "CK5_SpawnShellyBits")
    /\ ThinkOnly(i, CK_GetNewObj(CK_GetNewObj(objs, Creature("Null", "ShellyBits0")),
                                 Creature("Null", "ShellyBits1")))

\* It bursts under Keen's feet or by any shot, and the explosion is deadly.
CK5_ShellyBursts(os, i) ==
    \E act \in {"ShellyDieAir", "ShellyDieGround"} :
        Becomes(CK_GetNewObj(SetAct(os, i, act), Creature("Null", "ShellyExplode0")))

CK5_ShellyCol(i, j) ==
    \/ KeenTouches(i, "CK5_ShellyCol", j) /\ CK5_ShellyBursts(objs, i)
    \/ ShotTouches(i, "CK5_ShellyCol", j) /\ CK5_ShellyBursts(CK_ShotHit(objs, j), i)
    \/ /\ Touches(i, "CK5_ShellyCol", j) /\ Is(j, "EnemyShot")
       /\ CK5_ShellyBursts(CK_RemoveObj(objs, j), i)

CK5_ShellyGroundTileCol(i) == DrawsTo(i, "CK5_ShellyGroundTileCol", {"Shelly0", "ShellyWait0"})

\* It dies where it lands; a bit that landed before dies again.
CK5_ShellyAirTileCol(i) == Draws(i, "CK5_ShellyAirTileCol")
    /\ Becomes(CK_GetNewObj(Goes(i, "ShellyDieAir"), Creature("Null", "ShellyExplode0")))

(***************************************************************************)
(* Shikadi mines and the Quantum Explosion Dynamo.                         *)
(***************************************************************************)
\* Near Keen it goes off.  user4, the sprite of the eye, is ptr here: 1 while it is shown.
MineGoesOff(i) == [objs EXCEPT ![i].act = "MineExplode0", ![i].ptr = 0]

\* Where it can go on, back or aside is CK5_SeekKeen's choice (CK5_Walk, CK5_MinePathClear).
CK5_MineMove(i) ==
    \/ May(i, "CK5_MineMove", {"Mine1"})
    \/ Thinks(i, "CK5_MineMove") /\ ThinkOnly(i, MineGoesOff(i))

CK5_MineMoveDots(i) ==
    /\ Action(i).think \in {"CK5_MineMoveDotsToCenter", "CK5_MineMoveDotsToSides"}
    /\ \/ \E act \in Action(i).next \cup {objs[i].act} : Chooses(i, act)
       \/ ThinkOnly(i, MineGoesOff(i))

CK5_MineCol(i, j) == ShotTouches(i, "CK5_MineCol", j) /\ Deflects(j)

\* Six bits of shrapnel.
CK5_MineExplode(i) ==
    LET Bit(os) == CK_GetNewObj(os, Creature("Null", "MineShrap0")) IN
    Thinks(i, "CK5_MineExplode") /\ ThinkOnly(i, Bit(Bit(Bit(Bit(Bit(Bit(objs)))))))

CK5_MineShrapCol(i, j) ==
    \/ ShotTouches(i, "CK5_MineShrapCol", j) /\ Deflects(j)
    \/ KeenTouches(i, "CK5_MineShrapCol", j) /\ Kills(i)
    \/ /\ Touches(i, "CK5_MineShrapCol", j) /\ Is(j, "QED")
       /\ Becomes(CK_RemoveObj(CK_GetNewObj(objs, CK5_SpawnLevelEnd), j))

CK5_MineTileCol(i) == Draws(i, "CK5_MineTileCol") /\ Becomes([objs EXCEPT ![i].ptr = 1])

\* Only one level has the dynamo in it.
CK5_LevelEnd(i) ==
    /\ Thinks(i, "CK5_LevelEnd")
    /\ \E state \in {"LS_DestroyedQED", "LS_KorathFuse"} : EndsLevel(objs, state)

(***************************************************************************)
(* Robo reds, spirogrips and spindreds.                                    *)
(***************************************************************************)
RoboAims(os, i) == [os EXCEPT ![i].user1 = RoboShots, ![i].act = "RoboShoot0"]

CK5_RoboMove(i) ==
    \/ May(i, "CK5_RoboMove", {})
    \/ Thinks(i, "CK5_RoboMove") /\ ThinkOnly(i, RoboAims(objs, i))

CK5_RoboCol(i, j) ==
    \/ ShotTouches(i, "CK5_RoboCol", j) /\ Becomes(RoboAims(CK_ShotHit(objs, j), i))
    \/ KeenTouches(i, "CK5_RoboCol", j) /\ Kills(i)

\* user1 counts the shots that are left.
CK5_RoboShoot(i) ==
    LET shot == [objs EXCEPT ![i].user1 = @ - 1, ![i].act = IF objs[i].user1 = 1 THEN "Robo0" ELSE @] IN
    Thinks(i, "CK5_RoboShoot") /\ \E os \in CK5_SpawnEnemyShot(shot, "RoboShot0") : ThinkOnly(i, os)

CK5_RoboShotCol(i, j) ==
    KeenTouches(i, "CK5_RoboShotCol", j) /\ CK_KillKeen(i, Goes(i, "RoboShotHit0"))
CK5_RoboShotTileCol(i) == DrawsTo(i, "CK5_RoboShotTileCol", {"RoboShotHit0"})

CK5_SpirogripSpin(i) ==
    LET fly == CASE At(i, "SpirogripSpin1") -> "SpirogripFlyUp"
                 [] At(i, "SpirogripSpin3") -> "SpirogripFlyRight"
                 [] At(i, "SpirogripSpin5") -> "SpirogripFlyDown"
                 [] At(i, "SpirogripSpin7") -> "SpirogripFlyLeft"
                 [] OTHER -> "NULL"
    IN May(i, "CK5_SpirogripSpin", {fly})

CK5_SpirogripFlyDraw(i) == DrawsTo(i, "CK5_SpirogripFlyDraw", Action(i).next)

CK5_SpindredBounce(i) == May(i, "CK5_SpindredBounce", {})

\* user1 counts the bounces; the last one turns its gravity.
CK5_SpindredTileCol(i) ==
    /\ Draws(i, "CK5_SpindredTileCol")
    /\ Becomes([objs EXCEPT ![i].user1 = IF @ + 1 = NumBounces THEN 0 ELSE @ + 1])

(***************************************************************************)
(* Shikadi masters.                                                        *)
(***************************************************************************)
\* After a shot it teleports.
CK5_MasterStand(i) ==
    \/ May(i, "CK5_MasterStand", {})
    \/ /\ Thinks(i, "CK5_MasterStand")
       /\ ThinkOnly(i, IF objs[i].user1 = 1
                       THEN [objs EXCEPT ![i].user1 = 0, ![i].act = "MasterTele0"]
                       ELSE [objs EXCEPT ![i].user1 = 1, ![i].act = "MasterShoot0"])

CK5_MasterShoot(i) ==
    Thinks(i, "CK5_MasterShoot") /\ \E os \in CK5_SpawnEnemyShot(objs, "MasterBall0") : ThinkOnly(i, os)

CK5_MasterCol(i, j) ==
    \/ /\ ShotTouches(i, "CK5_MasterCol", j)
       /\ Becomes(CK_ShotHit([objs EXCEPT ![i].user1 = 1, ![i].act = "MasterShoot0"], j))
    \/ KeenTouches(i, "CK5_MasterCol", j) /\ Kills(i)

\* It leaves two sparks behind; if it finds no place it stays.
CK5_MasterTele(i) ==
    LET Spark(os) == CK_GetNewObj(os, Creature("Null", "MasterSparks0")) IN
    /\ Thinks(i, "CK5_MasterTele")
    /\ \E act \in {objs[i].act, "Master0"} : ThinkOnly(i, Spark(Spark(Goes(i, act))))

CK5_MasterTeleTileCol(i) == DrawsTo(i, "CK5_MasterTeleTileCol", Action(i).next)

\* Touching Keen, or a shot, the ball or the spark is gone.
CK5_MasterBallCol(i, j) ==
    \/ ShotTouches(i, "CK5_MasterBallCol", j) /\ Becomes(CK_RemoveObj(CK_ShotHit(objs, j), i))
    \/ KeenTouches(i, "CK5_MasterBallCol", j) /\ CK_KillKeen(i, CK_RemoveObj(objs, i))

CK5_MasterBallTileCol(i) ==
    /\ Draws(i, "CK5_MasterBallTileCol")
    /\ Becomes(CK_GetNewObj(Goes(i, "MasterSparks0"), Creature("Null", "MasterSparks0")))

CK5_MasterSparksTileCol(i) ==
    Draws(i, "CK5_MasterSparksTileCol") /\ Becomes(CK_RemoveObj(objs, i))

(***************************************************************************)
(* Shikadi and shocksunds: user2 is their health; user3, the frames that a *)
(* hit one still flashes.                                                  *)
(***************************************************************************)
CK5_ShikadiWalk(i) == May(i, "CK5_ShikadiWalk", {"ShikadiStand0", "ShikadiPole0"})

\* Its last point of health makes the difference.
Weakens(i, j, act) ==
    IF objs[i].user2 = 1 THEN Stuns(i, j, act)
    ELSE Becomes(CK_ShotHit([objs EXCEPT ![i].user2 = @ - 1, ![i].user3 = 2], j))

CK5_ShikadiCol(i, j) ==
    \/ KeenTouches(i, "CK5_ShikadiCol", j) /\ Kills(i)
    \/ ShotTouches(i, "CK5_ShikadiCol", j) /\ Weakens(i, j, "ShikadiStun0")

CK5_ShikadiPole(i) ==
    /\ Thinks(i, "CK5_ShikadiPole")
    /\ ThinkOnly(i, CK_GetNewObj(objs, [Debris("EnemyShot", "PoleZap0") EXCEPT !.clipped = "not"]))

\* At the end of the pole the zap is gone.
CK5_PoleZap(i) ==
    /\ Thinks(i, "CK5_PoleZap")
    /\ \/ ThinkOnly(i, objs)
       \/ ThinkOnly(i, CK_RemoveObj(objs, i))

Flashes(os, i) == [os EXCEPT ![i].user3 = IF @ > 0 THEN @ - 1 ELSE 0]

CK5_ShikadiTileCol(i) == Draws(i, "CK5_ShikadiTileCol") /\ Becomes(Flashes(objs, i))

CK5_ShocksundSearch(i) ==
    \/ May(i, "CK5_ShocksundSearch", {"ShocksundJump0", "ShocksundShoot0"})
    \/ /\ Thinks(i, "CK5_ShocksundSearch")
       /\ ThinkOnly(i, [objs EXCEPT ![i].user1 = StandTime, ![i].act = "ShocksundStand0"])

CK5_ShocksundStand(i) ==
    /\ Thinks(i, "CK5_ShocksundStand")
    /\ ThinkOnly(i, [objs EXCEPT ![i].user1 = @ - 1,
                        ![i].act = IF objs[i].user1 = 1 THEN "Shocksund0" ELSE @])

CK5_ShocksundShoot(i) ==
    Thinks(i, "CK5_ShocksundShoot") /\ \E os \in CK5_SpawnEnemyShot(objs, "BarkShot0") : ThinkOnly(i, os)

CK5_ShocksundCol(i, j) ==
    \/ KeenTouches(i, "CK5_ShocksundCol", j) /\ Kills(i)
    \/ ShotTouches(i, "CK5_ShocksundCol", j) /\ Weakens(i, j, "ShocksundStun0")

\* At an edge it jumps after Keen, or turns.
CK5_ShocksundGroundTileCol(i) ==
    /\ Draws(i, "CK5_ShocksundGroundTileCol")
    /\ \E act \in {objs[i].act, "ShocksundJump0"} : Becomes(Flashes(Goes(i, act), i))

CK5_ShocksundJumpTileCol(i) ==
    /\ Draws(i, "CK5_ShocksundJumpTileCol")
    /\ \E act \in {objs[i].act, "Shocksund0"} : Becomes(Flashes(Goes(i, act), i))

CK5_BarkShotCol(i, j) ==
    \/ KeenTouches(i, "CK5_BarkShotCol", j) /\ CK_KillKeen(i, Goes(i, "BarkShotDie0"))
    \/ ShotTouches(i, "CK5_BarkShotCol", j) /\ Becomes(CK_ShotHit(Goes(i, "BarkShotDie0"), j))

CK5_BarkShotTileCol(i) == DrawsTo(i, "CK5_BarkShotTileCol", {"BarkShotDie0"})

(***************************************************************************)
(* Spherefuls and the Korath inhabitant.                                   *)
(***************************************************************************)
CK5_SpherefulBounce(i) == May(i, "CK5_SpherefulBounce", {})

CK5_KorathWalk(i) == May(i, "CK5_KorathWalk", {"KorathWait"})

CK5_KorathColFunc(i, j) == ShotTouches(i, "CK5_KorathColFunc", j) /\ Stuns(i, j, "KorathStun0")

Step5(i) ==
    \/ CK5_VolteMove(i) \/ CK5_SparkyWait(i) \/ CK5_SparkyPrepareCharge(i)
    \/ CK5_SparkySearchLeft(i) \/ CK5_SparkySearchRight(i) \/ CK5_SparkyCharge(i)
    \/ CK5_SparkyTileCol(i) \/ CK5_AmptonWalk(i) \/ CK5_AmptonPoleClimb(i)
    \/ CK5_AmptonSwitch(i) \/ CK5_AmptonTileCol(i) \/ CK5_ShellyWait(i)
    \/ CK5_ShellyStartJump(i) \/ CK5_SpawnShellyBits(i) \/ CK5_ShellyGroundTileCol(i)
    \/ CK5_ShellyAirTileCol(i) \/ CK5_MineMove(i) \/ CK5_MineMoveDots(i) \/ CK5_MineExplode(i)
    \/ CK5_MineTileCol(i) \/ CK5_LevelEnd(i) \/ CK5_RoboMove(i) \/ CK5_RoboShoot(i)
    \/ CK5_RoboShotTileCol(i) \/ CK5_SpirogripSpin(i) \/ CK5_SpirogripFlyDraw(i)
    \/ CK5_SpindredBounce(i) \/ CK5_SpindredTileCol(i) \/ CK5_MasterStand(i)
    \/ CK5_MasterShoot(i) \/ CK5_MasterTele(i) \/ CK5_MasterTeleTileCol(i)
    \/ CK5_MasterBallTileCol(i) \/ CK5_MasterSparksTileCol(i) \/ CK5_ShikadiWalk(i)
    \/ CK5_ShikadiPole(i) \/ CK5_PoleZap(i) \/ CK5_ShikadiTileCol(i) \/ CK5_ShocksundSearch(i)
    \/ CK5_ShocksundStand(i) \/ CK5_ShocksundShoot(i) \/ CK5_ShocksundGroundTileCol(i)
    \/ CK5_ShocksundJumpTileCol(i) \/ CK5_BarkShotTileCol(i) \/ CK5_SpherefulBounce(i)
    \/ CK5_KorathWalk(i)

Touch5(i, j) ==
    \/ CK5_VolteCol(i, j) \/ CK5_SparkyCol(i, j) \/ CK5_AmptonCol(i, j) \/ CK5_SliceCol(i, j)
    \/ CK5_ShellyCol(i, j) \/ CK5_MineCol(i, j) \/ CK5_MineShrapCol(i, j) \/ CK5_RoboCol(i, j)
    \/ CK5_RoboShotCol(i, j) \/ CK5_MasterCol(i, j) \/ CK5_MasterBallCol(i, j)
    \/ CK5_ShikadiCol(i, j) \/ CK5_ShocksundCol(i, j) \/ CK5_BarkShotCol(i, j)
    \/ CK5_KorathColFunc(i, j)
====
