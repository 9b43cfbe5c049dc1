---- MODULE Fixtures ----
(***************************************************************************)
(* What is built into the levels (ck_obj.c): doors, falling items, turrets *)
(* and the platforms that look at Keen.  How a platform moves is in        *)
(* Platforms.                                                              *)
(***************************************************************************)
EXTENDS Creatures

CK_SpawnDoor == [Fixture("Friendly", "DoorOpen1") EXCEPT !.clipped = "not"]
CK_SpawnSecurityDoor == Fixture("Friendly", "SecurityDoorOpen")
CK_SpawnItem == [Creature("Item", "item") EXCEPT !.user1 = 4, !.clipped = "not"]
CK_SpawnFallPlat == [Fixture("Platform", "FallPlat0") EXCEPT !.clipped = "not"]
CK_SpawnAxisPlatform == Fixture("Platform", "AxisPlatform")
CK_SneakPlatSpawn == [Fixture("Platform", "sneakPlatWait") EXCEPT !.clipped = "not"]
CK_TurretSpawn == Creature("Turret", "turretWait")

\* The other tiles of the door are put on the map.
CK_DoorOpen(i) == Thinks(i, "CK_DoorOpen") /\ ThinkOnly(i, objs)

\* Three pictures of the door, then it is removed.
CK_SecurityDoorOpen(i) ==
    /\ Thinks(i, "CK_SecurityDoorOpen")
    /\ ThinkOnly(i, IF objs[i].user1 = 2 THEN CK_RemoveObj(objs, i) ELSE [objs EXCEPT ![i].user1 = @ + 1])

\* On the ground it is an item like the others.
CK_FallingItem(i) ==
    /\ Thinks(i, "CK_FallingItem")
    /\ \/ ThinkOnly(i, objs)
       \/ Becomes(Goes(i, "item"))

\* Under Keen it falls; left alone at the bottom it rises.
CK_FallPlat(i) ==
    \/ May(i, "CK_FallPlatSit", {"FallPlat1"})
    \/ May(i, "CK_FallPlatFall", {"FallPlat2"})
    \/ May(i, "CK_FallPlatRise", {"FallPlat0", "FallPlat1"})

\* It sneaks away from under a jump.
CK_SneakPlatThink(i) ==
    Thinks(i, "CK_SneakPlatThink") /\ At(0, "keenJump1") /\ Becomes(Goes(i, "sneakPlatSneak"))

CK_TurretShoot(i) ==
    /\ Thinks(i, "CK_TurretShoot")
    /\ \E shot \in {Creature("EnemyShot", "turretShot1"), Debris("EnemyShot", "turretShot1")} :
          ThinkOnly(i, CK_GetNewObj(objs, shot))

CK_TurretShotCol(i, j) ==
    KeenTouches(i, "CK_TurretShotCol", j) /\ CK_KillKeen(i, Goes(i, "turretShotHit1"))

CK_TurretShotDraw(i) == DrawsTo(i, "CK_TurretShotDraw", {"turretShotHit1"})

\* Keen takes an item: it shows its points and is gone (CK_KeenColFunc).
CK_KeenTakesItem(j) ==
    /\ objs[0].act \in KeenActs /\ Is(j, "Item")
    /\ Becomes([objs EXCEPT ![j].type = "Friendly", ![j].act = "itemNotify"])

FixtureStep(i) ==
    \/ CK_DoorOpen(i) \/ CK_SecurityDoorOpen(i) \/ CK_FallingItem(i) \/ CK_FallPlat(i)
    \/ CK_SneakPlatThink(i) \/ CK_TurretShoot(i) \/ CK_TurretShotDraw(i)

FixtureTouch(i, j) == CK_TurretShotCol(i, j)
====
