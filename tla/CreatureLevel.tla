---- MODULE CreatureLevel ----
(***************************************************************************)
(* Keen, his shots and the creatures of a small scene, in any of the three *)
(* episodes (the collision and think walks of CK_PlayLoop, ck_play.c).     *)
(***************************************************************************)
EXTENDS Creatures4, Creatures5, Creatures6, Fixtures

CONSTANT Scenes     \* pairs of an episode and the objects that its level spawns

\* What the infoplane of a level may name.
Spawned4 ==
    {CK4_SpawnCouncilMember, CK4_SpawnSlug, CK4_SpawnMushroom, CK4_SpawnEgg, CK4_SpawnBird,
     CK4_SpawnArachnut, CK4_SpawnSkypest, CK4_SpawnWormmouth, CK4_SpawnCloud, CK4_SpawnBerkeloid,
     CK4_SpawnInchworm, CK4_SpawnFoot, CK4_SpawnBounder, CK4_SpawnLick, CK4_SpawnSmirky,
     CK4_SpawnMimrock, CK4_SpawnDopefish, CK4_SpawnSchoolfish, CK4_SpawnSprite, CK4_SpawnMine,
     CK4_SpawnLindsey, CK4_SpawnWetsuit} \cup CK4_SpawnDartGun

Spawned5 ==
    {CK5_SpawnVolte, CK5_SpawnSparky, CK5_SpawnAmpton, CK5_SpawnSlice, CK5_SpawnSliceDiag,
     CK5_SpawnShelly, CK5_SpawnMine, CK5_SpawnRobo, CK5_SpawnSpirogrip, CK5_SpawnSpindred,
     CK5_SpawnMaster, CK5_SpawnShikadi, CK5_SpawnShocksund, CK5_SpawnSphereful, CK5_SpawnKorath,
     CK5_QEDSpawn, CK_SneakPlatSpawn, CK_TurretSpawn, CK_SpawnSecurityDoor}

Spawned6 ==
    {CK6_SpawnSandwich, CK6_SpawnRope, CK6_SpawnPasscard, CK6_SpawnMolly, CK6_SpawnBloog,
     CK6_SpawnBloogguard, CK6_SpawnNospike, CK6_SpawnGik, CK6_SpawnOrbatrix, CK6_SpawnBipship,
     CK6_SpawnFlect, CK6_SpawnFleex, CK6_SpawnBobba, CK6_SpawnBabobba, CK6_SpawnBlorb,
     CK6_SpawnCeilick, CK_SneakPlatSpawn, CK_TurretSpawn} \cup CK6_SpawnBlooglet

Spawned(episode) ==
    {CK_SpawnDoor, CK_SpawnItem, CK_SpawnFallPlat, CK_SpawnAxisPlatform}
        \cup CASE episode = 4 -> Spawned4 [] episode = 5 -> Spawned5 [] episode = 6 -> Spawned6

ASSUME ScenesAssumption ==
    \A scene \in Scenes : scene[1] \in 4 .. 6 /\ scene[2] \in Seq(Spawned(scene[1]))

\* The levels that the theorems are about: a Dopefish has no rival for what it bites, and
\* where there is a foot from the start there is one, and no inchworms.
LoneHunters ==
    \A scene \in Scenes : \A m, n \in 1 .. Len(scene[2]) :
        /\ scene[2][m].type = "Dopefish" /\ scene[2][n].type = "Dopefish" => m = n
        /\ scene[2][m].type = "Foot" => scene[2][n].type # "Inchworm"
        /\ scene[2][m].type = "Foot" /\ scene[2][n].type = "Foot" => m = n

Init ==
    /\ \E scene \in Scenes :
          /\ ck_currentEpisode = scene[1]
          /\ objs = [i \in Ids |-> IF i = 0 THEN Creature("Player", "keenStanding")
                                   ELSE IF i <= Len(scene[2]) THEN scene[2][i] ELSE Nothing]
    /\ numShots = MaxShots /\ levelState = "LS_Playing" /\ quitMessage = ""
    /\ killer = <<>> /\ stuns = 0 /\ fired = 0

ThinkOrDraw(i) ==
    \/ CreatureStep(i) \/ FixtureStep(i)
    \/ ck_currentEpisode = 4 /\ Step4(i)
    \/ ck_currentEpisode = 5 /\ Step5(i)
    \/ ck_currentEpisode = 6 /\ Step6(i)

Collide(i, j) ==
    \/ CreatureTouch(i, j) \/ FixtureTouch(i, j)
    \/ ck_currentEpisode = 4 /\ Touch4(i, j)
    \/ ck_currentEpisode = 5 /\ Touch5(i, j)
    \/ ck_currentEpisode = 6 /\ Touch6(i, j)

KeenCollides ==
    \/ \E j \in Live : CK_KeenTakesItem(j)
    \/ ck_currentEpisode = 4 /\ Keen4
    \/ ck_currentEpisode = 6 /\ Keen6

Next ==
    /\ Running
    /\ \/ KeenStep \/ KeenCollides
       \/ \E i \in Live \ {0} : ThinkOrDraw(i)
       \/ \E i \in Live \ {0}, j \in Live : Collide(i, j)

(***************************************************************************)
(* The play loop goes on: the dying Keen leaves the screen, and the        *)
(* Dopefish reaches what it bit.                                           *)
(***************************************************************************)
KeenLeaves == Running /\ (CK_KeenDeathThink \/ CK4_KillKeenUnderwater)
DopefishArrives(i) == Running /\ At(i, "DopefishEat0") /\ CK4_DopefishEat(i) /\ objs'[i].act # objs[i].act

Fairness == WF_vars(KeenLeaves) /\ \A i \in 1 .. Slots : WF_vars(DopefishArrives(i))

Spec == Init /\ [][Next]_vars /\ Fairness

(***************************************************************************)
(* Properties.                                                             *)
(***************************************************************************)
LevelStates == {"LS_Playing", "LS_Died", "LS_Foot", "LS_LevelComplete", "LS_CouncilRescued",
                "LS_DestroyedQED", "LS_KorathFuse", "LS_Sandwich", "LS_Rope", "LS_Passcard", "LS_Molly"}

\* An action that the table lacks would be a null pointer (CK_GetActionByName).
TypeOK ==
    /\ levelState \in LevelStates /\ quitMessage \in {"", "No star spec for object!"}
    /\ numShots \in 0 .. MaxShots /\ fired \in 0 .. MaxShots /\ stuns \in Nat
    /\ \A i \in Ids :
          /\ objs[i].act \in DOMAIN Actions[ck_currentEpisode]
          /\ objs[i].active \in {"active", "onscreen", "always", "inactive"}
          /\ objs[i].clipped \in {"normal", "simple", "not"}
          /\ objs[i].ptr \in Ids

\* The health of a creature that takes several shots; it is tested for zero after it is
\* decremented, so one that got below zero could not be stunned any more.
HealthOf(o) ==
    CASE o.type \in {"Shikadi", "Shocksund", "Bloogguard", "Fleex"} -> o.user2
      [] o.type = "SliceStar" /\ o.act # "SliceDie0" -> o.user1
      [] o.type = "Nospike" -> o.user3
      [] OTHER -> 1

\* Counters that a creature compares with = and not with >= never pass their limit: of
\* jumps, touches, turns, shots, hops, bounces and health.
CountersInRange ==
    \A i \in Ids :
        /\ Is(i, "Mushroom") => objs[i].user1 < NumJumps
        /\ Is(i, "Inchworm") => objs[i].user2 < InchwormCount
        /\ At(i, "SparkyPrepCharge0") => objs[i].user1 \in 1 .. ChargeDelay
        /\ At(i, "RoboShoot0") => objs[i].user1 \in 1 .. RoboShots
        /\ Is(i, "Spindred") => objs[i].user1 < NumBounces
        /\ objs[i].act \in {"ShocksundStand0", "ShocksundStand1"} => objs[i].user1 \in 1 .. StandTime
        /\ At(i, "NospikeCharge0") => objs[i].user1 < AirHangTime
        /\ At(i, "OrbatrixBounce0") => objs[i].user1 \in 1 .. BounceCount
        /\ objs[i].type \in {"Bobba", "Babobba"} => objs[i].user1 < HopsPerShot
        /\ objs[i].act \in {"BabobbaShot0", "BabobbaShot1"} => objs[i].user1 < DecayTime
        /\ objs[i].act \in {"BabobbaShotVanish0", "BabobbaShotVanish1"} => objs[i].user1 < VanishTime
        /\ HealthOf(objs[i]) > 0

\* What one function leaves in an object, the next can handle: no counter passes the value
\* it is compared with, and the stars of a stunned creature find their place for whatever
\* was stunned (CK_BasicDrawFunc4 quits where it has none).
ObjectsUnderstood == CountersInRange /\ quitMessage = ""

\* A shot is spent on one creature, though it touches several in a frame; and what it was
\* spent on does not kill until it has recovered, as birds do.  The arachnut gets up too,
\* but keeps the type of the stunned.
ShotsAreSpent ==
    /\ stuns + Cardinality({i \in Live : Is(i, "Stunner")}) <= fired
    /\ killer # <<>> => killer[2] \in {"", "Arachnut"}

\* How an object is clipped follows its action, although different functions set the two:
\* a bird flies clipped simply, an ampton leaves the walls on a pole, the Dopefish while it
\* eats.
ClippingMatchesAct ==
    \A i \in Ids :
        /\ objs[i].type = "Bird" => (objs[i].clipped = "simple" <=> At(i, "BirdFly0"))
        /\ objs[i].type = "Sparky" => objs[i].clipped = "normal"
        /\ objs[i].act \in {"AmptonPole0", "AmptonPole1", "AmptonPole2"} <=>
              Is(i, "Ampton") /\ objs[i].clipped = "not"
        /\ objs[i].act \in {"DopefishSwim0"} <=> Is(i, "Dopefish") /\ objs[i].clipped = "simple"
        /\ Is(i, "StunnedCreature") => objs[i].clipped \in {"normal", "not"}

\* Enough inchworms become one foot, and no worm is left to become another.
OneFoot ==
    LET feet == {i \in Live : Is(i, "Foot")} IN
    /\ Cardinality(feet) <= 1
    /\ feet # {} => ~\E i \in Live : Is(i, "Inchworm")

\* The Dopefish goes to what it bit: while it eats, its pointer is to something that waits
\* to be eaten, and not to a slot that was emptied or taken by another object.
VictimWaits ==
    \A i \in Ids : At(i, "DopefishEat0") =>
        objs[objs[i].ptr].act \in {"SchoolfishEaten0", "KeenEaten0"}

\* What one function sets another relies on: the three above, whose parts are set by
\* different functions.
ActsAgree == ClippingMatchesAct /\ OneFoot /\ VictimWaits

\* What the Dopefish has in its mouth dies: the level ends.
EatenKeenDies == At(0, "KeenEaten0") ~> levelState # "LS_Playing"

\* "Remove smirky if all the treasure items are gone" (ck4_obj3.c:137): while there are
\* items, it is not removed.
SmirkyStaysForItems ==
    [][\A i \in Ids : At(i, "SmirkyTele3") /\ objs'[i].type = "Nothing"
          => ~\E j \in Live : Is(j, "Item")]_vars
====
