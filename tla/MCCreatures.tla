---- MODULE MCCreatures ----
(***************************************************************************)
(* The scenes: every creature alone with Keen, and those that meet others  *)
(* together.                                                               *)
(***************************************************************************)
EXTENDS CreatureLevel

Alone(episode, spawned) == {<<episode, <<o>>>> : o \in spawned}

Scenes4 ==
    Alone(4, {CK4_SpawnCouncilMember, CK4_SpawnSlug, CK4_SpawnMushroom, CK4_SpawnEgg, CK4_SpawnArachnut,
              CK4_SpawnSkypest, CK4_SpawnWormmouth, CK4_SpawnCloud, CK4_SpawnBerkeloid, CK4_SpawnBounder,
              CK4_SpawnLick, CK4_SpawnMimrock, CK4_SpawnSprite, CK4_SpawnMine, CK4_SpawnLindsey,
              CK4_SpawnWetsuit, CK4_SpawnFoot, CK_SpawnDoor, CK_SpawnFallPlat, CK_SpawnAxisPlatform})
    \cup Alone(4, CK4_SpawnDartGun)
    \cup {<<4, <<CK4_SpawnDopefish, CK4_SpawnSchoolfish>>>>,
          <<4, <<CK4_SpawnInchworm, CK4_SpawnInchworm, CK4_SpawnInchworm>>>>,
          <<4, <<CK4_SpawnSmirky, CK_SpawnItem>>>>,
          <<4, <<CK4_SpawnBird>>>>}

Scenes5 ==
    Alone(5, {CK5_SpawnVolte, CK5_SpawnSparky, CK5_SpawnAmpton, CK5_SpawnSlice, CK5_SpawnSliceDiag,
              CK5_SpawnMine, CK5_SpawnRobo, CK5_SpawnSpirogrip, CK5_SpawnSpindred, CK5_SpawnMaster,
              CK5_SpawnShikadi, CK5_SpawnShocksund, CK5_SpawnSphereful, CK5_SpawnKorath,
              CK_SneakPlatSpawn, CK_TurretSpawn, CK_SpawnSecurityDoor})
    \cup {<<5, <<CK5_SpawnShelly, CK_TurretSpawn>>>>,
          <<5, <<CK5_SpawnMine, CK5_QEDSpawn>>>>}

Scenes6 ==
    Alone(6, {CK6_SpawnSandwich, CK6_SpawnRope, CK6_SpawnPasscard, CK6_SpawnMolly, CK6_SpawnBloog,
              CK6_SpawnBloogguard, CK6_SpawnNospike, CK6_SpawnGik, CK6_SpawnOrbatrix, CK6_SpawnBipship,
              CK6_SpawnFlect, CK6_SpawnFleex, CK6_SpawnBobba, CK6_SpawnBabobba, CK6_SpawnBlorb,
              CK6_SpawnCeilick})
    \cup Alone(6, CK6_SpawnBlooglet)
    \cup {<<6, <<CK6_SpawnNospike, CK6_SpawnNospike>>>>}

ScenesAll == Scenes4 \cup Scenes5 \cup Scenes6

\* Whatever follows an action is in the same table.
ASSUME TablesAreClosed ==
    \A table \in {Table4, Table5, Table6} : \A act \in DOMAIN table : table[act].next \subseteq DOMAIN table

ScenesSmirky == {<<4, <<CK4_SpawnSmirky, CK_SpawnItem>>>>}
ScenesDopefish == {<<4, <<CK4_SpawnDopefish, CK4_SpawnDopefish, CK4_SpawnSchoolfish>>>>}
====
