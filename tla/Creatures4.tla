---- MODULE Creatures4 ----
(***************************************************************************)
(* The creatures of Keen 4 (ck4_obj1.c, ck4_obj2.c, ck4_obj3.c).  The      *)
(* operators keep the names of the functions they stand for.               *)
(***************************************************************************)
EXTENDS Creatures

CONSTANTS
    NumJumps,           \* CK4_MushroomNumJumps
    InchwormCount,      \* CK4_InchworkMaxCount: the touches in a frame that make a foot
    TeleCycle,          \* CK4_SmirkyTeleCycle
    HoverSteps          \* CK4_BerkeloidHoverMinYOffset, in steps of the velocity

ASSUME Creatures4Assumption ==
    /\ NumJumps \in Nat \ {0} /\ InchwormCount \in Nat \ {0} /\ TeleCycle \in Nat \ {0}
    /\ HoverSteps \in Nat

(***************************************************************************)
(* What the infoplane of a level spawns.                                   *)
(***************************************************************************)
CK4_SpawnCouncilMember == Creature("CouncilMember", "CouncilWalk0")
CK4_SpawnSlug == Creature("Slug", "SlugMove0")
CK4_SpawnMushroom == Creature("Mushroom", "Mushroom0")
CK4_SpawnEgg == Creature("Egg", "Egg0")
CK4_SpawnBird == Creature("Bird", "BirdHatched0")
CK4_SpawnArachnut == Creature("Arachnut", "ArachnutWalk0")
CK4_SpawnSkypest == Creature("Skypest", "SkypestFly0")
CK4_SpawnWormmouth == Creature("Wormmouth", "WormmouthMove0")
CK4_SpawnCloud == Creature("Cloud", "CloudDormant0")
CK4_SpawnBerkeloid == [Creature("Berkeloid", "BerkeloidMove0") EXCEPT !.user2 = 1]
CK4_SpawnInchworm == Creature("Inchworm", "Inchworm0")
CK4_SpawnFoot == Creature("Foot", "Foot1")
CK4_SpawnBounder == Creature("Bounder", "Bounder0")
CK4_SpawnLick == Creature("Lick", "LickHop1")
CK4_SpawnSmirky == Creature("Smirky", "Smirky0")
CK4_SpawnMimrock == Creature("Mimrock", "Mimrock0")
CK4_SpawnDopefish == [Creature("Dopefish", "DopefishSwim0") EXCEPT !.clipped = "simple"]
CK4_SpawnSchoolfish == [Creature("Schoolfish", "SchoolfishSwim0") EXCEPT !.clipped = "simple"]
CK4_SpawnSprite == [Creature("Sprite", "Sprite0") EXCEPT !.clipped = "not"]
CK4_SpawnMine == Fixture("Mine", "Mine0")
CK4_SpawnLindsey == Creature("Lindsey", "Lindsey0")
CK4_SpawnDartGun == {[Creature("Turret", "DartGun0") EXCEPT !.user1 = d, !.clipped = "not"] : d \in 0 .. 3}
CK4_SpawnWetsuit == Creature("Wetsuit", "Wetsuit0")

(***************************************************************************)
(* Council members, slugs and mushrooms.                                   *)
(***************************************************************************)
CK4_CouncilWalk(i) == May(i, "CK4_CouncilWalk", {"CouncilPause"})

CK4_SlugMove(i) == May(i, "CK4_SlugMove", {"SlugSliming0"})

CK4_SlugSlime(i) ==
    /\ Thinks(i, "CK4_SlugSlime")
    /\ ThinkOnly(i, CK_GetNewObj(objs, Debris("Friendly", "SlugSlime0")))

CK4_SlugCol(i, j) ==
    /\ Touches(i, "CK4_SlugCol", j)
    /\ \/ Is(j, "Player") /\ Kills(i)
       \/ Is(j, "Stunner") /\ \E act \in {"SlugStunned0", "SlugStunned1"} : Stuns(i, j, act)

CK4_MushroomMove(i) == May(i, "CK4_MushroomMove", {})

CK4_MushroomCol(i, j) ==
    /\ Touches(i, "CK4_MushroomCol", j)
    /\ \/ Is(j, "Stunner") /\ Deflects(j)
       \/ Is(j, "Player") /\ Kills(i)

\* On the ground it jumps again, every NumJumps-th time higher; user1 counts.
CK4_MushroomDraw(i) ==
    /\ Draws(i, "CK4_MushroomDraw")
    /\ Becomes([objs EXCEPT ![i].user1 = IF @ + 1 = NumJumps THEN 0 ELSE @ + 1])

(***************************************************************************)
(* Eggs and birds.  A bird in the air is clipped simply.                   *)
(***************************************************************************)
Hatched == CK4_SpawnBird        \* CK4_EggHatchAction

\* The egg breaks, by Keen or by a shot: there is a bird.
CK4_EggCol(i, j) ==
    LET broken == [objs EXCEPT ![i].type = "Friendly", ![i].active = "onscreen", ![i].act = "Eggshell0"] IN
    /\ Touches(i, "CK4_EggCol", j)
    /\ \/ Is(j, "Player") /\ Becomes(CK_GetNewObj(broken, Hatched))
       \/ Is(j, "Stunner") /\ Becomes(CK_GetNewObj(CK_ShotHit(broken, j), Hatched))

CK4_BirdRecover(i) ==
    /\ Thinks(i, "CK4_BirdRecover")
    /\ ThinkOnly(i, [objs EXCEPT ![i].type = "Bird", ![i].hit = ""])

TakesOff(os, i) == [os EXCEPT ![i].act = "BirdFly0", ![i].clipped = "simple", ![i].user1 = 0]

CK4_BirdWalk(i) ==
    /\ Thinks(i, "CK4_BirdWalk")
    /\ \/ ThinkOnly(i, TakesOff(objs, i))
       \/ ThinkOnly(i, objs)

CK4_BirdFly(i) == May(i, "CK4_BirdFly", {})

CK4_BirdCol(i, j) ==
    /\ Touches(i, "CK4_BirdCol", j)
    /\ \/ Is(j, "Player") /\ Kills(i)
       \/ Is(j, "Stunner") /\ CK_StunCreature([objs EXCEPT ![i].clipped = "normal"], i, j, "BirdStunned0")

CK4_BirdHatchedCol(i, j) ==
    Touches(i, "CK4_BirdHatchedCol", j) /\ Is(j, "Stunner") /\ Stuns(i, j, "BirdStunned0")

\* It walked over an edge.
CK4_BirdDraw(i) ==
    /\ Draws(i, "CK4_BirdDraw")
    /\ Becomes([objs EXCEPT ![i].act = "BirdFly0", ![i].clipped = "simple"])

\* user1 is set while it touches a floor or a ceiling; on a floor near Keen it lands, if
\* it stands there with the clipping of a walker.
CK4_BirdFlyingDraw(i) ==
    /\ Draws(i, "CK4_BirdFlyingDraw")
    /\ \E touching \in BOOLEAN, lands \in BOOLEAN :
          /\ lands => touching
          /\ Becomes(IF lands
                     THEN [objs EXCEPT ![i].user1 = 1, ![i].act = "BirdWalk0", ![i].clipped = "normal"]
                     ELSE [objs EXCEPT ![i].user1 = IF touching THEN 1 ELSE 0])

(***************************************************************************)
(* Arachnuts and skypests.                                                 *)
(***************************************************************************)
CK4_ArachnutSearch(i) == May(i, "CK4_ArachnutSearch", {})

CK4_ArachnutCol(i, j) ==
    /\ Touches(i, "CK4_ArachnutCol", j)
    /\ \/ Is(j, "Stunner") /\ Stuns(i, j, "ArachnutStunned0")
       \/ Is(j, "Player") /\ Kills(i)

CK4_ArachnutStunnedCol(i, j) ==
    Touches(i, "CK4_ArachnutStunnedCol", j) /\ Is(j, "Stunner") /\ Stuns(i, j, "ArachnutStunned0")

CK4_SkypestFly(i) == May(i, "CK4_SkypestFly", {})

CK4_SkypestAirCol(i, j) ==
    /\ Touches(i, "CK4_SkypestAirCol", j)
    /\ \/ Is(j, "Player") /\ Kills(i)
       \/ Is(j, "Stunner") /\ Deflects(j)

\* Only a pogo stick harms one that preens.
CK4_SkypestGroundCol(i, j) ==
    /\ Touches(i, "CK4_SkypestGroundCol", j) /\ At(j, "keenPogo2")
    /\ Becomes([objs EXCEPT ![i].act = "SkypestSquish0", ![i].type = "Friendly"])

CK4_SkypestTakeoff(i) == May(i, "CK4_SkypestTakeoff", {})

CK4_SkypestDraw(i) == DrawsTo(i, "CK4_SkypestDraw", {"SkypestPreen0"})

(***************************************************************************)
(* Wormmouths, clouds and berkeloids.                                      *)
(***************************************************************************)
CK4_WormmouthMove(i) == May(i, "CK4_WormmouthMove", {"WormmouthPeep0", "WormmouthBite0"})

\* It sees Keen on the side it looks to and goes there.
CK4_WormmouthLook(i) ==
    /\ Action(i).think \in {"CK4_WormmouthLookLeft", "CK4_WormmouthLookRight"}
    /\ \/ Chooses(i, "WormmouthMove0")
       \/ ThinkOnly(i, objs)

CK4_WormmouthGoToPlayer(i) == May(i, "CK4_WormmouthGoToPlayer", {})

CK4_WormmouthCheckShot(i, j) ==
    Touches(i, "CK4_WormmouthCheckShot", j) /\ Is(j, "Stunner") /\ Stuns(i, j, "WormmouthStunned0")

\* It bites only what is in front of it.
CK4_WormmouthCol(i, j) ==
    /\ Touches(i, "CK4_WormmouthCol", j)
    /\ \/ Is(j, "Player") /\ (Kills(i) \/ Becomes(objs))
       \/ Is(j, "Stunner") /\ Stuns(i, j, "WormmouthStunned0")

\* Keen is below.
CK4_CloudMove(i) == May(i, "CK4_CloudMove", {"CloudCheckStrike0"})

\* It has come to a full tile.
CK4_CloudCheckStrike(i) == May(i, "CK4_CloudCheckStrike", {"CloudStrike0"})

CK4_CloudStrike(i) ==
    /\ Thinks(i, "CK4_CloudStrike")
    /\ ThinkOnly(i, CK_GetNewObj(objs, [Debris("Bolt", "Lightning0") EXCEPT !.clipped = "not"]))

CK4_CloudCol(i, j) ==
    Touches(i, "CK4_CloudCol", j) /\ Is(j, "Player") /\ Becomes(Goes(i, "CloudAwaken0"))

CK4_BerkeloidMove(i) == May(i, "CK4_BerkeloidMove", {"BerkeloidThrow0"})

CK4_BerkeloidThrow(i) ==
    /\ Thinks(i, "CK4_BerkeloidThrow")
    /\ ThinkOnly(i, CK_GetNewObj(objs, Debris("Berkeloid", "FireballAir0")))

CK4_BerkeloidThrowDone(i) == May(i, "CK4_BerkeloidThrowDone", {})

CK4_BerkeloidCol(i, j) ==
    /\ Touches(i, "CK4_BerkeloidCol", j)
    /\ \/ Is(j, "Stunner") /\ Deflects(j)
       \/ Is(j, "Player") /\ Kills(i)

\* An action that the table does not have.
FireballDrawMisspelt(i) == DrawsTo(i, "CK4_FireballDraw", {"FireballLand0"})

CK4_FireballDraw(i) == DrawsTo(i, "CK4_FireballDraw", {"FireballGround0"})

\* It hovers between two heights: user1 is the height, in steps of the velocity user2.
\* At an end of its way it turns.
CK4_BerkeloidHover(i) ==
    LET next == objs[i].user1 + objs[i].user2 IN
    /\ Action(i).draw \in {"CK4_BerkeloidHover", "CK4_BerkeloidDraw"}
    /\ Becomes([objs EXCEPT ![i].user1 = IF next > 0 THEN 0 ELSE IF next < -HoverSteps THEN -HoverSteps ELSE next,
                            ![i].user2 = IF next > 0 THEN -1 ELSE IF next < -HoverSteps THEN 1 ELSE @])

(***************************************************************************)
(* Inchworms and the foot they make.                                       *)
(***************************************************************************)
CK4_InchwormMove(i) == May(i, "CK4_InchwormMove", {})

\* The other worms stay.
InchwormColLeavesWorms(i, j) ==
    /\ Touches(i, "CK4_InchwormCol", j) /\ Is(j, "Inchworm")
    /\ \E counted \in {0, objs[i].user2} :
          IF counted + 1 = InchwormCount
          THEN Becomes([objs EXCEPT ![i].type = "Foot", ![i].act = "Foot1"])
          ELSE Becomes([objs EXCEPT ![i].user2 = counted + 1])

\* user2 counts the inchworms that touch it in a frame; the first touch of a frame starts
\* the count anew.  Enough of them become a foot, and the rest are gone.
\* (CK4_FootCol does nothing: the foot takes Keen away in CK_KeenColFunc.)
CK4_InchwormCol(i, j) ==
    LET foot == [objs EXCEPT ![i].type = "Foot", ![i].act = "Foot1"] IN
    /\ Touches(i, "CK4_InchwormCol", j) /\ Is(j, "Inchworm")
    /\ \E counted \in {0, objs[i].user2} :
          IF counted + 1 = InchwormCount
          THEN Becomes([k \in Ids |-> IF foot[k].type = "Inchworm" THEN Nothing ELSE foot[k]])
          ELSE Becomes([objs EXCEPT ![i].user2 = counted + 1])

(***************************************************************************)
(* Bounders, which Keen may ride, licks and platforms.                     *)
(***************************************************************************)
CK4_BounderCheckShot(i, j) ==
    Touches(i, "CK4_BounderCheckShot", j) /\ Is(j, "Stunner") /\ Stuns(i, j, "BounderStunned0")

\* On the ground it bounces: under Keen after him; alone, user2 counts the bounces on the
\* spot (up to the cap, here) until it may move, and after it moved user1 is cleared.
CK4_BounderDraw(i) ==
    LET bounces == IF objs[i].user2 < 3 THEN objs[i].user2 + 1 ELSE 3 IN
    /\ Draws(i, "CK4_BounderDraw")
    /\ \/ \E act \in {"Bounder0", "BounderMoveHorz0"} :
             Becomes([objs EXCEPT ![i].user2 = 0, ![i].act = act])
       \/ /\ bounces > 2 /\ objs[i].user1 = 1
          /\ \E act \in {"Bounder0", "BounderMoveHorz0"} :
                Becomes([objs EXCEPT ![i].user2 = bounces, ![i].user1 = 0, ![i].act = act])
       \/ /\ ~(bounces > 2 /\ objs[i].user1 = 1)
          /\ Becomes([objs EXCEPT ![i].user2 = bounces, ![i].user1 = 1, ![i].act = "Bounder0"])

CK4_LickMove(i) == May(i, "CK4_LickMove", {"LickFlame0"})

CK4_LickCheckShot(i, j) ==
    Touches(i, "CK4_LickCheckShot", j) /\ Is(j, "Stunner") /\ Stuns(i, j, "LickStunned0")

CK4_LickCol(i, j) ==
    /\ Touches(i, "CK4_LickCol", j)
    /\ \/ Is(j, "Player") /\ (Kills(i) \/ Becomes(objs))
       \/ Is(j, "Stunner") /\ Stuns(i, j, "LickStunned0")

CK4_LickDraw(i) == DrawsTo(i, "CK4_LickDraw", {"LickHop3"})

\* The flames of a platform, whose sprites user2 and user3 hold: two when it goes up, two
\* that flicker when it goes down, one at its back when it goes sideways.
CK4_PlatformDraw(i) ==
    /\ Draws(i, "CK4_PlatformDraw")
    /\ \E flames \in {<<0, 0>>, <<1, 1>>, <<1, 0>>, <<0, 1>>} :
          Becomes([objs EXCEPT ![i].user2 = flames[1], ![i].user3 = flames[2]])

(***************************************************************************)
(* Smirkies, which steal items, and mimrocks.                              *)
(***************************************************************************)
\* It jumps at an item above, hops along, or turns; user1 counts the turns until it
\* teleports.
CK4_SmirkySearch(i) ==
    LET turns == objs[i].user1 + 1 IN
    /\ Thinks(i, "CK4_SmirkySearch")
    /\ \/ Chooses(i, "SmirkyJump0")
       \/ objs[i].user1 >= TeleCycle /\ Chooses(i, "SmirkyTele0")
       \/ /\ turns <= TeleCycle
          /\ ThinkOnly(i, [objs EXCEPT ![i].user1 = turns,
                              ![i].act = IF turns = TeleCycle THEN "SmirkyTele0" ELSE "SmirkyJump0"])

\* The search goes on behind an item that it finds, to the end of the list; what got
\* there is removed.
CK4_SmirkyTeleport(i) ==
    Thinks(i, "CK4_SmirkyTeleport") /\ ThinkOnly(i, CK_RemoveObj(objs, i))

CK4_SmirkyCol(i, j) ==
    /\ Touches(i, "CK4_SmirkyCol", j)
    /\ \/ Is(j, "Item") /\ Becomes([objs EXCEPT ![j].type = "Friendly", ![j].act = "StolenItem0"])
       \/ Is(j, "Stunner") /\ Stuns(i, j, "SmirkyStunned0")

\* It may land, or run into a wall (user1 counts, up to the cycle here).
CK4_SmirkyDraw(i) ==
    /\ Draws(i, "CK4_SmirkyDraw")
    /\ \E act \in {"SmirkyJump0", "Smirky0"}, wall \in {0, 1} :
          Becomes([objs EXCEPT ![i].act = act,
                               ![i].user1 = IF @ + wall > TeleCycle THEN TeleCycle ELSE @ + wall])

CK4_MimrockWait(i) == May(i, "CK4_MimrockWait", {"MimrockWalk0"})

CK4_MimrockCheckJump(i) == May(i, "CK4_MimrockCheckJump", {"MimrockJump0", "Mimrock0"})

CK4_MimrockCol(i, j) ==
    /\ Action(i).collide \in {"CK4_MimrockCol", "CK4_MimrockAirCol"} /\ i # j
    /\ Is(j, "Stunner") /\ Stuns(i, j, "MimrockStunned0")

CK4_MimrockAirCol(i, j) == Touches(i, "CK4_MimrockAirCol", j) /\ Is(j, "Player") /\ Kills(i)

CK4_MimrockJumpDraw(i) == DrawsTo(i, "CK4_MimrockJumpDraw", {"MimrockBounce0"})
CK4_MimrockBounceDraw(i) == DrawsTo(i, "CK4_MimrockBounceDraw", {"Mimrock0"})

(***************************************************************************)
(* Dopefish and what they eat: ptr is user4, the victim.                   *)
(***************************************************************************)
CK4_DopefishMove(i) ==
    Action(i).think \in {"CK4_DopefishMove", "CK4_SchoolfishMove"} /\ ThinkOnly(i, objs)

CK4_DopefishCol(i, j) ==
    LET bites == [objs EXCEPT ![i].act = "DopefishEat0", ![i].ptr = j, ![i].clipped = "not"] IN
    /\ Touches(i, "CK4_DopefishCol", j)
    /\ \/ Is(j, "Schoolfish") /\ Becomes([bites EXCEPT ![j].act = "SchoolfishEaten0"])
       \/ /\ Is(j, "Player")
          /\ Becomes([bites EXCEPT ![j].type = "Friendly", ![j].clipped = "not", ![j].act = "KeenEaten0"])

\* Keen is left in its mouth.
DopefishEatForgetsKeen(i) ==
    /\ Thinks(i, "CK4_DopefishEat")
    /\ \/ Becomes(objs)
       \/ ThinkOnly(i, Goes(i, "DopefishBurp0"))

\* When it has reached its victim: Keen shows once more, a fish is gone.
CK4_DopefishEat(i) ==
    LET victim == objs[i].ptr
        swallowed == IF victim = 0 THEN Goes(0, "KeenEaten1")
                     ELSE IF Action(victim).next = {"NULL"} THEN CK_RemoveObj(objs, victim)
                     ELSE Goes(victim, CHOOSE act \in Action(victim).next : TRUE)
    IN /\ Thinks(i, "CK4_DopefishEat")
       /\ \/ Becomes(objs)
          \/ ThinkOnly(i, SetAct(swallowed, i, "DopefishBurp0"))

\* Back where it came from, it swims on.
CK4_DopefishAfterBurp(i) ==
    /\ Thinks(i, "CK4_DopefishAfterBurp")
    /\ \/ Becomes(objs)
       \/ Becomes([objs EXCEPT ![i].act = "DopefishSwim0", ![i].clipped = "simple"])

CK4_DopefishBurp(i) == May(i, "CK4_DopefishBurp", {})

\* user1 is set while it touches something.
CK4_FishDraw(i) ==
    Draws(i, "CK4_FishDraw") /\ \E touching \in {0, 1} : Becomes([objs EXCEPT ![i].user1 = touching])

CK4_KillKeenUnderwater == At(0, "KeenEaten1") /\ EndsLevel(objs, "LS_Died")

(***************************************************************************)
(* Sprites, mines, darts, the princess and the wetsuit.                    *)
(***************************************************************************)
CK4_SpritePatrol(i) == May(i, "CK4_SpritePatrol", {"SpriteAiming0"})

CK4_SpriteAim(i) == May(i, "CK4_SpriteAim", {"SpriteShooting0"})

CK4_SpriteShoot(i) ==
    /\ Thinks(i, "CK4_SpriteShoot")
    /\ ThinkOnly(i, CK_GetNewObj(objs, Debris("Sprite", "SpriteBullet0")))

CK4_ProjectileDraw(i) == Draws(i, "CK4_ProjectileDraw") /\ Becomes(CK_RemoveObj(objs, i))

CK4_MineCol(i, j) ==
    Touches(i, "CK4_MineCol", j) /\ Is(j, "Player") /\ CK_KillKeen(i, Goes(i, "MineExplode0"))

CK4_LindseyFloat(i) == May(i, "CK4_LindseyFloat", {})

\* user1 is the direction it shoots in: up, right, down, left.
CK4_DartGun(i) ==
    LET dart == CASE objs[i].user1 = 0 -> "DartUp0"
                  [] objs[i].user1 = 2 -> "DartDown0"
                  [] OTHER -> "DartHorz0"
    IN Thinks(i, "CK4_DartGun") /\ ThinkOnly(i, CK_GetNewObj(objs, Debris("EnemyShot", dart)))

\* Keen stands on the ground.
CK4_WetsuitCol(i, j) ==
    Touches(i, "CK4_WetsuitCol", j) /\ Is(j, "Player") /\ EndsLevel(objs, "LS_LevelComplete")

(***************************************************************************)
(* What Keen's collide function does with them: the foot takes him away, a *)
(* council member is rescued (or, the janitor of one level, is gone), the  *)
(* princess is gone after her message.                                     *)
(***************************************************************************)
CK4_KeenCol(j) ==
    /\ objs[0].act \in KeenActs
    /\ \/ Is(j, "Foot") /\ EndsLevel(objs, "LS_Foot")
       \/ objs[j].type \in {"Lindsey", "CouncilMember"} /\ Becomes(CK_RemoveObj(objs, j))
       \/ Is(j, "CouncilMember") /\ EndsLevel(objs, "LS_CouncilRescued")

Step4(i) ==
    \/ CK4_CouncilWalk(i) \/ CK4_SlugMove(i) \/ CK4_SlugSlime(i) \/ CK4_MushroomMove(i)
    \/ CK4_MushroomDraw(i) \/ CK4_BirdRecover(i) \/ CK4_BirdWalk(i) \/ CK4_BirdFly(i)
    \/ CK4_BirdDraw(i) \/ CK4_BirdFlyingDraw(i) \/ CK4_ArachnutSearch(i) \/ CK4_SkypestFly(i)
    \/ CK4_SkypestTakeoff(i) \/ CK4_SkypestDraw(i) \/ CK4_WormmouthMove(i)
    \/ CK4_WormmouthLook(i) \/ CK4_WormmouthGoToPlayer(i) \/ CK4_CloudMove(i)
    \/ CK4_CloudCheckStrike(i) \/ CK4_CloudStrike(i) \/ CK4_BerkeloidMove(i)
    \/ CK4_BerkeloidThrow(i) \/ CK4_BerkeloidThrowDone(i) \/ CK4_FireballDraw(i)
    \/ CK4_BerkeloidHover(i) \/ CK4_InchwormMove(i) \/ CK4_BounderDraw(i) \/ CK4_LickMove(i)
    \/ CK4_LickDraw(i) \/ CK4_PlatformDraw(i) \/ CK4_SmirkySearch(i) \/ CK4_SmirkyTeleport(i)
    \/ CK4_SmirkyDraw(i) \/ CK4_MimrockWait(i) \/ CK4_MimrockCheckJump(i)
    \/ CK4_MimrockJumpDraw(i) \/ CK4_MimrockBounceDraw(i) \/ CK4_DopefishMove(i)
    \/ CK4_DopefishEat(i) \/ CK4_DopefishAfterBurp(i) \/ CK4_DopefishBurp(i)
    \/ CK4_FishDraw(i) \/ CK4_SpritePatrol(i) \/ CK4_SpriteAim(i) \/ CK4_SpriteShoot(i)
    \/ CK4_ProjectileDraw(i) \/ CK4_LindseyFloat(i) \/ CK4_DartGun(i)

Touch4(i, j) ==
    \/ CK4_SlugCol(i, j) \/ CK4_MushroomCol(i, j) \/ CK4_EggCol(i, j) \/ CK4_BirdCol(i, j)
    \/ CK4_BirdHatchedCol(i, j) \/ CK4_ArachnutCol(i, j) \/ CK4_ArachnutStunnedCol(i, j)
    \/ CK4_SkypestAirCol(i, j) \/ CK4_SkypestGroundCol(i, j) \/ CK4_WormmouthCheckShot(i, j)
    \/ CK4_WormmouthCol(i, j) \/ CK4_CloudCol(i, j) \/ CK4_BerkeloidCol(i, j)
    \/ CK4_InchwormCol(i, j) \/ CK4_BounderCheckShot(i, j) \/ CK4_LickCheckShot(i, j)
    \/ CK4_LickCol(i, j) \/ CK4_SmirkyCol(i, j) \/ CK4_MimrockCol(i, j)
    \/ CK4_MimrockAirCol(i, j) \/ CK4_DopefishCol(i, j) \/ CK4_MineCol(i, j)
    \/ CK4_WetsuitCol(i, j)

Keen4 == CK4_KillKeenUnderwater \/ \E j \in Live : CK4_KeenCol(j)
====
