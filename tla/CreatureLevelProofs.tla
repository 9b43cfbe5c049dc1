---- MODULE CreatureLevelProofs ----
(***************************************************************************)
(* Proofs about CreatureLevel for every pool of objects, number of shots   *)
(* and limit of a counter: the functions of each episode are safe, the few *)
(* steps that are not safe in that sense keep the invariant too, and what  *)
(* a level spawns is good to begin with.                                   *)
(***************************************************************************)
EXTENDS CreatureProofs

(***************************************************************************)
(* Keen 4.                                                                 *)
(***************************************************************************)
\* Thinks and draws that choose among plain actions, and the steps made of them.
LEMMA SafeMay4 ==
    ASSUME IndInv, ck_currentEpisode = 4, NEW i \in Ids, i # 0, NEW f \in Plainly4,
           NEW acts \in SUBSET Chosen4("plain"), May(i, f, acts)
    PROVE  SafeStep
<1>1. KindAt(i) = "plain"
  BY Plain4 DEF May, Thinks
<1>2. f # "CK4_BirdRecover"
  BY DEF Plainly4
<1>3. \A act \in acts : act \in ActsOf(4) /\ Kind(4, act) = "plain"
  BY Chosen4Kinds
<1> QED  BY <1>1, <1>2, <1>3, SafeMay

LEMMA SafeDraws4 ==
    ASSUME IndInv, ck_currentEpisode = 4, NEW i \in Ids, NEW f \in Plainly4,
           NEW acts \in SUBSET Chosen4("plain"), DrawsTo(i, f, acts)
    PROVE  SafeStep
<1>1. KindAt(i) = "plain"
  BY Plain4 DEF DrawsTo, Draws
<1>3. \A act \in acts : act \in ActsOf(4) /\ Kind(4, act) = "plain"
  BY Chosen4Kinds
<1> QED  BY <1>1, <1>3, SafeDraws

\* The functions that only move their objects, or choose among plain actions.
PlainStep4(i) ==
    \/ CK4_CouncilWalk(i) \/ CK4_SlugMove(i) \/ CK4_SkypestFly(i) \/ CK4_SkypestTakeoff(i)
    \/ CK4_SkypestDraw(i) \/ CK4_WormmouthMove(i) \/ CK4_WormmouthLook(i) \/ CK4_WormmouthGoToPlayer(i)
    \/ CK4_CloudMove(i) \/ CK4_CloudCheckStrike(i) \/ CK4_BerkeloidMove(i) \/ CK4_BerkeloidThrowDone(i)
    \/ CK4_FireballDraw(i) \/ CK4_LickMove(i) \/ CK4_LickDraw(i) \/ CK4_MimrockWait(i)
    \/ CK4_MimrockCheckJump(i) \/ CK4_MimrockJumpDraw(i) \/ CK4_MimrockBounceDraw(i)
    \/ CK4_SpritePatrol(i) \/ CK4_SpriteAim(i) \/ CK4_LindseyFloat(i)

LEMMA SafePlainStep4 ==
    ASSUME IndInv, ck_currentEpisode = 4, NEW i \in Ids, i # 0, PlainStep4(i)
    PROVE  SafeStep
<1>1. CASE CK4_CouncilWalk(i)
  BY <1>1, SafeMay4 DEF CK4_CouncilWalk, Plainly4, Chosen4
<1>2. CASE CK4_SlugMove(i)
  BY <1>2, SafeMay4 DEF CK4_SlugMove, Plainly4, Chosen4
<1>3. CASE CK4_SkypestFly(i)
  BY <1>3, SafeMoves DEF CK4_SkypestFly
<1>4. CASE CK4_SkypestTakeoff(i)
  BY <1>4, SafeMoves DEF CK4_SkypestTakeoff
<1>5. CASE CK4_SkypestDraw(i)
  BY <1>5, SafeDraws4 DEF CK4_SkypestDraw, Plainly4, Chosen4
<1>6. CASE CK4_WormmouthMove(i)
  BY <1>6, SafeMay4 DEF CK4_WormmouthMove, Plainly4, Chosen4
<1>7. CASE CK4_WormmouthLook(i)
  <2>1. PICK f \in {"CK4_WormmouthLookLeft", "CK4_WormmouthLookRight"} : Thinks(i, f)
    BY <1>7 DEF CK4_WormmouthLook, Thinks
  <2>2. May(i, f, {"WormmouthMove0"}) \/ ThinkOnly(i, objs)
    BY <1>7, <2>1 DEF CK4_WormmouthLook, May
  <2>3. f \in Plainly4 /\ f # "CK4_BirdRecover"
    BY <2>1 DEF Plainly4
  <2>4. {"WormmouthMove0"} \in SUBSET Chosen4("plain")
    BY DEF Chosen4
  <2> QED  BY <2>1, <2>2, <2>3, <2>4, SafeMay4, SafeThinkOnly
<1>8. CASE CK4_WormmouthGoToPlayer(i)
  BY <1>8, SafeMoves DEF CK4_WormmouthGoToPlayer
<1>9. CASE CK4_CloudMove(i)
  BY <1>9, SafeMay4 DEF CK4_CloudMove, Plainly4, Chosen4
<1>10. CASE CK4_CloudCheckStrike(i)
  BY <1>10, SafeMay4 DEF CK4_CloudCheckStrike, Plainly4, Chosen4
<1>11. CASE CK4_BerkeloidMove(i)
  BY <1>11, SafeMay4 DEF CK4_BerkeloidMove, Plainly4, Chosen4
<1>12. CASE CK4_BerkeloidThrowDone(i)
  BY <1>12, SafeMoves DEF CK4_BerkeloidThrowDone
<1>13. CASE CK4_FireballDraw(i)
  BY <1>13, SafeDraws4 DEF CK4_FireballDraw, Plainly4, Chosen4
<1>14. CASE CK4_LickMove(i)
  BY <1>14, SafeMay4 DEF CK4_LickMove, Plainly4, Chosen4
<1>15. CASE CK4_LickDraw(i)
  BY <1>15, SafeDraws4 DEF CK4_LickDraw, Plainly4, Chosen4
<1>16. CASE CK4_MimrockWait(i)
  BY <1>16, SafeMay4 DEF CK4_MimrockWait, Plainly4, Chosen4
<1>17. CASE CK4_MimrockCheckJump(i)
  BY <1>17, SafeMay4 DEF CK4_MimrockCheckJump, Plainly4, Chosen4
<1>18. CASE CK4_MimrockJumpDraw(i)
  BY <1>18, SafeDraws4 DEF CK4_MimrockJumpDraw, Plainly4, Chosen4
<1>19. CASE CK4_MimrockBounceDraw(i)
  BY <1>19, SafeDraws4 DEF CK4_MimrockBounceDraw, Plainly4, Chosen4
<1>20. CASE CK4_SpritePatrol(i)
  BY <1>20, SafeMay4 DEF CK4_SpritePatrol, Plainly4, Chosen4
<1>21. CASE CK4_SpriteAim(i)
  BY <1>21, SafeMay4 DEF CK4_SpriteAim, Plainly4, Chosen4
<1>22. CASE CK4_LindseyFloat(i)
  BY <1>22, SafeMoves DEF CK4_LindseyFloat
<1> QED  BY <1>1, <1>2, <1>3, <1>4, <1>5, <1>6, <1>7, <1>8, <1>9, <1>10, <1>11, <1>12, <1>13, <1>14,
            <1>15, <1>16, <1>17, <1>18, <1>19, <1>20, <1>21, <1>22 DEF PlainStep4

\* What a function sets of an object of a plain action.
LEMMA PlainUser1 ==
    ASSUME IndInv, NEW i \in Ids, KindAt(i) = "plain",
           NEW u1 \in Int
    PROVE  Keeps(ck_currentEpisode, objs, [objs EXCEPT ![i].user1 = u1])
<1>1. Suits(ck_currentEpisode, objs[i], objs[i].act, objs[i].clipped, u1, objs[i].user2, objs[i].user3)
  BY Fields, PlainSuits DEF KindAt
<1> QED  BY <1>1, Fields, SelfKeeps, User1Keeps

LEMMA PlainUser1Act ==
    ASSUME IndInv, NEW i \in Ids, KindAt(i) = "plain",
           NEW act \in ActsOf(ck_currentEpisode), Kind(ck_currentEpisode, act) = "plain",
           NEW u1 \in Int
    PROVE  Keeps(ck_currentEpisode, objs, [objs EXCEPT ![i].user1 = u1, ![i].act = act])
<1>1. Suits(ck_currentEpisode, objs[i], act, objs[i].clipped, u1, objs[i].user2, objs[i].user3)
  BY Fields, PlainSuits DEF KindAt
<1> QED  BY <1>1, Fields, SelfKeeps, User1ActKeeps

LEMMA PlainUser12 ==
    ASSUME IndInv, NEW i \in Ids, KindAt(i) = "plain",
           NEW u1 \in Int, NEW u2 \in Int
    PROVE  Keeps(ck_currentEpisode, objs, [objs EXCEPT ![i].user1 = u1, ![i].user2 = u2])
<1>1. Suits(ck_currentEpisode, objs[i], objs[i].act, objs[i].clipped, u1, u2, objs[i].user3)
  BY Fields, PlainSuits DEF KindAt
<1> QED  BY <1>1, Fields, SelfKeeps, User12Keeps

LEMMA PlainUser2Act ==
    ASSUME IndInv, NEW i \in Ids, KindAt(i) = "plain",
           NEW act \in ActsOf(ck_currentEpisode), Kind(ck_currentEpisode, act) = "plain",
           NEW u2 \in Int
    PROVE  Keeps(ck_currentEpisode, objs, [objs EXCEPT ![i].user2 = u2, ![i].act = act])
<1>1. Suits(ck_currentEpisode, objs[i], act, objs[i].clipped, objs[i].user1, u2, objs[i].user3)
  BY Fields, PlainSuits DEF KindAt
<1> QED  BY <1>1, Fields, SelfKeeps, User2ActKeeps

LEMMA PlainUser12Act ==
    ASSUME IndInv, NEW i \in Ids, KindAt(i) = "plain",
           NEW act \in ActsOf(ck_currentEpisode), Kind(ck_currentEpisode, act) = "plain",
           NEW u1 \in Int, NEW u2 \in Int
    PROVE  Keeps(ck_currentEpisode, objs, [objs EXCEPT ![i].user1 = u1, ![i].user2 = u2, ![i].act = act])
<1>1. Suits(ck_currentEpisode, objs[i], act, objs[i].clipped, u1, u2, objs[i].user3)
  BY Fields, PlainSuits DEF KindAt
<1> QED  BY <1>1, Fields, SelfKeeps, User12ActKeeps

LEMMA PlainUser23 ==
    ASSUME IndInv, NEW i \in Ids, KindAt(i) = "plain",
           NEW u2 \in Int, NEW u3 \in Int
    PROVE  Keeps(ck_currentEpisode, objs, [objs EXCEPT ![i].user2 = u2, ![i].user3 = u3])
<1>1. Suits(ck_currentEpisode, objs[i], objs[i].act, objs[i].clipped, objs[i].user1, u2, u3)
  BY Fields, PlainSuits DEF KindAt
<1> QED  BY <1>1, Fields, SelfKeeps, User23Keeps

\* Fields set in another order.
LEMMA User21Act ==
    ASSUME NEW e, NEW before, NEW os \in [Ids -> ObjType], NEW i \in Ids, NEW u1, NEW u2, NEW act,
           Keeps(e, before, [os EXCEPT ![i].user1 = u1, ![i].user2 = u2, ![i].act = act])
    PROVE  Keeps(e, before, [os EXCEPT ![i].user2 = u2, ![i].user1 = u1, ![i].act = act])
<1>1. os[i] \in ObjType
  OBVIOUS
<1>2. [os[i] EXCEPT !.user2 = u2, !.user1 = u1, !.act = act] = [os[i] EXCEPT !.user1 = u1, !.user2 = u2, !.act = act]
  BY <1>1 DEF ObjType
<1>3. /\ [os EXCEPT ![i].user2 = u2, ![i].user1 = u1, ![i].act = act]
            = [os EXCEPT ![i] = [os[i] EXCEPT !.user2 = u2, !.user1 = u1, !.act = act]]
      /\ [os EXCEPT ![i].user1 = u1, ![i].user2 = u2, ![i].act = act]
            = [os EXCEPT ![i] = [os[i] EXCEPT !.user1 = u1, !.user2 = u2, !.act = act]]
  OBVIOUS
<1> QED  BY <1>2, <1>3

LEMMA ActUser1 ==
    ASSUME NEW e, NEW before, NEW os \in [Ids -> ObjType], NEW i \in Ids, NEW u1, NEW act,
           Keeps(e, before, [os EXCEPT ![i].user1 = u1, ![i].act = act])
    PROVE  Keeps(e, before, [os EXCEPT ![i].act = act, ![i].user1 = u1])
<1>1. os[i] \in ObjType
  OBVIOUS
<1>2. [os[i] EXCEPT !.act = act, !.user1 = u1] = [os[i] EXCEPT !.user1 = u1, !.act = act]
  BY <1>1 DEF ObjType
<1>3. /\ [os EXCEPT ![i].act = act, ![i].user1 = u1]
            = [os EXCEPT ![i] = [os[i] EXCEPT !.act = act, !.user1 = u1]]
      /\ [os EXCEPT ![i].user1 = u1, ![i].act = act]
            = [os EXCEPT ![i] = [os[i] EXCEPT !.user1 = u1, !.act = act]]
  OBVIOUS
<1> QED  BY <1>2, <1>3

LEMMA User1ActClipped ==
    ASSUME NEW e, NEW before, NEW os \in [Ids -> ObjType], NEW i \in Ids, NEW u1, NEW act, NEW clipped,
           Keeps(e, before, [os EXCEPT ![i].act = act, ![i].clipped = clipped, ![i].user1 = u1])
    PROVE  Keeps(e, before, [os EXCEPT ![i].user1 = u1, ![i].act = act, ![i].clipped = clipped])
<1>1. os[i] \in ObjType
  OBVIOUS
<1>2. [os[i] EXCEPT !.user1 = u1, !.act = act, !.clipped = clipped] = [os[i] EXCEPT !.act = act, !.clipped = clipped, !.user1 = u1]
  BY <1>1 DEF ObjType
<1>3. /\ [os EXCEPT ![i].user1 = u1, ![i].act = act, ![i].clipped = clipped]
            = [os EXCEPT ![i] = [os[i] EXCEPT !.user1 = u1, !.act = act, !.clipped = clipped]]
      /\ [os EXCEPT ![i].act = act, ![i].clipped = clipped, ![i].user1 = u1]
            = [os EXCEPT ![i] = [os[i] EXCEPT !.act = act, !.clipped = clipped, !.user1 = u1]]
  OBVIOUS
<1> QED  BY <1>2, <1>3

\* A mushroom counts its jumps.
LEMMA SafeMushroomDraw ==
    ASSUME IndInv, ck_currentEpisode = 4, NEW i \in Ids, CK4_MushroomDraw(i)
    PROVE  SafeStep
<1> DEFINE u1 == IF objs[i].user1 + 1 = NumJumps THEN 0 ELSE objs[i].user1 + 1
<1>1. KindAt(i) = "Mushroom"
  BY Telling4At DEF CK4_MushroomDraw, Draws, Telling4, KindsOf4
<1>2. objs[i].user1 \in Int /\ objs[i].user2 \in Int /\ objs[i].user3 \in Int
      /\ objs[i].act \in ActsOf(4) /\ NumJumps \in Nat \ {0}
  BY Fields, Creatures4Assumption
<1>3. objs[i].user1 < NumJumps
  BY <1>1, KnownAt DEF CountersFit
<1>4. u1 \in Int /\ u1 < NumJumps
  BY <1>2, <1>3
<1>5. Becomes([objs EXCEPT ![i].user1 = u1])
  BY DEF CK4_MushroomDraw
<1> HIDE DEF u1
<1>6. CountersFit(KindAt(i), u1, objs[i].user2, objs[i].user3)
  BY <1>1, <1>4 DEF CountersFit
<1>7. Suits(4, objs[i], objs[i].act, objs[i].clipped, u1, objs[i].user2, objs[i].user3)
  BY <1>2, <1>4, <1>6, KindSuits DEF KindAt
<1>8. Keeps(4, objs, [objs EXCEPT ![i].user1 = u1])
  BY <1>4, <1>7, SelfKeeps, User1Keeps
<1> QED  BY <1>5, <1>8, SafeBecomes

\* A bird takes off: at an edge, or by its own will.
LEMMA FlyingActs ==
    /\ "BirdFly0" \in ActsOf(4) /\ Kind(4, "BirdFly0") = "flying"
    /\ "BirdWalk0" \in ActsOf(4) /\ Kind(4, "BirdWalk0") = "Bird"
    /\ "BirdStunned0" \in ActsOf(4) /\ Kind(4, "BirdStunned0") = "stunned"
<1>1. "BirdFly0" \in Chosen4("flying") /\ "BirdWalk0" \in Chosen4("Bird")
      /\ "BirdStunned0" \in Chosen4("stunned")
  BY DEF Chosen4
<1> QED  BY <1>1, Chosen4Kinds

LEMMA SafeBirdWalk ==
    ASSUME IndInv, ck_currentEpisode = 4, NEW i \in Ids, i # 0, CK4_BirdWalk(i)
    PROVE  SafeStep
<1> DEFINE zero == 0
<1>1. KindAt(i) = "Bird" /\ Thinks(i, "CK4_BirdWalk")
  BY Telling4At DEF CK4_BirdWalk, Thinks, Telling4, KindsOf4
<1>2. CK_ActionThink(i, [objs EXCEPT ![i].act = "BirdFly0", ![i].clipped = "simple", ![i].user1 = zero])
      \/ ThinkOnly(i, objs)
  BY DEF CK4_BirdWalk, TakesOff, ThinkOnly
<1>3. zero \in Int
  OBVIOUS
<1> HIDE DEF zero
<1>4. CountersFit("flying", zero, objs[i].user2, objs[i].user3)
  BY DEF CountersFit
<1>5. ClippingFits(KindAt(i), objs[i].type, objs[i].active, objs[i].clipped) /\ objs[i].type = "Bird"
  BY <1>1, KnownAt, Typed DEF TypeOf, Bound
<1>6. ClippingFits("flying", objs[i].type, objs[i].active, "simple")
  BY <1>5 DEF ClippingFits
<1>7. Akin(KindAt(i), "flying") /\ KindAt(i) \notin Waiting /\ "flying" \notin Waiting \cup {"eating"}
  BY <1>1 DEF Akin, TypeOf, Waiting
<1>8. Suits(4, objs[i], "BirdFly0", "simple", zero, objs[i].user2, objs[i].user3)
  BY <1>3, <1>4, <1>6, <1>7, Fields, FlyingActs, AkinSuits
<1>9. Keeps(4, objs, [objs EXCEPT ![i].act = "BirdFly0", ![i].clipped = "simple", ![i].user1 = zero])
  BY <1>3, <1>8, SelfKeeps, Ways, FlyingActs, User1ActClippedKeeps
<1>10. "CK4_BirdWalk" # "CK4_BirdRecover"
  OBVIOUS
<1> QED  BY <1>1, <1>2, <1>9, <1>10, SafeThink, SafeThinkOnly DEF Thinks

\* A bird on the ground meets an edge, one in the air a wall or the ground.
LEMMA SafeBirdDraw ==
    ASSUME IndInv, ck_currentEpisode = 4, NEW i \in Ids, CK4_BirdDraw(i)
    PROVE  SafeStep
<1>1. KindAt(i) = "Bird"
  BY Telling4At DEF CK4_BirdDraw, Draws, Telling4, KindsOf4
<1>2. Becomes([objs EXCEPT ![i].act = "BirdFly0", ![i].clipped = "simple"])
  BY DEF CK4_BirdDraw
<1>4. CountersFit("flying", objs[i].user1, objs[i].user2, objs[i].user3)
  BY DEF CountersFit
<1>5. ClippingFits(KindAt(i), objs[i].type, objs[i].active, objs[i].clipped) /\ objs[i].type = "Bird"
  BY <1>1, KnownAt, Typed DEF TypeOf, Bound
<1>6. ClippingFits("flying", objs[i].type, objs[i].active, "simple")
  BY <1>5 DEF ClippingFits
<1>7. Akin(KindAt(i), "flying") /\ KindAt(i) \notin Waiting /\ "flying" \notin Waiting \cup {"eating"}
  BY <1>1 DEF Akin, TypeOf, Waiting
<1>8. Suits(4, objs[i], "BirdFly0", "simple", objs[i].user1, objs[i].user2, objs[i].user3)
  BY <1>4, <1>6, <1>7, Fields, FlyingActs, AkinSuits
<1>9. Keeps(4, objs, [objs EXCEPT ![i].act = "BirdFly0", ![i].clipped = "simple"])
  BY <1>8, SelfKeeps, Ways, FlyingActs, ActClippedKeeps
<1> QED  BY <1>2, <1>9, SafeBecomes

LEMMA SafeBirdFlyingDraw ==
    ASSUME IndInv, ck_currentEpisode = 4, NEW i \in Ids, CK4_BirdFlyingDraw(i)
    PROVE  SafeStep
<1> DEFINE one == 1
           zero == 0
<1>1. KindAt(i) = "flying" /\ objs \in [Ids -> ObjType]
  BY Telling4At, ObjectAt DEF CK4_BirdFlyingDraw, Draws, Telling4, KindsOf4
<1>2. \/ Becomes([objs EXCEPT ![i].user1 = one, ![i].act = "BirdWalk0", ![i].clipped = "normal"])
      \/ Becomes([objs EXCEPT ![i].user1 = one])
      \/ Becomes([objs EXCEPT ![i].user1 = zero])
  BY DEF CK4_BirdFlyingDraw
<1>3. one \in Int /\ zero \in Int
  OBVIOUS
<1> HIDE DEF one, zero
<1>4. ASSUME NEW u \in Int PROVE Keeps(4, objs, [objs EXCEPT ![i].user1 = u])
  <2>1. CountersFit(KindAt(i), u, objs[i].user2, objs[i].user3)
    BY <1>1 DEF CountersFit
  <2>2. Suits(4, objs[i], objs[i].act, objs[i].clipped, u, objs[i].user2, objs[i].user3)
    BY <2>1, Fields, KindSuits DEF KindAt
  <2> QED  BY <2>2, SelfKeeps, User1Keeps
<1>5. ClippingFits(KindAt(i), objs[i].type, objs[i].active, objs[i].clipped) /\ objs[i].type = "Bird"
  BY <1>1, KnownAt, Typed DEF TypeOf, Bound
<1>6. ClippingFits("Bird", objs[i].type, objs[i].active, "normal")
  BY <1>5 DEF ClippingFits
<1>7. Akin(KindAt(i), "Bird") /\ KindAt(i) \notin Waiting /\ "Bird" \notin Waiting \cup {"eating"}
  BY <1>1 DEF Akin, TypeOf, Waiting
<1>8. CountersFit("Bird", one, objs[i].user2, objs[i].user3)
  BY DEF CountersFit
<1>9. Suits(4, objs[i], "BirdWalk0", "normal", one, objs[i].user2, objs[i].user3)
  BY <1>3, <1>6, <1>7, <1>8, Fields, FlyingActs, AkinSuits
<1>10. Keeps(4, objs, [objs EXCEPT ![i].act = "BirdWalk0", ![i].clipped = "normal", ![i].user1 = one])
  BY <1>3, <1>9, SelfKeeps, Ways, FlyingActs, User1ActClippedKeeps
<1>11. Keeps(4, objs, [objs EXCEPT ![i].user1 = one, ![i].act = "BirdWalk0", ![i].clipped = "normal"])
  BY <1>1, <1>10, User1ActClipped
<1> QED  BY <1>2, <1>3, <1>4, <1>11, SafeBecomes

\* New objects, and what is moved or counted.
LEMMA SafeNewThink ==
    ASSUME IndInv, NEW i \in Ids, i # 0, NEW f, f # "CK4_BirdRecover", Thinks(i, f),
           NEW ty \in Ordinary, NEW act \in ActsOf(ck_currentEpisode), Kind(ck_currentEpisode, act) = "plain",
           NEW ac \in {"active", "onscreen", "always", "inactive"},
           ThinkOnly(i, CK_GetNewObj(objs, Obj(ty, act, ac)))
    PROVE  SafeStep
<1>1. ck_currentEpisode \in 4 .. 6 /\ Keeps(ck_currentEpisode, objs, objs)
  BY SelfKeeps DEF IndInv
<1>2. Keeps(ck_currentEpisode, objs, CK_GetNewObj(objs, Obj(ty, act, ac)))
  BY <1>1, NewPlainKeeps
<1> QED  BY <1>2, SafeThink DEF ThinkOnly, Thinks

\* What the functions of Keen 4 throw.
LEMMA Plain4Acts ==
    ASSUME NEW act \in {"SlugSlime0", "FireballAir0", "SpriteBullet0", "Lightning0", "DartUp0", "DartDown0",
                        "DartHorz0", "Bounder0", "BounderMoveHorz0", "SmirkyJump0", "SmirkyTele0", "Smirky0",
                        "Eggshell0", "SkypestSquish0", "CloudAwaken0", "StolenItem0", "MineExplode0"}
    PROVE  act \in ActsOf(4) /\ Kind(4, act) = "plain"
<1>1. act \in Chosen4("plain")
  BY DEF Chosen4
<1> QED  BY <1>1, Chosen4Kinds

LEMMA SafeThrows4 ==
    ASSUME IndInv, ck_currentEpisode = 4, NEW i \in Ids, i # 0,
           \/ CK4_SlugSlime(i) \/ CK4_BerkeloidThrow(i) \/ CK4_SpriteShoot(i) \/ CK4_DartGun(i)
           \/ CK4_CloudStrike(i)
    PROVE  SafeStep
<1>1. {"Friendly", "Berkeloid", "Sprite", "EnemyShot", "Bolt"} \subseteq Ordinary
  BY DEF Ordinary
<1>2. CASE CK4_SlugSlime(i)
  BY <1>1, <1>2, Plain4Acts, SafeNewThink DEF CK4_SlugSlime, Debris
<1>3. CASE CK4_BerkeloidThrow(i)
  BY <1>1, <1>3, Plain4Acts, SafeNewThink DEF CK4_BerkeloidThrow, Debris
<1>4. CASE CK4_SpriteShoot(i)
  BY <1>1, <1>4, Plain4Acts, SafeNewThink DEF CK4_SpriteShoot, Debris
<1>5. CASE CK4_DartGun(i)
  <2> DEFINE dart == CASE objs[i].user1 = 0 -> "DartUp0"
                       [] objs[i].user1 = 2 -> "DartDown0"
                       [] OTHER -> "DartHorz0"
  <2>1. dart \in {"DartUp0", "DartDown0", "DartHorz0"}
    OBVIOUS
  <2>2. Thinks(i, "CK4_DartGun") /\ ThinkOnly(i, CK_GetNewObj(objs, Obj("EnemyShot", dart, "onscreen")))
    BY <1>5 DEF CK4_DartGun, Debris
  <2> HIDE DEF dart
  <2>3. dart \in ActsOf(4) /\ Kind(4, dart) = "plain"
    BY <2>1, Plain4Acts
  <2> QED  BY <1>1, <2>2, <2>3, SafeNewThink
<1>6. CASE CK4_CloudStrike(i)
  <2>1. Thinks(i, "CK4_CloudStrike")
        /\ ThinkOnly(i, CK_GetNewObj(objs, [Obj("Bolt", "Lightning0", "onscreen") EXCEPT !.clipped = "not"]))
    BY <1>6 DEF CK4_CloudStrike, Debris
  <2>2. Keeps(4, objs, CK_GetNewObj(objs, [Obj("Bolt", "Lightning0", "onscreen") EXCEPT !.clipped = "not"]))
    BY <1>1, Plain4Acts, SelfKeeps, Ways, NewUnclippedKeeps
  <2> QED  BY <2>1, <2>2, SafeThink DEF ThinkOnly, Thinks
<1> QED  BY <1>2, <1>3, <1>4, <1>5, <1>6

\* Berkeloids hover, bounders bounce, platforms turn.
LEMMA SafeBerkeloidHover ==
    ASSUME IndInv, ck_currentEpisode = 4, NEW i \in Ids, CK4_BerkeloidHover(i)
    PROVE  SafeStep
<1> DEFINE next == objs[i].user1 + objs[i].user2
           u1 == IF next > 0 THEN 0 ELSE IF next < -HoverSteps THEN -HoverSteps ELSE next
           u2 == IF next > 0 THEN -1 ELSE IF next < -HoverSteps THEN 1 ELSE objs[i].user2
<1>1. KindAt(i) = "plain"
  BY Plain4 DEF CK4_BerkeloidHover, Plainly4
<1>2. objs[i].user1 \in Int /\ objs[i].user2 \in Int /\ HoverSteps \in Nat
  BY Fields, Creatures4Assumption
<1>3. u1 \in Int /\ u2 \in Int
  BY <1>2
<1>4. Becomes([objs EXCEPT ![i].user1 = u1, ![i].user2 = u2])
  BY DEF CK4_BerkeloidHover
<1> HIDE DEF u1, u2
<1>5. Keeps(4, objs, [objs EXCEPT ![i].user1 = u1, ![i].user2 = u2])
  BY <1>1, <1>3, PlainUser12
<1> QED  BY <1>4, <1>5, SafeBecomes

LEMMA SafeBounderDraw ==
    ASSUME IndInv, ck_currentEpisode = 4, NEW i \in Ids, CK4_BounderDraw(i)
    PROVE  SafeStep
<1> DEFINE bounces == IF objs[i].user2 < 3 THEN objs[i].user2 + 1 ELSE 3
           zero == 0
           one == 1
<1>1. KindAt(i) = "plain" /\ objs \in [Ids -> ObjType]
  BY Plain4, ObjectAt DEF CK4_BounderDraw, Draws, Plainly4
<1>2. objs[i].user2 \in Int
  BY Fields
<1>3. bounces \in Int /\ zero \in Int /\ one \in Int
  BY <1>2
<1>4. \/ \E act \in {"Bounder0", "BounderMoveHorz0"} :
            Becomes([objs EXCEPT ![i].user2 = zero, ![i].act = act])
      \/ \E act \in {"Bounder0", "BounderMoveHorz0"}, u1 \in {zero, one} :
            Becomes([objs EXCEPT ![i].user2 = bounces, ![i].user1 = u1, ![i].act = act])
  BY DEF CK4_BounderDraw
<1> HIDE DEF bounces, zero, one
<1>5. ASSUME NEW act \in {"Bounder0", "BounderMoveHorz0"}
      PROVE  act \in ActsOf(4) /\ Kind(4, act) = "plain"
  BY Plain4Acts
<1>6. ASSUME NEW act \in {"Bounder0", "BounderMoveHorz0"}
      PROVE  Keeps(4, objs, [objs EXCEPT ![i].user2 = zero, ![i].act = act])
  BY <1>1, <1>3, <1>5, PlainUser2Act
<1>7. ASSUME NEW act \in {"Bounder0", "BounderMoveHorz0"}, NEW u1 \in {zero, one}
      PROVE  Keeps(4, objs, [objs EXCEPT ![i].user2 = bounces, ![i].user1 = u1, ![i].act = act])
  <2>1. u1 \in Int
    BY <1>3
  <2>2. Keeps(4, objs, [objs EXCEPT ![i].user1 = u1, ![i].user2 = bounces, ![i].act = act])
    BY <1>1, <1>3, <1>5, <2>1, PlainUser12Act
  <2> QED  BY <1>1, <2>2, User21Act
<1> QED  BY <1>4, <1>6, <1>7, SafeBecomes

LEMMA SafePlatformDraw ==
    ASSUME IndInv, ck_currentEpisode = 4, NEW i \in Ids, CK4_PlatformDraw(i)
    PROVE  SafeStep
<1>1. KindAt(i) = "plain"
  BY Plain4 DEF CK4_PlatformDraw, Draws, Plainly4
<1>2. PICK flames \in {<<0, 0>>, <<1, 1>>, <<1, 0>>, <<0, 1>>} :
          Becomes([objs EXCEPT ![i].user2 = flames[1], ![i].user3 = flames[2]])
  BY DEF CK4_PlatformDraw
<1>3. flames[1] \in Int /\ flames[2] \in Int
  BY <1>2
<1> DEFINE u2 == flames[1]
           u3 == flames[2]
<1>4. Becomes([objs EXCEPT ![i].user2 = u2, ![i].user3 = u3]) /\ u2 \in Int /\ u3 \in Int
  BY <1>2, <1>3
<1> HIDE DEF u2, u3
<1>5. Keeps(4, objs, [objs EXCEPT ![i].user2 = u2, ![i].user3 = u3])
  BY <1>1, <1>4, PlainUser23
<1> QED  BY <1>4, <1>5, SafeBecomes

\* Smirkies.
LEMMA SafeSmirkySearch ==
    ASSUME IndInv, ck_currentEpisode = 4, NEW i \in Ids, i # 0, CK4_SmirkySearch(i)
    PROVE  SafeStep
<1> DEFINE turns == objs[i].user1 + 1
           act == IF turns = TeleCycle THEN "SmirkyTele0" ELSE "SmirkyJump0"
<1>1. KindAt(i) = "plain" /\ Thinks(i, "CK4_SmirkySearch")
  BY Plain4 DEF CK4_SmirkySearch, Thinks, Plainly4
<1>2. act \in {"SmirkyTele0", "SmirkyJump0"}
  OBVIOUS
<1>3. turns \in Int
  <2>1. objs[i].user1 \in Int
    BY Fields
  <2> QED  BY <2>1
<1>4. \/ May(i, "CK4_SmirkySearch", {"SmirkyJump0", "SmirkyTele0"})
      \/ CK_ActionThink(i, [objs EXCEPT ![i].user1 = turns, ![i].act = act])
  BY DEF CK4_SmirkySearch, May, ThinkOnly
<1> HIDE DEF turns, act
<1>5. act \in ActsOf(4) /\ Kind(4, act) = "plain"
  BY <1>2, Plain4Acts
<1>6. Keeps(4, objs, [objs EXCEPT ![i].user1 = turns, ![i].act = act])
  BY <1>1, <1>3, <1>5, PlainUser1Act
<1>7. {"SmirkyJump0", "SmirkyTele0"} \in SUBSET Chosen4("plain") /\ "CK4_SmirkySearch" \in Plainly4
  BY DEF Chosen4, Plainly4
<1>8. Action(i).think # "CK4_BirdRecover"
  BY <1>1 DEF Thinks
<1> QED  BY <1>4, <1>6, <1>7, <1>8, SafeMay4, SafeThink

LEMMA SafeSmirkyTeleport ==
    ASSUME IndInv, ck_currentEpisode = 4, NEW i \in Ids, i # 0, CK4_SmirkyTeleport(i)
    PROVE  SafeStep
<1>1. KindAt(i) = "plain" /\ Action(i).think # "CK4_BirdRecover"
  BY Plain4 DEF CK4_SmirkyTeleport, Thinks, Plainly4
<1> QED  BY <1>1, SafeThinkRemove DEF CK4_SmirkyTeleport, Waiting

LEMMA SafeSmirkyDraw ==
    ASSUME IndInv, ck_currentEpisode = 4, NEW i \in Ids, CK4_SmirkyDraw(i)
    PROVE  SafeStep
<1> DEFINE Walls(wall) == IF objs[i].user1 + wall > TeleCycle THEN TeleCycle ELSE objs[i].user1 + wall
<1>1. KindAt(i) = "plain" /\ objs \in [Ids -> ObjType]
  BY Plain4, ObjectAt DEF CK4_SmirkyDraw, Draws, Plainly4
<1>2. objs[i].user1 \in Int /\ TeleCycle \in Nat
  BY Fields, Creatures4Assumption
<1>3. PICK act \in {"SmirkyJump0", "Smirky0"}, wall \in {0, 1} :
          Becomes([objs EXCEPT ![i].act = act, ![i].user1 = Walls(wall)])
  <2>1. PICK act \in {"SmirkyJump0", "Smirky0"}, wall \in {0, 1} :
            Becomes([objs EXCEPT ![i].act = act,
                                 ![i].user1 = IF @ + wall > TeleCycle THEN TeleCycle ELSE @ + wall])
    BY DEF CK4_SmirkyDraw
  <2>2. [objs EXCEPT ![i].act = act,
                     ![i].user1 = IF @ + wall > TeleCycle THEN TeleCycle ELSE @ + wall]
        = [objs EXCEPT ![i].act = act, ![i].user1 = Walls(wall)]
    BY <1>1
  <2> QED  BY <2>1, <2>2
<1> DEFINE u1 == Walls(wall)
<1>4. u1 \in Int
  BY <1>2, <1>3
<1> HIDE DEF u1
<1>5. act \in ActsOf(4) /\ Kind(4, act) = "plain"
  BY <1>3, Plain4Acts
<1>6. Keeps(4, objs, [objs EXCEPT ![i].user1 = u1, ![i].act = act])
  BY <1>1, <1>4, <1>5, PlainUser1Act
<1>7. Keeps(4, objs, [objs EXCEPT ![i].act = act, ![i].user1 = u1])
  BY <1>1, <1>6, ActUser1
<1> QED  BY <1>3, <1>7, SafeBecomes DEF u1

\* Fish.
LEMMA SafeDopefishMove ==
    ASSUME IndInv, ck_currentEpisode = 4, NEW i \in Ids, i # 0, CK4_DopefishMove(i)
    PROVE  SafeStep
<1>1. Action(i).think # "CK4_BirdRecover" /\ CK_ActionThink(i, objs)
  BY DEF CK4_DopefishMove, ThinkOnly
<1> QED  BY <1>1, SelfKeeps, SafeThink

LEMMA SafeAfterBurp ==
    ASSUME IndInv, ck_currentEpisode = 4, NEW i \in Ids, CK4_DopefishAfterBurp(i)
    PROVE  SafeStep
<1>1. KindAt(i) = "Dopefish"
  BY Telling4At DEF CK4_DopefishAfterBurp, Thinks, Telling4, KindsOf4
<1>2. Becomes(objs) \/ Becomes([objs EXCEPT ![i].act = "DopefishSwim0", ![i].clipped = "simple"])
  BY DEF CK4_DopefishAfterBurp
<1>3. "DopefishSwim0" \in ActsOf(4) /\ Kind(4, "DopefishSwim0") = "swimming"
  <2>1. "DopefishSwim0" \in Chosen4("swimming")
    BY DEF Chosen4
  <2> QED  BY <2>1, Chosen4Kinds
<1>4. CountersFit("swimming", objs[i].user1, objs[i].user2, objs[i].user3)
  BY DEF CountersFit
<1>5. ClippingFits(KindAt(i), objs[i].type, objs[i].active, objs[i].clipped) /\ objs[i].type = "Dopefish"
  BY <1>1, KnownAt, Typed DEF TypeOf, Bound
<1>6. ClippingFits("swimming", objs[i].type, objs[i].active, "simple")
  BY <1>5 DEF ClippingFits
<1>7. Akin(KindAt(i), "swimming") /\ KindAt(i) \notin Waiting /\ "swimming" \notin Waiting \cup {"eating"}
  BY <1>1 DEF Akin, TypeOf, Waiting
<1>8. Suits(4, objs[i], "DopefishSwim0", "simple", objs[i].user1, objs[i].user2, objs[i].user3)
  BY <1>3, <1>4, <1>6, <1>7, Fields, Ways, AkinSuits
<1>9. Keeps(4, objs, [objs EXCEPT ![i].act = "DopefishSwim0", ![i].clipped = "simple"])
  BY <1>3, <1>8, SelfKeeps, Ways, ActClippedKeeps
<1> QED  BY <1>2, <1>9, SafeNothing, SafeBecomes

LEMMA SafeFishDraw ==
    ASSUME IndInv, ck_currentEpisode = 4, NEW i \in Ids, CK4_FishDraw(i)
    PROVE  SafeStep
<1>1. KindAt(i) \in {"Schoolfish", "swimming"}
  BY Telling4At DEF CK4_FishDraw, Draws, Telling4, KindsOf4
<1>2. PICK u1 \in {0, 1} : Becomes([objs EXCEPT ![i].user1 = u1])
  BY DEF CK4_FishDraw
<1>3. u1 \in Int
  BY <1>2
<1>4. CountersFit(KindAt(i), u1, objs[i].user2, objs[i].user3)
  BY <1>1 DEF CountersFit
<1>5. Suits(4, objs[i], objs[i].act, objs[i].clipped, u1, objs[i].user2, objs[i].user3)
  BY <1>3, <1>4, Fields, KindSuits DEF KindAt
<1>6. Keeps(4, objs, [objs EXCEPT ![i].user1 = u1])
  BY <1>3, <1>5, SelfKeeps, User1Keeps
<1> QED  BY <1>2, <1>6, SafeBecomes

\* A bullet that meets a wall is gone.
LEMMA SafeProjectileDraw ==
    ASSUME IndInv, ck_currentEpisode = 4, NEW i \in Ids, i # 0, CK4_ProjectileDraw(i)
    PROVE  SafeStep
<1>1. KindAt(i) = "plain"
  BY Plain4 DEF CK4_ProjectileDraw, Draws, Plainly4
<1> QED  BY <1>1, SafeRemove DEF CK4_ProjectileDraw, Waiting

\* Functions of creatures of other kinds that only move them.
LEMMA SafeMoves4 ==
    ASSUME IndInv, ck_currentEpisode = 4, NEW i \in Ids, i # 0,
           \/ CK4_MushroomMove(i) \/ CK4_BirdFly(i) \/ CK4_ArachnutSearch(i) \/ CK4_InchwormMove(i)
           \/ CK4_DopefishBurp(i)
    PROVE  SafeStep
<1>1. CASE CK4_MushroomMove(i)
  BY <1>1, SafeMoves DEF CK4_MushroomMove
<1>2. CASE CK4_BirdFly(i)
  BY <1>2, SafeMoves DEF CK4_BirdFly
<1>3. CASE CK4_ArachnutSearch(i)
  BY <1>3, SafeMoves DEF CK4_ArachnutSearch
<1>4. CASE CK4_InchwormMove(i)
  BY <1>4, SafeMoves DEF CK4_InchwormMove
<1>5. CASE CK4_DopefishBurp(i)
  BY <1>5, SafeMoves DEF CK4_DopefishBurp
<1> QED  BY <1>1, <1>2, <1>3, <1>4, <1>5

\* The rows of the table that a proof looks at.
LEMMA Rows4 ==
    ASSUME NEW a \in Acts4
    PROVE  Actions[4][a] = Actions4[a]
  BY DEF Actions, Table4

\* What a stunned bird runs.
LEMMA RecoverRow ==
    ASSUME NEW a \in Stunned4, Actions[4][a].think = "CK4_BirdRecover"
    PROVE  a = "BirdRecover3" /\ Actions[4][a].type = "once" /\ Actions[4][a].next = {"BirdWalk0"}
<1>1. a \in Acts4 /\ Actions4[a].think = "CK4_BirdRecover"
  <2>1. a \in Acts4
    BY DEF Stunned4, Acts4, SlugActs, BirdActs, ArachnutActs, FootActs, SmirkyActs
  <2> QED  BY <2>1, Rows4
<1>2. CASE a \in {"SlugStunned0", "SlugStunned1"}
  <2>1. Actions4[a] = SlugRows[a]
    BY <1>1, <1>2 DEF Actions4, SlugActs
  <2> QED  BY <1>1, <1>2, <2>1 DEF SlugRows, SlugActs, Row
<1>3. CASE a = "WormmouthStunned0"
  <2>1. Actions4[a] = ArachnutRows[a]
    BY <1>1, <1>3 DEF Actions4, SlugActs, BirdActs, ArachnutActs
  <2> QED  BY <1>1, <1>3, <2>1 DEF ArachnutRows, ArachnutActs, Row
<1>4. CASE a \in {"BounderStunned0", "LickStunned0"}
  <2>1. Actions4[a] = FootRows[a]
    BY <1>1, <1>4 DEF Actions4, SlugActs, BirdActs, ArachnutActs, CloudActs, FootActs
  <2> QED  BY <1>1, <1>4, <2>1 DEF FootRows, FootActs, Row
<1>5. CASE a \in {"SmirkyStunned0", "MimrockStunned0"}
  <2>1. Actions4[a] = SmirkyRows[a]
    BY <1>1, <1>5 DEF Actions4, SlugActs, BirdActs, ArachnutActs, CloudActs, FootActs, SmirkyActs
  <2> QED  BY <1>1, <1>5, <2>1 DEF SmirkyRows, SmirkyActs, Row
<1>6. CASE a \in {"BirdStunned0", "BirdRecover0", "BirdRecover3"}
  <2>1. Actions4[a] = BirdRows[a] /\ Actions[4][a] = BirdRows[a]
    BY <1>1, <1>6, Rows4 DEF Actions4, SlugActs, BirdActs
  <2> QED  BY <1>1, <1>6, <2>1 DEF BirdRows, BirdActs, Row
<1> QED  BY <1>2, <1>3, <1>4, <1>5, <1>6 DEF Stunned4

\* A bird recovers, and is a bird again.
LEMMA SafeBirdRecover ==
    ASSUME IndInv, ck_currentEpisode = 4, NEW i \in Ids, i # 0, CK4_BirdRecover(i)
    PROVE  SafeStep
<1> DEFINE os == [objs EXCEPT ![i].type = "Bird", ![i].hit = ""]
           o == [objs[i] EXCEPT !.type = "Bird", !.hit = "", !.act = "BirdWalk0"]
<1>1. KindAt(i) = "stunned" /\ Thinks(i, "CK4_BirdRecover") /\ ThinkOnly(i, os)
  BY RecoverAt DEF CK4_BirdRecover, Thinks, FunctionsOf
<1>2. objs[i].act \in Stunned4
  BY <1>1 DEF KindAt, Kind, Kind4
<1>3. Action(i).type = "once" /\ Action(i).next = {"BirdWalk0"}
  BY <1>1, <1>2, RecoverRow DEF Action, Thinks
<1>4. objs \in [Ids -> ObjType] /\ objs[i] \in ObjType /\ Good(4, objs[i])
  BY ObjectAt
<1>5. os[i].act = objs[i].act
  BY <1>4 DEF ObjType
<1>6. Becomes(SetAct(os, i, "BirdWalk0"))
  BY <1>1, <1>3, <1>5 DEF ThinkOnly, CK_ActionThink
<1>7. SetAct(os, i, "BirdWalk0") = [objs EXCEPT ![i] = o]
  BY <1>4 DEF SetAct
<1>8. /\ o.type = "Bird" /\ o.hit = "" /\ o.act = "BirdWalk0" /\ o.clipped = objs[i].clipped
      /\ o.active = objs[i].active
  BY <1>4 DEF ObjType
<1>9. o \in ObjType
  <2>1. "Bird" \in Types /\ "BirdWalk0" \in Acts
    BY FlyingActs, ActsIn, Ways DEF Types, Bound
  <2> QED  BY <1>4, <2>1 DEF ObjType
<1> HIDE DEF o, os
<1>10. objs[i].clipped # "simple"
  BY <1>1, Typed
<1>11. Fits(4, "Bird", o)
  BY <1>8, <1>10 DEF Fits, TypeFits, TypeOf, ClippingFits, CountersFit, Bound
<1>12. Good(4, o)
  BY <1>8, <1>9, <1>11, FlyingActs DEF Good
<1>13. Turns(4, objs[i], o)
  BY <1>1, <1>8, FlyingActs DEF Turns, Rare, KindAt, Waiting
<1>14. Keeps(4, objs, [objs EXCEPT ![i] = o])
  BY <1>12, <1>13, SelfKeeps, Ways, PutKeeps
<1> QED  BY <1>6, <1>7, <1>14, SafeBecomes

\* Every step of Keen 4 but the last bite of the Dopefish.
LEMMA SafeStep4 ==
    ASSUME IndInv, ck_currentEpisode = 4, NEW i \in Ids, i # 0, Step4(i), ~CK4_DopefishEat(i)
    PROVE  SafeStep
<1>1. CASE PlainStep4(i)
  BY <1>1, SafePlainStep4
<1>2. CASE CK4_MushroomDraw(i) \/ CK4_BirdWalk(i) \/ CK4_BirdDraw(i) \/ CK4_BirdFlyingDraw(i) \/ CK4_BirdRecover(i)
  BY <1>2, SafeMushroomDraw, SafeBirdWalk, SafeBirdDraw, SafeBirdFlyingDraw, SafeBirdRecover
<1>3. CASE CK4_SlugSlime(i) \/ CK4_BerkeloidThrow(i) \/ CK4_SpriteShoot(i) \/ CK4_DartGun(i) \/ CK4_CloudStrike(i)
  BY <1>3, SafeThrows4
<1>4. CASE CK4_BerkeloidHover(i) \/ CK4_BounderDraw(i) \/ CK4_PlatformDraw(i) \/ CK4_ProjectileDraw(i)
  BY <1>4, SafeBerkeloidHover, SafeBounderDraw, SafePlatformDraw, SafeProjectileDraw
<1>5. CASE CK4_SmirkySearch(i) \/ CK4_SmirkyTeleport(i) \/ CK4_SmirkyDraw(i)
  BY <1>5, SafeSmirkySearch, SafeSmirkyTeleport, SafeSmirkyDraw
<1>6. CASE CK4_DopefishMove(i) \/ CK4_DopefishAfterBurp(i) \/ CK4_FishDraw(i)
  BY <1>6, SafeDopefishMove, SafeAfterBurp, SafeFishDraw
<1>7. CASE CK4_MushroomMove(i) \/ CK4_BirdFly(i) \/ CK4_ArachnutSearch(i) \/ CK4_InchwormMove(i) \/ CK4_DopefishBurp(i)
  BY <1>7, SafeMoves4
<1> QED  BY <1>1, <1>2, <1>3, <1>4, <1>5, <1>6, <1>7 DEF Step4, PlainStep4

(***************************************************************************)
(* Touches.                                                                *)
(***************************************************************************)
\* A creature of a plain action that is touched kills, deflects or is stunned.
LEMMA SafePlainTouch4 ==
    ASSUME IndInv, ck_currentEpisode = 4, NEW i \in Ids, i # 0, NEW j \in Ids, NEW f \in Plainly4,
           i # j, Action(i).collide = f,
           \/ Kills(i)
           \/ Is(j, "Stunner") /\ Deflects(j)
           \/ Is(j, "Stunner") /\ \E act \in Chosen4("stunned") : Stuns(i, j, act)
    PROVE  SafeStep
<1>1. KindAt(i) = "plain"
  BY Plain4
<1>2. CASE Kills(i)
  <2>1. f \in FunctionsOf(i) /\ f \notin StunnedFunctions
    BY DEF FunctionsOf, StunnedFunctions, Plainly4
  <2> QED  BY <1>2, <2>1, SafeKills
<1>3. CASE Is(j, "Stunner") /\ Deflects(j)
  BY <1>3, SafeDeflects
<1>4. CASE Is(j, "Stunner") /\ \E act \in Chosen4("stunned") : Stuns(i, j, act)
  <2>1. PICK act \in Chosen4("stunned") : Stuns(i, j, act)
    BY <1>4
  <2>2. act \in ActsOf(4) /\ Kind(4, act) = "stunned"
    BY Chosen4Kinds
  <2>3. objs[i].clipped # "simple" /\ KindAt(i) \notin Waiting
    BY <1>1, Typed DEF Waiting
  <2> QED  BY <1>4, <2>1, <2>2, <2>3, SafeStuns
<1> QED  BY <1>2, <1>3, <1>4

\* A bird in the air and an ampton on its pole are clipped again when they are stunned.
LEMMA StunNormalGood ==
    ASSUME NEW e \in 4 .. 6, NEW o, Good(e, o), NEW act \in ActsOf(e), Kind(e, act) = "stunned",
           e = 6 => o.type \in StarSpecs6, Kind(e, o.act) \notin Waiting
    PROVE  /\ Good(e, StunnedAs([o EXCEPT !.clipped = "normal"], act))
           /\ Turns(e, o, StunnedAs([o EXCEPT !.clipped = "normal"], act))
<1> DEFINE q == [o EXCEPT !.clipped = "normal"]
           o2 == StunnedAs(q, act)
<1>1. o \in ObjType
  BY DEF Good
<1>2. q \in ObjType /\ q.type = o.type /\ q.hit = o.hit /\ q.clipped = "normal" /\ q.act = o.act
  BY <1>1 DEF ObjType
<1> HIDE DEF q
<1>3. "StunnedCreature" \in Types
  BY DEF Types
<1>a. act \in Acts /\ q.type \in Types \cup {""}
      /\ (IF q.hit = "" THEN q.type ELSE q.hit) \in Types \cup {""}
  BY <1>2, ActsIn DEF ObjType
<1>4. o2 \in ObjType
  <2>1. ASSUME NEW h \in Types \cup {""}, NEW n \in Int
        PROVE  [q EXCEPT !.user1 = n, !.user2 = n, !.user3 = n, !.user4 = q.type, !.act = act,
                         !.type = "StunnedCreature", !.hit = h] \in ObjType
    BY <1>2, <1>3, <1>a DEF ObjType
  <2>2. 0 \in Int
    OBVIOUS
  <2> QED  BY <1>a, <2>1, <2>2, Zenon DEF StunnedAs
<1>5. /\ o2.act = act /\ o2.type = "StunnedCreature" /\ o2.user4 = q.type
      /\ o2.clipped = "normal" /\ o2.hit = IF q.hit = "" THEN q.type ELSE q.hit
  BY <1>2 DEF StunnedAs, ObjType
<1>6. q.type # ""
  BY <1>2 DEF ObjType, Types, Bound, Ordinary
<1> HIDE DEF o2
<1>7. TypeFits(e, "stunned", o2)
  BY <1>2, <1>5, <1>6 DEF TypeFits, TypeOf, Bound
<1>8. ClippingFits("stunned", o2.type, o2.active, o2.clipped)
      /\ CountersFit("stunned", o2.user1, o2.user2, o2.user3)
  BY <1>5 DEF ClippingFits, CountersFit
<1>9. Good(e, o2)
  BY <1>4, <1>5, <1>7, <1>8 DEF Good, Fits
<1>10. Turns(e, o, o2)
  BY <1>5 DEF Turns, Rare
<1> QED  BY <1>9, <1>10 DEF o2, q

\* They are stunned.
LEMMA SafeStunNormal ==
    ASSUME IndInv, NEW i \in Ids, i # 0, NEW s \in Ids, i # s, Is(s, "Stunner"),
           NEW act \in ActsOf(ck_currentEpisode), Kind(ck_currentEpisode, act) = "stunned",
           ck_currentEpisode = 6 => objs[i].type \in StarSpecs6, KindAt(i) \notin Waiting,
           CK_StunCreature([objs EXCEPT ![i].clipped = "normal"], i, s, act)
    PROVE  SafeStep
<1> DEFINE q == [objs[i] EXCEPT !.clipped = "normal"]
           stunned == [objs EXCEPT ![i] = StunnedAs(q, act)]
<1>1. ck_currentEpisode \in 4 .. 6 /\ objs \in [Ids -> ObjType] /\ Good(ck_currentEpisode, objs[i])
      /\ Keeps(ck_currentEpisode, objs, objs)
  BY SelfKeeps, ObjectAt
<1>2. Good(ck_currentEpisode, StunnedAs(q, act)) /\ Turns(ck_currentEpisode, objs[i], StunnedAs(q, act))
  BY <1>1, StunNormalGood DEF KindAt
<1>3. Keeps(ck_currentEpisode, objs, stunned)
  BY <1>1, <1>2, PutKeeps
<1>4. [[objs EXCEPT ![i].clipped = "normal"] EXCEPT ![i] = StunnedAs(@, act)] = stunned
  BY <1>1
<1>5. stunned[s].type = "Stunner"
  BY <1>1 DEF Is
<1>6. objs' = CK_ShotHit(stunned, s) /\ stuns' = stuns + 1
      /\ UNCHANGED <<ck_currentEpisode, numShots, levelState, quitMessage, killer, fired>>
  BY <1>4 DEF CK_StunCreature
<1> HIDE DEF stunned
<1>7. Keeps(ck_currentEpisode, objs, objs') /\ objs'[s].type # "Stunner"
  BY <1>1, <1>3, <1>5, <1>6, ShotHitKeeps
<1>8. s \in Stunners(objs) /\ s \notin Stunners(objs')
  BY <1>7 DEF Stunners, Is
<1> QED  BY <1>6, <1>7, <1>8 DEF SafeStep, IndInv

\* What a plain action is of becomes one of the friendly things.
LEMMA FriendlyKeeps ==
    ASSUME NEW e \in 4 .. 6, NEW before, NEW os, Keeps(e, before, os), NEW i \in Ids,
           Kind(e, os[i].act) = "plain", NEW act \in ActsOf(e), Kind(e, act) = "plain"
    PROVE  /\ Keeps(e, before, [os EXCEPT ![i].type = "Friendly", ![i].act = act])
           /\ Keeps(e, before, [os EXCEPT ![i].act = act, ![i].type = "Friendly"])
           /\ Keeps(e, before, [os EXCEPT ![i].type = "Friendly", ![i].active = "onscreen",
                                          ![i].act = act])
<1> DEFINE o == [os[i] EXCEPT !.type = "Friendly", !.act = act]
           p == [os[i] EXCEPT !.act = act, !.type = "Friendly"]
           q == [os[i] EXCEPT !.type = "Friendly", !.active = "onscreen", !.act = act]
<1>1. os \in [Ids -> ObjType] /\ os[i] \in ObjType /\ Turns(e, before[i], os[i])
      /\ Fits(e, "plain", os[i])
  BY DEF Keeps, World, Good
<1>2. "Friendly" \in Types /\ "Friendly" \in Ordinary
  BY DEF Types, Ordinary
<1>3. o \in ObjType /\ q \in ObjType /\ p \in ObjType
  BY <1>1, <1>2, ActsIn DEF ObjType
<1>4. /\ o.act = act /\ o.type = "Friendly" /\ o.hit = os[i].hit /\ o.clipped = os[i].clipped
      /\ p.act = act /\ p.type = "Friendly" /\ p.hit = os[i].hit /\ p.clipped = os[i].clipped
      /\ q.act = act /\ q.type = "Friendly" /\ q.hit = os[i].hit /\ q.clipped = os[i].clipped
  BY <1>1 DEF ObjType
<1>5. /\ [os EXCEPT ![i].type = "Friendly", ![i].act = act] = [os EXCEPT ![i] = o]
      /\ [os EXCEPT ![i].act = act, ![i].type = "Friendly"] = [os EXCEPT ![i] = p]
      /\ [os EXCEPT ![i].type = "Friendly", ![i].active = "onscreen", ![i].act = act]
            = [os EXCEPT ![i] = q]
  BY <1>1
<1> HIDE DEF o, p, q
<1>7. os[i].hit = "" /\ os[i].clipped # "simple"
  BY <1>1 DEF Fits, TypeFits, ClippingFits, TypeOf, Bound
<1>8. Good(e, o) /\ Good(e, p) /\ Good(e, q)
  BY <1>2, <1>3, <1>4, <1>7, PlainGood
<1>9. Turns(e, before[i], o) /\ Turns(e, before[i], p) /\ Turns(e, before[i], q)
  BY <1>1, <1>4 DEF Turns, Rare, Waiting
<1> QED  BY <1>4, <1>5, <1>8, <1>9, PutKeeps

\* What is not stunned kills, or what touches it is spent.
LEMMA SafeHits ==
    ASSUME IndInv, NEW i \in Ids, NEW j \in Ids, KindAt(i) # "stunned",
           Kills(i) \/ (Is(j, "Stunner") /\ Deflects(j))
    PROVE  SafeStep
  BY SelfKeeps, SafeKill, SafeDeflects DEF Kills

\* The touches of creatures of plain actions.
PlainTouch4(i, j) ==
    \/ CK4_SlugCol(i, j) \/ CK4_SkypestAirCol(i, j) \/ CK4_WormmouthCheckShot(i, j)
    \/ CK4_WormmouthCol(i, j) \/ CK4_BerkeloidCol(i, j) \/ CK4_BounderCheckShot(i, j)
    \/ CK4_LickCheckShot(i, j) \/ CK4_LickCol(i, j) \/ CK4_MimrockCol(i, j) \/ CK4_MimrockAirCol(i, j)

LEMMA SafePlainTouches4 ==
    ASSUME IndInv, ck_currentEpisode = 4, NEW i \in Ids, i # 0, NEW j \in Ids, PlainTouch4(i, j)
    PROVE  SafeStep
<1>0. {"SlugStunned0", "SlugStunned1", "WormmouthStunned0", "BounderStunned0", "LickStunned0",
       "MimrockStunned0"} \subseteq Chosen4("stunned")
  BY DEF Chosen4
<1>f. {"CK4_SlugCol", "CK4_SkypestAirCol", "CK4_WormmouthCheckShot", "CK4_WormmouthCol", "CK4_BerkeloidCol",
       "CK4_BounderCheckShot", "CK4_LickCheckShot", "CK4_LickCol", "CK4_MimrockCol", "CK4_MimrockAirCol"}
      \subseteq Plainly4
  BY DEF Plainly4
<1>1. CASE CK4_SlugCol(i, j)
  BY <1>0, <1>f, <1>1, SafePlainTouch4 DEF CK4_SlugCol, Touches
<1>2. CASE CK4_SkypestAirCol(i, j)
  BY <1>0, <1>f, <1>2, SafePlainTouch4 DEF CK4_SkypestAirCol, Touches
<1>3. CASE CK4_WormmouthCheckShot(i, j)
  BY <1>0, <1>f, <1>3, SafePlainTouch4 DEF CK4_WormmouthCheckShot, Touches
<1>4. CASE CK4_WormmouthCol(i, j)
  BY <1>0, <1>f, <1>4, SafePlainTouch4, SafeNothing DEF CK4_WormmouthCol, Touches
<1>5. CASE CK4_BerkeloidCol(i, j)
  BY <1>0, <1>f, <1>5, SafePlainTouch4 DEF CK4_BerkeloidCol, Touches
<1>6. CASE CK4_BounderCheckShot(i, j)
  BY <1>0, <1>f, <1>6, SafePlainTouch4 DEF CK4_BounderCheckShot, Touches
<1>7. CASE CK4_LickCheckShot(i, j)
  BY <1>0, <1>f, <1>7, SafePlainTouch4 DEF CK4_LickCheckShot, Touches
<1>8. CASE CK4_LickCol(i, j)
  BY <1>0, <1>f, <1>8, SafePlainTouch4, SafeNothing DEF CK4_LickCol, Touches
<1>9. CASE CK4_MimrockCol(i, j)
  BY <1>0, <1>f, <1>9, SafePlainTouch4 DEF CK4_MimrockCol
<1>10. CASE CK4_MimrockAirCol(i, j)
  BY <1>0, <1>f, <1>10, SafePlainTouch4 DEF CK4_MimrockAirCol, Touches
<1> QED  BY <1>1, <1>2, <1>3, <1>4, <1>5, <1>6, <1>7, <1>8, <1>9, <1>10 DEF PlainTouch4

\* The others: mushrooms, birds, arachnuts.
LEMMA SafeMushroomCol ==
    ASSUME IndInv, ck_currentEpisode = 4, NEW i \in Ids, NEW j \in Ids, CK4_MushroomCol(i, j)
    PROVE  SafeStep
<1>1. KindAt(i) = "Mushroom"
  BY Telling4At DEF CK4_MushroomCol, Touches, Telling4, KindsOf4
<1> QED  BY <1>1, SafeHits DEF CK4_MushroomCol

\* A bird walks over the shots that it deflects, and is stunned.
LEMMA SafeBirdCol ==
    ASSUME IndInv, ck_currentEpisode = 4, NEW i \in Ids, i # 0, NEW j \in Ids,
           CK4_BirdCol(i, j) \/ CK4_BirdHatchedCol(i, j)
    PROVE  SafeStep
<1>1. CASE CK4_BirdCol(i, j)
  <2>1. KindAt(i) \in {"Bird", "flying"} /\ i # j
    BY <1>1, Telling4At DEF CK4_BirdCol, Touches, Telling4, KindsOf4
  <2>2. KindAt(i) \notin Waiting /\ KindAt(i) # "stunned"
    BY <2>1 DEF Waiting
  <2>3. CASE Kills(i)
    BY <2>2, <2>3, SafeHits
  <2>4. CASE Is(j, "Stunner") /\ CK_StunCreature([objs EXCEPT ![i].clipped = "normal"], i, j, "BirdStunned0")
    BY <2>1, <2>2, <2>4, FlyingActs, SafeStunNormal
  <2> QED  BY <1>1, <2>3, <2>4 DEF CK4_BirdCol
<1>2. CASE CK4_BirdHatchedCol(i, j)
  <2>1. KindAt(i) \in {"Bird", "stunned"} /\ i # j
    BY <1>2, Telling4At DEF CK4_BirdHatchedCol, Touches, Telling4, KindsOf4
  <2>2. KindAt(i) \notin Waiting /\ objs[i].clipped # "simple"
    BY <2>1, Typed DEF Waiting
  <2>3. Is(j, "Stunner") /\ Stuns(i, j, "BirdStunned0")
    BY <1>2 DEF CK4_BirdHatchedCol
  <2> QED  BY <2>1, <2>2, <2>3, FlyingActs, SafeStuns
<1> QED  BY <1>1, <1>2

\* An arachnut is stunned again and again.
LEMMA SafeArachnutCol ==
    ASSUME IndInv, ck_currentEpisode = 4, NEW i \in Ids, i # 0, NEW j \in Ids,
           CK4_ArachnutCol(i, j) \/ CK4_ArachnutStunnedCol(i, j)
    PROVE  SafeStep
<1>1. KindAt(i) = "Arachnut" /\ i # j
  BY Telling4At DEF CK4_ArachnutCol, CK4_ArachnutStunnedCol, Touches, Telling4, KindsOf4
<1>2. KindAt(i) \notin Waiting /\ objs[i].clipped # "simple"
  BY <1>1, Typed DEF Waiting
<1>3. "ArachnutStunned0" \in ActsOf(4) /\ Kind(4, "ArachnutStunned0") = "Arachnut"
  <2>1. "ArachnutStunned0" \in Chosen4("Arachnut")
    BY DEF Chosen4
  <2> QED  BY <2>1, Chosen4Kinds
<1>4. CASE Kills(i)
  BY <1>1, <1>4, SafeHits
<1>5. CASE Is(j, "Stunner") /\ Stuns(i, j, "ArachnutStunned0")
  BY <1>1, <1>2, <1>3, <1>5, SafeStuns
<1> QED  BY <1>4, <1>5 DEF CK4_ArachnutCol, CK4_ArachnutStunnedCol

\* The egg: there is a bird.
LEMMA HatchedGood == Good(4, Hatched) /\ Hatched.type \notin Rare /\ Kind(4, Hatched.act) # "eating"
<1> DEFINE o == Hatched
<1>1. "BirdHatched0" \in Acts4 /\ "BirdHatched0" \in ActsOf(4) /\ Kind(4, "BirdHatched0") = "Bird"
  <2>1. "BirdHatched0" \in Chosen4("Bird")
    BY DEF Chosen4
  <2>2. "BirdHatched0" \in Acts4
    BY DEF Acts4, BirdActs
  <2> QED  BY <2>1, <2>2, Chosen4Kinds
<1>2. "Bird" \in Types /\ "BirdHatched0" \in Acts
  BY <1>1, Ways, ActsIn DEF Types, Bound
<1>3. /\ o.type = "Bird" /\ o.act = "BirdHatched0" /\ o.active = "active" /\ o.clipped = "normal"
      /\ o.hit = ""
  BY DEF Hatched, CK4_SpawnBird, Creature, Obj
<1>4. o \in ObjType
  BY <1>2, ZeroId DEF Hatched, CK4_SpawnBird, Creature, Obj, ObjType
<1> HIDE DEF o
<1>5. TypeFits(4, "Bird", o)
  BY <1>3 DEF TypeFits, TypeOf, Bound
<1>6. ClippingFits("Bird", o.type, o.active, o.clipped) /\ CountersFit("Bird", o.user1, o.user2, o.user3)
  BY <1>3 DEF ClippingFits, CountersFit
<1>7. Good(4, o)
  BY <1>1, <1>3, <1>4, <1>5, <1>6 DEF Good, Fits
<1> QED  BY <1>1, <1>3, <1>7 DEF o, Rare

\* The egg breaks.
LEMMA SafeEggCol ==
    ASSUME IndInv, ck_currentEpisode = 4, NEW i \in Ids, NEW j \in Ids, CK4_EggCol(i, j)
    PROVE  SafeStep
<1> DEFINE broken == [objs EXCEPT ![i].type = "Friendly", ![i].active = "onscreen", ![i].act = "Eggshell0"]
<1>1. KindAt(i) = "plain" /\ i # j /\ objs \in [Ids -> ObjType]
  BY Plain4, ObjectAt DEF CK4_EggCol, Touches, Plainly4
<1>2. Keeps(4, objs, broken)
  BY <1>1, Ways, SelfKeeps, Plain4Acts, FriendlyKeeps DEF KindAt
<1>3. broken[j].type = objs[j].type
  BY <1>1
<1>4. \/ Becomes(CK_GetNewObj(broken, Hatched))
      \/ objs[j].type = "Stunner" /\ Becomes(CK_GetNewObj(CK_ShotHit(broken, j), Hatched))
  BY DEF CK4_EggCol, Is
<1> HIDE DEF broken
<1>5. Keeps(4, objs, CK_GetNewObj(broken, Hatched))
  BY <1>2, Ways, HatchedGood, NewKeeps
<1>6. ASSUME objs[j].type = "Stunner" PROVE Keeps(4, objs, CK_GetNewObj(CK_ShotHit(broken, j), Hatched))
  <2>1. Keeps(4, objs, CK_ShotHit(broken, j))
    BY <1>2, <1>3, <1>6, Ways, ShotHitKeeps
  <2> QED  BY <2>1, Ways, HatchedGood, NewKeeps
<1> QED  BY <1>4, <1>5, <1>6, SafeBecomes

\* Creatures on the ground, a smirky, and inchworms too few to make a foot.
LEMMA SafeGroundCol ==
    ASSUME IndInv, ck_currentEpisode = 4, NEW i \in Ids, NEW j \in Ids,
           CK4_SkypestGroundCol(i, j) \/ CK4_CloudCol(i, j) \/ CK4_MineCol(i, j)
    PROVE  SafeStep
<1>1. KindAt(i) = "plain"
  BY Plain4 DEF CK4_SkypestGroundCol, CK4_CloudCol, CK4_MineCol, Touches, Plainly4
<1>2. CASE CK4_SkypestGroundCol(i, j)
  <2>1. Keeps(4, objs, [objs EXCEPT ![i].act = "SkypestSquish0", ![i].type = "Friendly"])
    BY <1>1, Ways, SelfKeeps, Plain4Acts, FriendlyKeeps DEF KindAt
  <2> QED  BY <1>2, <2>1, SafeBecomes DEF CK4_SkypestGroundCol
<1>3. CASE CK4_CloudCol(i, j)
  <2>1. Keeps(4, objs, Goes(i, "CloudAwaken0"))
    BY <1>1, Plain4Acts, GoesKeeps
  <2> QED  BY <1>3, <2>1, SafeBecomes DEF CK4_CloudCol
<1>4. CASE CK4_MineCol(i, j)
  BY <1>1, <1>4, Plain4Acts, SafeKillGoes DEF CK4_MineCol
<1> QED  BY <1>2, <1>3, <1>4

LEMMA SafeSmirkyCol ==
    ASSUME IndInv, ck_currentEpisode = 4, NEW i \in Ids, i # 0, NEW j \in Ids, CK4_SmirkyCol(i, j)
    PROVE  SafeStep
<1>1. CASE Is(j, "Item") /\ Becomes([objs EXCEPT ![j].type = "Friendly", ![j].act = "StolenItem0"])
  <2>1. objs[j].type \in Ordinary \ {"Friendly"}
    BY <1>1 DEF Is, Ordinary
  <2>2. Keeps(4, objs, [objs EXCEPT ![j].type = "Friendly", ![j].act = "StolenItem0"])
    BY <2>1, Ways, SelfKeeps, Plain4Acts, RetypeKeeps
  <2> QED  BY <1>1, <2>2, SafeBecomes
<1>2. CASE Is(j, "Stunner") /\ Stuns(i, j, "SmirkyStunned0")
  <2>1. "SmirkyStunned0" \in Chosen4("stunned") /\ "CK4_SmirkyCol" \in Plainly4
    BY DEF Chosen4, Plainly4
  <2> QED  BY <1>2, <2>1, SafePlainTouch4 DEF CK4_SmirkyCol, Touches
<1> QED  BY <1>1, <1>2 DEF CK4_SmirkyCol

\* The touch that makes a foot of an inchworm, and of the other worms nothing.
MakesFoot(i) ==
    /\ Action(i).collide = "CK4_InchwormCol"
    /\ Becomes([k \in Ids |-> IF [objs EXCEPT ![i].type = "Foot", ![i].act = "Foot1"][k].type = "Inchworm"
                              THEN Nothing ELSE [objs EXCEPT ![i].type = "Foot", ![i].act = "Foot1"][k]])

LEMMA SafeInchwormCol ==
    ASSUME IndInv, ck_currentEpisode = 4, NEW i \in Ids, NEW j \in Ids, CK4_InchwormCol(i, j)
    PROVE  SafeStep \/ MakesFoot(i)
<1>1. KindAt(i) = "Inchworm" /\ Action(i).collide = "CK4_InchwormCol"
  BY Telling4At DEF CK4_InchwormCol, Touches, Telling4, KindsOf4
<1>2. PICK counted \in {0, objs[i].user2} :
          IF counted + 1 = InchwormCount
          THEN Becomes([k \in Ids |-> IF [objs EXCEPT ![i].type = "Foot", ![i].act = "Foot1"][k].type = "Inchworm"
                                      THEN Nothing ELSE [objs EXCEPT ![i].type = "Foot", ![i].act = "Foot1"][k]])
          ELSE Becomes([objs EXCEPT ![i].user2 = counted + 1])
  BY Zenon DEF CK4_InchwormCol
<1> DEFINE n == counted + 1
<1>3. objs[i].user2 \in Int /\ InchwormCount \in Nat \ {0}
  BY Fields, Creatures4Assumption
<1>4. objs[i].user2 < InchwormCount
  BY <1>1, KnownAt DEF CountersFit
<1>5. n \in Int /\ (n # InchwormCount => n < InchwormCount)
  BY <1>2, <1>3, <1>4
<1>6. CASE n = InchwormCount
  BY <1>1, <1>2, <1>6 DEF MakesFoot
<1>7. CASE n # InchwormCount
  <2>1. Becomes([objs EXCEPT ![i].user2 = n])
    BY <1>2, <1>7
  <2> HIDE DEF n
  <2>2. CountersFit(KindAt(i), objs[i].user1, n, objs[i].user3)
    BY <1>1, <1>5, <1>7 DEF CountersFit
  <2>3. Suits(4, objs[i], objs[i].act, objs[i].clipped, objs[i].user1, n, objs[i].user3)
    BY <1>5, <2>2, Fields, KindSuits DEF KindAt
  <2>4. Keeps(4, objs, [objs EXCEPT ![i].user2 = n])
    BY <1>5, <2>3, Ways, SelfKeeps, User2Keeps
  <2> QED  BY <2>1, <2>4, SafeBecomes
<1> QED  BY <1>6, <1>7

\* Every touch but the bite of the Dopefish and the last of the worms.
LEMMA SafeTouch4 ==
    ASSUME IndInv, ck_currentEpisode = 4, NEW i \in Ids, i # 0, NEW j \in Ids, Touch4(i, j)
    PROVE  SafeStep \/ CK4_DopefishCol(i, j) \/ MakesFoot(i)
<1>1. CASE PlainTouch4(i, j)
  BY <1>1, SafePlainTouches4
<1>2. CASE CK4_MushroomCol(i, j) \/ CK4_EggCol(i, j)
  BY <1>2, SafeMushroomCol, SafeEggCol
<1>3. CASE CK4_BirdCol(i, j) \/ CK4_BirdHatchedCol(i, j)
  BY <1>3, SafeBirdCol
<1>4. CASE CK4_ArachnutCol(i, j) \/ CK4_ArachnutStunnedCol(i, j)
  BY <1>4, SafeArachnutCol
<1>5. CASE CK4_SkypestGroundCol(i, j) \/ CK4_CloudCol(i, j) \/ CK4_MineCol(i, j)
  BY <1>5, SafeGroundCol
<1>6. CASE CK4_InchwormCol(i, j)
  BY <1>6, SafeInchwormCol
<1>7. CASE CK4_SmirkyCol(i, j)
  BY <1>7, SafeSmirkyCol
<1>8. CASE CK4_WetsuitCol(i, j)
  <2>1. "LS_LevelComplete" \in LevelStates
    BY DEF LevelStates
  <2> QED  BY <1>8, <2>1, SafeEnds DEF CK4_WetsuitCol
<1> QED  BY <1>1, <1>2, <1>3, <1>4, <1>5, <1>6, <1>7, <1>8 DEF Touch4, PlainTouch4

\* What Keen's collide function does in Keen 4.
LEMMA SafeKeen4 ==
    ASSUME IndInv, ck_currentEpisode = 4, Keen4
    PROVE  SafeStep
<1>0. {"LS_Died", "LS_Foot", "LS_CouncilRescued"} \subseteq LevelStates
  BY DEF LevelStates
<1>1. CASE CK4_KillKeenUnderwater
  BY <1>0, <1>1, SafeEnds DEF CK4_KillKeenUnderwater
<1>2. ASSUME NEW j \in Live, CK4_KeenCol(j) PROVE SafeStep
  <2>1. j \in Ids
    BY DEF Live
  <2>2. CASE Is(j, "Foot") /\ EndsLevel(objs, "LS_Foot")
    BY <1>0, <2>2, SafeEnds
  <2>3. CASE objs[j].type \in {"Lindsey", "CouncilMember"} /\ Becomes(CK_RemoveObj(objs, j))
    <3>1. j # 0
      BY <2>3 DEF IndInv, World
    <3>2. KindAt(j) \notin Waiting
      <4>1. Good(ck_currentEpisode, objs[j])
        BY <2>1, ObjectAt
      <4> QED  BY <2>3, <4>1, WaitingType DEF KindAt
    <3> QED  BY <2>1, <2>3, <3>1, <3>2, SafeRemove
  <2>4. CASE Is(j, "CouncilMember") /\ EndsLevel(objs, "LS_CouncilRescued")
    BY <1>0, <2>4, SafeEnds
  <2> QED  BY <1>2, <2>2, <2>3, <2>4 DEF CK4_KeenCol
<1> QED  BY <1>1, <1>2 DEF Keen4

(***************************************************************************)
(* Keen 5.                                                                 *)
(***************************************************************************)
Kinds5 == {"Sparky", "preparing", "Ampton", "pole", "SliceStar", "dyingStar", "robo", "Spindred",
           "Shikadi", "Shocksund", "standing", "Sphereful", "stunned", "plain"}

\* Thinks and draws that choose among plain actions.
LEMMA SafeMay5 ==
    ASSUME IndInv, ck_currentEpisode = 5, NEW i \in Ids, i # 0, NEW kind \in Kinds5, KindAt(i) = kind,
           NEW acts \in SUBSET Chosen5(kind), NEW f, f # "CK4_BirdRecover", May(i, f, acts)
    PROVE  SafeStep
<1>1. \A act \in acts : act \in ActsOf(5) /\ Kind(5, act) = kind
  BY Chosen5Kinds DEF Kinds5
<1> QED  BY <1>1, SafeMay

LEMMA SafeDraws5 ==
    ASSUME IndInv, ck_currentEpisode = 5, NEW i \in Ids, NEW kind \in Kinds5, KindAt(i) = kind,
           NEW acts \in SUBSET Chosen5(kind), NEW f, DrawsTo(i, f, acts)
    PROVE  SafeStep
<1>1. \A act \in acts : act \in ActsOf(5) /\ Kind(5, act) = kind
  BY Chosen5Kinds DEF Kinds5
<1> QED  BY <1>1, SafeDraws

\* Nothing waits to be eaten.
LEMMA NotWaiting5 ==
    ASSUME ck_currentEpisode = 5, NEW i
    PROVE  KindAt(i) \notin Waiting
  BY Kind5Range DEF KindAt, Kind, Waiting

\* The plain actions that the functions of Keen 5 choose.
LEMMA Plain5Acts ==
    ASSUME NEW act \in Chosen5("plain")
    PROVE  act \in ActsOf(5) /\ Kind(5, act) = "plain"
  BY Chosen5Kinds

\* A field that is set to what it is.
LEMMA SameUser1 ==
    ASSUME IndInv, NEW i \in Ids, NEW act
    PROVE  [objs EXCEPT ![i].user1 = objs[i].user1, ![i].act = act] = Goes(i, act)
<1>1. objs \in [Ids -> ObjType] /\ objs[i] \in ObjType
  BY ObjectAt
<1>2. [objs[i] EXCEPT !.user1 = objs[i].user1, !.act = act] = [objs[i] EXCEPT !.act = act]
  BY <1>1 DEF ObjType
<1>3. /\ [objs EXCEPT ![i].user1 = objs[i].user1, ![i].act = act]
            = [objs EXCEPT ![i] = [objs[i] EXCEPT !.user1 = objs[i].user1, !.act = act]]
      /\ Goes(i, act) = [objs EXCEPT ![i] = [objs[i] EXCEPT !.act = act]]
  BY <1>1 DEF Goes, SetAct
<1> QED  BY <1>2, <1>3

\* The functions that only move their objects.
Moves5(i) ==
    \/ CK5_VolteMove(i) \/ CK5_SparkyCharge(i) \/ CK5_AmptonSwitch(i) \/ CK5_ShellyStartJump(i)
    \/ CK5_SpindredBounce(i) \/ CK5_SpherefulBounce(i)

\* Functions that only move an object, or choose among actions of its kind.
LEMMA SafeMoves5 ==
    ASSUME IndInv, NEW i \in Ids, i # 0, Moves5(i)
    PROVE  SafeStep
<1>1. CASE CK5_VolteMove(i)
  BY <1>1, SafeMoves DEF CK5_VolteMove
<1>2. CASE CK5_SparkyCharge(i)
  BY <1>2, SafeMoves DEF CK5_SparkyCharge
<1>3. CASE CK5_AmptonSwitch(i)
  BY <1>3, SafeMoves DEF CK5_AmptonSwitch
<1>4. CASE CK5_ShellyStartJump(i)
  BY <1>4, SafeMoves DEF CK5_ShellyStartJump
<1>5. CASE CK5_SpindredBounce(i)
  BY <1>5, SafeMoves DEF CK5_SpindredBounce
<1>6. CASE CK5_SpherefulBounce(i)
  BY <1>6, SafeMoves DEF CK5_SpherefulBounce
<1> QED  BY <1>1, <1>2, <1>3, <1>4, <1>5, <1>6 DEF Moves5

\* The functions that choose among the actions of one kind.
Chooses5(i) ==
    \/ CK5_SparkyWait(i) \/ CK5_SparkyTileCol(i) \/ CK5_AmptonTileCol(i) \/ CK5_ShellyWait(i)
    \/ CK5_ShellyGroundTileCol(i) \/ CK5_RoboShotTileCol(i) \/ CK5_ShikadiWalk(i)
    \/ CK5_BarkShotTileCol(i) \/ CK5_KorathWalk(i)

LEMMA SafeChooses5 ==
    ASSUME IndInv, ck_currentEpisode = 5, NEW i \in Ids, i # 0, Chooses5(i)
    PROVE  SafeStep
<1>0. {"Sparky", "Ampton", "Shikadi", "plain"} \subseteq Kinds5
  BY DEF Kinds5
<1>1. CASE CK5_SparkyWait(i)
  <2>1. KindAt(i) = "Sparky"
    BY <1>1, Telling5At DEF CK5_SparkyWait, May, Thinks, Telling5, KindsOf5
  <2>2. {"SparkySearch0"} \in SUBSET Chosen5("Sparky")
    BY DEF Chosen5
  <2> QED  BY <1>0, <1>1, <2>1, <2>2, SafeMay5 DEF CK5_SparkyWait
<1>2. CASE CK5_SparkyTileCol(i)
  <2>1. KindAt(i) = "Sparky" \/ KindAt(i) = "preparing"
    BY <1>2, Telling5At DEF CK5_SparkyTileCol, DrawsTo, Draws, Telling5, KindsOf5
  <2>2. {"SparkyTurn0"} \in SUBSET Chosen5("Sparky")
    BY DEF Chosen5
  <2>3. CASE KindAt(i) = "Sparky"
    BY <1>0, <1>2, <2>2, <2>3, SafeDraws5 DEF CK5_SparkyTileCol
  <2>4. CASE KindAt(i) = "preparing"
    <3>1. "SparkyTurn0" \in ActsOf(5) /\ Kind(5, "SparkyTurn0") = "Sparky"
      BY <2>2, Chosen5Kinds
    <3>2. ClippingFits(KindAt(i), objs[i].type, objs[i].active, objs[i].clipped)
          /\ objs[i].clipped \in {"normal", "simple", "not"} /\ objs[i].type = "Sparky"
      BY <2>4, KnownAt, Typed DEF TypeOf, Bound
    <3>3. ClippingFits("Sparky", objs[i].type, objs[i].active, objs[i].clipped)
      BY <2>4, <3>2 DEF ClippingFits
    <3>4. CountersFit("Sparky", objs[i].user1, objs[i].user2, objs[i].user3)
      BY DEF CountersFit
    <3>5. Akin(KindAt(i), "Sparky") /\ KindAt(i) \notin Waiting /\ "Sparky" \notin Waiting \cup {"eating"}
      BY <2>4 DEF Akin, TypeOf, Waiting
    <3>6. Suits(5, objs[i], "SparkyTurn0", objs[i].clipped, objs[i].user1, objs[i].user2, objs[i].user3)
      BY <3>1, <3>2, <3>3, <3>4, <3>5, Fields, AkinSuits
    <3>7. Keeps(5, objs, Goes(i, "SparkyTurn0"))
      <4>1. Keeps(5, objs, [objs EXCEPT ![i].user1 = objs[i].user1, ![i].act = "SparkyTurn0"])
        BY <3>1, <3>6, Ways, Fields, SelfKeeps, User1ActKeeps
      <4>2. [objs EXCEPT ![i].user1 = objs[i].user1, ![i].act = "SparkyTurn0"] = Goes(i, "SparkyTurn0")
        BY SameUser1
      <4> QED  BY <4>1, <4>2
    <3> QED  BY <1>2, <3>7, SafeBecomes DEF CK5_SparkyTileCol, DrawsTo
  <2> QED  BY <2>1, <2>3, <2>4
<1>3. CASE CK5_AmptonTileCol(i)
  <2>1. KindAt(i) = "Ampton"
    BY <1>3, Telling5At DEF CK5_AmptonTileCol, DrawsTo, Draws, Telling5, KindsOf5
  <2>2. {"AmptonTurn0"} \in SUBSET Chosen5("Ampton")
    BY DEF Chosen5
  <2> QED  BY <1>0, <1>3, <2>1, <2>2, SafeDraws5 DEF CK5_AmptonTileCol
<1>4. CASE CK5_ShellyWait(i)
  <2>1. KindAt(i) = "Sparky"
    BY <1>4, Telling5At DEF CK5_ShellyWait, May, Thinks, Telling5, KindsOf5
  <2>2. {"ShellyDive0"} \in SUBSET Chosen5("Sparky")
    BY DEF Chosen5
  <2> QED  BY <1>0, <1>4, <2>1, <2>2, SafeMay5 DEF CK5_ShellyWait
<1>5. CASE CK5_ShellyGroundTileCol(i)
  <2>1. KindAt(i) = "Sparky"
    BY <1>5, Telling5At DEF CK5_ShellyGroundTileCol, DrawsTo, Draws, Telling5, KindsOf5
  <2>2. {"Shelly0", "ShellyWait0"} \in SUBSET Chosen5("Sparky")
    BY DEF Chosen5
  <2> QED  BY <1>0, <1>5, <2>1, <2>2, SafeDraws5 DEF CK5_ShellyGroundTileCol
<1>6. CASE CK5_RoboShotTileCol(i)
  <2>1. KindAt(i) = "plain"
    BY <1>6, Plain5 DEF CK5_RoboShotTileCol, DrawsTo, Draws, Plainly5
  <2>2. {"RoboShotHit0"} \in SUBSET Chosen5("plain")
    BY DEF Chosen5
  <2> QED  BY <1>0, <1>6, <2>1, <2>2, SafeDraws5 DEF CK5_RoboShotTileCol
<1>7. CASE CK5_ShikadiWalk(i)
  <2>1. KindAt(i) = "Shikadi"
    BY <1>7, Telling5At DEF CK5_ShikadiWalk, May, Thinks, Telling5, KindsOf5
  <2>2. {"ShikadiStand0", "ShikadiPole0"} \in SUBSET Chosen5("Shikadi")
    BY DEF Chosen5
  <2> QED  BY <1>0, <1>7, <2>1, <2>2, SafeMay5 DEF CK5_ShikadiWalk
<1>8. CASE CK5_BarkShotTileCol(i)
  <2>1. KindAt(i) = "plain"
    BY <1>8, Plain5 DEF CK5_BarkShotTileCol, DrawsTo, Draws, Plainly5
  <2>2. {"BarkShotDie0"} \in SUBSET Chosen5("plain")
    BY DEF Chosen5
  <2> QED  BY <1>0, <1>8, <2>1, <2>2, SafeDraws5 DEF CK5_BarkShotTileCol
<1>9. CASE CK5_KorathWalk(i)
  <2>1. KindAt(i) = "plain"
    BY <1>9, Plain5 DEF CK5_KorathWalk, May, Thinks, Plainly5
  <2>2. {"KorathWait"} \in SUBSET Chosen5("plain")
    BY DEF Chosen5
  <2> QED  BY <1>0, <1>9, <2>1, <2>2, SafeMay5 DEF CK5_KorathWalk
<1> QED  BY <1>1, <1>2, <1>3, <1>4, <1>5, <1>6, <1>7, <1>8, <1>9 DEF Chooses5

\* An object of a kind whose clipping does not matter takes an action that is akin.
LEMMA SameClipping ==
    ASSUME IndInv, NEW i \in Ids, NEW kind, Akin(KindAt(i), kind),
           KindAt(i) \in {"preparing", "Sparky", "standing", "Shocksund"}, kind # "preparing" \/ KindAt(i) = "Sparky",
           kind \in {"preparing", "Sparky", "standing", "Shocksund"}
    PROVE  /\ ClippingFits(kind, objs[i].type, objs[i].active, objs[i].clipped)
           /\ KindAt(i) \notin Waiting /\ kind \notin Waiting \cup {"eating"}
<1>1. ClippingFits(KindAt(i), objs[i].type, objs[i].active, objs[i].clipped)
  BY KnownAt
<1>2. KindAt(i) = "preparing" \/ KindAt(i) = "Sparky" \/ KindAt(i) = "standing" \/ KindAt(i) = "Shocksund"
  OBVIOUS
<1>3. kind = "preparing" \/ kind = "Sparky" \/ kind = "standing" \/ kind = "Shocksund"
  OBVIOUS
<1>4. kind \in {"preparing", "Sparky"} => KindAt(i) \in {"preparing", "Sparky"}
  BY <1>2, <1>3 DEF Akin, TypeOf, Loose
<1>5. objs[i].type # "Player"
  BY <1>2, Typed DEF TypeOf, Bound
<1>6. ClippingFits(kind, objs[i].type, objs[i].active, objs[i].clipped)
  BY <1>1, <1>2, <1>3, <1>4, <1>5 DEF ClippingFits
<1> QED  BY <1>2, <1>3, <1>6 DEF Waiting

\* The sparky prepares its charge, and charges when the count is over.
LEMMA CountingActs ==
    /\ "SparkyPrepCharge0" \in ActsOf(5) /\ Kind(5, "SparkyPrepCharge0") = "preparing"
    /\ "SparkyCharge0" \in ActsOf(5) /\ Kind(5, "SparkyCharge0") = "Sparky"
    /\ "ShocksundStand0" \in ActsOf(5) /\ Kind(5, "ShocksundStand0") = "standing"
    /\ "Shocksund0" \in ActsOf(5) /\ Kind(5, "Shocksund0") = "Shocksund"
    /\ "ShocksundJump0" \in ActsOf(5) /\ Kind(5, "ShocksundJump0") = "Shocksund"
<1>1. /\ "SparkyPrepCharge0" \in Chosen5("preparing") /\ "SparkyCharge0" \in Chosen5("Sparky")
      /\ "ShocksundStand0" \in Chosen5("standing") /\ "Shocksund0" \in Chosen5("Shocksund")
      /\ "ShocksundJump0" \in Chosen5("Shocksund")
  BY DEF Chosen5
<1> QED  BY <1>1, Chosen5Kinds

\* The sparky has seen Keen.
LEMMA SafeSparkySearch ==
    ASSUME IndInv, ck_currentEpisode = 5, NEW i \in Ids, i # 0,
           CK5_SparkySearchLeft(i) \/ CK5_SparkySearchRight(i)
    PROVE  SafeStep
<1>1. PICK f \in {"CK5_SparkySearchLeft", "CK5_SparkySearchRight"} :
          Thinks(i, f) /\ (SparkySees(i) \/ ThinkOnly(i, objs))
  BY DEF CK5_SparkySearchLeft, CK5_SparkySearchRight
<1>2. KindAt(i) = "Sparky"
  BY <1>1, Telling5At DEF Thinks, Telling5, KindsOf5
<1>3. f # "CK4_BirdRecover"
  BY <1>1
<1>4. ChargeDelay \in Int /\ ChargeDelay \in 1 .. ChargeDelay
  BY Creatures5Assumption
<1>5. CountersFit("preparing", ChargeDelay, objs[i].user2, objs[i].user3)
  BY <1>4 DEF CountersFit
<1>6. Akin(KindAt(i), "preparing")
  BY <1>2 DEF Akin, TypeOf
<1>7. Suits(5, objs[i], "SparkyPrepCharge0", objs[i].clipped, ChargeDelay, objs[i].user2, objs[i].user3)
  <2>1. /\ ClippingFits("preparing", objs[i].type, objs[i].active, objs[i].clipped)
        /\ KindAt(i) \notin Waiting /\ "preparing" \notin Waiting \cup {"eating"}
    BY <1>2, <1>6, SameClipping
  <2>2. objs[i].clipped \in {"normal", "simple", "not"} /\ objs[i].user2 \in Int /\ objs[i].user3 \in Int
    BY KnownAt, Fields
  <2>3. ChargeDelay \in Int
    BY <1>4
  <2> QED  BY <1>5, <1>6, <2>1, <2>2, <2>3, CountingActs, AkinSuits
<1>8. Keeps(5, objs, [objs EXCEPT ![i].user1 = ChargeDelay, ![i].act = "SparkyPrepCharge0"])
  BY <1>4, <1>7, Ways, CountingActs, SelfKeeps, User1ActKeeps
<1>9. Action(i).think # "CK4_BirdRecover"
  BY <1>1, <1>3 DEF Thinks
<1> QED  BY <1>1, <1>3, <1>8, <1>9, SafeThink, SafeThinkOnly DEF SparkySees, ThinkOnly

\* A count that is over at zero, and what follows then.
LEMMA CountsDown ==
    ASSUME IndInv, ck_currentEpisode = 5, NEW i \in Ids, NEW kind, NEW over, NEW act \in ActsOf(5),
           \/ kind = "preparing" /\ over = "Sparky"
           \/ kind = "standing" /\ over = "Shocksund",
           KindAt(i) = kind, Kind(5, act) = over
    PROVE  Keeps(5, objs, [objs EXCEPT ![i].user1 = objs[i].user1 - 1,
                                       ![i].act = IF objs[i].user1 = 1 THEN act ELSE objs[i].act])
<1> DEFINE n == objs[i].user1 - 1
           a == IF objs[i].user1 = 1 THEN act ELSE objs[i].act
           most == IF kind = "preparing" THEN ChargeDelay ELSE StandTime
<1>1. objs[i].user1 \in Int /\ most \in Nat
  BY Fields, Creatures5Assumption
<1>2. CountersFit(kind, objs[i].user1, objs[i].user2, objs[i].user3)
  BY KnownAt
<1>3. objs[i].user1 \in 1 .. most
  BY <1>2 DEF CountersFit
<1>4. n \in Int /\ (objs[i].user1 # 1 => n \in 1 .. most)
  BY <1>1, <1>3
<1>5. a \in ActsOf(5)
  BY Fields
<1>8. n \in Int
  BY <1>4
<1>9. objs[i].clipped \in {"normal", "simple", "not"} /\ objs[i].user2 \in Int /\ objs[i].user3 \in Int
  BY KnownAt, Fields
<1>6. CASE objs[i].user1 = 1
  <2>1. a = act
    BY <1>6
  <2> HIDE DEF n, a
  <2>2. CountersFit(over, n, objs[i].user2, objs[i].user3)
    BY <1>2 DEF CountersFit
  <2>3. Akin(KindAt(i), over)
    BY DEF Akin, TypeOf
  <2>6. /\ KindAt(i) \in {"preparing", "Sparky", "standing", "Shocksund"} /\ over # "preparing"
        /\ over \in {"preparing", "Sparky", "standing", "Shocksund"}
    OBVIOUS
  <2>7. /\ ClippingFits(over, objs[i].type, objs[i].active, objs[i].clipped)
        /\ KindAt(i) \notin Waiting /\ over \notin Waiting \cup {"eating"}
    BY <2>3, <2>6, SameClipping
  <2>4. Suits(5, objs[i], act, objs[i].clipped, n, objs[i].user2, objs[i].user3)
    BY <1>8, <1>9, <2>2, <2>3, <2>7, AkinSuits
  <2>5. Keeps(5, objs, [objs EXCEPT ![i].user1 = n, ![i].act = a])
    BY <1>4, <2>1, <2>4, Ways, SelfKeeps, User1ActKeeps
  <2> QED  BY <2>5 DEF n, a
<1>7. CASE objs[i].user1 # 1
  <2>1. a = objs[i].act
    BY <1>7
  <2> HIDE DEF n, a
  <2>2. CountersFit(kind, n, objs[i].user2, objs[i].user3)
    BY <1>2, <1>4, <1>7 DEF CountersFit
  <2>4. Suits(5, objs[i], objs[i].act, objs[i].clipped, n, objs[i].user2, objs[i].user3)
    BY <1>4, <2>2, Fields, KindSuits DEF KindAt
  <2>5. Keeps(5, objs, [objs EXCEPT ![i].user1 = n, ![i].act = a])
    BY <1>4, <1>5, <2>1, <2>4, Ways, SelfKeeps, User1ActKeeps
  <2> QED  BY <2>5 DEF n, a
<1> QED  BY <1>6, <1>7

\* The count runs down in a think.
LEMMA SafeCounts ==
    ASSUME IndInv, ck_currentEpisode = 5, NEW i \in Ids, i # 0,
           CK5_SparkyPrepareCharge(i) \/ CK5_ShocksundStand(i)
    PROVE  SafeStep
<1>0. objs \in [Ids -> ObjType]
  BY ObjectAt
<1>1. CASE CK5_SparkyPrepareCharge(i)
  <2>1. KindAt(i) = "preparing" /\ Action(i).think # "CK4_BirdRecover"
    BY <1>1, Telling5At DEF CK5_SparkyPrepareCharge, Thinks, Telling5, KindsOf5
  <2>2. Keeps(5, objs, [objs EXCEPT ![i].user1 = objs[i].user1 - 1,
                            ![i].act = IF objs[i].user1 = 1 THEN "SparkyCharge0" ELSE objs[i].act])
    BY <2>1, CountingActs, CountsDown
  <2>3. [objs EXCEPT ![i].user1 = @ - 1, ![i].act = IF objs[i].user1 = 1 THEN "SparkyCharge0" ELSE @]
        = [objs EXCEPT ![i].user1 = objs[i].user1 - 1,
                       ![i].act = IF objs[i].user1 = 1 THEN "SparkyCharge0" ELSE objs[i].act]
    BY <1>0
  <2> QED  BY <1>1, <2>1, <2>2, <2>3, SafeThink DEF CK5_SparkyPrepareCharge, ThinkOnly
<1>2. CASE CK5_ShocksundStand(i)
  <2>1. KindAt(i) = "standing" /\ Action(i).think # "CK4_BirdRecover"
    BY <1>2, Telling5At DEF CK5_ShocksundStand, Thinks, Telling5, KindsOf5
  <2>2. Keeps(5, objs, [objs EXCEPT ![i].user1 = objs[i].user1 - 1,
                            ![i].act = IF objs[i].user1 = 1 THEN "Shocksund0" ELSE objs[i].act])
    BY <2>1, CountingActs, CountsDown
  <2>3. [objs EXCEPT ![i].user1 = @ - 1, ![i].act = IF objs[i].user1 = 1 THEN "Shocksund0" ELSE @]
        = [objs EXCEPT ![i].user1 = objs[i].user1 - 1,
                       ![i].act = IF objs[i].user1 = 1 THEN "Shocksund0" ELSE objs[i].act]
    BY <1>0
  <2> QED  BY <1>2, <2>1, <2>2, <2>3, SafeThink DEF CK5_ShocksundStand, ThinkOnly
<1> QED  BY <1>1, <1>2

\* Amptons leave the walls on a pole.
LEMMA AmptonKinds ==
    /\ "AmptonPole0" \in ActsOf(5) /\ Kind(5, "AmptonPole0") = "pole"
    /\ "AmptonDismount0" \in ActsOf(5) /\ Kind(5, "AmptonDismount0") = "Ampton"
    /\ "AmptonStunned0" \in ActsOf(5) /\ Kind(5, "AmptonStunned0") = "stunned"
<1>1. /\ "AmptonPole0" \in Chosen5("pole") /\ "AmptonDismount0" \in Chosen5("Ampton")
      /\ "AmptonStunned0" \in Chosen5("stunned")
  BY DEF Chosen5
<1> QED  BY <1>1, Chosen5Kinds

\* On the pole, off it, and at a computer.
LEMMA SafeAmpton ==
    ASSUME IndInv, ck_currentEpisode = 5, NEW i \in Ids, i # 0, CK5_AmptonWalk(i) \/ CK5_AmptonPoleClimb(i)
    PROVE  SafeStep
<1>1. CASE CK5_AmptonWalk(i)
  <2>1. KindAt(i) = "Ampton"
    BY <1>1, Telling5At DEF CK5_AmptonWalk, May, Thinks, Telling5, KindsOf5
  <2>2. CASE May(i, "CK5_AmptonWalk", {"AmptonComp0"})
    <3>1. {"AmptonComp0"} \in SUBSET Chosen5("Ampton") /\ "Ampton" \in Kinds5
      BY DEF Chosen5, Kinds5
    <3> QED  BY <2>1, <2>2, <3>1, SafeMay5
  <2>3. CASE Thinks(i, "CK5_AmptonWalk")
             /\ ThinkOnly(i, [objs EXCEPT ![i].act = "AmptonPole0", ![i].clipped = "not"])
    <3>1. ClippingFits(KindAt(i), objs[i].type, objs[i].active, objs[i].clipped) /\ objs[i].type = "Ampton"
      BY <2>1, KnownAt, Typed DEF TypeOf, Bound
    <3>2. ClippingFits("pole", objs[i].type, objs[i].active, "not")
      BY <3>1 DEF ClippingFits
    <3>3. CountersFit("pole", objs[i].user1, objs[i].user2, objs[i].user3)
      BY DEF CountersFit
    <3>4. Akin(KindAt(i), "pole") /\ KindAt(i) \notin Waiting /\ "pole" \notin Waiting \cup {"eating"}
      BY <2>1 DEF Akin, TypeOf, Waiting
    <3>5. Suits(5, objs[i], "AmptonPole0", "not", objs[i].user1, objs[i].user2, objs[i].user3)
      BY <3>2, <3>3, <3>4, Fields, Ways, AmptonKinds, AkinSuits
    <3>6. Keeps(5, objs, [objs EXCEPT ![i].act = "AmptonPole0", ![i].clipped = "not"])
      BY <3>5, SelfKeeps, Ways, AmptonKinds, ActClippedKeeps
    <3>7. Action(i).think # "CK4_BirdRecover"
      BY <2>3 DEF Thinks
    <3> QED  BY <2>3, <3>6, <3>7, SafeThink DEF ThinkOnly
  <2> QED  BY <1>1, <2>2, <2>3 DEF CK5_AmptonWalk
<1>2. CASE CK5_AmptonPoleClimb(i)
  <2>1. KindAt(i) = "pole"
    BY <1>2, Telling5At DEF CK5_AmptonPoleClimb, Thinks, Telling5, KindsOf5
  <2>2. Becomes(objs) \/ Becomes([objs EXCEPT ![i].act = "AmptonDismount0", ![i].clipped = "normal"])
    BY <1>2 DEF CK5_AmptonPoleClimb
  <2>3. ClippingFits(KindAt(i), objs[i].type, objs[i].active, objs[i].clipped) /\ objs[i].type = "Ampton"
    BY <2>1, KnownAt, Typed DEF TypeOf, Bound
  <2>4. ClippingFits("Ampton", objs[i].type, objs[i].active, "normal")
    BY <2>3 DEF ClippingFits
  <2>5. CountersFit("Ampton", objs[i].user1, objs[i].user2, objs[i].user3)
    BY DEF CountersFit
  <2>6. Akin(KindAt(i), "Ampton") /\ KindAt(i) \notin Waiting /\ "Ampton" \notin Waiting \cup {"eating"}
    BY <2>1 DEF Akin, TypeOf, Waiting
  <2>7. Suits(5, objs[i], "AmptonDismount0", "normal", objs[i].user1, objs[i].user2, objs[i].user3)
    BY <2>4, <2>5, <2>6, Fields, Ways, AmptonKinds, AkinSuits
  <2>8. Keeps(5, objs, [objs EXCEPT ![i].act = "AmptonDismount0", ![i].clipped = "normal"])
    BY <2>7, SelfKeeps, Ways, AmptonKinds, ActClippedKeeps
  <2> QED  BY <2>2, <2>8, SafeNothing, SafeBecomes
<1> QED  BY <1>1, <1>2

\* An ampton that is stunned on its pole falls from it.
LEMMA SafeAmptonCol ==
    ASSUME IndInv, ck_currentEpisode = 5, NEW i \in Ids, i # 0, NEW j \in Ids, CK5_AmptonCol(i, j)
    PROVE  SafeStep
<1>1. (KindAt(i) = "Ampton" \/ KindAt(i) = "pole") /\ i # j
  BY Telling5At DEF CK5_AmptonCol, KeenTouches, ShotTouches, Touches, Telling5, KindsOf5
<1>2. \/ Kills(i)
      \/ Is(j, "Stunner") /\ CK_StunCreature([objs EXCEPT ![i].clipped = "normal"], i, j, "AmptonStunned0")
  BY DEF CK5_AmptonCol, ShotTouches
<1>3. KindAt(i) \notin Waiting /\ KindAt(i) # "stunned"
  BY <1>1 DEF Waiting
<1> QED  BY <1>1, <1>2, <1>3, AmptonKinds, SafeHits, SafeStunNormal

\* The slicestar loses health.
LEMMA SafeSliceCol ==
    ASSUME IndInv, ck_currentEpisode = 5, NEW i \in Ids, NEW j \in Ids, CK5_SliceCol(i, j)
    PROVE  SafeStep
<1> DEFINE n == objs[i].user1 - 1
           a == IF objs[i].user1 = 1 THEN "SliceDie0" ELSE objs[i].act
           hit == [objs EXCEPT ![i].user1 = n, ![i].act = a]
<1>1. KindAt(i) = "SliceStar" /\ i # j /\ objs \in [Ids -> ObjType]
  BY Telling5At, ObjectAt DEF CK5_SliceCol, KeenTouches, ShotTouches, Touches, Telling5, KindsOf5
<1>2. CASE KeenTouches(i, "CK5_SliceCol", j) /\ Kills(i)
  BY <1>1, <1>2, SafeHits
<1>3. CASE /\ ShotTouches(i, "CK5_SliceCol", j)
           /\ Becomes(CK_ShotHit([objs EXCEPT ![i].user1 = @ - 1,
                                      ![i].act = IF objs[i].user1 = 1 THEN "SliceDie0" ELSE @], j))
  <2>1. [objs EXCEPT ![i].user1 = @ - 1, ![i].act = IF objs[i].user1 = 1 THEN "SliceDie0" ELSE @] = hit
    BY <1>1
  <2>2. Becomes(CK_ShotHit(hit, j)) /\ objs[j].type = "Stunner"
    BY <1>3, <2>1 DEF ShotTouches, Is
  <2>3. hit[j].type = "Stunner"
    BY <1>1, <2>2
  <2>4. objs[i].user1 \in Int
    BY Fields
  <2>5. CountersFit(KindAt(i), objs[i].user1, objs[i].user2, objs[i].user3)
        /\ ClippingFits(KindAt(i), objs[i].type, objs[i].active, objs[i].clipped)
        /\ objs[i].type = "SliceStar"
    BY <1>1, KnownAt, Typed DEF TypeOf, Bound
  <2>6. objs[i].user1 > 0
    BY <1>1, <2>5 DEF CountersFit
  <2>7. n \in Int /\ (objs[i].user1 # 1 => n > 0)
    BY <2>4, <2>6
  <2>8. "SliceDie0" \in ActsOf(5) /\ Kind(5, "SliceDie0") = "dyingStar"
    <3>1. "SliceDie0" \in Chosen5("dyingStar")
      BY DEF Chosen5
    <3> QED  BY <3>1, Chosen5Kinds
  <2>9. objs[i].clipped \in {"normal", "simple", "not"} /\ objs[i].user2 \in Int /\ objs[i].user3 \in Int
        /\ objs[i].act \in ActsOf(5)
    BY KnownAt, Fields
  <2>10. Keeps(5, objs, hit)
    <3>1. CASE objs[i].user1 = 1
      <4>1. a = "SliceDie0" /\ n \in Int
        BY <2>7, <3>1
      <4> HIDE DEF n, a
      <4>2. CountersFit("dyingStar", n, objs[i].user2, objs[i].user3)
        BY DEF CountersFit
      <4>3. Akin(KindAt(i), "dyingStar") /\ KindAt(i) \notin Waiting /\ "dyingStar" \notin Waiting \cup {"eating"}
        BY <1>1 DEF Akin, TypeOf, Waiting
      <4>4. ClippingFits("dyingStar", objs[i].type, objs[i].active, objs[i].clipped)
        BY <1>1, <2>5 DEF ClippingFits
      <4>5. Suits(5, objs[i], a, objs[i].clipped, n, objs[i].user2, objs[i].user3)
        BY <2>8, <2>9, <4>1, <4>2, <4>3, <4>4, AkinSuits
      <4> QED  BY <2>8, <4>1, <4>5, Ways, SelfKeeps, User1ActKeeps
    <3>2. CASE objs[i].user1 # 1
      <4>1. a = objs[i].act /\ n \in Int /\ n > 0
        BY <2>7, <3>2
      <4> HIDE DEF n, a
      <4>2. CountersFit(KindAt(i), n, objs[i].user2, objs[i].user3)
        BY <1>1, <4>1 DEF CountersFit
      <4>5. Suits(5, objs[i], a, objs[i].clipped, n, objs[i].user2, objs[i].user3)
        BY <2>9, <4>1, <4>2, KindSuits DEF KindAt
      <4> QED  BY <2>9, <4>1, <4>5, Ways, SelfKeeps, User1ActKeeps
    <3> QED  BY <3>1, <3>2
  <2> HIDE DEF hit
  <2> QED  BY <2>2, <2>3, <2>10, SafeShotHit
<1> QED  BY <1>2, <1>3 DEF CK5_SliceCol

\* Shellies, and their bits.
LEMMA NewNull ==
    ASSUME NEW before, NEW os, Keeps(5, before, os), NEW act \in Chosen5("plain")
    PROVE  /\ Keeps(5, before, CK_GetNewObj(os, Creature("Null", act)))
           /\ Keeps(5, before, CK_GetNewObj(os, Debris("EnemyShot", act)))
<1>1. "Null" \in Ordinary /\ "EnemyShot" \in Ordinary
      /\ "active" \in {"active", "onscreen", "always", "inactive"}
      /\ "onscreen" \in {"active", "onscreen", "always", "inactive"}
  BY DEF Ordinary
<1> QED  BY <1>1, Ways, Plain5Acts, NewPlainKeeps DEF Creature, Debris

\* Shellies dive, and burst where they land.
LEMMA BitActs ==
    {"ShellyBits0", "ShellyBits1", "ShellyExplode0", "MineShrap0", "MasterSparks0", "RoboShot0", "MasterBall0",
     "BarkShot0", "VolteStunned", "MineExplode0", "Mine1", "RoboShotHit0", "MasterTele0", "MasterShoot0",
     "Master0", "BarkShotDie0", "Robo0", "PoleZap0", "LevelEnd"} \subseteq Chosen5("plain")
  BY DEF Chosen5

LEMMA ShellyActsKinds ==
    ASSUME NEW act \in {"ShellyDieAir", "ShellyDieGround"}
    PROVE  act \in ActsOf(5) /\ Kind(5, act) = "Sparky"
<1>1. act \in Chosen5("Sparky")
  BY DEF Chosen5
<1> QED  BY <1>1, Chosen5Kinds

LEMMA ShellyBursts ==
    ASSUME IndInv, ck_currentEpisode = 5, NEW i \in Ids, NEW os, Keeps(5, objs, os), Kind(5, os[i].act) = "Sparky",
           CK5_ShellyBursts(os, i)
    PROVE  SafeStep
<1>1. PICK act \in {"ShellyDieAir", "ShellyDieGround"} :
          Becomes(CK_GetNewObj(SetAct(os, i, act), Creature("Null", "ShellyExplode0")))
  BY DEF CK5_ShellyBursts
<1>2. Keeps(5, objs, SetAct(os, i, act))
  BY Ways, ShellyActsKinds, ActKeeps
<1>3. Keeps(5, objs, CK_GetNewObj(SetAct(os, i, act), Creature("Null", "ShellyExplode0")))
  BY <1>2, BitActs, NewNull
<1> QED  BY <1>1, <1>3, SafeBecomes

\* The steps of a shelly, and its touch.
LEMMA SafeShelly ==
    ASSUME IndInv, ck_currentEpisode = 5, NEW i \in Ids, i # 0,
           CK5_SpawnShellyBits(i) \/ CK5_ShellyAirTileCol(i)
    PROVE  SafeStep
<1>1. KindAt(i) = "Sparky"
  BY Telling5At DEF CK5_SpawnShellyBits, CK5_ShellyAirTileCol, Thinks, Draws, Telling5, KindsOf5
<1>2. CASE CK5_SpawnShellyBits(i)
  <2>1. Keeps(5, objs, CK_GetNewObj(objs, Creature("Null", "ShellyBits0")))
    BY SelfKeeps, BitActs, NewNull
  <2>2. Keeps(5, objs, CK_GetNewObj(CK_GetNewObj(objs, Creature("Null", "ShellyBits0")),
                                    Creature("Null", "ShellyBits1")))
    BY <2>1, BitActs, NewNull
  <2>3. Action(i).think # "CK4_BirdRecover"
    BY <1>2 DEF CK5_SpawnShellyBits, Thinks
  <2> QED  BY <1>2, <2>2, <2>3, SafeThink DEF CK5_SpawnShellyBits, ThinkOnly
<1>3. CASE CK5_ShellyAirTileCol(i)
  <2>1. CK5_ShellyBursts(objs, i)
    BY <1>3 DEF CK5_ShellyAirTileCol, CK5_ShellyBursts, Goes
  <2> QED  BY <1>1, <2>1, SelfKeeps, ShellyBursts DEF KindAt
<1> QED  BY <1>2, <1>3

LEMMA SafeShellyCol ==
    ASSUME IndInv, ck_currentEpisode = 5, NEW i \in Ids, NEW j \in Ids, CK5_ShellyCol(i, j)
    PROVE  SafeStep
<1>1. KindAt(i) = "Sparky" /\ i # j /\ objs \in [Ids -> ObjType]
  BY Telling5At, ObjectAt DEF CK5_ShellyCol, KeenTouches, ShotTouches, Touches, Telling5, KindsOf5
<1>2. CASE CK5_ShellyBursts(objs, i)
  BY <1>1, <1>2, SelfKeeps, ShellyBursts DEF KindAt
<1>3. CASE Is(j, "Stunner") /\ CK5_ShellyBursts(CK_ShotHit(objs, j), i)
  <2>1. Keeps(5, objs, CK_ShotHit(objs, j))
    BY <1>3, Ways, SelfKeeps, ShotHitKeeps DEF Is
  <2>2. CK_ShotHit(objs, j)[i] = objs[i]
    BY <1>1 DEF CK_ShotHit
  <2> QED  BY <1>1, <1>3, <2>1, <2>2, ShellyBursts DEF KindAt
<1>4. CASE Is(j, "EnemyShot") /\ CK5_ShellyBursts(CK_RemoveObj(objs, j), i)
  <2>1. j # 0
    BY <1>4 DEF IndInv, World, Is
  <2>2. Keeps(5, objs, CK_RemoveObj(objs, j))
    BY <2>1, Ways, SelfKeeps, NotWaiting5, RemoveKeeps DEF KindAt
  <2>3. CK_RemoveObj(objs, j)[i] = objs[i]
    BY <1>1 DEF CK_RemoveObj
  <2> QED  BY <1>1, <1>4, <2>2, <2>3, ShellyBursts DEF KindAt
<1> QED  BY <1>2, <1>3, <1>4 DEF CK5_ShellyCol, ShotTouches

\* What a plain action of Keen 5 becomes, and what the row names after it.
LEMMA NextPlain5 ==
    ASSUME IndInv, ck_currentEpisode = 5, NEW i \in Ids, KindAt(i) = "plain",
           Action(i).think \in Followers \/ Action(i).draw \in Followers,
           NEW act \in Action(i).next \cup {objs[i].act}
    PROVE  act \in ActsOf(5) /\ Kind(5, act) = "plain"
<1>1. CASE act = "NULL"
  BY <1>1, Ways, CommonKinds DEF CommonActs, Shots
<1>2. CASE act = objs[i].act
  BY <1>2, Fields DEF KindAt
<1>3. CASE act # "NULL" /\ act # objs[i].act
  BY <1>3, FollowersAt
<1> QED  BY <1>1, <1>2, <1>3

\* A mine that goes off.
LEMMA GoesOffKeeps ==
    ASSUME IndInv, ck_currentEpisode = 5, NEW i \in Ids, KindAt(i) = "plain"
    PROVE  Keeps(5, objs, MineGoesOff(i))
<1>1. "MineExplode0" \in ActsOf(5) /\ Kind(5, "MineExplode0") = "plain"
  BY BitActs, Plain5Acts
<1>2. Suits(5, objs[i], "MineExplode0", objs[i].clipped, objs[i].user1, objs[i].user2, objs[i].user3)
  BY <1>1, Fields, PlainSuits
<1>3. "plain" # "eating"
  OBVIOUS
<1> QED  BY <1>1, <1>2, <1>3, Ways, ZeroId, SelfKeeps, ActPtrKeeps DEF MineGoesOff

\* A mine goes off at a touch or at another mine's.
LEMMA SafeMine ==
    ASSUME IndInv, ck_currentEpisode = 5, NEW i \in Ids, i # 0,
           CK5_MineMove(i) \/ CK5_MineMoveDots(i) \/ CK5_MineExplode(i) \/ CK5_MineTileCol(i)
    PROVE  SafeStep
<1>1. KindAt(i) = "plain"
  BY Plain5 DEF CK5_MineMove, CK5_MineMoveDots, CK5_MineExplode, CK5_MineTileCol, May, Thinks, Draws, Plainly5
<1>2. CASE CK5_MineMove(i)
  <2>1. CASE May(i, "CK5_MineMove", {"Mine1"})
    <3>1. {"Mine1"} \in SUBSET Chosen5("plain") /\ "plain" \in Kinds5
      BY BitActs DEF Kinds5
    <3> QED  BY <1>1, <2>1, <3>1, SafeMay5
  <2>2. CASE Thinks(i, "CK5_MineMove") /\ ThinkOnly(i, MineGoesOff(i))
    BY <1>1, <2>2, GoesOffKeeps, SafeThink DEF Thinks, ThinkOnly
  <2> QED  BY <1>2, <2>1, <2>2 DEF CK5_MineMove
<1>3. CASE CK5_MineMoveDots(i)
  <2>1. Action(i).think \in Followers /\ Action(i).think # "CK4_BirdRecover"
    BY <1>3 DEF CK5_MineMoveDots, Followers
  <2>2. ASSUME NEW act \in Action(i).next \cup {objs[i].act}, Chooses(i, act) PROVE SafeStep
    <3>1. act \in ActsOf(5) /\ Kind(5, act) = "plain"
      BY <1>1, <2>1, NextPlain5
    <3>2. Keeps(5, objs, Goes(i, act))
      BY <1>1, <3>1, GoesKeeps
    <3> QED  BY <2>1, <2>2, <3>2, SafeThink DEF Chooses
  <2>3. CASE ThinkOnly(i, MineGoesOff(i))
    BY <1>1, <2>1, <2>3, GoesOffKeeps, SafeThink DEF ThinkOnly
  <2> QED  BY <1>3, <2>2, <2>3 DEF CK5_MineMoveDots
<1>4. CASE CK5_MineExplode(i)
  <2> DEFINE Bit(os) == CK_GetNewObj(os, Creature("Null", "MineShrap0"))
  <2>1. ASSUME NEW os, Keeps(5, objs, os) PROVE Keeps(5, objs, Bit(os))
    BY <2>1, BitActs, NewNull
  <2>2. ThinkOnly(i, Bit(Bit(Bit(Bit(Bit(Bit(objs)))))))
    BY <1>4 DEF CK5_MineExplode
  <2>3. Keeps(5, objs, objs)
    BY SelfKeeps
  <2>5. Action(i).think # "CK4_BirdRecover"
    BY <1>4 DEF CK5_MineExplode, Thinks
  <2> HIDE DEF Bit
  <2>4. Keeps(5, objs, Bit(Bit(Bit(Bit(Bit(Bit(objs)))))))
    <3>1. Keeps(5, objs, Bit(Bit(objs)))
      BY <2>1, <2>3
    <3>2. Keeps(5, objs, Bit(Bit(Bit(Bit(objs)))))
      BY <2>1, <3>1
    <3> QED  BY <2>1, <3>2
  <2> QED  BY <2>2, <2>4, <2>5, SafeThink DEF ThinkOnly
<1>5. CASE CK5_MineTileCol(i)
  <2>1. 1 \in Ids
    BY CreaturesAssumption DEF Ids
  <2>2. Suits(5, objs[i], objs[i].act, objs[i].clipped, objs[i].user1, objs[i].user2, objs[i].user3)
    BY <1>1, Fields, PlainSuits DEF KindAt
  <2>3. Kind(5, objs[i].act) # "eating"
    BY <1>1 DEF KindAt
  <2> DEFINE shown == 1
  <2>4. shown \in Ids /\ Becomes([objs EXCEPT ![i].ptr = shown])
    BY <1>5, <2>1 DEF CK5_MineTileCol
  <2> HIDE DEF shown
  <2>5. Keeps(5, objs, [objs EXCEPT ![i].ptr = shown])
    BY <2>2, <2>3, <2>4, Ways, SelfKeeps, PtrKeeps
  <2> QED  BY <2>4, <2>5, SafeBecomes
<1> QED  BY <1>2, <1>3, <1>4, <1>5

LEMMA SafeMineCol ==
    ASSUME IndInv, ck_currentEpisode = 5, NEW i \in Ids, NEW j \in Ids,
           CK5_MineCol(i, j) \/ CK5_MineShrapCol(i, j)
    PROVE  SafeStep
<1>1. KindAt(i) = "plain"
  BY Plain5 DEF CK5_MineCol, CK5_MineShrapCol, KeenTouches, ShotTouches, Touches, Plainly5
<1>2. KindAt(i) # "stunned"
  BY <1>1
<1>3. CASE Kills(i) \/ (Is(j, "Stunner") /\ Deflects(j))
  BY <1>2, <1>3, SafeHits
<1>4. CASE Is(j, "QED") /\ Becomes(CK_RemoveObj(CK_GetNewObj(objs, CK5_SpawnLevelEnd), j))
  <2>1. j # 0
    BY <1>4 DEF IndInv, World, Is
  <2>2. "Null" \in Ordinary /\ "always" \in {"active", "onscreen", "always", "inactive"}
    BY DEF Ordinary
  <2>3. "LevelEnd" \in ActsOf(5) /\ Kind(5, "LevelEnd") = "plain"
    BY BitActs, Plain5Acts
  <2>4. Keeps(5, objs, CK_GetNewObj(objs, CK5_SpawnLevelEnd))
    BY <2>2, <2>3, Ways, SelfKeeps, NewUnclippedKeeps DEF CK5_SpawnLevelEnd, Fixture
  <2>5. Keeps(5, objs, CK_RemoveObj(CK_GetNewObj(objs, CK5_SpawnLevelEnd), j))
    BY <2>1, <2>4, Ways, NotWaiting5, RemoveKeeps DEF KindAt
  <2> QED  BY <1>4, <2>5, SafeBecomes
<1> QED  BY <1>3, <1>4 DEF CK5_MineCol, CK5_MineShrapCol, ShotTouches

\* The end of the level after the fuse.
LEMMA SafeLevelEnd ==
    ASSUME IndInv, NEW i \in Ids, CK5_LevelEnd(i)
    PROVE  SafeStep
<1>1. {"LS_DestroyedQED", "LS_KorathFuse"} \subseteq LevelStates
  BY DEF LevelStates
<1> QED  BY <1>1, SafeEnds DEF CK5_LevelEnd

\* Robo reds aim, and shoot as many times as they have shots.
LEMMA RoboKinds ==
    /\ "RoboShoot0" \in ActsOf(5) /\ Kind(5, "RoboShoot0") = "robo"
    /\ "Robo0" \in ActsOf(5) /\ Kind(5, "Robo0") = "plain"
<1>1. "RoboShoot0" \in Chosen5("robo") /\ "Robo0" \in Chosen5("plain")
  BY DEF Chosen5
<1> QED  BY <1>1, Chosen5Kinds, Plain5Acts DEF Kinds5

\* Between the plain actions and those of an aiming robo.
LEMMA RoboClipping ==
    ASSUME IndInv, NEW i \in Ids, NEW kind \in {"plain", "robo"}, KindAt(i) \in {"plain", "robo"}
    PROVE  /\ ClippingFits(kind, objs[i].type, objs[i].active, objs[i].clipped)
           /\ Akin(KindAt(i), kind) /\ KindAt(i) \notin Waiting /\ kind \notin Waiting \cup {"eating"}
<1>1. ClippingFits(KindAt(i), objs[i].type, objs[i].active, objs[i].clipped)
  BY KnownAt
<1>2. ClippingFits(kind, objs[i].type, objs[i].active, objs[i].clipped)
  BY <1>1 DEF ClippingFits
<1> QED  BY <1>2 DEF Akin, Loose, Waiting

LEMMA AimsKeeps ==
    ASSUME IndInv, ck_currentEpisode = 5, NEW i \in Ids, KindAt(i) = "plain",
           NEW os, Keeps(5, objs, os), os[i] = objs[i]
    PROVE  Keeps(5, objs, RoboAims(os, i))
<1>1. RoboShots \in Int /\ RoboShots \in 1 .. RoboShots
  BY Creatures5Assumption
<1>2. CountersFit("robo", RoboShots, objs[i].user2, objs[i].user3)
  BY <1>1 DEF CountersFit
<1>3. /\ ClippingFits("robo", objs[i].type, objs[i].active, objs[i].clipped)
      /\ Akin(KindAt(i), "robo") /\ KindAt(i) \notin Waiting /\ "robo" \notin Waiting \cup {"eating"}
  BY RoboClipping
<1>4. objs[i].clipped \in {"normal", "simple", "not"} /\ objs[i].user2 \in Int /\ objs[i].user3 \in Int
  BY KnownAt, Fields
<1>5. RoboShots \in Int
  BY <1>1
<1>6. Suits(5, objs[i], "RoboShoot0", objs[i].clipped, RoboShots, objs[i].user2, objs[i].user3)
  BY <1>2, <1>3, <1>4, <1>5, RoboKinds, AkinSuits
<1> QED  BY <1>5, <1>6, Ways, RoboKinds, User1ActKeeps DEF RoboAims

\* A robo red sees Keen, is shot at, and shoots.
LEMMA SafeRobo ==
    ASSUME IndInv, ck_currentEpisode = 5, NEW i \in Ids, i # 0, CK5_RoboMove(i)
    PROVE  SafeStep
<1>1. KindAt(i) = "plain"
  BY Plain5 DEF CK5_RoboMove, May, Thinks, Plainly5
<1>2. CASE May(i, "CK5_RoboMove", {})
  BY <1>2, SafeMoves
<1>3. CASE Thinks(i, "CK5_RoboMove") /\ ThinkOnly(i, RoboAims(objs, i))
  BY <1>1, <1>3, SelfKeeps, AimsKeeps, SafeThink DEF Thinks, ThinkOnly
<1> QED  BY <1>2, <1>3 DEF CK5_RoboMove

LEMMA SafeRoboCol ==
    ASSUME IndInv, ck_currentEpisode = 5, NEW i \in Ids, NEW j \in Ids,
           CK5_RoboCol(i, j) \/ CK5_RoboShotCol(i, j)
    PROVE  SafeStep
<1>1. KindAt(i) = "plain" /\ i # j /\ objs \in [Ids -> ObjType]
  BY Plain5, ObjectAt DEF CK5_RoboCol, CK5_RoboShotCol, KeenTouches, ShotTouches, Touches, Plainly5
<1>2. CASE Kills(i)
  BY <1>1, <1>2, SafeHits
<1>3. CASE Is(j, "Stunner") /\ Becomes(RoboAims(CK_ShotHit(objs, j), i))
  <2>1. Keeps(5, objs, CK_ShotHit(objs, j))
    BY <1>3, Ways, SelfKeeps, ShotHitKeeps DEF Is
  <2>2. CK_ShotHit(objs, j)[i] = objs[i]
    BY <1>1 DEF CK_ShotHit
  <2> QED  BY <1>1, <1>3, <2>1, <2>2, AimsKeeps, SafeBecomes
<1>4. CASE CK_KillKeen(i, Goes(i, "RoboShotHit0"))
  BY <1>1, <1>4, BitActs, Plain5Acts, SafeKillGoes
<1> QED  BY <1>2, <1>3, <1>4 DEF CK5_RoboCol, CK5_RoboShotCol, ShotTouches

LEMMA SafeRoboShoot ==
    ASSUME IndInv, ck_currentEpisode = 5, NEW i \in Ids, i # 0, CK5_RoboShoot(i)
    PROVE  SafeStep
<1> DEFINE n == objs[i].user1 - 1
           a == IF objs[i].user1 = 1 THEN "Robo0" ELSE objs[i].act
           shot == [objs EXCEPT ![i].user1 = n, ![i].act = a]
<1>1. KindAt(i) = "robo" /\ objs \in [Ids -> ObjType] /\ Action(i).think # "CK4_BirdRecover"
  BY Telling5At, ObjectAt DEF CK5_RoboShoot, Thinks, Telling5, KindsOf5
<1>2. PICK os \in CK5_SpawnEnemyShot(shot, "RoboShot0") : ThinkOnly(i, os)
  <2>1. [objs EXCEPT ![i].user1 = @ - 1, ![i].act = IF objs[i].user1 = 1 THEN "Robo0" ELSE @] = shot
    BY <1>1
  <2> QED  BY <2>1 DEF CK5_RoboShoot
<1>3. objs[i].user1 \in Int /\ RoboShots \in Nat
  BY Fields, Creatures5Assumption
<1>4. CountersFit(KindAt(i), objs[i].user1, objs[i].user2, objs[i].user3)
  BY KnownAt
<1>5. objs[i].user1 \in 1 .. RoboShots
  BY <1>1, <1>4 DEF CountersFit
<1>6. n \in Int /\ (objs[i].user1 # 1 => n \in 1 .. RoboShots)
  BY <1>3, <1>5
<1>7. objs[i].clipped \in {"normal", "simple", "not"} /\ objs[i].user2 \in Int /\ objs[i].user3 \in Int
      /\ objs[i].act \in ActsOf(5)
  BY KnownAt, Fields
<1>8. Keeps(5, objs, shot)
  <2>1. CASE objs[i].user1 = 1
    <3>1. a = "Robo0" /\ n \in Int
      BY <1>6, <2>1
    <3> HIDE DEF n, a
    <3>2. CountersFit("plain", n, objs[i].user2, objs[i].user3)
      BY DEF CountersFit
    <3>3. /\ ClippingFits("plain", objs[i].type, objs[i].active, objs[i].clipped)
          /\ Akin(KindAt(i), "plain") /\ KindAt(i) \notin Waiting /\ "plain" \notin Waiting \cup {"eating"}
      BY <1>1, RoboClipping
    <3>4. Suits(5, objs[i], a, objs[i].clipped, n, objs[i].user2, objs[i].user3)
      BY <1>7, <3>1, <3>2, <3>3, RoboKinds, AkinSuits
    <3> QED  BY <3>1, <3>4, Ways, RoboKinds, SelfKeeps, User1ActKeeps
  <2>2. CASE objs[i].user1 # 1
    <3>1. a = objs[i].act /\ n \in Int
      BY <1>6, <2>2
    <3>2. CountersFit(KindAt(i), n, objs[i].user2, objs[i].user3)
      BY <1>1, <1>6, <2>2 DEF CountersFit
    <3> HIDE DEF n, a
    <3>4. Suits(5, objs[i], a, objs[i].clipped, n, objs[i].user2, objs[i].user3)
      BY <1>7, <3>1, <3>2, KindSuits DEF KindAt
    <3> QED  BY <1>7, <3>1, <3>4, Ways, SelfKeeps, User1ActKeeps
  <2> QED  BY <2>1, <2>2
<1> HIDE DEF shot
<1>9. Keeps(5, objs, os)
  BY <1>2, <1>8, BitActs, NewNull DEF CK5_SpawnEnemyShot
<1> QED  BY <1>1, <1>2, <1>9, SafeThink DEF ThinkOnly

\* Spirogrips and spindreds.
LEMMA SafeSpirogrip ==
    ASSUME IndInv, ck_currentEpisode = 5, NEW i \in Ids, i # 0,
           CK5_SpirogripSpin(i) \/ CK5_SpirogripFlyDraw(i)
    PROVE  SafeStep
<1>1. KindAt(i) = "plain"
  BY Plain5 DEF CK5_SpirogripSpin, CK5_SpirogripFlyDraw, May, Thinks, DrawsTo, Draws, Plainly5
<1>2. CASE CK5_SpirogripSpin(i)
  <2>1. {"SpirogripFlyUp", "SpirogripFlyRight", "SpirogripFlyDown", "SpirogripFlyLeft"} \subseteq Chosen5("plain")
    BY DEF Chosen5
  <2>2. "NULL" \in ActsOf(5) /\ Kind(5, "NULL") = "plain"
    BY Ways, CommonKinds DEF CommonActs, Shots
  <2>3. PICK fly \in {"SpirogripFlyUp", "SpirogripFlyRight", "SpirogripFlyDown", "SpirogripFlyLeft", "NULL"} :
            May(i, "CK5_SpirogripSpin", {fly})
    BY <1>2 DEF CK5_SpirogripSpin
  <2>4. fly \in ActsOf(5) /\ Kind(5, fly) = "plain"
    BY <2>1, <2>2, <2>3, Plain5Acts
  <2>5. "CK5_SpirogripSpin" # "CK4_BirdRecover"
    OBVIOUS
  <2> QED  BY <1>1, <2>3, <2>4, <2>5, SafeMay
<1>3. CASE CK5_SpirogripFlyDraw(i)
  <2>1. Action(i).draw \in Followers
    BY <1>3 DEF CK5_SpirogripFlyDraw, DrawsTo, Draws, Followers
  <2>2. \A act \in Action(i).next : act \in ActsOf(5) /\ Kind(5, act) = "plain"
    BY <1>1, <2>1, NextPlain5
  <2> QED  BY <1>1, <1>3, <2>2, SafeDraws DEF CK5_SpirogripFlyDraw
<1> QED  BY <1>2, <1>3

\* A spindred bounces a number of times before it flies off.
LEMMA SafeSpindred ==
    ASSUME IndInv, ck_currentEpisode = 5, NEW i \in Ids, CK5_SpindredTileCol(i)
    PROVE  SafeStep
<1> DEFINE u1 == IF objs[i].user1 + 1 = NumBounces THEN 0 ELSE objs[i].user1 + 1
<1>1. KindAt(i) = "Spindred"
  BY Telling5At DEF CK5_SpindredTileCol, Draws, Telling5, KindsOf5
<1>2. objs[i].user1 \in Int /\ objs[i].user2 \in Int /\ objs[i].user3 \in Int
      /\ objs[i].act \in ActsOf(5) /\ NumBounces \in Nat \ {0}
  BY Fields, Creatures5Assumption
<1>3. objs[i].user1 < NumBounces
  BY <1>1, KnownAt DEF CountersFit
<1>4. u1 \in Int /\ u1 < NumBounces
  BY <1>2, <1>3
<1>5. Becomes([objs EXCEPT ![i].user1 = u1])
  BY DEF CK5_SpindredTileCol
<1> HIDE DEF u1
<1>6. CountersFit(KindAt(i), u1, objs[i].user2, objs[i].user3)
  BY <1>1, <1>4 DEF CountersFit
<1>7. Suits(5, objs[i], objs[i].act, objs[i].clipped, u1, objs[i].user2, objs[i].user3)
  BY <1>2, <1>4, <1>6, KindSuits DEF KindAt
<1>8. Keeps(5, objs, [objs EXCEPT ![i].user1 = u1])
  BY <1>4, <1>7, SelfKeeps, User1Keeps
<1> QED  BY <1>5, <1>8, SafeBecomes

\* Masters, their balls and sparks.
LEMMA SafeMaster ==
    ASSUME IndInv, ck_currentEpisode = 5, NEW i \in Ids, i # 0,
           CK5_MasterStand(i) \/ CK5_MasterShoot(i) \/ CK5_MasterTele(i)
    PROVE  SafeStep
<1>1. KindAt(i) = "plain" /\ Action(i).think # "CK4_BirdRecover"
  BY Plain5 DEF CK5_MasterStand, CK5_MasterShoot, CK5_MasterTele, May, Thinks, Plainly5
<1>2. CASE CK5_MasterStand(i)
  <2> DEFINE zero == 0
             one == 1
  <2>1. zero \in Int /\ one \in Int
    OBVIOUS
  <2>2. \/ May(i, "CK5_MasterStand", {})
        \/ CK_ActionThink(i, [objs EXCEPT ![i].user1 = zero, ![i].act = "MasterTele0"])
        \/ CK_ActionThink(i, [objs EXCEPT ![i].user1 = one, ![i].act = "MasterShoot0"])
    BY <1>2 DEF CK5_MasterStand, ThinkOnly
  <2> HIDE DEF zero, one
  <2>3. ASSUME NEW act \in {"MasterTele0", "MasterShoot0"}, NEW u \in Int
        PROVE  Keeps(5, objs, [objs EXCEPT ![i].user1 = u, ![i].act = act])
    BY <1>1, BitActs, Plain5Acts, PlainUser1Act
  <2>4. /\ Keeps(5, objs, [objs EXCEPT ![i].user1 = zero, ![i].act = "MasterTele0"])
        /\ Keeps(5, objs, [objs EXCEPT ![i].user1 = one, ![i].act = "MasterShoot0"])
    BY <2>1, <2>3
  <2> QED  BY <1>1, <2>2, <2>4, SafeMoves, SafeThink
<1>3. CASE CK5_MasterShoot(i)
  <2>1. PICK os \in CK5_SpawnEnemyShot(objs, "MasterBall0") : ThinkOnly(i, os)
    BY <1>3 DEF CK5_MasterShoot
  <2>2. Keeps(5, objs, os)
    BY <2>1, SelfKeeps, BitActs, NewNull DEF CK5_SpawnEnemyShot
  <2> QED  BY <1>1, <2>1, <2>2, SafeThink DEF ThinkOnly
<1>4. CASE CK5_MasterTele(i)
  <2> DEFINE Spark(os) == CK_GetNewObj(os, Creature("Null", "MasterSparks0"))
  <2>1. PICK act \in {objs[i].act, "Master0"} : ThinkOnly(i, Spark(Spark(Goes(i, act))))
    BY <1>4 DEF CK5_MasterTele
  <2>2. act \in ActsOf(5) /\ Kind(5, act) = "plain"
    BY <1>1, <2>1, Fields, BitActs, Plain5Acts DEF KindAt
  <2>3. Keeps(5, objs, Goes(i, act))
    BY <1>1, <2>2, GoesKeeps
  <2>4. ASSUME NEW os, Keeps(5, objs, os) PROVE Keeps(5, objs, Spark(os))
    BY <2>4, BitActs, NewNull
  <2> HIDE DEF Spark
  <2>5. Keeps(5, objs, Spark(Spark(Goes(i, act))))
    BY <2>3, <2>4
  <2> QED  BY <1>1, <2>1, <2>5, SafeThink DEF ThinkOnly
<1> QED  BY <1>2, <1>3, <1>4

LEMMA SafeMasterDraw ==
    ASSUME IndInv, ck_currentEpisode = 5, NEW i \in Ids, i # 0,
           CK5_MasterTeleTileCol(i) \/ CK5_MasterBallTileCol(i) \/ CK5_MasterSparksTileCol(i)
    PROVE  SafeStep
<1>1. KindAt(i) = "plain"
  BY Plain5 DEF CK5_MasterTeleTileCol, CK5_MasterBallTileCol, CK5_MasterSparksTileCol, DrawsTo, Draws, Plainly5
<1>2. CASE CK5_MasterTeleTileCol(i)
  <2>1. Action(i).draw \in Followers
    BY <1>2 DEF CK5_MasterTeleTileCol, DrawsTo, Draws, Followers
  <2>2. \A act \in Action(i).next : act \in ActsOf(5) /\ Kind(5, act) = "plain"
    BY <1>1, <2>1, NextPlain5
  <2> QED  BY <1>1, <1>2, <2>2, SafeDraws DEF CK5_MasterTeleTileCol
<1>3. CASE CK5_MasterBallTileCol(i)
  <2>1. Keeps(5, objs, Goes(i, "MasterSparks0"))
    BY <1>1, BitActs, Plain5Acts, GoesKeeps
  <2>2. Keeps(5, objs, CK_GetNewObj(Goes(i, "MasterSparks0"), Creature("Null", "MasterSparks0")))
    BY <2>1, BitActs, NewNull
  <2> QED  BY <1>3, <2>2, SafeBecomes DEF CK5_MasterBallTileCol
<1>4. CASE CK5_MasterSparksTileCol(i)
  BY <1>1, <1>4, SafeRemove DEF CK5_MasterSparksTileCol, Waiting
<1> QED  BY <1>2, <1>3, <1>4

LEMMA SafeMasterCol ==
    ASSUME IndInv, ck_currentEpisode = 5, NEW i \in Ids, i # 0, NEW j \in Ids,
           CK5_MasterCol(i, j) \/ CK5_MasterBallCol(i, j)
    PROVE  SafeStep
<1> DEFINE one == 1
           hit == [objs EXCEPT ![i].user1 = one, ![i].act = "MasterShoot0"]
<1>1. KindAt(i) = "plain" /\ i # j /\ objs \in [Ids -> ObjType] /\ KindAt(i) # "stunned"
  BY Plain5, ObjectAt DEF CK5_MasterCol, CK5_MasterBallCol, KeenTouches, ShotTouches, Touches, Plainly5
<1>2. CASE Kills(i)
  BY <1>1, <1>2, SafeHits
<1>3. CASE Is(j, "Stunner") /\ Becomes(CK_ShotHit(hit, j))
  <2>1. one \in Int
    OBVIOUS
  <2>2. hit[j].type = "Stunner"
    BY <1>1, <1>3 DEF Is
  <2> HIDE DEF one
  <2>3. Keeps(5, objs, hit)
    BY <1>1, <2>1, BitActs, Plain5Acts, PlainUser1Act
  <2> HIDE DEF hit
  <2> QED  BY <1>3, <2>2, <2>3, SafeShotHit
<1>4. CASE Is(j, "Stunner") /\ Becomes(CK_RemoveObj(CK_ShotHit(objs, j), i))
  <2>1. Keeps(5, objs, CK_ShotHit(objs, j))
    BY <1>4, Ways, SelfKeeps, ShotHitKeeps DEF Is
  <2>2. Keeps(5, objs, CK_RemoveObj(CK_ShotHit(objs, j), i))
    BY <2>1, Ways, NotWaiting5, RemoveKeeps DEF KindAt
  <2> QED  BY <1>4, <2>2, SafeBecomes
<1>5. CASE CK_KillKeen(i, CK_RemoveObj(objs, i))
  <2>1. Keeps(5, objs, CK_RemoveObj(objs, i))
    BY Ways, SelfKeeps, NotWaiting5, RemoveKeeps DEF KindAt
  <2> QED  BY <1>1, <1>5, <2>1, SafeKill
<1> QED  BY <1>2, <1>3, <1>4, <1>5 DEF CK5_MasterCol, CK5_MasterBallCol, ShotTouches

\* What is hit and takes another plain action.
LEMMA SafeHitGoes ==
    ASSUME IndInv, NEW i \in Ids, NEW j \in Ids, i # j, Is(j, "Stunner"), KindAt(i) = "plain",
           NEW act \in ActsOf(ck_currentEpisode), Kind(ck_currentEpisode, act) = "plain",
           Becomes(CK_ShotHit(Goes(i, act), j))
    PROVE  SafeStep
<1>1. Keeps(ck_currentEpisode, objs, Goes(i, act))
  BY GoesKeeps
<1>2. Goes(i, act)[j].type = "Stunner"
  BY ObjectAt DEF Goes, SetAct, Is
<1> QED  BY <1>1, <1>2, SafeShotHit

\* Every touch by a creature of a plain action.
LEMMA SafePlainTouches5 ==
    ASSUME IndInv, ck_currentEpisode = 5, NEW i \in Ids, i # 0, NEW j \in Ids,
           CK5_VolteCol(i, j) \/ CK5_BarkShotCol(i, j) \/ CK5_KorathColFunc(i, j)
    PROVE  SafeStep
<1>1. KindAt(i) = "plain" /\ i # j /\ KindAt(i) # "stunned"
  BY Plain5 DEF CK5_VolteCol, CK5_BarkShotCol, CK5_KorathColFunc, KeenTouches, ShotTouches, Touches, Plainly5
<1>2. CASE CK5_VolteCol(i, j)
  BY <1>1, <1>2, SafeHits, SafeHitGoes, BitActs, Plain5Acts DEF CK5_VolteCol, ShotTouches
<1>3. CASE CK5_BarkShotCol(i, j)
  BY <1>1, <1>3, SafeKillGoes, SafeHitGoes, BitActs, Plain5Acts DEF CK5_BarkShotCol, ShotTouches
<1>4. CASE CK5_KorathColFunc(i, j)
  <2>1. "KorathStun0" \in ActsOf(5) /\ Kind(5, "KorathStun0") = "stunned"
    <3>1. "KorathStun0" \in Chosen5("stunned")
      BY DEF Chosen5
    <3> QED  BY <3>1, Chosen5Kinds
  <2>2. objs[i].clipped # "simple" /\ KindAt(i) \notin Waiting
    BY <1>1, Typed DEF Waiting
  <2> QED  BY <1>1, <1>4, <2>1, <2>2, SafeStuns DEF CK5_KorathColFunc, ShotTouches
<1> QED  BY <1>2, <1>3, <1>4

\* A hit that is not the last takes a point of health.
LEMMA SafeWeakens ==
    ASSUME IndInv, ck_currentEpisode = 5, NEW i \in Ids, i # 0, NEW j \in Ids, i # j, Is(j, "Stunner"),
           KindAt(i) \in {"Shikadi", "Shocksund", "standing"}, NEW act \in Chosen5("stunned"), Weakens(i, j, act)
    PROVE  SafeStep
<1> DEFINE n == objs[i].user2 - 1
           two == 2
           hit == [objs EXCEPT ![i].user2 = n, ![i].user3 = two]
<1>1. KindAt(i) = "Shikadi" \/ KindAt(i) = "Shocksund" \/ KindAt(i) = "standing"
  OBVIOUS
<1>2. objs \in [Ids -> ObjType] /\ objs[i].user1 \in Int /\ objs[i].user2 \in Int /\ objs[i].act \in ActsOf(5)
  BY ObjectAt, Fields
<1>3. CASE objs[i].user2 = 1
  <2>1. act \in ActsOf(5) /\ Kind(5, act) = "stunned"
    BY Chosen5Kinds
  <2>2. objs[i].clipped # "simple" /\ KindAt(i) \notin Waiting
    BY <1>1, Typed DEF Waiting
  <2> QED  BY <1>3, <2>1, <2>2, SafeStuns DEF Weakens
<1>4. CASE objs[i].user2 # 1
  <2>1. [objs EXCEPT ![i].user2 = @ - 1, ![i].user3 = 2] = hit
    BY <1>2
  <2>2. Becomes(CK_ShotHit(hit, j)) /\ objs[j].type = "Stunner"
    BY <1>4, <2>1 DEF Weakens, Is
  <2>3. hit[j].type = "Stunner"
    BY <1>2, <2>2
  <2>4. CountersFit(KindAt(i), objs[i].user1, objs[i].user2, objs[i].user3)
    BY KnownAt
  <2>5. objs[i].user2 > 0
    BY <1>1, <2>4 DEF CountersFit
  <2>6. n \in Int /\ n > 0 /\ two \in Int
    BY <1>2, <1>4, <2>5
  <2> HIDE DEF n, two
  <2>7. CountersFit(KindAt(i), objs[i].user1, n, two)
    BY <1>1, <2>4, <2>6 DEF CountersFit
  <2>8. Suits(5, objs[i], objs[i].act, objs[i].clipped, objs[i].user1, n, two)
    BY <1>2, <2>6, <2>7, KindSuits DEF KindAt
  <2>9. Keeps(5, objs, hit)
    BY <2>6, <2>8, Ways, SelfKeeps, User23Keeps
  <2> HIDE DEF hit
  <2> QED  BY <2>2, <2>3, <2>9, SafeShotHit
<1> QED  BY <1>3, <1>4

\* Shikadi and shocksunds that are hit.
LEMMA SafeWeakCol ==
    ASSUME IndInv, ck_currentEpisode = 5, NEW i \in Ids, i # 0, NEW j \in Ids,
           CK5_SparkyCol(i, j) \/ CK5_ShikadiCol(i, j) \/ CK5_ShocksundCol(i, j)
    PROVE  SafeStep
<1>0. {"SparkyStunned0", "ShikadiStun0", "ShocksundStun0"} \subseteq Chosen5("stunned")
  BY DEF Chosen5
<1>1. CASE CK5_SparkyCol(i, j)
  <2>1. (KindAt(i) = "Sparky" \/ KindAt(i) = "preparing") /\ i # j
    BY <1>1, Telling5At DEF CK5_SparkyCol, KeenTouches, ShotTouches, Touches, Telling5, KindsOf5
  <2>2. KindAt(i) # "stunned" /\ objs[i].clipped # "simple" /\ KindAt(i) \notin Waiting
    BY <2>1, Typed DEF Waiting
  <2>3. "SparkyStunned0" \in ActsOf(5) /\ Kind(5, "SparkyStunned0") = "stunned"
    BY <1>0, Chosen5Kinds
  <2> QED  BY <1>1, <2>1, <2>2, <2>3, SafeHits, SafeStuns DEF CK5_SparkyCol, ShotTouches
<1>2. CASE CK5_ShikadiCol(i, j)
  <2>1. KindAt(i) = "Shikadi" /\ i # j
    BY <1>2, Telling5At DEF CK5_ShikadiCol, KeenTouches, ShotTouches, Touches, Telling5, KindsOf5
  <2>2. KindAt(i) # "stunned"
    BY <2>1
  <2> QED  BY <1>0, <1>2, <2>1, <2>2, SafeHits, SafeWeakens DEF CK5_ShikadiCol, ShotTouches
<1>3. CASE CK5_ShocksundCol(i, j)
  <2>1. (KindAt(i) = "Shocksund" \/ KindAt(i) = "standing") /\ i # j
    BY <1>3, Telling5At DEF CK5_ShocksundCol, KeenTouches, ShotTouches, Touches, Telling5, KindsOf5
  <2>2. KindAt(i) # "stunned"
    BY <2>1
  <2> QED  BY <1>0, <1>3, <2>1, <2>2, SafeHits, SafeWeakens DEF CK5_ShocksundCol, ShotTouches
<1> QED  BY <1>1, <1>2, <1>3

\* The zap runs along the pole.
LEMMA SafePole ==
    ASSUME IndInv, ck_currentEpisode = 5, NEW i \in Ids, i # 0, CK5_ShikadiPole(i) \/ CK5_PoleZap(i)
    PROVE  SafeStep
<1>1. CASE CK5_ShikadiPole(i)
  <2>1. "EnemyShot" \in Ordinary /\ "onscreen" \in {"active", "onscreen", "always", "inactive"}
    BY DEF Ordinary
  <2>2. Keeps(5, objs, CK_GetNewObj(objs, [Debris("EnemyShot", "PoleZap0") EXCEPT !.clipped = "not"]))
    BY <2>1, Ways, SelfKeeps, BitActs, Plain5Acts, NewUnclippedKeeps DEF Debris
  <2>3. Action(i).think # "CK4_BirdRecover"
    BY <1>1 DEF CK5_ShikadiPole, Thinks
  <2> QED  BY <1>1, <2>2, <2>3, SafeThink DEF CK5_ShikadiPole, ThinkOnly
<1>2. CASE CK5_PoleZap(i)
  <2>1. KindAt(i) \notin Waiting /\ Action(i).think # "CK4_BirdRecover" /\ "CK5_PoleZap" # "CK4_BirdRecover"
    BY <1>2, NotWaiting5 DEF CK5_PoleZap, Thinks
  <2> QED  BY <1>2, <2>1, SafeThinkOnly, SafeThinkRemove DEF CK5_PoleZap
<1> QED  BY <1>1, <1>2

\* What was hit flashes, while it walks on or jumps.
LEMMA FlashesKeeps ==
    ASSUME IndInv, ck_currentEpisode = 5, NEW i \in Ids, NEW kind, NEW act \in ActsOf(5), Kind(5, act) = kind,
           \/ KindAt(i) = kind /\ kind \in {"Shikadi", "Shocksund", "standing"}
           \/ KindAt(i) = "standing" /\ kind = "Shocksund"
    PROVE  Keeps(5, objs, Flashes(Goes(i, act), i))
<1> DEFINE n == IF objs[i].user3 > 0 THEN objs[i].user3 - 1 ELSE 0
<1>1. objs \in [Ids -> ObjType] /\ objs[i].user1 \in Int /\ objs[i].user2 \in Int /\ objs[i].user3 \in Int
      /\ objs[i].clipped \in {"normal", "simple", "not"}
  BY ObjectAt, Fields, KnownAt
<1>2. n \in Int
  BY <1>1
<1>3. Flashes(Goes(i, act), i) = [objs EXCEPT ![i].user3 = n, ![i].act = act]
  <2>1. objs[i] \in ObjType
    BY <1>1
  <2>2. Flashes(Goes(i, act), i) = [objs EXCEPT ![i] = [[objs[i] EXCEPT !.act = act] EXCEPT !.user3 = n]]
    BY <1>1 DEF Flashes, Goes, SetAct, ObjType
  <2> HIDE DEF n
  <2>3. [[objs[i] EXCEPT !.act = act] EXCEPT !.user3 = n] = [objs[i] EXCEPT !.user3 = n, !.act = act]
    BY <2>1 DEF ObjType
  <2>4. [objs EXCEPT ![i].user3 = n, ![i].act = act] = [objs EXCEPT ![i] = [objs[i] EXCEPT !.user3 = n, !.act = act]]
    BY <1>1
  <2> QED  BY <2>2, <2>3, <2>4
<1> HIDE DEF n
<1>4. CountersFit(KindAt(i), objs[i].user1, objs[i].user2, objs[i].user3)
  BY KnownAt
<1>5. Suits(5, objs[i], act, objs[i].clipped, objs[i].user1, objs[i].user2, n)
  <2>1. CASE KindAt(i) = kind /\ kind \in {"Shikadi", "Shocksund", "standing"}
    <3>1. CountersFit(KindAt(i), objs[i].user1, objs[i].user2, n)
      BY <1>4, <2>1 DEF CountersFit
    <3> QED  BY <1>1, <1>2, <2>1, <3>1, KindSuits
  <2>2. CASE KindAt(i) = "standing" /\ kind = "Shocksund"
    <3>1. CountersFit("Shocksund", objs[i].user1, objs[i].user2, n)
      BY <1>4, <2>2 DEF CountersFit
    <3>2. Akin(KindAt(i), kind) /\ KindAt(i) \in {"preparing", "Sparky", "standing", "Shocksund"}
          /\ kind \in {"preparing", "Sparky", "standing", "Shocksund"} /\ kind # "preparing"
      BY <2>2 DEF Akin, TypeOf
    <3>3. /\ ClippingFits(kind, objs[i].type, objs[i].active, objs[i].clipped)
          /\ KindAt(i) \notin Waiting /\ kind \notin Waiting \cup {"eating"}
      BY <3>2, SameClipping
    <3> QED  BY <1>1, <1>2, <2>2, <3>1, <3>2, <3>3, AkinSuits
  <2> QED  BY <2>1, <2>2
<1>6. Keeps(5, objs, [objs EXCEPT ![i].user3 = n, ![i].act = act])
  BY <1>2, <1>5, Ways, SelfKeeps, User3ActKeeps
<1> QED  BY <1>3, <1>6

LEMMA SafeFlashes ==
    ASSUME IndInv, ck_currentEpisode = 5, NEW i \in Ids,
           CK5_ShikadiTileCol(i) \/ CK5_ShocksundGroundTileCol(i) \/ CK5_ShocksundJumpTileCol(i)
    PROVE  SafeStep
<1>0. objs[i].act \in ActsOf(5)
  BY Fields
<1>1. CASE CK5_ShikadiTileCol(i)
  <2>1. KindAt(i) = "Shikadi"
    BY <1>1, Telling5At DEF CK5_ShikadiTileCol, Draws, Telling5, KindsOf5
  <2>2. Keeps(5, objs, Flashes(Goes(i, objs[i].act), i))
    BY <1>0, <2>1, FlashesKeeps DEF KindAt
  <2>3. Goes(i, objs[i].act) = objs
    BY ObjectAt DEF Goes, SetAct, ObjType
  <2> QED  BY <1>1, <2>2, <2>3, SafeBecomes DEF CK5_ShikadiTileCol
<1>2. CASE CK5_ShocksundGroundTileCol(i)
  <2>1. KindAt(i) = "Shocksund" \/ KindAt(i) = "standing"
    BY <1>2, Telling5At DEF CK5_ShocksundGroundTileCol, Draws, Telling5, KindsOf5
  <2>2. Keeps(5, objs, Flashes(Goes(i, objs[i].act), i)) /\ Keeps(5, objs, Flashes(Goes(i, "ShocksundJump0"), i))
    BY <1>0, <2>1, CountingActs, FlashesKeeps DEF KindAt
  <2> QED  BY <1>2, <2>2, SafeBecomes DEF CK5_ShocksundGroundTileCol
<1>3. CASE CK5_ShocksundJumpTileCol(i)
  <2>1. KindAt(i) = "Shocksund"
    BY <1>3, Telling5At DEF CK5_ShocksundJumpTileCol, Draws, Telling5, KindsOf5
  <2>2. Keeps(5, objs, Flashes(Goes(i, objs[i].act), i)) /\ Keeps(5, objs, Flashes(Goes(i, "Shocksund0"), i))
    BY <1>0, <2>1, CountingActs, FlashesKeeps DEF KindAt
  <2> QED  BY <1>3, <2>2, SafeBecomes DEF CK5_ShocksundJumpTileCol
<1> QED  BY <1>1, <1>2, <1>3

\* A shocksund shoots, stands for a time, and jumps.
LEMMA SafeShocksund ==
    ASSUME IndInv, ck_currentEpisode = 5, NEW i \in Ids, i # 0, CK5_ShocksundSearch(i) \/ CK5_ShocksundShoot(i)
    PROVE  SafeStep
<1>1. KindAt(i) = "Shocksund" /\ Action(i).think # "CK4_BirdRecover"
  BY Telling5At DEF CK5_ShocksundSearch, CK5_ShocksundShoot, May, Thinks, Telling5, KindsOf5
<1>2. CASE May(i, "CK5_ShocksundSearch", {"ShocksundJump0", "ShocksundShoot0"})
  <2>1. {"ShocksundJump0", "ShocksundShoot0"} \in SUBSET Chosen5("Shocksund") /\ "Shocksund" \in Kinds5
    BY DEF Chosen5, Kinds5
  <2> QED  BY <1>1, <1>2, <2>1, SafeMay5
<1>3. CASE ThinkOnly(i, [objs EXCEPT ![i].user1 = StandTime, ![i].act = "ShocksundStand0"])
  <2>1. StandTime \in Int /\ StandTime \in 1 .. StandTime
    BY Creatures5Assumption
  <2>2. CountersFit(KindAt(i), objs[i].user1, objs[i].user2, objs[i].user3)
    BY KnownAt
  <2>3. CountersFit("standing", StandTime, objs[i].user2, objs[i].user3)
    BY <1>1, <2>1, <2>2 DEF CountersFit
  <2>4. Akin(KindAt(i), "standing")
    BY <1>1 DEF Akin, TypeOf
  <2>5. /\ ClippingFits("standing", objs[i].type, objs[i].active, objs[i].clipped)
        /\ KindAt(i) \notin Waiting /\ "standing" \notin Waiting \cup {"eating"}
    BY <1>1, <2>4, SameClipping
  <2>6. objs[i].clipped \in {"normal", "simple", "not"} /\ objs[i].user2 \in Int /\ objs[i].user3 \in Int
    BY KnownAt, Fields
  <2>7. StandTime \in Int
    BY <2>1
  <2>8. Suits(5, objs[i], "ShocksundStand0", objs[i].clipped, StandTime, objs[i].user2, objs[i].user3)
    BY <2>3, <2>4, <2>5, <2>6, <2>7, CountingActs, AkinSuits
  <2>9. Keeps(5, objs, [objs EXCEPT ![i].user1 = StandTime, ![i].act = "ShocksundStand0"])
    BY <2>7, <2>8, Ways, CountingActs, SelfKeeps, User1ActKeeps
  <2> QED  BY <1>1, <1>3, <2>9, SafeThink DEF ThinkOnly
<1>4. CASE CK5_ShocksundShoot(i)
  <2>1. PICK os \in CK5_SpawnEnemyShot(objs, "BarkShot0") : ThinkOnly(i, os)
    BY <1>4 DEF CK5_ShocksundShoot
  <2>2. Keeps(5, objs, os)
    BY <2>1, SelfKeeps, BitActs, NewNull DEF CK5_SpawnEnemyShot
  <2> QED  BY <1>1, <2>1, <2>2, SafeThink DEF ThinkOnly
<1> QED  BY <1>2, <1>3, <1>4 DEF CK5_ShocksundSearch

\* Every step of Keen 5.
LEMMA SafeStep5 ==
    ASSUME IndInv, ck_currentEpisode = 5, NEW i \in Ids, i # 0, Step5(i)
    PROVE  SafeStep
<1>1. CASE Moves5(i)
  BY <1>1, SafeMoves5
<1>2. CASE Chooses5(i)
  BY <1>2, SafeChooses5
<1>3. CASE CK5_SparkySearchLeft(i) \/ CK5_SparkySearchRight(i)
  BY <1>3, SafeSparkySearch
<1>4. CASE CK5_SparkyPrepareCharge(i) \/ CK5_ShocksundStand(i)
  BY <1>4, SafeCounts
<1>5. CASE CK5_AmptonWalk(i) \/ CK5_AmptonPoleClimb(i)
  BY <1>5, SafeAmpton
<1>6. CASE CK5_SpawnShellyBits(i) \/ CK5_ShellyAirTileCol(i)
  BY <1>6, SafeShelly
<1>7. CASE CK5_MineMove(i) \/ CK5_MineMoveDots(i) \/ CK5_MineExplode(i) \/ CK5_MineTileCol(i)
  BY <1>7, SafeMine
<1>8. CASE CK5_LevelEnd(i) \/ CK5_RoboMove(i) \/ CK5_RoboShoot(i)
  BY <1>8, SafeLevelEnd, SafeRobo, SafeRoboShoot
<1>9. CASE CK5_SpirogripSpin(i) \/ CK5_SpirogripFlyDraw(i) \/ CK5_SpindredTileCol(i)
  BY <1>9, SafeSpirogrip, SafeSpindred
<1>10. CASE CK5_MasterStand(i) \/ CK5_MasterShoot(i) \/ CK5_MasterTele(i)
  BY <1>10, SafeMaster
<1>11. CASE CK5_MasterTeleTileCol(i) \/ CK5_MasterBallTileCol(i) \/ CK5_MasterSparksTileCol(i)
  BY <1>11, SafeMasterDraw
<1>12. CASE CK5_ShikadiPole(i) \/ CK5_PoleZap(i)
  BY <1>12, SafePole
<1>13. CASE CK5_ShikadiTileCol(i) \/ CK5_ShocksundGroundTileCol(i) \/ CK5_ShocksundJumpTileCol(i)
  BY <1>13, SafeFlashes
<1>14. CASE CK5_ShocksundSearch(i) \/ CK5_ShocksundShoot(i)
  BY <1>14, SafeShocksund
<1> QED  BY <1>1, <1>2, <1>3, <1>4, <1>5, <1>6, <1>7, <1>8, <1>9, <1>10, <1>11, <1>12, <1>13, <1>14
         DEF Step5, Moves5, Chooses5

\* Every touch of Keen 5.
LEMMA SafeTouch5 ==
    ASSUME IndInv, ck_currentEpisode = 5, NEW i \in Ids, i # 0, NEW j \in Ids, Touch5(i, j)
    PROVE  SafeStep
<1>1. CASE CK5_VolteCol(i, j) \/ CK5_BarkShotCol(i, j) \/ CK5_KorathColFunc(i, j)
  BY <1>1, SafePlainTouches5
<1>2. CASE CK5_SparkyCol(i, j) \/ CK5_ShikadiCol(i, j) \/ CK5_ShocksundCol(i, j)
  BY <1>2, SafeWeakCol
<1>3. CASE CK5_AmptonCol(i, j) \/ CK5_SliceCol(i, j) \/ CK5_ShellyCol(i, j)
  BY <1>3, SafeAmptonCol, SafeSliceCol, SafeShellyCol
<1>4. CASE CK5_MineCol(i, j) \/ CK5_MineShrapCol(i, j)
  BY <1>4, SafeMineCol
<1>5. CASE CK5_RoboCol(i, j) \/ CK5_RoboShotCol(i, j)
  BY <1>5, SafeRoboCol
<1>6. CASE CK5_MasterCol(i, j) \/ CK5_MasterBallCol(i, j)
  BY <1>6, SafeMasterCol
<1> QED  BY <1>1, <1>2, <1>3, <1>4, <1>5, <1>6 DEF Touch5

(***************************************************************************)
(* Keen 6.                                                                 *)
(***************************************************************************)
Kinds6 == {"Bloogguard", "Nospike", "Flect", "Fleex", "Bobba", "Babobba", "Ceilick", "stunned", "plain"}

\* Thinks and draws that choose among plain actions.
LEMMA SafeMay6 ==
    ASSUME IndInv, ck_currentEpisode = 6, NEW i \in Ids, i # 0, NEW kind \in Kinds6, KindAt(i) = kind,
           NEW acts \in SUBSET Chosen6(kind), NEW f, f # "CK4_BirdRecover", May(i, f, acts)
    PROVE  SafeStep
<1>1. \A act \in acts : act \in ActsOf(6) /\ Kind(6, act) = kind
  BY Chosen6Kinds DEF Kinds6
<1> QED  BY <1>1, SafeMay

LEMMA SafeDraws6 ==
    ASSUME IndInv, ck_currentEpisode = 6, NEW i \in Ids, NEW kind \in Kinds6, KindAt(i) = kind,
           NEW acts \in SUBSET Chosen6(kind), NEW f, DrawsTo(i, f, acts)
    PROVE  SafeStep
<1>1. \A act \in acts : act \in ActsOf(6) /\ Kind(6, act) = kind
  BY Chosen6Kinds DEF Kinds6
<1> QED  BY <1>1, SafeDraws

\* Nothing waits to be eaten.
LEMMA NotWaiting6 ==
    ASSUME ck_currentEpisode = 6, NEW i
    PROVE  KindAt(i) \notin Waiting
  BY Kind6Range DEF KindAt, Kind, Waiting

\* The plain actions that the functions of Keen 6 choose.
LEMMA Plain6Acts ==
    ASSUME NEW act \in Chosen6("plain")
    PROVE  act \in ActsOf(6) /\ Kind(6, act) = "plain"
  BY Chosen6Kinds

\* The functions that only move their objects.
Moves6(i) ==
    \/ CK6_Bloog(i) \/ CK6_NospikeFall(i) \/ CK6_BipshipTurn(i) \/ CK6_FleexSearch(i)
    \/ CK6_BobbaFireball(i) \/ CK6_CeilickDescend(i)

\* Functions that only move an object.
LEMMA SafeMoves6 ==
    ASSUME IndInv, NEW i \in Ids, i # 0, Moves6(i)
    PROVE  SafeStep
<1>1. CASE CK6_Bloog(i)
  BY <1>1, SafeMoves DEF CK6_Bloog
<1>2. CASE CK6_NospikeFall(i)
  BY <1>2, SafeMoves DEF CK6_NospikeFall
<1>3. CASE CK6_BipshipTurn(i)
  BY <1>3, SafeMoves DEF CK6_BipshipTurn
<1>4. CASE CK6_FleexSearch(i)
  BY <1>4, SafeMoves DEF CK6_FleexSearch
<1>5. CASE CK6_BobbaFireball(i)
  BY <1>5, SafeMoves DEF CK6_BobbaFireball
<1>6. CASE CK6_CeilickDescend(i)
  <2>1. PICK f \in {"CK6_CeilickDescend", "CK6_CeilickStunned"} : Thinks(i, f) /\ ThinkOnly(i, objs)
    BY <1>6 DEF CK6_CeilickDescend, Thinks
  <2>2. f # "CK4_BirdRecover"
    BY <2>1
  <2> QED  BY <2>1, <2>2, SafeThinkOnly
<1> QED  BY <1>1, <1>2, <1>3, <1>4, <1>5, <1>6 DEF Moves6

\* The functions that choose among plain actions.
PlainStep6(i) ==
    \/ CK6_GikWalk(i) \/ CK6_GikSlide(i) \/ CK6_OrbatrixFloat(i) \/ CK6_BipWalk(i)
    \/ CK6_BobbaFireballDraw(i)

\* The steps made of them.
LEMMA SafePlainStep6 ==
    ASSUME IndInv, ck_currentEpisode = 6, NEW i \in Ids, i # 0, PlainStep6(i)
    PROVE  SafeStep
<1>0. /\ {{"GikJump0"}, {"GikEndSlide0"}, {"OrbatrixUncurl2", "OrbatrixCurl0"}, {"BipStand0"},
          {"BobbaFireballHits0"}} \subseteq SUBSET Chosen6("plain")
      /\ "plain" \in Kinds6
  BY DEF Chosen6, Kinds6
<1>1. KindAt(i) = "plain"
  BY Plain6 DEF PlainStep6, CK6_GikWalk, CK6_GikSlide, CK6_OrbatrixFloat, CK6_BipWalk, CK6_BobbaFireballDraw,
                May, Thinks, DrawsTo, Draws, Plainly6
<1>2. CASE CK6_GikWalk(i)
  BY <1>0, <1>1, <1>2, SafeMay6 DEF CK6_GikWalk
<1>3. CASE CK6_GikSlide(i)
  BY <1>0, <1>1, <1>3, SafeMay6 DEF CK6_GikSlide
<1>4. CASE CK6_OrbatrixFloat(i)
  BY <1>0, <1>1, <1>4, SafeMay6 DEF CK6_OrbatrixFloat
<1>5. CASE CK6_BipWalk(i)
  BY <1>0, <1>1, <1>5, SafeMay6 DEF CK6_BipWalk
<1>6. CASE CK6_BobbaFireballDraw(i)
  BY <1>0, <1>1, <1>6, SafeDraws6 DEF CK6_BobbaFireballDraw
<1> QED  BY <1>2, <1>3, <1>4, <1>5, <1>6 DEF PlainStep6

\* Those that choose among the actions of one creature.
Chooses6(i) ==
    \/ CK6_BloogguardWalk(i) \/ CK6_FlectTurn(i) \/ CK6_FlectWalk(i) \/ CK6_FleexWalk(i)
    \/ CK6_BobbaJumpDraw(i) \/ CK6_BabobbaJumpDraw(i) \/ CK6_Ceilick(i)

\* Functions that choose among the actions of a kind.
LEMMA SafeChooses6 ==
    ASSUME IndInv, ck_currentEpisode = 6, NEW i \in Ids, i # 0, Chooses6(i)
    PROVE  SafeStep
<1>0. {"Bloogguard", "Flect", "Fleex", "Bobba", "Babobba", "Ceilick"} \subseteq Kinds6
  BY DEF Kinds6
<1>1. CASE CK6_BloogguardWalk(i)
  <2>1. KindAt(i) = "Bloogguard"
    BY <1>1, Telling6At DEF CK6_BloogguardWalk, May, Thinks, Telling6, KindsOf6
  <2>2. {"BloogguardClub0"} \in SUBSET Chosen6("Bloogguard")
    BY DEF Chosen6
  <2> QED  BY <1>0, <1>1, <2>1, <2>2, SafeMay6 DEF CK6_BloogguardWalk
<1>2. CASE CK6_FlectTurn(i)
  <2>1. KindAt(i) = "Flect"
    BY <1>2, Telling6At DEF CK6_FlectTurn, May, Thinks, Telling6, KindsOf6
  <2>2. {"FlectTurn1", "FlectWalk0"} \in SUBSET Chosen6("Flect")
    BY DEF Chosen6
  <2> QED  BY <1>0, <1>2, <2>1, <2>2, SafeMay6 DEF CK6_FlectTurn
<1>3. CASE CK6_FlectWalk(i)
  <2>1. KindAt(i) = "Flect"
    BY <1>3, Telling6At DEF CK6_FlectWalk, May, Thinks, Telling6, KindsOf6
  <2>2. {"FlectTurn0", "FlectTurn1"} \in SUBSET Chosen6("Flect")
    BY DEF Chosen6
  <2> QED  BY <1>0, <1>3, <2>1, <2>2, SafeMay6 DEF CK6_FlectWalk
<1>4. CASE CK6_FleexWalk(i)
  <2>1. KindAt(i) = "Fleex"
    BY <1>4, Telling6At DEF CK6_FleexWalk, Thinks, Telling6, KindsOf6
  <2>2. {"FleexSearch0"} \in SUBSET Chosen6("Fleex")
    BY DEF Chosen6
  <2>3. May(i, "CK6_FleexWalk", {"FleexSearch0"}) \/ (Thinks(i, "CK6_FleexWalk") /\ ThinkOnly(i, objs))
    BY <1>4 DEF CK6_FleexWalk, May
  <2>4. "CK6_FleexWalk" # "CK4_BirdRecover"
    OBVIOUS
  <2> QED  BY <1>0, <2>1, <2>2, <2>3, <2>4, SafeMay6, SafeThinkOnly
<1>5. CASE CK6_BobbaJumpDraw(i)
  <2>1. KindAt(i) = "Bobba"
    BY <1>5, Telling6At DEF CK6_BobbaJumpDraw, DrawsTo, Draws, Telling6, KindsOf6
  <2>2. {"BobbaStand0"} \in SUBSET Chosen6("Bobba")
    BY DEF Chosen6
  <2> QED  BY <1>0, <1>5, <2>1, <2>2, SafeDraws6 DEF CK6_BobbaJumpDraw
<1>6. CASE CK6_BabobbaJumpDraw(i)
  <2>1. KindAt(i) = "Babobba"
    BY <1>6, Telling6At DEF CK6_BabobbaJumpDraw, DrawsTo, Draws, Telling6, KindsOf6
  <2>2. {"BabobbaSit0"} \in SUBSET Chosen6("Babobba")
    BY DEF Chosen6
  <2> QED  BY <1>0, <1>6, <2>1, <2>2, SafeDraws6 DEF CK6_BabobbaJumpDraw
<1>7. CASE CK6_Ceilick(i)
  <2>1. KindAt(i) = "Ceilick"
    BY <1>7, Telling6At DEF CK6_Ceilick, May, Thinks, Telling6, KindsOf6
  <2>2. {"CeilickStrike00"} \in SUBSET Chosen6("Ceilick")
    BY DEF Chosen6
  <2> QED  BY <1>0, <1>7, <2>1, <2>2, SafeMay6 DEF CK6_Ceilick
<1> QED  BY <1>1, <1>2, <1>3, <1>4, <1>5, <1>6, <1>7 DEF Chooses6

\* Those that take what the row names next.
LEMMA NextPlain6 ==
    ASSUME IndInv, ck_currentEpisode = 6, NEW i \in Ids, KindAt(i) = "plain",
           Action(i).think \in Followers \/ Action(i).draw \in Followers,
           NEW act \in Action(i).next \cup {objs[i].act}
    PROVE  act \in ActsOf(6) /\ Kind(6, act) = "plain"
<1>1. CASE act = "NULL"
  BY <1>1, Ways, CommonKinds DEF CommonActs, Shots
<1>2. CASE act = objs[i].act
  BY <1>2, Fields DEF KindAt
<1>3. CASE act # "NULL" /\ act # objs[i].act
  BY <1>3, FollowersAt
<1> QED  BY <1>1, <1>2, <1>3

\* They do.
LEMMA SafeFollows6 ==
    ASSUME IndInv, ck_currentEpisode = 6, NEW i \in Ids, i # 0,
           CK6_GikJumpDraw(i) \/ CK6_OrbatrixUncurlThink(i)
    PROVE  SafeStep
<1>1. KindAt(i) = "plain"
  BY Plain6 DEF CK6_GikJumpDraw, CK6_OrbatrixUncurlThink, May, Thinks, DrawsTo, Draws, Plainly6
<1>2. Action(i).think \in Followers \/ Action(i).draw \in Followers
  BY DEF CK6_GikJumpDraw, CK6_OrbatrixUncurlThink, May, Thinks, DrawsTo, Draws, Followers
<1>3. \A act \in Action(i).next : act \in ActsOf(6) /\ Kind(6, act) = "plain"
  BY <1>1, <1>2, NextPlain6
<1>4. "CK6_OrbatrixUncurlThink" # "CK4_BirdRecover"
  OBVIOUS
<1> QED  BY <1>1, <1>3, <1>4, SafeMay, SafeDraws DEF CK6_GikJumpDraw, CK6_OrbatrixUncurlThink

\* The club shakes the ground under Keen.
LEMMA SafeSmash ==
    ASSUME IndInv, ck_currentEpisode = 6, NEW i \in Ids, i # 0, CK6_BloogguardSmash(i)
    PROVE  SafeStep
<1>1. Action(i).think # "CK4_BirdRecover" /\ "CK6_BloogguardSmash" # "CK4_BirdRecover"
  BY DEF CK6_BloogguardSmash, Thinks
<1>2. "keenStunned0" \in ActsOf(6) /\ Kind(6, "keenStunned0") = "plain"
  BY Ways, KeenActsPlain
<1>3. Kind(6, objs[0].act) \notin Waiting
  BY NotWaiting6 DEF KindAt
<1>4. Keeps(6, objs, Goes(0, "keenStunned0"))
  BY <1>2, <1>3, Ways, SelfKeeps, KeenKeeps DEF Goes
<1> QED  BY <1>1, <1>4, SafeThink, SafeThinkOnly DEF CK6_BloogguardSmash, ThinkOnly

\* What was hit flashes.
LEMMA SafeMultihit ==
    ASSUME IndInv, ck_currentEpisode = 6, NEW i \in Ids, CK6_MultihitDraw(i)
    PROVE  SafeStep
<1> DEFINE n == IF objs[i].user1 > 0 THEN objs[i].user1 - 1 ELSE 0
<1>1. KindAt(i) = "Bloogguard" \/ KindAt(i) = "Fleex"
  BY Telling6At DEF CK6_MultihitDraw, Draws, Telling6, KindsOf6
<1>2. objs \in [Ids -> ObjType] /\ objs[i].user1 \in Int /\ objs[i].user2 \in Int /\ objs[i].user3 \in Int
      /\ objs[i].act \in ActsOf(6)
  BY ObjectAt, Fields
<1>3. n \in Int
  BY <1>2
<1>4. Becomes([objs EXCEPT ![i].user1 = n])
  BY <1>2 DEF CK6_MultihitDraw
<1> HIDE DEF n
<1>5. CountersFit(KindAt(i), objs[i].user1, objs[i].user2, objs[i].user3)
  BY KnownAt
<1>6. CountersFit(KindAt(i), n, objs[i].user2, objs[i].user3)
  BY <1>1, <1>5 DEF CountersFit
<1>7. Suits(6, objs[i], objs[i].act, objs[i].clipped, n, objs[i].user2, objs[i].user3)
  BY <1>2, <1>3, <1>6, KindSuits DEF KindAt
<1>8. Keeps(6, objs, [objs EXCEPT ![i].user1 = n])
  BY <1>3, <1>7, Ways, SelfKeeps, User1Keeps
<1> QED  BY <1>4, <1>8, SafeBecomes

\* Nospikes walk, charge, hang in the air and fall.
LEMMA NospikeActs6 ==
    /\ \A act \in {"NospikeSit0", "NospikeWalk0", "NospikeCharge0"} :
          act \in ActsOf(6) /\ Kind(6, act) = "Nospike"
    /\ "NospikeFall0" \in ActsOf(6) /\ Kind(6, "NospikeFall0") = "falling"
    /\ "NospikeStunned0" \in ActsOf(6) /\ Kind(6, "NospikeStunned0") = "stunned"
<1>1. /\ {"NospikeSit0", "NospikeWalk0", "NospikeCharge0"} \subseteq Chosen6("Nospike")
      /\ "NospikeFall0" \in Chosen6("falling") /\ "NospikeStunned0" \in Chosen6("stunned")
  BY DEF Chosen6
<1> QED  BY <1>1, Chosen6Kinds

\* The new counters of one that does not fall.
LEMMA NospikeKeeps ==
    ASSUME IndInv, ck_currentEpisode = 6, NEW i \in Ids, KindAt(i) = "Nospike",
           NEW u1 \in Int, u1 < AirHangTime, NEW u2 \in Int,
           NEW act \in {"NospikeSit0", "NospikeWalk0", "NospikeCharge0", objs[i].act}
    PROVE  /\ Keeps(6, objs, [objs EXCEPT ![i].user1 = u1])
           /\ Keeps(6, objs, [objs EXCEPT ![i].user1 = u1, ![i].act = act])
           /\ Keeps(6, objs, [objs EXCEPT ![i].user1 = u1, ![i].user2 = u2, ![i].act = act])
<1>1. objs[i].user2 \in Int /\ objs[i].user3 \in Int /\ objs[i].act \in ActsOf(6)
  BY Fields
<1>2. act \in ActsOf(6) /\ Kind(6, act) = KindAt(i)
  BY <1>1, NospikeActs6 DEF KindAt
<1>3. CountersFit(KindAt(i), objs[i].user1, objs[i].user2, objs[i].user3)
  BY KnownAt
<1>4. CountersFit(KindAt(i), u1, objs[i].user2, objs[i].user3)
  BY <1>3 DEF CountersFit
<1>5. CountersFit(KindAt(i), u1, u2, objs[i].user3)
  BY <1>3 DEF CountersFit
<1>6. /\ Suits(6, objs[i], objs[i].act, objs[i].clipped, u1, objs[i].user2, objs[i].user3)
      /\ Suits(6, objs[i], act, objs[i].clipped, u1, objs[i].user2, objs[i].user3)
      /\ Suits(6, objs[i], act, objs[i].clipped, u1, u2, objs[i].user3)
  BY <1>1, <1>2, <1>4, <1>5, KindSuits DEF KindAt
<1> QED  BY <1>2, <1>6, Ways, SelfKeeps, User1Keeps, User1ActKeeps, User12ActKeeps

\* The steps of a nospike on the ground.
LEMMA SafeNospike ==
    ASSUME IndInv, ck_currentEpisode = 6, NEW i \in Ids, i # 0, CK6_NospikeWalk(i) \/ CK6_NospikeCharge(i)
    PROVE  SafeStep
<1> DEFINE zero == 0
           one == 1
<1>0. zero \in Int /\ one \in Int /\ zero < AirHangTime
  BY Creatures6Assumption
<1>1. KindAt(i) = "Nospike" /\ Action(i).think # "CK4_BirdRecover"
  BY Telling6At DEF CK6_NospikeWalk, CK6_NospikeCharge, May, Thinks, Telling6, KindsOf6
<1>2. CASE CK6_NospikeWalk(i)
  <2>1. \/ May(i, "CK6_NospikeWalk", {"NospikeSit0"})
        \/ ThinkOnly(i, [objs EXCEPT ![i].user1 = zero, ![i].user2 = one, ![i].act = "NospikeCharge0"])
    BY <1>2 DEF CK6_NospikeWalk
  <2> HIDE DEF zero, one
  <2>2. Keeps(6, objs, [objs EXCEPT ![i].user1 = zero, ![i].user2 = one, ![i].act = "NospikeCharge0"])
    BY <1>0, <1>1, NospikeKeeps
  <2>3. {"NospikeSit0"} \in SUBSET Chosen6("Nospike") /\ "Nospike" \in Kinds6
    BY DEF Chosen6, Kinds6
  <2> QED  BY <1>1, <2>1, <2>2, <2>3, SafeMay6, SafeThink DEF ThinkOnly
<1>3. CASE CK6_NospikeCharge(i)
  <2>1. \/ May(i, "CK6_NospikeCharge", {})
        \/ ThinkOnly(i, [objs EXCEPT ![i].user2 = zero, ![i].act = "NospikeWalk0"])
    BY <1>3 DEF CK6_NospikeCharge
  <2> HIDE DEF zero, one
  <2>2. CountersFit(KindAt(i), objs[i].user1, objs[i].user2, objs[i].user3)
    BY KnownAt
  <2>3. CountersFit(KindAt(i), objs[i].user1, zero, objs[i].user3)
    BY <1>1, <2>2 DEF CountersFit
  <2>4. Suits(6, objs[i], "NospikeWalk0", objs[i].clipped, objs[i].user1, zero, objs[i].user3)
    BY <1>0, <1>1, <2>3, Fields, NospikeActs6, KindSuits
  <2>5. Keeps(6, objs, [objs EXCEPT ![i].user2 = zero, ![i].act = "NospikeWalk0"])
    BY <1>0, <2>4, Ways, NospikeActs6, SelfKeeps, User2ActKeeps
  <2> QED  BY <1>1, <2>1, <2>5, SafeMoves, SafeThink DEF ThinkOnly
<1> QED  BY <1>2, <1>3

\* One that has hung in the air as long as it may falls.
LEMMA SafeChargeDraw ==
    ASSUME IndInv, ck_currentEpisode = 6, NEW i \in Ids, CK6_NospikeChargeDraw(i)
    PROVE  SafeStep
<1> DEFINE zero == 0
           n == objs[i].user1 + 1
           a == IF objs[i].user1 + 1 = AirHangTime THEN "NospikeFall0" ELSE objs[i].act
<1>0. zero \in Int /\ zero < AirHangTime /\ AirHangTime \in Nat
  BY Creatures6Assumption
<1>1. KindAt(i) = "Nospike" /\ objs \in [Ids -> ObjType]
  BY Telling6At, ObjectAt DEF CK6_NospikeChargeDraw, Draws, Telling6, KindsOf6
<1>2. objs[i].user1 \in Int /\ objs[i].user2 \in Int /\ objs[i].user3 \in Int /\ objs[i].act \in ActsOf(6)
      /\ objs[i].clipped \in {"normal", "simple", "not"}
  BY Fields, KnownAt
<1>3. CountersFit(KindAt(i), objs[i].user1, objs[i].user2, objs[i].user3)
  BY KnownAt
<1>4. objs[i].user1 < AirHangTime
  BY <1>1, <1>3 DEF CountersFit
<1>5. n \in Int /\ (objs[i].user1 + 1 # AirHangTime => n < AirHangTime)
  BY <1>0, <1>2, <1>4
<1>6. \/ Becomes([objs EXCEPT ![i].user1 = zero])
      \/ Becomes([objs EXCEPT ![i].user1 = zero, ![i].user2 = zero, ![i].act = "NospikeSit0"])
      \/ Becomes([objs EXCEPT ![i].user1 = n, ![i].act = a])
  BY <1>1 DEF CK6_NospikeChargeDraw
<1> HIDE DEF zero
<1>7. /\ Keeps(6, objs, [objs EXCEPT ![i].user1 = zero])
      /\ Keeps(6, objs, [objs EXCEPT ![i].user1 = zero, ![i].user2 = zero, ![i].act = "NospikeSit0"])
  BY <1>0, <1>1, NospikeKeeps
<1>8. CASE objs[i].user1 + 1 = AirHangTime
  <2>1. a = "NospikeFall0" /\ n \in Int
    BY <1>5, <1>8
  <2> HIDE DEF n, a
  <2>2. CountersFit("falling", n, objs[i].user2, objs[i].user3)
    BY <1>1, <1>3 DEF CountersFit
  <2>3. ClippingFits(KindAt(i), objs[i].type, objs[i].active, objs[i].clipped) /\ objs[i].type = "Nospike"
    BY <1>1, KnownAt, Typed DEF TypeOf, Bound
  <2>4. ClippingFits("falling", objs[i].type, objs[i].active, objs[i].clipped)
    BY <1>1, <2>3 DEF ClippingFits
  <2>5. Akin(KindAt(i), "falling") /\ KindAt(i) \notin Waiting /\ "falling" \notin Waiting \cup {"eating"}
    BY <1>1 DEF Akin, TypeOf, Waiting
  <2>6. Suits(6, objs[i], a, objs[i].clipped, n, objs[i].user2, objs[i].user3)
    BY <1>2, <2>1, <2>2, <2>4, <2>5, NospikeActs6, AkinSuits
  <2>7. Keeps(6, objs, [objs EXCEPT ![i].user1 = n, ![i].act = a])
    BY <2>1, <2>6, Ways, NospikeActs6, SelfKeeps, User1ActKeeps
  <2> QED  BY <1>6, <1>7, <2>7, SafeBecomes
<1>9. CASE objs[i].user1 + 1 # AirHangTime
  <2>1. a = objs[i].act /\ n \in Int /\ n < AirHangTime
    BY <1>5, <1>9
  <2> HIDE DEF n, a
  <2>2. Keeps(6, objs, [objs EXCEPT ![i].user1 = n, ![i].act = a])
    BY <1>0, <1>1, <2>1, NospikeKeeps
  <2> QED  BY <1>6, <1>7, <2>2, SafeBecomes
<1> QED  BY <1>8, <1>9

\* One that falls, or runs into another, is stunned.
LEMMA FallsKeeps ==
    ASSUME IndInv, ck_currentEpisode = 6, NEW i \in Ids, i # 0, Is(i, "Nospike"),
           NEW os, Keeps(6, objs, os), os[i] = objs[i]
    PROVE  Keeps(6, objs, NospikeFalls(os, i))
<1>1. Fits(6, KindAt(i), objs[i]) /\ objs[i].type = "Nospike"
  BY ObjectAt DEF Is
<1>2. TypeFits(6, KindAt(i), objs[i])
  BY <1>1 DEF Fits
<1>3. TypeOf(KindAt(i)) = "Nospike"
  BY <1>1, <1>2 DEF TypeFits, Bound
<1>4. KindAt(i) = "Nospike" \/ KindAt(i) = "falling"
  BY <1>3 DEF TypeOf
<1>5. objs[i].clipped # "simple" /\ KindAt(i) \notin Waiting
  BY <1>4, Typed DEF Waiting
<1>6. "Nospike" \in StarSpecs6
  BY DEF StarSpecs6
<1> QED  BY <1>1, <1>5, <1>6, Ways, NospikeActs6, StunKeeps DEF NospikeFalls, KindAt

\* A nospike that lands.
LEMMA SafeFallDraw ==
    ASSUME IndInv, ck_currentEpisode = 6, NEW i \in Ids, i # 0, CK6_NospikeFallDraw2(i)
    PROVE  SafeStep
<1>1. KindAt(i) = "falling"
  BY Telling6At DEF CK6_NospikeFallDraw2, Draws, Telling6, KindsOf6
<1>2. Is(i, "Nospike")
  BY <1>1, Typed DEF TypeOf, Bound, Is
<1> QED  BY <1>2, SelfKeeps, FallsKeeps, SafeBecomes DEF CK6_NospikeFallDraw2

\* Between the plain actions and those that count, of any type.
LEMMA LooseClipping ==
    ASSUME IndInv, NEW i \in Ids, NEW kind \in {"plain", "burning", "vanishing", "bouncing"},
           KindAt(i) \in {"plain", "burning", "vanishing", "bouncing"}
    PROVE  /\ ClippingFits(kind, objs[i].type, objs[i].active, objs[i].clipped)
           /\ Akin(KindAt(i), kind) /\ KindAt(i) \notin Waiting /\ kind \notin Waiting \cup {"eating"}
<1>1. ClippingFits(KindAt(i), objs[i].type, objs[i].active, objs[i].clipped)
  BY KnownAt
<1>2. ClippingFits(kind, objs[i].type, objs[i].active, objs[i].clipped)
  BY <1>1 DEF ClippingFits
<1> QED  BY <1>2 DEF Akin, Loose, Waiting

\* The actions of orbatrixes and of the babobba's shot.
LEMMA LooseActs ==
    /\ "OrbatrixBounce0" \in ActsOf(6) /\ Kind(6, "OrbatrixBounce0") = "bouncing"
    /\ "OrbatrixUncurl0" \in ActsOf(6) /\ Kind(6, "OrbatrixUncurl0") = "plain"
    /\ "OrbatrixUncurl2" \in ActsOf(6) /\ Kind(6, "OrbatrixUncurl2") = "plain"
    /\ "BabobbaShotStart0" \in ActsOf(6) /\ Kind(6, "BabobbaShotStart0") = "burning"
    /\ "BabobbaShotVanish0" \in ActsOf(6) /\ Kind(6, "BabobbaShotVanish0") = "vanishing"
<1>1. /\ "OrbatrixBounce0" \in Chosen6("bouncing") /\ "OrbatrixUncurl0" \in Chosen6("plain")
      /\ "OrbatrixUncurl2" \in Chosen6("plain")
      /\ "BabobbaShotStart0" \in Chosen6("burning") /\ "BabobbaShotVanish0" \in Chosen6("vanishing")
  BY DEF Chosen6
<1> QED  BY <1>1, Chosen6Kinds

\* Orbatrixes float, curl, bounce and rise.
LEMMA SafeOrbatrixDraw ==
    ASSUME IndInv, ck_currentEpisode = 6, NEW i \in Ids, CK6_OrbatrixDraw(i)
    PROVE  SafeStep
<1> DEFINE next == objs[i].user3 + objs[i].user2
           u3 == IF next > FloatSteps THEN FloatSteps ELSE IF next < -FloatSteps THEN -FloatSteps ELSE next
           u2 == IF next > FloatSteps THEN -1 ELSE IF next < -FloatSteps THEN 1 ELSE objs[i].user2
<1>1. KindAt(i) = "plain" /\ objs \in [Ids -> ObjType]
  BY Plain6, ObjectAt DEF CK6_OrbatrixDraw, Draws, Plainly6
<1>2. objs[i].user2 \in Int /\ objs[i].user3 \in Int /\ FloatSteps \in Int
  BY Fields, Creatures6Assumption
<1>3. u2 \in Int /\ u3 \in Int
  BY <1>2
<1>4. Becomes([objs EXCEPT ![i].user3 = u3, ![i].user2 = u2])
  BY <1>1 DEF CK6_OrbatrixDraw
<1> HIDE DEF u2, u3
<1>5. [objs EXCEPT ![i].user3 = u3, ![i].user2 = u2] = [objs EXCEPT ![i].user2 = u2, ![i].user3 = u3]
  BY <1>1 DEF ObjType
<1>6. Keeps(6, objs, [objs EXCEPT ![i].user2 = u2, ![i].user3 = u3])
  BY <1>1, <1>3, PlainUser23
<1> QED  BY <1>4, <1>5, <1>6, SafeBecomes

LEMMA SafeOrbatrixCurl ==
    ASSUME IndInv, ck_currentEpisode = 6, NEW i \in Ids, CK6_OrbatrixCurl(i)
    PROVE  SafeStep
<1>1. KindAt(i) = "plain"
  BY Plain6 DEF CK6_OrbatrixCurl, Thinks, Plainly6
<1>2. BounceCount \in Int /\ BounceCount \in 1 .. BounceCount
  BY Creatures6Assumption
<1>3. CountersFit("bouncing", BounceCount, objs[i].user2, objs[i].user3)
  BY <1>2 DEF CountersFit
<1>4. /\ ClippingFits("bouncing", objs[i].type, objs[i].active, objs[i].clipped)
      /\ Akin(KindAt(i), "bouncing") /\ KindAt(i) \notin Waiting /\ "bouncing" \notin Waiting \cup {"eating"}
  BY <1>1, LooseClipping
<1>5. objs[i].clipped \in {"normal", "simple", "not"} /\ objs[i].user2 \in Int /\ objs[i].user3 \in Int
  BY KnownAt, Fields
<1>6. BounceCount \in Int
  BY <1>2
<1>7. Suits(6, objs[i], "OrbatrixBounce0", objs[i].clipped, BounceCount, objs[i].user2, objs[i].user3)
  BY <1>3, <1>4, <1>5, <1>6, LooseActs, AkinSuits
<1>8. Keeps(6, objs, [objs EXCEPT ![i].user1 = BounceCount, ![i].act = "OrbatrixBounce0"])
  BY <1>6, <1>7, Ways, SelfKeeps, LooseActs, User1ActKeeps
<1> QED  BY <1>8, SafeNothing, SafeBecomes DEF CK6_OrbatrixCurl

LEMMA SafeBounceDraw ==
    ASSUME IndInv, ck_currentEpisode = 6, NEW i \in Ids, CK6_OrbatrixBounceDraw(i)
    PROVE  SafeStep
<1> DEFINE n == objs[i].user1 - 1
           a == IF objs[i].user1 = 1 THEN "OrbatrixUncurl0" ELSE objs[i].act
<1>1. KindAt(i) = "bouncing" /\ objs \in [Ids -> ObjType]
  BY Telling6At, ObjectAt DEF CK6_OrbatrixBounceDraw, Draws, Telling6, KindsOf6
<1>2. Becomes([objs EXCEPT ![i].user1 = n, ![i].act = a])
  BY <1>1 DEF CK6_OrbatrixBounceDraw
<1>3. objs[i].user1 \in Int /\ BounceCount \in Nat
  BY Fields, Creatures6Assumption
<1>4. CountersFit(KindAt(i), objs[i].user1, objs[i].user2, objs[i].user3)
  BY KnownAt
<1>5. objs[i].user1 \in 1 .. BounceCount
  BY <1>1, <1>4 DEF CountersFit
<1>6. n \in Int /\ (objs[i].user1 # 1 => n \in 1 .. BounceCount)
  BY <1>3, <1>5
<1>7. objs[i].clipped \in {"normal", "simple", "not"} /\ objs[i].user2 \in Int /\ objs[i].user3 \in Int
      /\ objs[i].act \in ActsOf(6)
  BY KnownAt, Fields
<1>8. CASE objs[i].user1 = 1
  <2>1. a = "OrbatrixUncurl0" /\ n \in Int
    BY <1>6, <1>8
  <2> HIDE DEF n, a
  <2>2. CountersFit("plain", n, objs[i].user2, objs[i].user3)
    BY DEF CountersFit
  <2>3. /\ ClippingFits("plain", objs[i].type, objs[i].active, objs[i].clipped)
        /\ Akin(KindAt(i), "plain") /\ KindAt(i) \notin Waiting /\ "plain" \notin Waiting \cup {"eating"}
    BY <1>1, LooseClipping
  <2>4. Suits(6, objs[i], a, objs[i].clipped, n, objs[i].user2, objs[i].user3)
    BY <1>7, <2>1, <2>2, <2>3, LooseActs, AkinSuits
  <2> QED  BY <1>2, <2>1, <2>4, Ways, LooseActs, SelfKeeps, User1ActKeeps, SafeBecomes
<1>9. CASE objs[i].user1 # 1
  <2>1. a = objs[i].act /\ n \in Int
    BY <1>6, <1>9
  <2>2. CountersFit(KindAt(i), n, objs[i].user2, objs[i].user3)
    BY <1>1, <1>6, <1>9 DEF CountersFit
  <2> HIDE DEF n, a
  <2>3. Suits(6, objs[i], a, objs[i].clipped, n, objs[i].user2, objs[i].user3)
    BY <1>7, <2>1, <2>2, KindSuits DEF KindAt
  <2> QED  BY <1>2, <1>7, <2>1, <2>3, Ways, SelfKeeps, User1ActKeeps, SafeBecomes
<1> QED  BY <1>8, <1>9

\* Bips, and their ships, which may shoot and turn in one frame.
LEMMA SafeBips ==
    ASSUME IndInv, ck_currentEpisode = 6, NEW i \in Ids, i # 0,
           CK6_BipShotDraw(i) \/ CK6_BipshipFly(i) \/ CK6_BipshipCrash(i)
    PROVE  SafeStep
<1>0. {"BipShot0", "BipStand0", "BipshipFly0", "BipshipTurn0"} \subseteq Chosen6("plain")
  BY DEF Chosen6
<1>1. KindAt(i) = "plain"
  BY Plain6 DEF CK6_BipShotDraw, CK6_BipshipFly, CK6_BipshipCrash, Thinks, Draws, Plainly6
<1>2. CASE CK6_BipShotDraw(i)
  BY <1>1, <1>2, SafeRemove DEF CK6_BipShotDraw, Waiting
<1>3. CASE CK6_BipshipFly(i)
  <2> DEFINE shot == CK_GetNewObj(objs, Debris("EnemyShot", "BipShot0"))
  <2>1. PICK os \in {objs, shot}, act \in {"BipshipFly0", "BipshipTurn0"} : Becomes(SetAct(os, i, act))
    BY <1>3 DEF CK6_BipshipFly
  <2>2. "BipShot0" \in ActsOf(6) /\ Kind(6, "BipShot0") = "plain" /\ act \in ActsOf(6) /\ Kind(6, act) = "plain"
    BY <1>0, <2>1, Plain6Acts
  <2>3. "EnemyShot" \in Ordinary /\ "onscreen" \in {"active", "onscreen", "always", "inactive"}
    BY DEF Ordinary
  <2>4. Keeps(6, objs, shot)
    BY <2>2, <2>3, Ways, SelfKeeps, NewPlainKeeps DEF Debris
  <2>5. shot[i].act = objs[i].act \/ shot[i].act = "BipShot0"
    <3>1. Debris("EnemyShot", "BipShot0").act = "BipShot0" /\ objs \in [Ids -> ObjType]
      BY ObjectAt DEF Debris, Obj
    <3> QED  BY <3>1 DEF CK_GetNewObj
  <2> HIDE DEF shot
  <2>6. Keeps(6, objs, os) /\ Kind(6, os[i].act) = "plain"
    BY <1>1, <2>1, <2>2, <2>4, <2>5, SelfKeeps DEF KindAt
  <2> QED  BY <2>1, <2>2, <2>6, Ways, ActKeeps, SafeBecomes
<1>4. CASE CK6_BipshipCrash(i)
  <2>1. "Bip" \in Ordinary /\ "active" \in {"active", "onscreen", "always", "inactive"}
    BY DEF Ordinary
  <2>2. "BipStand0" \in ActsOf(6) /\ Kind(6, "BipStand0") = "plain"
    BY <1>0, Plain6Acts
  <2>3. "CK6_BipshipCrash" # "CK4_BirdRecover"
    OBVIOUS
  <2> QED  BY <1>4, <2>1, <2>2, <2>3, SafeNewThink DEF CK6_BipshipCrash, Creature
<1> QED  BY <1>2, <1>3, <1>4

\* Bobbas and babobbas hop, and shoot after a number of hops.
LEMMA HopActs ==
    /\ "BobbaShoot0" \in ActsOf(6) /\ Kind(6, "BobbaShoot0") = "Bobba"
    /\ "BabobbaSit1" \in ActsOf(6) /\ Kind(6, "BabobbaSit1") = "Babobba"
    /\ "BabobbaNap0" \in ActsOf(6) /\ Kind(6, "BabobbaNap0") = "Babobba"
    /\ "BobbaTwinkle0" \in ActsOf(6) /\ Kind(6, "BobbaTwinkle0") = "plain"
<1>1. /\ "BobbaShoot0" \in Chosen6("Bobba") /\ {"BabobbaSit1", "BabobbaNap0"} \subseteq Chosen6("Babobba")
      /\ "BobbaTwinkle0" \in Chosen6("plain")
  BY DEF Chosen6
<1> QED  BY <1>1, Chosen6Kinds

\* What a bobba or a babobba shoots.
LEMMA HopShotGood ==
    ASSUME NEW shot \in {"BobbaTwinkle0", "BabobbaShotStart0"}
    PROVE  /\ Good(6, Debris("EnemyShot", shot)) /\ Debris("EnemyShot", shot).type \notin Rare
           /\ Kind(6, Debris("EnemyShot", shot).act) # "eating"
<1> DEFINE o == Debris("EnemyShot", shot)
<1>1. /\ o.type = "EnemyShot" /\ o.act = shot /\ o.active = "onscreen" /\ o.clipped = "normal" /\ o.hit = ""
      /\ o.user1 = 0
  BY DEF Debris, Obj
<1>2. "EnemyShot" \in Ordinary /\ "EnemyShot" \notin Rare /\ "onscreen" \in {"active", "onscreen", "always", "inactive"}
  BY DEF Ordinary, Rare
<1>3. CASE shot = "BobbaTwinkle0"
  BY <1>1, <1>2, <1>3, Ways, HopActs, ObjGood DEF Debris
<1>4. CASE shot = "BabobbaShotStart0"
  <2>1. shot \in ActsOf(6) /\ Kind(6, shot) = "burning"
    BY <1>4, LooseActs
  <2>2. "EnemyShot" \in Types /\ shot \in Acts /\ "" \in Types \cup {""} /\ 0 \in Ids /\ "normal" \in {"normal", "simple", "not"}
    BY <1>2, <2>1, Ways, ActsIn, ZeroId DEF Types
  <2>3. o \in ObjType
    BY <1>2, <2>2 DEF Debris, Obj, ObjType
  <2> HIDE DEF o
  <2>4. TypeFits(6, "burning", o)
    BY <1>1 DEF TypeFits, TypeOf, Bound
  <2>5. ClippingFits("burning", o.type, o.active, o.clipped)
    BY <1>1 DEF ClippingFits
  <2>6. CountersFit("burning", o.user1, o.user2, o.user3)
    <3>1. 0 < DecayTime
      BY Creatures6Assumption
    <3> QED  BY <1>1, <3>1 DEF CountersFit
  <2>7. Good(6, o)
    BY <1>1, <2>1, <2>3, <2>4, <2>5, <2>6 DEF Good, Fits
  <2>8. Kind(6, o.act) # "eating"
    BY <1>1, <2>1
  <2> QED  BY <1>1, <1>2, <2>7, <2>8 DEF o
<1> QED  BY <1>3, <1>4

\* The hops are counted.
LEMMA HoppingKeeps ==
    ASSUME IndInv, ck_currentEpisode = 6, NEW i \in Ids, KindAt(i) \in {"Bobba", "Babobba"},
           NEW u1 \in Int, u1 < HopsPerShot, NEW act \in ActsOf(6), Kind(6, act) = KindAt(i)
    PROVE  /\ Keeps(6, objs, [objs EXCEPT ![i].user1 = u1])
           /\ Keeps(6, objs, [objs EXCEPT ![i].user1 = u1, ![i].act = act])
<1>1. objs[i].user2 \in Int /\ objs[i].user3 \in Int /\ objs[i].act \in ActsOf(6)
  BY Fields
<1>2. CountersFit(KindAt(i), u1, objs[i].user2, objs[i].user3)
  BY DEF CountersFit
<1>3. /\ Suits(6, objs[i], objs[i].act, objs[i].clipped, u1, objs[i].user2, objs[i].user3)
      /\ Suits(6, objs[i], act, objs[i].clipped, u1, objs[i].user2, objs[i].user3)
  BY <1>1, <1>2, KindSuits DEF KindAt
<1> QED  BY <1>3, Ways, SelfKeeps, User1Keeps, User1ActKeeps

\* At a hop, and between them.
LEMMA SafeHops ==
    ASSUME IndInv, ck_currentEpisode = 6, NEW i \in Ids, i # 0, KindAt(i) \in {"Bobba", "Babobba"},
           Action(i).think # "CK4_BirdRecover", NEW shot \in {"BobbaTwinkle0", "BabobbaShotStart0"},
           NEW act \in ActsOf(6), Kind(6, act) = KindAt(i), Hops(i, shot, act)
    PROVE  SafeStep
<1> DEFINE zero == 0
           n == objs[i].user1 + 1
<1>1. zero \in Int /\ zero < HopsPerShot /\ HopsPerShot \in Nat
  BY Creatures6Assumption
<1>2. objs[i].user1 \in Int /\ objs \in [Ids -> ObjType]
  BY Fields, ObjectAt
<1>3. CountersFit(KindAt(i), objs[i].user1, objs[i].user2, objs[i].user3)
  BY KnownAt
<1>4. objs[i].user1 < HopsPerShot
  BY <1>3 DEF CountersFit
<1>5. CASE objs[i].user1 + 1 = HopsPerShot
  <2>1. ThinkOnly(i, CK_GetNewObj([objs EXCEPT ![i].user1 = zero, ![i].act = act], Debris("EnemyShot", shot)))
    BY <1>5 DEF Hops
  <2> HIDE DEF zero
  <2>2. Keeps(6, objs, [objs EXCEPT ![i].user1 = zero, ![i].act = act])
    BY <1>1, HoppingKeeps
  <2>3. Keeps(6, objs, CK_GetNewObj([objs EXCEPT ![i].user1 = zero, ![i].act = act], Debris("EnemyShot", shot)))
    BY <2>2, Ways, HopShotGood, NewKeeps
  <2> QED  BY <2>1, <2>3, SafeThink DEF ThinkOnly
<1>6. CASE objs[i].user1 + 1 # HopsPerShot
  <2>1. ThinkOnly(i, [objs EXCEPT ![i].user1 = n])
    BY <1>2, <1>6 DEF Hops
  <2>2. n \in Int /\ n < HopsPerShot
    BY <1>1, <1>2, <1>4, <1>6
  <2> HIDE DEF n
  <2>3. Keeps(6, objs, [objs EXCEPT ![i].user1 = n])
    BY <2>2, HoppingKeeps
  <2> QED  BY <2>1, <2>3, SafeThink DEF ThinkOnly
<1> QED  BY <1>5, <1>6

\* Every step of these two.
LEMMA SafeBobbas ==
    ASSUME IndInv, ck_currentEpisode = 6, NEW i \in Ids, i # 0, CK6_Bobba(i) \/ CK6_BabobbaSit(i)
    PROVE  SafeStep
<1>1. CASE CK6_Bobba(i)
  <2>1. KindAt(i) = "Bobba" /\ Action(i).think # "CK4_BirdRecover"
    BY <1>1, Telling6At DEF CK6_Bobba, Thinks, Telling6, KindsOf6
  <2> QED  BY <1>1, <2>1, HopActs, SafeHops DEF CK6_Bobba
<1>2. CASE CK6_BabobbaSit(i)
  <2> DEFINE zero == 0
  <2>1. KindAt(i) = "Babobba" /\ Action(i).think # "CK4_BirdRecover"
    BY <1>2, Telling6At DEF CK6_BabobbaSit, Thinks, Telling6, KindsOf6
  <2>2. zero \in Int /\ zero < HopsPerShot
    BY Creatures6Assumption
  <2>3. \/ ThinkOnly(i, [objs EXCEPT ![i].user1 = zero, ![i].act = "BabobbaNap0"])
        \/ Hops(i, "BabobbaShotStart0", "BabobbaSit1")
    BY <1>2 DEF CK6_BabobbaSit
  <2> HIDE DEF zero
  <2>4. Keeps(6, objs, [objs EXCEPT ![i].user1 = zero, ![i].act = "BabobbaNap0"])
    BY <2>1, <2>2, HopActs, HoppingKeeps
  <2> QED  BY <2>1, <2>3, <2>4, HopActs, SafeHops, SafeThink DEF ThinkOnly
<1> QED  BY <1>1, <1>2

\* The shot burns down and is gone.
LEMMA SafeBurns ==
    ASSUME IndInv, ck_currentEpisode = 6, NEW i \in Ids, i # 0, CK6_BabobbaShot(i)
    PROVE  SafeStep
<1> DEFINE zero == 0
           n == objs[i].user1 + 1
<1>1. KindAt(i) = "burning" /\ Action(i).think # "CK4_BirdRecover" /\ objs \in [Ids -> ObjType]
  BY Telling6At, ObjectAt DEF CK6_BabobbaShot, Thinks, Telling6, KindsOf6
<1>2. zero \in Int /\ zero < VanishTime /\ DecayTime \in Nat
  BY Creatures6Assumption
<1>3. objs[i].user1 \in Int /\ objs[i].user2 \in Int /\ objs[i].user3 \in Int /\ objs[i].act \in ActsOf(6)
      /\ objs[i].clipped \in {"normal", "simple", "not"}
  BY Fields, KnownAt
<1>4. CountersFit(KindAt(i), objs[i].user1, objs[i].user2, objs[i].user3)
  BY KnownAt
<1>5. objs[i].user1 < DecayTime
  BY <1>1, <1>4 DEF CountersFit
<1>6. CASE objs[i].user1 + 1 = DecayTime
  <2>1. ThinkOnly(i, [objs EXCEPT ![i].user1 = zero, ![i].act = "BabobbaShotVanish0"])
    BY <1>6 DEF CK6_BabobbaShot
  <2> HIDE DEF zero
  <2>2. CountersFit("vanishing", zero, objs[i].user2, objs[i].user3)
    BY <1>2 DEF CountersFit
  <2>3. /\ ClippingFits("vanishing", objs[i].type, objs[i].active, objs[i].clipped)
        /\ Akin(KindAt(i), "vanishing") /\ KindAt(i) \notin Waiting /\ "vanishing" \notin Waiting \cup {"eating"}
    BY <1>1, LooseClipping
  <2>4. Suits(6, objs[i], "BabobbaShotVanish0", objs[i].clipped, zero, objs[i].user2, objs[i].user3)
    BY <1>2, <1>3, <2>2, <2>3, LooseActs, AkinSuits
  <2>5. Keeps(6, objs, [objs EXCEPT ![i].user1 = zero, ![i].act = "BabobbaShotVanish0"])
    BY <1>2, <2>4, Ways, LooseActs, SelfKeeps, User1ActKeeps
  <2> QED  BY <1>1, <2>1, <2>5, SafeThink DEF ThinkOnly
<1>7. CASE objs[i].user1 + 1 # DecayTime
  <2>1. ThinkOnly(i, [objs EXCEPT ![i].user1 = n])
    BY <1>1, <1>7 DEF CK6_BabobbaShot
  <2>2. n \in Int /\ n < DecayTime
    BY <1>2, <1>3, <1>5, <1>7
  <2> HIDE DEF n
  <2>3. CountersFit(KindAt(i), n, objs[i].user2, objs[i].user3)
    BY <1>1, <2>2 DEF CountersFit
  <2>4. Suits(6, objs[i], objs[i].act, objs[i].clipped, n, objs[i].user2, objs[i].user3)
    BY <1>3, <2>2, <2>3, KindSuits DEF KindAt
  <2>5. Keeps(6, objs, [objs EXCEPT ![i].user1 = n])
    BY <2>2, <2>4, Ways, SelfKeeps, User1Keeps
  <2> QED  BY <1>1, <2>1, <2>5, SafeThink DEF ThinkOnly
<1> QED  BY <1>6, <1>7

\* What is left of the shot.
LEMMA SafeVanishes ==
    ASSUME IndInv, ck_currentEpisode = 6, NEW i \in Ids, i # 0, CK6_BabobbaShotVanish(i)
    PROVE  SafeStep
<1> DEFINE n == objs[i].user1 + 1
<1>1. KindAt(i) = "vanishing" /\ Action(i).think # "CK4_BirdRecover" /\ objs \in [Ids -> ObjType]
  BY Telling6At, ObjectAt DEF CK6_BabobbaShotVanish, Thinks, Telling6, KindsOf6
<1>2. VanishTime \in Nat
  BY Creatures6Assumption
<1>3. objs[i].user1 \in Int /\ objs[i].user2 \in Int /\ objs[i].user3 \in Int /\ objs[i].act \in ActsOf(6)
  BY Fields
<1>4. CountersFit(KindAt(i), objs[i].user1, objs[i].user2, objs[i].user3)
  BY KnownAt
<1>5. objs[i].user1 < VanishTime
  BY <1>1, <1>4 DEF CountersFit
<1>6. CASE objs[i].user1 + 1 = VanishTime
  <2>1. ThinkOnly(i, CK_RemoveObj(objs, i))
    BY <1>6 DEF CK6_BabobbaShotVanish
  <2> QED  BY <1>1, <2>1, NotWaiting6, SafeThinkRemove
<1>7. CASE objs[i].user1 + 1 # VanishTime
  <2>1. ThinkOnly(i, [objs EXCEPT ![i].user1 = n])
    BY <1>1, <1>7 DEF CK6_BabobbaShotVanish
  <2>2. n \in Int /\ n < VanishTime
    BY <1>2, <1>3, <1>5, <1>7
  <2> HIDE DEF n
  <2>3. CountersFit(KindAt(i), n, objs[i].user2, objs[i].user3)
    BY <1>1, <2>2 DEF CountersFit
  <2>4. Suits(6, objs[i], objs[i].act, objs[i].clipped, n, objs[i].user2, objs[i].user3)
    BY <1>3, <2>2, <2>3, KindSuits DEF KindAt
  <2>5. Keeps(6, objs, [objs EXCEPT ![i].user1 = n])
    BY <2>2, <2>4, Ways, SelfKeeps, User1Keeps
  <2> QED  BY <1>1, <2>1, <2>5, SafeThink DEF ThinkOnly
<1> QED  BY <1>6, <1>7

\* Every step of Keen 6.
LEMMA SafeStep6 ==
    ASSUME IndInv, ck_currentEpisode = 6, NEW i \in Ids, i # 0, Step6(i)
    PROVE  SafeStep
<1>1. CASE Moves6(i) \/ PlainStep6(i) \/ Chooses6(i)
  BY <1>1, SafeMoves6, SafePlainStep6, SafeChooses6
<1>2. CASE CK6_GikJumpDraw(i) \/ CK6_OrbatrixUncurlThink(i)
  BY <1>2, SafeFollows6
<1>3. CASE CK6_BloogguardSmash(i) \/ CK6_MultihitDraw(i)
  BY <1>3, SafeSmash, SafeMultihit
<1>4. CASE CK6_NospikeWalk(i) \/ CK6_NospikeCharge(i)
  BY <1>4, SafeNospike
<1>5. CASE CK6_NospikeFallDraw2(i) \/ CK6_NospikeChargeDraw(i)
  BY <1>5, SafeFallDraw, SafeChargeDraw
<1>6. CASE CK6_OrbatrixDraw(i) \/ CK6_OrbatrixBounceDraw(i) \/ CK6_OrbatrixCurl(i)
  BY <1>6, SafeOrbatrixDraw, SafeBounceDraw, SafeOrbatrixCurl
<1>7. CASE CK6_BipShotDraw(i) \/ CK6_BipshipFly(i) \/ CK6_BipshipCrash(i)
  BY <1>7, SafeBips
<1>8. CASE CK6_Bobba(i) \/ CK6_BabobbaSit(i)
  BY <1>8, SafeBobbas
<1>9. CASE CK6_BabobbaShot(i) \/ CK6_BabobbaShotVanish(i)
  BY <1>9, SafeBurns, SafeVanishes
<1> QED  BY <1>1, <1>2, <1>3, <1>4, <1>5, <1>6, <1>7, <1>8, <1>9 DEF Step6, Moves6, PlainStep6, Chooses6

\* What Keen has come for.
LEMMA SafeStoryItem ==
    ASSUME IndInv, ck_currentEpisode = 6, NEW i \in Ids, NEW j \in Ids, CK6_StoryItemCol(i, j)
    PROVE  SafeStep
<1>0. /\ KeenTouches(i, "CK6_StoryItemCol", j)
      /\ EndsLevel(objs, CASE Is(i, "Rope") -> "LS_Rope"
                           [] Is(i, "Passcard") -> "LS_Passcard"
                           [] Is(i, "Molly") -> "LS_Molly"
                           [] Is(i, "Sandwich") -> "LS_Sandwich")
  BY DEF CK6_StoryItemCol
<1>1. KindAt(i) \in {"Molly", "Passcard", "Rope", "Sandwich"}
  <2>1. Action(i).collide = "CK6_StoryItemCol"
    BY <1>0 DEF KeenTouches, Touches
  <2> QED  BY <2>1, Telling6At DEF Telling6, KindsOf6
<1>2. objs[i].type \in {"Molly", "Passcard", "Rope", "Sandwich"}
  BY <1>1, Typed DEF TypeOf, Bound
<1>3. PICK state \in {"LS_Rope", "LS_Passcard", "LS_Molly", "LS_Sandwich"} : EndsLevel(objs, state)
  <2>1. CASE Is(i, "Rope")
    BY <1>0, <2>1 DEF Is
  <2>2. CASE Is(i, "Passcard")
    BY <1>0, <2>2 DEF Is
  <2>3. CASE Is(i, "Molly")
    BY <1>0, <2>3 DEF Is
  <2>4. CASE Is(i, "Sandwich")
    BY <1>0, <2>4 DEF Is
  <2> QED  BY <1>2, <2>1, <2>2, <2>3, <2>4 DEF Is
<1>4. state \in LevelStates
  BY <1>3 DEF LevelStates
<1> QED  BY <1>3, <1>4, SafeEnds

\* The creatures that a shot stuns have stars for it.
Starred == {"Bloog", "Bloogguard", "Blooglet", "Nospike", "Flect", "Fleex", "Babobba", "Ceilick"}

\* What a shot stuns in Keen 6 has a place for its stars.
LEMMA StarredAt ==
    ASSUME IndInv, NEW i \in Ids, KindAt(i) \in Starred
    PROVE  objs[i].type \in StarSpecs6 /\ objs[i].clipped # "simple" /\ KindAt(i) \notin Waiting
           /\ KindAt(i) # "stunned" /\ objs[i].type \notin {"Nothing", "Stunner", "Item"}
<1>1. objs[i].type = KindAt(i)
  BY Typed DEF Starred, TypeOf, Bound
<1> QED  BY <1>1, Typed DEF Starred, StarSpecs6, Waiting

\* So it is stunned.
LEMMA SafeStuns6 ==
    ASSUME IndInv, ck_currentEpisode = 6, NEW i \in Ids, i # 0, NEW j \in Ids, i # j, Is(j, "Stunner"),
           KindAt(i) \in Starred, NEW act \in Chosen6("stunned"), Stuns(i, j, act)
    PROVE  SafeStep
<1>1. act \in ActsOf(6) /\ Kind(6, act) = "stunned"
  BY Chosen6Kinds
<1> QED  BY <1>1, StarredAt, SafeStuns

\* A hit that is not the last.
LEMMA SafeHurts ==
    ASSUME IndInv, ck_currentEpisode = 6, NEW i \in Ids, NEW j \in Ids, i # j, Is(j, "Stunner"),
           KindAt(i) \in {"Bloogguard", "Fleex"}, objs[i].user2 # 1,
           NEW act \in ActsOf(6), Kind(6, act) = KindAt(i), Hurts(i, j, act)
    PROVE  SafeStep
<1> DEFINE n == objs[i].user2 - 1
           two == 2
           hit == [objs EXCEPT ![i].user2 = n, ![i].user1 = two, ![i].act = act]
<1>1. objs \in [Ids -> ObjType] /\ objs[i].user2 \in Int /\ objs[i].user3 \in Int
  BY ObjectAt, Fields
<1>2. Becomes(CK_ShotHit(hit, j)) /\ objs[j].type = "Stunner"
  BY <1>1 DEF Hurts, Is
<1>3. hit[j].type = "Stunner"
  BY <1>1, <1>2
<1>4. CountersFit(KindAt(i), objs[i].user1, objs[i].user2, objs[i].user3)
  BY KnownAt
<1>5. objs[i].user2 > 0
  BY <1>4 DEF CountersFit
<1>6. n \in Int /\ n > 0 /\ two \in Int
  BY <1>1, <1>5
<1> HIDE DEF n, two
<1>7. CountersFit(KindAt(i), two, n, objs[i].user3)
  BY <1>4, <1>6 DEF CountersFit
<1>8. Suits(6, objs[i], act, objs[i].clipped, two, n, objs[i].user3)
  BY <1>1, <1>6, <1>7, KindSuits
<1>9. Keeps(6, objs, [objs EXCEPT ![i].user1 = two, ![i].user2 = n, ![i].act = act])
  BY <1>6, <1>8, Ways, SelfKeeps, User12ActKeeps
<1>10. Keeps(6, objs, hit)
  BY <1>1, <1>9, User21Act
<1> HIDE DEF hit
<1> QED  BY <1>2, <1>3, <1>10, SafeShotHit

\* Bloogguards and fleexes.
LEMMA SafeGuardCol ==
    ASSUME IndInv, ck_currentEpisode = 6, NEW i \in Ids, i # 0, NEW j \in Ids,
           CK6_BloogguardCol(i, j) \/ CK6_FleexCol(i, j)
    PROVE  SafeStep
<1>0. {"BloogguardStunned0", "FleexStunned0"} \subseteq Chosen6("stunned")
  BY DEF Chosen6
<1>1. objs[i].act \in ActsOf(6) /\ Kind(6, objs[i].act) = KindAt(i)
  BY Fields DEF KindAt
<1>2. CASE CK6_BloogguardCol(i, j)
  <2>1. KindAt(i) = "Bloogguard" /\ i # j
    BY <1>2, Telling6At DEF CK6_BloogguardCol, KeenTouches, ShotTouches, Touches, Telling6, KindsOf6
  <2>2. KindAt(i) \in Starred
    BY <2>1 DEF Starred
  <2>3. KindAt(i) # "stunned"
    BY <2>1
  <2>4. CASE Kills(i)
    BY <2>3, <2>4, SafeHits
  <2>5. CASE Is(j, "Stunner") /\ objs[i].user2 = 1 /\ Stuns(i, j, "BloogguardStunned0")
    BY <1>0, <2>1, <2>2, <2>5, SafeStuns6
  <2>6. CASE Is(j, "Stunner") /\ objs[i].user2 # 1 /\ Hurts(i, j, objs[i].act)
    BY <1>1, <2>1, <2>6, SafeHurts
  <2> QED  BY <1>2, <2>4, <2>5, <2>6 DEF CK6_BloogguardCol, ShotTouches
<1>3. CASE CK6_FleexCol(i, j)
  <2> DEFINE act == IF objs[i].act \in {"FleexSearch0", "FleexSearch1"} THEN "FleexWalk0" ELSE objs[i].act
  <2>1. KindAt(i) = "Fleex" /\ i # j
    BY <1>3, Telling6At DEF CK6_FleexCol, KeenTouches, ShotTouches, Touches, Telling6, KindsOf6
  <2>2. KindAt(i) \in Starred
    BY <2>1 DEF Starred
  <2>3. KindAt(i) # "stunned"
    BY <2>1
  <2>4. "FleexWalk0" \in ActsOf(6) /\ Kind(6, "FleexWalk0") = "Fleex"
    <3>1. "FleexWalk0" \in Chosen6("Fleex")
      BY DEF Chosen6
    <3> QED  BY <3>1, Chosen6Kinds
  <2>5. act \in ActsOf(6) /\ Kind(6, act) = KindAt(i)
    BY <1>1, <2>1, <2>4
  <2>6. CASE Kills(i)
    BY <2>3, <2>6, SafeHits
  <2>7. CASE Is(j, "Stunner") /\ objs[i].user2 = 1 /\ Stuns(i, j, "FleexStunned0")
    BY <1>0, <2>1, <2>2, <2>7, SafeStuns6
  <2>8. CASE Is(j, "Stunner") /\ objs[i].user2 # 1 /\ Hurts(i, j, act)
    <3> HIDE DEF act
    <3> QED  BY <2>1, <2>5, <2>8, SafeHurts
  <2> QED  BY <1>3, <2>6, <2>7, <2>8 DEF CK6_FleexCol, ShotTouches
<1> QED  BY <1>2, <1>3

\* A blooglet drops its gem.
LEMMA GemGood ==
    ASSUME NEW colour \in Int
    PROVE  LET gem == [Creature("Item", "fallingitem") EXCEPT !.user1 = colour] IN
           Good(6, gem) /\ gem.type \notin Rare /\ Kind(6, gem.act) # "eating"
<1> DEFINE gem == [Creature("Item", "fallingitem") EXCEPT !.user1 = colour]
           o == Creature("Item", "fallingitem")
<1>1. "fallingitem" \in ActsOf(6) /\ Kind(6, "fallingitem") = "plain"
  BY Ways, CommonKinds DEF CommonActs, Shots
<1>2. "Item" \in Ordinary /\ "Item" \notin Rare /\ "active" \in {"active", "onscreen", "always", "inactive"}
  BY DEF Ordinary, Rare
<1>3. Good(6, o)
  BY <1>1, <1>2, Ways, ObjGood DEF Creature
<1>4. o \in ObjType
  BY <1>3 DEF Good
<1>5. o.type = "Item" /\ o.act = "fallingitem" /\ o.hit = "" /\ o.clipped = "normal"
  BY DEF Creature, Obj
<1> HIDE DEF o
<1>6. gem = [o EXCEPT !.user1 = colour]
  BY DEF o
<1> HIDE DEF gem
<1>7. gem \in ObjType /\ gem.type = "Item" /\ gem.act = "fallingitem" /\ gem.hit = "" /\ gem.clipped = "normal"
  BY <1>4, <1>5, <1>6 DEF ObjType
<1>8. Good(6, gem)
  BY <1>1, <1>2, <1>7, Ways, PlainGood
<1> QED  BY <1>1, <1>2, <1>7, <1>8 DEF gem

\* A blooglet is stunned.
LEMMA SafeBloogletCol ==
    ASSUME IndInv, ck_currentEpisode = 6, NEW i \in Ids, i # 0, NEW j \in Ids, CK6_BloogletCol(i, j)
    PROVE  SafeStep
<1> DEFINE colour == objs[i].user1 % 4
           gem == [Creature("Item", "fallingitem") EXCEPT !.user1 = colour]
           os == IF objs[i].user1 > 3 THEN CK_GetNewObj(objs, gem) ELSE objs
           act == <<"BloogletRStunned0", "BloogletYStunned0", "BloogletBStunned0", "BloogletGStunned0">>[colour + 1]
<1>1. KindAt(i) = "Blooglet" /\ i # j /\ Is(j, "Stunner") /\ objs \in [Ids -> ObjType]
  BY Telling6At, ObjectAt DEF CK6_BloogletCol, ShotTouches, Touches, Telling6, KindsOf6
<1>2. CK_StunCreature(os, i, j, act)
  BY DEF CK6_BloogletCol
<1>3. objs[i].user1 \in Int
  BY Fields
<1>4. colour = 0 \/ colour = 1 \/ colour = 2 \/ colour = 3
  BY <1>3
<1>5. act \in {"BloogletRStunned0", "BloogletYStunned0", "BloogletBStunned0", "BloogletGStunned0"}
  BY <1>4
<1>6. colour \in Int
  BY <1>4
<1> HIDE DEF act, colour
<1>7. act \in ActsOf(6) /\ Kind(6, act) = "stunned"
  <2>1. act \in Chosen6("stunned")
    BY <1>5 DEF Chosen6
  <2> QED  BY <2>1, Chosen6Kinds
<1>8. Good(6, gem) /\ gem.type \notin Rare /\ Kind(6, gem.act) # "eating"
  BY <1>6, GemGood
<1> HIDE DEF gem
<1>9. KindAt(i) \in Starred
  BY <1>1 DEF Starred
<1>10. objs[i].type \in StarSpecs6 /\ objs[i].clipped # "simple" /\ KindAt(i) \notin Waiting
       /\ objs[i].type # "Nothing" /\ objs[j].type # "Nothing"
  BY <1>1, <1>9, StarredAt DEF Is
<1>11. Keeps(6, objs, os)
  BY <1>8, Ways, SelfKeeps, NewKeeps
<1>12. os[i] = objs[i] /\ os[j] = objs[j]
  <2> DEFINE free == {k \in Ids : objs[k].type = "Nothing"}
             slot == CHOOSE k \in free : \A k2 \in free : k <= k2
  <2>1. CK_GetNewObj(objs, gem) = IF free = {} THEN objs ELSE [objs EXCEPT ![slot] = gem]
    BY DEF CK_GetNewObj
  <2>2. i \notin free /\ j \notin free
    BY <1>10
  <2>3. free # {} => slot \in free
    <3>1. SUFFICES ASSUME free # {} PROVE \E k \in free : \A k2 \in free : k <= k2
      OBVIOUS
    <3>2. free \subseteq Nat
      BY CreaturesAssumption DEF Ids
    <3> HIDE DEF free
    <3> QED  BY <3>1, <3>2, LeastElement
  <2> HIDE DEF free, slot
  <2> QED  BY <1>1, <2>1, <2>2, <2>3
<1> HIDE DEF os
<1> QED  BY <1>1, <1>2, <1>7, <1>10, <1>11, <1>12, SafeStun DEF KindAt

\* A shot makes a nospike charge; two that charge at each other fall stunned.
LEMMA SafeNospikeCol ==
    ASSUME IndInv, ck_currentEpisode = 6, NEW i \in Ids, i # 0, NEW j \in Ids, CK6_NospikeCol(i, j)
    PROVE  SafeStep
<1>1. Action(i).collide = "CK6_NospikeCol" /\ i # j
  BY DEF CK6_NospikeCol, KeenTouches, ShotTouches, Touches
<1>2. KindAt(i) = "Nospike"
  BY <1>1, Telling6At DEF Telling6, KindsOf6
<1>3. KindAt(i) # "stunned" /\ KindAt(i) \in Starred
  BY <1>2 DEF Starred
<1>4. objs \in [Ids -> ObjType] /\ objs[i].user1 \in Int /\ objs[i].user2 \in Int /\ objs[i].user3 \in Int
  BY ObjectAt, Fields
<1>5. CASE KeenTouches(i, "CK6_NospikeCol", j) /\ Kills(i)
  BY <1>3, <1>5, SafeHits
<1>6. CASE Is(j, "Stunner") /\ objs[i].user3 = 1 /\ Stuns(i, j, "NospikeStunned0")
  <2>1. "NospikeStunned0" \in Chosen6("stunned")
    BY DEF Chosen6
  <2> QED  BY <1>1, <1>3, <1>6, <2>1, SafeStuns6
<1>7. CASE /\ Is(j, "Stunner") /\ objs[i].user3 # 1
           /\ Becomes(CK_ShotHit([objs EXCEPT ![i].user3 = @ - 1, ![i].act = "NospikeCharge0"], j))
  <2> DEFINE n == objs[i].user3 - 1
             hit == [objs EXCEPT ![i].user3 = n, ![i].act = "NospikeCharge0"]
  <2>1. [objs EXCEPT ![i].user3 = @ - 1, ![i].act = "NospikeCharge0"] = hit
    BY <1>4
  <2>2. Becomes(CK_ShotHit(hit, j)) /\ objs[j].type = "Stunner"
    BY <1>7, <2>1 DEF Is
  <2>3. hit[j].type = "Stunner"
    BY <1>1, <1>4, <2>2
  <2>4. CountersFit(KindAt(i), objs[i].user1, objs[i].user2, objs[i].user3)
    BY KnownAt
  <2>5. objs[i].user3 > 0
    BY <1>2, <2>4 DEF CountersFit
  <2>6. n \in Int /\ n > 0
    BY <1>4, <1>7, <2>5
  <2> HIDE DEF n
  <2>7. CountersFit(KindAt(i), objs[i].user1, objs[i].user2, n)
    BY <1>2, <2>4, <2>6 DEF CountersFit
  <2>8. "NospikeCharge0" \in ActsOf(6) /\ Kind(6, "NospikeCharge0") = KindAt(i)
    BY <1>2, NospikeActs6
  <2>9. Suits(6, objs[i], "NospikeCharge0", objs[i].clipped, objs[i].user1, objs[i].user2, n)
    BY <1>4, <2>6, <2>7, <2>8, KindSuits
  <2>10. Keeps(6, objs, hit)
    BY <2>6, <2>8, <2>9, Ways, SelfKeeps, User3ActKeeps
  <2> HIDE DEF hit
  <2> QED  BY <2>2, <2>3, <2>10, SafeShotHit
<1>8. CASE Is(j, "Nospike") /\ Becomes(NospikeFalls(NospikeFalls(objs, i), j))
  <2>1. Is(i, "Nospike")
    BY <1>2, Typed DEF Is, TypeOf, Bound
  <2>2. j # 0
    BY <1>8 DEF IndInv, World, Is
  <2>3. Keeps(6, objs, NospikeFalls(objs, i))
    BY <2>1, SelfKeeps, FallsKeeps
  <2>4. NospikeFalls(objs, i)[j] = objs[j]
    BY <1>1, <1>4 DEF NospikeFalls
  <2>5. Keeps(6, objs, NospikeFalls(NospikeFalls(objs, i), j))
    BY <1>8, <2>2, <2>3, <2>4, FallsKeeps
  <2> QED  BY <1>8, <2>5, SafeBecomes
<1> QED  BY <1>5, <1>6, <1>7, <1>8 DEF CK6_NospikeCol, ShotTouches

\* The creatures that one shot stuns.
LEMMA SafeStunCols6 ==
    ASSUME IndInv, ck_currentEpisode = 6, NEW i \in Ids, i # 0, NEW j \in Ids,
           \/ CK6_BloogCol(i, j) \/ CK6_BabobbaCol(i, j) \/ CK6_BabobbaNapCol(i, j)
           \/ CK6_CeilickCol(i, j) \/ CK6_BobbaCol(i, j)
    PROVE  SafeStep
<1>0. {"BloogStunned0", "BabobbaStunned0", "CeilickStunned0"} \subseteq Chosen6("stunned")
  BY DEF Chosen6
<1>1. CASE CK6_BloogCol(i, j)
  <2>1. KindAt(i) = "Bloog" /\ i # j
    BY <1>1, Telling6At DEF CK6_BloogCol, KeenTouches, ShotTouches, Touches, Telling6, KindsOf6
  <2>2. KindAt(i) \in Starred /\ KindAt(i) # "stunned"
    BY <2>1 DEF Starred
  <2> QED  BY <1>0, <1>1, <2>1, <2>2, SafeHits, SafeStuns6 DEF CK6_BloogCol, ShotTouches
<1>2. CASE CK6_BabobbaCol(i, j) \/ CK6_BabobbaNapCol(i, j)
  <2>1. KindAt(i) = "Babobba" /\ i # j
    BY <1>2, Telling6At
       DEF CK6_BabobbaCol, CK6_BabobbaNapCol, KeenTouches, ShotTouches, Touches, Telling6, KindsOf6
  <2>2. KindAt(i) \in Starred /\ KindAt(i) # "stunned"
    BY <2>1 DEF Starred
  <2> QED  BY <1>0, <1>2, <2>1, <2>2, SafeHits, SafeStuns6
           DEF CK6_BabobbaCol, CK6_BabobbaNapCol, ShotTouches
<1>3. CASE CK6_CeilickCol(i, j)
  <2>1. KindAt(i) = "Ceilick" /\ i # j
    BY <1>3, Telling6At DEF CK6_CeilickCol, KeenTouches, ShotTouches, Touches, Telling6, KindsOf6
  <2>2. KindAt(i) \in Starred
    BY <2>1 DEF Starred
  <2> QED  BY <1>0, <1>3, <2>1, <2>2, SafeStuns6 DEF CK6_CeilickCol, ShotTouches
<1>4. CASE CK6_BobbaCol(i, j)
  <2>1. KindAt(i) = "Bobba"
    BY <1>4, Telling6At DEF CK6_BobbaCol, KeenTouches, ShotTouches, Touches, Telling6, KindsOf6
  <2>2. KindAt(i) # "stunned"
    BY <2>1
  <2> QED  BY <1>4, <2>2, SafeHits DEF CK6_BobbaCol, ShotTouches
<1> QED  BY <1>1, <1>2, <1>3, <1>4

\* A shot that a flect sends back is a shot still.
LEMMA SafeFlectCol ==
    ASSUME IndInv, ck_currentEpisode = 6, NEW i \in Ids, i # 0, NEW j \in Ids, CK6_FlectCol(i, j)
    PROVE  SafeStep
<1>1. KindAt(i) = "Flect" /\ i # j /\ Is(j, "Stunner")
  BY Telling6At DEF CK6_FlectCol, ShotTouches, Touches, Telling6, KindsOf6
<1>2. CASE Stuns(i, j, "FlectStunned0")
  <2>1. KindAt(i) \in Starred /\ "FlectStunned0" \in Chosen6("stunned")
    BY <1>1 DEF Starred, Chosen6
  <2> QED  BY <1>1, <1>2, <2>1, SafeStuns6
<1>3. CASE Becomes([objs EXCEPT ![j].user1 = 1])
  <2> DEFINE one == 1
  <2>1. one \in Int
    OBVIOUS
  <2>2. Becomes([objs EXCEPT ![j].user1 = one])
    BY <1>3
  <2> HIDE DEF one
  <2>3. Fits(6, KindAt(j), objs[j])
    BY ObjectAt
  <2>4. KindAt(j) = "shot"
    BY <1>1, <2>3 DEF Fits, TypeFits, Is
  <2>5. CountersFit(KindAt(j), one, objs[j].user2, objs[j].user3)
    BY <2>4 DEF CountersFit
  <2>6. objs[j].user2 \in Int /\ objs[j].user3 \in Int /\ objs[j].act \in ActsOf(6)
    BY Fields
  <2>7. Suits(6, objs[j], objs[j].act, objs[j].clipped, one, objs[j].user2, objs[j].user3)
    BY <2>1, <2>5, <2>6, KindSuits DEF KindAt
  <2>8. Keeps(6, objs, [objs EXCEPT ![j].user1 = one])
    BY <2>1, <2>7, Ways, SelfKeeps, User1Keeps
  <2> QED  BY <2>2, <2>8, SafeBecomes
<1> QED  BY <1>2, <1>3 DEF CK6_FlectCol

\* Orbatrixes and bips.
LEMMA SafeOrbatrixCol ==
    ASSUME IndInv, ck_currentEpisode = 6, NEW i \in Ids, i # 0, NEW j \in Ids,
           \/ CK6_OrbatrixCol(i, j) \/ CK6_OrbatrixCol2(i, j) \/ CK6_BipCol(i, j) \/ CK6_BipshipCol(i, j)
    PROVE  SafeStep
<1>0. {"OrbatrixUncurl2", "BipshipHit0", "BipSquished0"} \subseteq Chosen6("plain")
  BY DEF Chosen6
<1>1. CASE CK6_OrbatrixCol(i, j) \/ CK6_BipshipCol(i, j)
  <2>1. Action(i).collide \in {"CK6_OrbatrixCol", "CK6_BipshipCol"} /\ i # j /\ Is(j, "Stunner")
    BY <1>1 DEF CK6_OrbatrixCol, CK6_BipshipCol, ShotTouches, Touches
  <2>2. KindAt(i) = "plain"
    BY <2>1, Plain6 DEF Plainly6
  <2> QED  BY <1>0, <1>1, <2>1, <2>2, Plain6Acts, SafeHitGoes DEF CK6_OrbatrixCol, CK6_BipshipCol
<1>2. CASE CK6_OrbatrixCol2(i, j)
  <2>1. Action(i).collide = "CK6_OrbatrixCol2"
    BY <1>2 DEF CK6_OrbatrixCol2, KeenTouches, ShotTouches, Touches
  <2>2. KindAt(i) # "stunned"
    BY <2>1, StunnedNamed DEF FunctionsOf, StunnedFunctions
  <2> QED  BY <1>2, <2>2, SafeHits DEF CK6_OrbatrixCol2, ShotTouches
<1>3. CASE CK6_BipCol(i, j)
  <2>1. Action(i).collide = "CK6_BipCol"
    BY <1>3 DEF CK6_BipCol, KeenTouches, Touches
  <2>2. KindAt(i) = "plain"
    BY <2>1, Plain6 DEF Plainly6
  <2>3. Keeps(6, objs, [objs EXCEPT ![i].type = "Friendly", ![i].act = "BipSquished0"])
    BY <1>0, <2>2, Plain6Acts, Ways, SelfKeeps, FriendlyKeeps DEF KindAt
  <2> QED  BY <1>3, <2>3, SafeBecomes DEF CK6_BipCol
<1> QED  BY <1>1, <1>2, <1>3

\* Every touch of Keen 6.
LEMMA SafeTouch6 ==
    ASSUME IndInv, ck_currentEpisode = 6, NEW i \in Ids, i # 0, NEW j \in Ids, Touch6(i, j)
    PROVE  SafeStep
<1>1. CASE CK6_StoryItemCol(i, j) \/ CK6_BloogguardCol(i, j) \/ CK6_FleexCol(i, j) \/ CK6_BloogletCol(i, j)
  BY <1>1, SafeStoryItem, SafeGuardCol, SafeBloogletCol
<1>2. CASE CK6_NospikeCol(i, j) \/ CK6_FlectCol(i, j)
  BY <1>2, SafeNospikeCol, SafeFlectCol
<1>3. CASE \/ CK6_BloogCol(i, j) \/ CK6_BabobbaCol(i, j) \/ CK6_BabobbaNapCol(i, j)
           \/ CK6_CeilickCol(i, j) \/ CK6_BobbaCol(i, j)
  BY <1>3, SafeStunCols6
<1>4. CASE \/ CK6_OrbatrixCol(i, j) \/ CK6_OrbatrixCol2(i, j) \/ CK6_BipCol(i, j) \/ CK6_BipshipCol(i, j)
  BY <1>4, SafeOrbatrixCol
<1> QED  BY <1>1, <1>2, <1>3, <1>4 DEF Touch6

\* A shot that comes back stuns Keen.
LEMMA SafeKeen6 ==
    ASSUME IndInv, ck_currentEpisode = 6, Keen6
    PROVE  SafeStep
<1>1. PICK j \in Live : CK6_KeenCol(j)
  BY DEF Keen6
<1>2. j \in Ids /\ objs[j].type = "Stunner" /\ objs[0].act \in KeenActs
      /\ Becomes(CK_ShotHit(Goes(0, "keenStunned0"), j))
  BY <1>1 DEF CK6_KeenCol, Is, Live
<1>3. j # 0 /\ 0 \in Ids
  BY <1>2, ZeroId, ShotIsNotKeen DEF IndInv
<1>4. Kind(6, objs[0].act) \notin Waiting
  <2>1. Kind(6, objs[0].act) = "plain"
    BY <1>2, Ways, KeenActsPlain
  <2> QED  BY <2>1 DEF Waiting
<1>5. Keeps(6, objs, SetAct(objs, 0, "keenStunned0"))
  BY <1>4, Ways, SelfKeeps, KeenActsPlain, KeenKeeps
<1>6. Goes(0, "keenStunned0")[j].type = "Stunner"
  BY <1>2, <1>3, ObjectAt DEF Goes, SetAct
<1> QED  BY <1>2, <1>5, <1>6, SafeShotHit DEF Goes

\* The actions that the properties name are of one episode only.
Fish == {"DopefishSwim0", "DopefishEat0"}
Electric == {"SparkyPrepCharge0", "RoboShoot0", "ShocksundStand0", "ShocksundStand1",
             "AmptonPole0", "AmptonPole1", "AmptonPole2"}
Burning == {"NospikeCharge0", "OrbatrixBounce0", "BabobbaShot0", "BabobbaShot1",
            "BabobbaShotVanish0", "BabobbaShotVanish1"}

LEMMA Foreign ==
    /\ ActsOf(4) \cap (Electric \cup Burning) = {}
    /\ ActsOf(5) \cap (Fish \cup Burning \cup {"AmptonPole1"}) = {}
    /\ ActsOf(6) \cap (Fish \cup Electric) = {}
<1>1. CommonActs \cap (Fish \cup Electric \cup Burning) = {}
  BY DEF CommonActs, Fish, Electric, Burning
<1>2. Acts4 \cap (Electric \cup Burning) = {}
  BY DEF Acts4, SlugActs, BirdActs, ArachnutActs, CloudActs, FootActs, SmirkyActs, FishActs, SpriteActs,
         Electric, Burning
<1>3. Acts5 \cap (Fish \cup Burning \cup {"AmptonPole1"}) = {}
  BY DEF Acts5, Fixture5Acts, SparkyActs, AmptonActs, ShellyActs, RoboActs, SpirogripActs, MasterActs,
         ShikadiActs, Fish, Burning
<1>4. Acts6 \cap (Fish \cup Electric) = {}
  BY DEF Acts6, Fixture6Acts, BloogActs, NospikeActs, OrbatrixActs, FleexActs, BobbaActs, CeilickActs,
         Fish, Electric
<1>5. "AmptonPole1" \in Electric
  BY DEF Electric
<1> QED  BY <1>1, <1>2, <1>3, <1>4, <1>5 DEF ActsOf

\* What the kind of an object's action says where the object's type or action is known.
LEMMA KindsAt ==
    ASSUME IndInv, NEW i \in Ids
    PROVE  /\ objs[i].act \in ActsOf(ck_currentEpisode)
           /\ Fits(ck_currentEpisode, KindAt(i), objs[i])
           /\ ck_currentEpisode = 4 => KindAt(i) = Kind4(objs[i].act)
           /\ ck_currentEpisode = 5 => KindAt(i) = Kind5(objs[i].act)
           /\ ck_currentEpisode = 6 => KindAt(i) = Kind6(objs[i].act)
           /\ ck_currentEpisode \in {4, 5, 6}
           /\ objs[i].clipped \in {"normal", "simple", "not"}
  BY ObjectAt, KnownAt DEF KindAt, Kind

\* What eats and what is eaten.
LEMMA EatingAct ==
    ASSUME NEW e \in 4 .. 6, NEW act \in ActsOf(e)
    PROVE  /\ Kind(e, act) = "eating" <=> act = "DopefishEat0"
           /\ Kind(e, act) \in Waiting => act \in {"SchoolfishEaten0", "KeenEaten0"}
<1>1. CASE e = 4
  BY <1>1 DEF Kind, Kind4, Waiting, Birds, Arachnuts, Dopefishes, Stunned4, Shots
<1>2. CASE e = 5
  <2>1. act # "DopefishEat0"
    BY <1>2, Foreign DEF Fish
  <2>2. Kind(e, act) = Kind5(act)
    BY <1>2 DEF Kind
  <2> QED  BY <2>1, <2>2, Kind5Range DEF Waiting
<1>3. CASE e = 6
  <2>1. act # "DopefishEat0"
    BY <1>3, Foreign DEF Fish
  <2>2. Kind(e, act) = Kind6(act)
    BY <1>3 DEF Kind
  <2> QED  BY <2>1, <2>2, Kind6Range DEF Waiting
<1> QED  BY <1>1, <1>2, <1>3

(***************************************************************************)
(* The inductive invariant gives the invariants of the level.              *)
(***************************************************************************)
LEMMA InvCounters == IndInv => CountersInRange
<1> SUFFICES ASSUME IndInv, NEW i \in Ids
             PROVE  /\ Is(i, "Mushroom") => objs[i].user1 < NumJumps
                    /\ Is(i, "Inchworm") => objs[i].user2 < InchwormCount
                    /\ At(i, "SparkyPrepCharge0") => objs[i].user1 \in 1 .. ChargeDelay
                    /\ At(i, "RoboShoot0") => objs[i].user1 \in 1 .. RoboShots
                    /\ Is(i, "Spindred") => objs[i].user1 < NumBounces
                    /\ objs[i].act \in {"ShocksundStand0", "ShocksundStand1"} => objs[i].user1 \in 1 .. StandTime
                    /\ At(i, "NospikeCharge0") => objs[i].user1 < AirHangTime
                    /\ At(i, "OrbatrixBounce0") => objs[i].user1 \in 1 .. BounceCount
                    /\ objs[i].type \in {"Bobba", "Babobba"} => objs[i].user1 < HopsPerShot
                    /\ objs[i].act \in {"BabobbaShot0", "BabobbaShot1"} => objs[i].user1 < DecayTime
                    /\ objs[i].act \in {"BabobbaShotVanish0", "BabobbaShotVanish1"} => objs[i].user1 < VanishTime
                    /\ HealthOf(objs[i]) > 0
  BY DEF CountersInRange
<1> DEFINE e == ck_currentEpisode
           kind == KindAt(i)
<1>1. e \in {4, 5, 6} /\ objs[i].act \in ActsOf(e) /\ TypeFits(e, kind, objs[i])
      /\ CountersFit(kind, objs[i].user1, objs[i].user2, objs[i].user3)
  BY KindsAt DEF Fits
<1>2. /\ e = 4 => kind = Kind4(objs[i].act)
      /\ e = 5 => kind = Kind5(objs[i].act)
      /\ e = 6 => kind = Kind6(objs[i].act)
  BY KindsAt
<1> HIDE DEF e, kind
<1>3. objs[i].type \in Bound => objs[i].type = TypeOf(kind)
  BY <1>1 DEF TypeFits
<1>4. /\ Is(i, "Mushroom") => kind = "Mushroom"
      /\ Is(i, "Inchworm") => kind = "Inchworm"
      /\ Is(i, "Spindred") => kind = "Spindred"
      /\ Is(i, "Bobba") => kind = "Bobba"
      /\ Is(i, "Babobba") => kind = "Babobba"
      /\ Is(i, "Shikadi") => kind = "Shikadi"
      /\ Is(i, "Shocksund") => kind \in {"Shocksund", "standing"}
      /\ Is(i, "Bloogguard") => kind = "Bloogguard"
      /\ Is(i, "Fleex") => kind = "Fleex"
      /\ Is(i, "SliceStar") => kind \in {"SliceStar", "dyingStar"}
      /\ Is(i, "Nospike") => kind \in {"Nospike", "falling"}
  BY <1>3 DEF Is, Bound, TypeOf
<1>5. objs[i].act \in Electric => e = 5
  BY <1>1, Foreign
<1>6. objs[i].act \in Burning => e = 6
  BY <1>1, Foreign
<1>7. objs[i].act \in Electric => kind = Kind5(objs[i].act)
  BY <1>2, <1>5
<1>8. objs[i].act \in Burning => kind = Kind6(objs[i].act)
  BY <1>2, <1>6
<1>9. /\ At(i, "SparkyPrepCharge0") => kind = "preparing"
      /\ At(i, "RoboShoot0") => kind = "robo"
      /\ objs[i].act \in {"ShocksundStand0", "ShocksundStand1"} => kind = "standing"
  BY <1>7 DEF At, Electric, Kind5, Sparkies, Amptons, Shikadis, Shocksunds
<1>10. /\ At(i, "NospikeCharge0") => kind = "Nospike"
       /\ At(i, "OrbatrixBounce0") => kind = "bouncing"
       /\ objs[i].act \in {"BabobbaShot0", "BabobbaShot1"} => kind = "burning"
       /\ objs[i].act \in {"BabobbaShotVanish0", "BabobbaShotVanish1"} => kind = "vanishing"
  BY <1>8 DEF At, Burning, Kind6, Guards, Blooglets, Falling, Flects, Fleexes, Bobbas, Babobbas
<1>11. kind = "dyingStar" => objs[i].act = "SliceDie0"
  <2>1. Kind4(objs[i].act) # "dyingStar" /\ Kind6(objs[i].act) # "dyingStar"
    BY Kind4Range, Kind6Range
  <2>2. Kind5(objs[i].act) = "dyingStar" => objs[i].act = "SliceDie0"
    BY DEF Kind5
  <2> QED  BY <1>1, <1>2, <2>1, <2>2
<1>12. HealthOf(objs[i]) > 0
  <2>1. CASE objs[i].type \in {"Shikadi", "Shocksund", "Bloogguard", "Fleex"}
    <3>1. objs[i].user2 > 0
      BY <1>1, <1>4, <2>1 DEF CountersFit, Is
    <3> QED  BY <2>1, <3>1 DEF HealthOf
  <2>2. CASE objs[i].type = "SliceStar" /\ objs[i].act # "SliceDie0"
    <3>1. objs[i].user1 > 0
      BY <1>1, <1>4, <1>11, <2>2 DEF CountersFit, Is
    <3> QED  BY <2>2, <3>1 DEF HealthOf
  <2>3. CASE objs[i].type = "Nospike"
    <3>1. objs[i].user3 > 0
      BY <1>1, <1>4, <2>3 DEF CountersFit, Is
    <3> QED  BY <2>3, <3>1 DEF HealthOf
  <2>4. CASE /\ objs[i].type \notin {"Shikadi", "Shocksund", "Bloogguard", "Fleex"}
             /\ ~(objs[i].type = "SliceStar" /\ objs[i].act # "SliceDie0")
             /\ objs[i].type # "Nospike"
    <3>1. HealthOf(objs[i]) = 1
      BY <2>4 DEF HealthOf
    <3> QED  BY <3>1
  <2> QED  BY <2>1, <2>2, <2>3, <2>4
<1> QED  BY <1>1, <1>4, <1>9, <1>10, <1>12 DEF CountersFit, Is

\* How an object is clipped follows its kind.
LEMMA InvClipping == IndInv => ClippingMatchesAct
<1> SUFFICES ASSUME IndInv, NEW i \in Ids
             PROVE  /\ objs[i].type = "Bird" => (objs[i].clipped = "simple" <=> At(i, "BirdFly0"))
                    /\ objs[i].type = "Sparky" => objs[i].clipped = "normal"
                    /\ objs[i].act \in {"AmptonPole0", "AmptonPole1", "AmptonPole2"} <=>
                          Is(i, "Ampton") /\ objs[i].clipped = "not"
                    /\ objs[i].act \in {"DopefishSwim0"} <=> Is(i, "Dopefish") /\ objs[i].clipped = "simple"
                    /\ Is(i, "StunnedCreature") => objs[i].clipped \in {"normal", "not"}
  BY DEF ClippingMatchesAct
<1> DEFINE e == ck_currentEpisode
           kind == KindAt(i)
<1>1. e \in {4, 5, 6} /\ objs[i].act \in ActsOf(e) /\ TypeFits(e, kind, objs[i])
      /\ ClippingFits(kind, objs[i].type, objs[i].active, objs[i].clipped)
      /\ objs[i].clipped \in {"normal", "simple", "not"}
  BY KindsAt DEF Fits
<1>2. /\ e = 4 => kind = Kind4(objs[i].act)
      /\ e = 5 => kind = Kind5(objs[i].act)
      /\ e = 6 => kind = Kind6(objs[i].act)
  BY KindsAt
<1> HIDE DEF e, kind
<1>3. objs[i].type \in Bound \/ TypeOf(kind) \in Bound => objs[i].type = TypeOf(kind)
  BY <1>1 DEF TypeFits
<1>4. kind = "flying" <=> objs[i].act = "BirdFly0" /\ e = 4
  <2>1. Kind5(objs[i].act) # "flying" /\ Kind6(objs[i].act) # "flying"
    BY Kind5Range, Kind6Range
  <2>2. Kind4(objs[i].act) = "flying" <=> objs[i].act = "BirdFly0"
    BY DEF Kind4, Birds
  <2> QED  BY <1>1, <1>2, <2>1, <2>2
<1>5. kind = "swimming" <=> objs[i].act = "DopefishSwim0"
  <2>1. Kind5(objs[i].act) # "swimming" /\ Kind6(objs[i].act) # "swimming"
    BY Kind5Range, Kind6Range
  <2>2. Kind4(objs[i].act) = "swimming" <=> objs[i].act = "DopefishSwim0"
    BY DEF Kind4, Birds, Arachnuts, Dopefishes
  <2>3. objs[i].act = "DopefishSwim0" => e = 4
    BY <1>1, Foreign DEF Fish
  <2> QED  BY <1>1, <1>2, <2>1, <2>2, <2>3
<1>6. kind = "pole" <=> objs[i].act \in {"AmptonPole0", "AmptonPole1", "AmptonPole2"}
  <2>1. Kind4(objs[i].act) # "pole" /\ Kind6(objs[i].act) # "pole"
    BY Kind4Range, Kind6Range
  <2>2. Kind5(objs[i].act) = "pole" <=> objs[i].act \in {"AmptonPole0", "AmptonPole2"}
    BY DEF Kind5, Sparkies, Amptons
  <2>3. objs[i].act \in {"AmptonPole0", "AmptonPole1", "AmptonPole2"} => e = 5
    BY <1>1, Foreign DEF Electric
  <2>4. e = 5 => objs[i].act # "AmptonPole1"
    BY <1>1, Foreign
  <2> QED  BY <1>1, <1>2, <2>1, <2>2, <2>3, <2>4
<1>7. /\ objs[i].type = "Bird" => kind \in {"Bird", "flying"}
      /\ objs[i].type = "Sparky" => kind \in {"Sparky", "preparing"}
      /\ objs[i].type = "Ampton" <=> kind \in {"Ampton", "pole"}
      /\ objs[i].type = "Dopefish" => kind \in {"Dopefish", "swimming", "eating"}
      /\ kind = "swimming" => objs[i].type = "Dopefish"
  BY <1>3 DEF Bound, TypeOf
<1>8. objs[i].type = "Bird" => e = 4
  <2>1. Kind5(objs[i].act) \notin {"Bird", "flying"} /\ Kind6(objs[i].act) \notin {"Bird", "flying"}
    BY Kind5Range, Kind6Range
  <2> QED  BY <1>1, <1>2, <1>7, <2>1
<1>9. objs[i].type = "Bird" => (objs[i].clipped = "simple" <=> At(i, "BirdFly0"))
  BY <1>1, <1>4, <1>7, <1>8 DEF ClippingFits, At
<1>10. objs[i].type = "Sparky" => objs[i].clipped = "normal"
  BY <1>1, <1>7 DEF ClippingFits
<1>11. objs[i].act \in {"AmptonPole0", "AmptonPole1", "AmptonPole2"} <=> Is(i, "Ampton") /\ objs[i].clipped = "not"
  BY <1>1, <1>6, <1>7 DEF ClippingFits, Is
<1>12. objs[i].act \in {"DopefishSwim0"} <=> Is(i, "Dopefish") /\ objs[i].clipped = "simple"
  BY <1>1, <1>5, <1>7 DEF ClippingFits, Is
<1>13. Is(i, "StunnedCreature") => objs[i].clipped \in {"normal", "not"}
  BY <1>1 DEF TypeFits, ClippingFits, Is
<1> QED  BY <1>9, <1>10, <1>11, <1>12, <1>13

\* All four.
LEMMA IndInvImplies == IndInv => TypeOK /\ ObjectsUnderstood /\ ShotsAreSpent /\ ActsAgree
<1> SUFFICES ASSUME IndInv PROVE TypeOK /\ ObjectsUnderstood /\ ShotsAreSpent /\ ActsAgree
  OBVIOUS
<1>1. numShots \in 0 .. MaxShots /\ fired \in 0 .. MaxShots /\ stuns \in Nat
  <2>1. numShots \in Nat /\ fired \in Nat /\ numShots + fired = MaxShots /\ stuns \in Nat
    BY DEF IndInv
  <2> QED  BY <2>1, CreaturesAssumption
<1>2. ASSUME NEW i \in Ids
      PROVE  /\ objs[i].act \in DOMAIN Actions[ck_currentEpisode]
             /\ objs[i].active \in {"active", "onscreen", "always", "inactive"}
             /\ objs[i].clipped \in {"normal", "simple", "not"}
             /\ objs[i].ptr \in Ids
  <2>1. objs[i].act \in ActsOf(ck_currentEpisode) /\ ck_currentEpisode \in 4 .. 6 /\ objs[i] \in ObjType
    BY ObjectAt
  <2>2. objs[i].act \in DOMAIN Actions[ck_currentEpisode]
    BY <2>1, ActionsDomain
  <2> QED  BY <2>1, <2>2 DEF ObjType
<1>3. TypeOK
  BY <1>1, <1>2 DEF TypeOK, IndInv
<1>4. ObjectsUnderstood
  BY InvCounters DEF ObjectsUnderstood, IndInv
<1>5. ShotsAreSpent /\ ActsAgree
  BY InvClipping DEF ActsAgree, IndInv
<1> QED  BY <1>3, <1>4, <1>5

(***************************************************************************)
(* A safe step keeps the inductive invariant.                              *)
(***************************************************************************)
\* The slots and the shots are finitely many.
LEMMA IdsFinite == IsFiniteSet(Ids) /\ Ids \subseteq Nat
<1>1. Slots \in Int /\ 0 \in Int
  BY CreaturesAssumption
<1>2. IsFiniteSet(0 .. Slots)
  BY <1>1, FS_Interval
<1> QED  BY <1>1, <1>2 DEF Ids

LEMMA FewStunners ==
    ASSUME NEW os
    PROVE  IsFiniteSet(Stunners(os)) /\ Cardinality(Stunners(os)) \in Nat
<1>1. Stunners(os) \in SUBSET Ids
  BY DEF Stunners
<1>2. IsFiniteSet(Stunners(os))
  BY <1>1, IdsFinite, FS_Subset
<1> QED  BY <1>2, FS_CardinalityType

\* The parts of the invariant, now and after a step.
LEMMA ShotsNow ==
    IndInv => /\ stuns + Cardinality(Stunners(objs)) <= fired
              /\ killer # <<>> => killer[2] \in {"", "Arachnut"}
<1>1. {i \in Live : Is(i, "Stunner")} = Stunners(objs)
  BY DEF Live, Is, Stunners
<1> QED  BY <1>1 DEF IndInv, ShotsAreSpent

LEMMA ShotsNext ==
    ASSUME stuns' + Cardinality(Stunners(objs')) <= fired',
           killer' # <<>> => killer'[2] \in {"", "Arachnut"}
    PROVE  ShotsAreSpent'
<1>1. {i \in Live : Is(i, "Stunner")}' = Stunners(objs')
  BY DEF Live, Is, Stunners
<1>2. Cardinality({i \in Live : Is(i, "Stunner")})' = Cardinality(Stunners(objs'))
  BY <1>1
<1> QED  BY <1>2 DEF ShotsAreSpent

\* A shot that is spent pays for the creature it stuns.
LEMMA Spending ==
    ASSUME NEW a \in Nat, NEW b, NEW f \in Nat, NEW m \in Nat, NEW n \in Nat, a + m <= f, n <= m,
           b = a \/ (b = a + 1 /\ n <= m - 1)
    PROVE  b \in Nat /\ b + n <= f
  OBVIOUS

\* As many shots or fewer: then no more of them can be spent.
LEMMA ShotsLeft ==
    ASSUME IndInv, Stunners(objs') \subseteq Stunners(objs), fired' = fired,
           killer' = killer \/ (killer' # <<>> /\ killer'[2] \in {"", "Arachnut"}),
           \/ stuns' = stuns
           \/ stuns' = stuns + 1 /\ \E s \in Stunners(objs) : s \notin Stunners(objs')
    PROVE  ShotsAreSpent' /\ stuns' \in Nat
<1> DEFINE S == Stunners(objs)
           T == Stunners(objs')
<1>1. IsFiniteSet(S) /\ Cardinality(S) \in Nat /\ IsFiniteSet(T) /\ Cardinality(T) \in Nat
  BY FewStunners
<1>2. stuns + Cardinality(S) <= fired /\ (killer # <<>> => killer[2] \in {"", "Arachnut"})
  BY ShotsNow
<1>3. stuns \in Nat /\ fired \in Nat
  BY DEF IndInv
<1>4. T \subseteq S
  OBVIOUS
<1> HIDE DEF S, T
<1>5. Cardinality(T) <= Cardinality(S)
  BY <1>1, <1>4, FS_Subset
<1> DEFINE m == Cardinality(S)
           n == Cardinality(T)
<1>6. stuns' = stuns \/ (stuns' = stuns + 1 /\ n <= m - 1)
  <2>1. CASE stuns' = stuns + 1 /\ \E s \in S : s \notin T
    <3>1. PICK s \in S : s \notin T
      BY <2>1
    <3>2. T \in SUBSET (S \ {s}) /\ IsFiniteSet(S \ {s}) /\ Cardinality(S \ {s}) = Cardinality(S) - 1
      BY <1>1, <1>4, <3>1, FS_RemoveElement
    <3>3. Cardinality(T) <= Cardinality(S \ {s})
      BY <3>2, FS_Subset
    <3>4. n <= m - 1
      BY <3>2, <3>3
    <3> QED  BY <2>1, <3>4
  <2> QED  BY <2>1 DEF S, T
<1>7. m \in Nat /\ n \in Nat /\ n <= m /\ stuns + m <= fired
  BY <1>1, <1>2, <1>5
<1>8. fired' = fired
  OBVIOUS
<1>9. stuns' \in Nat /\ stuns' + n <= fired'
  <2>1. m \in Nat /\ n \in Nat /\ stuns + m <= fired /\ n <= m
    BY <1>7
  <2> HIDE DEF m, n
  <2>2. stuns' \in Nat /\ stuns' + n <= fired
    BY <1>3, <1>6, <2>1, Spending
  <2> QED  BY <1>8, <2>2
<1> QED  BY <1>2, <1>9, ShotsNext DEF T

\* One foot and no worm besides, or no foot.
LEMMA FeetNow ==
    IndInv => /\ \A i, j \in Ids : Is(i, "Foot") /\ Is(j, "Foot") => i = j
              /\ \A i, j \in Ids : Is(i, "Foot") => ~Is(j, "Inchworm")
<1> SUFFICES ASSUME IndInv, NEW i \in Ids, NEW j \in Ids, Is(i, "Foot")
             PROVE  (Is(j, "Foot") => i = j) /\ ~Is(j, "Inchworm")
  OBVIOUS
<1> DEFINE feet == {k \in Live : Is(k, "Foot")}
<1>1. Cardinality(feet) <= 1 /\ (feet # {} => ~\E k \in Live : Is(k, "Inchworm"))
  BY DEF IndInv, OneFoot
<1>2. i \in feet /\ (Is(j, "Foot") => j \in feet) /\ (Is(j, "Inchworm") => j \in Live)
  BY DEF Live, Is
<1>3. feet \in SUBSET Ids
  BY DEF Live
<1> HIDE DEF feet
<1>4. IsFiniteSet(feet)
  BY <1>3, IdsFinite, FS_Subset
<1>5. ASSUME j \in feet, i # j PROVE FALSE
  <2>1. Cardinality({}) = 0 /\ IsFiniteSet({})
    BY FS_EmptySet
  <2>2. IsFiniteSet({i}) /\ Cardinality({i}) = 1
    <3>1. {} \cup {i} = {i}
      OBVIOUS
    <3> QED  BY <2>1, <3>1, FS_AddElement
  <2>3. Cardinality({i} \cup {j}) = 2
    BY <1>5, <2>2, FS_AddElement
  <2>4. {i} \cup {j} \in SUBSET feet
    BY <1>2, <1>5
  <2>5. Cardinality({i} \cup {j}) <= Cardinality(feet) /\ Cardinality(feet) \in Nat
    BY <1>4, <2>4, FS_Subset, FS_CardinalityType
  <2> QED  BY <1>1, <2>3, <2>5
<1> QED  BY <1>1, <1>2, <1>5

\* The same after a step.
LEMMA FeetNext ==
    ASSUME \A i, j \in Ids : objs'[i].type = "Foot" /\ objs'[j].type = "Foot" => i = j,
           \A i, j \in Ids : objs'[i].type = "Foot" => objs'[j].type # "Inchworm"
    PROVE  OneFoot'
<1> DEFINE feet == {k \in Ids : objs'[k].type = "Foot"}
<1>1. {i \in Live : Is(i, "Foot")}' = feet
  BY DEF Live, Is
<1>2. feet # {} => (~\E i \in Live : Is(i, "Inchworm"))'
  BY DEF Live, Is
<1>3. Cardinality(feet) <= 1
  <2>1. CASE feet = {}
    BY <2>1, FS_EmptySet
  <2>2. CASE feet # {}
    <3>1. PICK k : k \in feet
      BY <2>2
    <3>2. feet = {} \cup {k}
      BY <3>1
    <3> HIDE DEF feet
    <3>3. Cardinality(feet) = 1
      BY <3>2, FS_EmptySet, FS_AddElement
    <3> QED  BY <3>3
  <2> QED  BY <2>1, <2>2
<1> HIDE DEF feet
<1> QED  BY <1>1, <1>2, <1>3 DEF OneFoot

\* The rest of the invariant.
LEMMA FirstsNext ==
    ASSUME NEW e, ck_currentEpisode' = e, e \in 4 .. 6, World(e, objs'),
           numShots' \in Nat, fired' \in Nat, numShots' + fired' = MaxShots,
           quitMessage' = "", levelState' \in LevelStates, stuns' \in Nat,
           ShotsAreSpent', OneFoot', VictimWaits',
           \A i, j \in Ids : objs'[i].type = "Dopefish" /\ objs'[j].type = "Dopefish" => i = j
    PROVE  IndInv'
  BY DEF IndInv, Is

\* What bites keeps its victim.
LEMMA VictimNext ==
    ASSUME ck_currentEpisode \in 4 .. 6, World(ck_currentEpisode, objs'),
           \A i \in Ids : Kind(ck_currentEpisode, objs'[i].act) = "eating" =>
              Kind(ck_currentEpisode, objs'[objs'[i].ptr].act) \in Waiting
    PROVE  VictimWaits'
<1> SUFFICES ASSUME NEW i \in Ids, objs'[i].act = "DopefishEat0"
             PROVE  objs'[objs'[i].ptr].act \in {"SchoolfishEaten0", "KeenEaten0"}
  BY DEF VictimWaits, At
<1> DEFINE p == objs'[i].ptr
<1>1. \A k \in Ids : objs'[k] \in ObjType /\ objs'[k].act \in ActsOf(ck_currentEpisode)
  BY DEF World, Good
<1>2. p \in Ids
  BY <1>1 DEF ObjType
<1>3. Kind(ck_currentEpisode, objs'[i].act) = "eating"
  BY <1>1, EatingAct
<1>4. Kind(ck_currentEpisode, objs'[p].act) \in Waiting
  BY <1>3
<1> HIDE DEF p
<1>5. objs'[p].act \in {"SchoolfishEaten0", "KeenEaten0"}
  BY <1>1, <1>2, <1>4, EatingAct
<1> QED  BY <1>5 DEF p

LEMMA VictimNow ==
    ASSUME IndInv, NEW i \in Ids, KindAt(i) = "eating"
    PROVE  /\ objs[i].ptr \in Ids /\ KindAt(objs[i].ptr) \in Waiting
           /\ objs[i].act = "DopefishEat0" /\ ck_currentEpisode = 4 /\ objs[i].type = "Dopefish"
           /\ objs[objs[i].ptr].act \in {"SchoolfishEaten0", "KeenEaten0"}
<1>1. objs[i].act \in ActsOf(ck_currentEpisode) /\ ck_currentEpisode \in 4 .. 6 /\ objs[i].ptr \in Ids
  BY Fields
<1>2. objs[i].act = "DopefishEat0"
  BY <1>1, EatingAct DEF KindAt
<1>3. objs[objs[i].ptr].act \in {"SchoolfishEaten0", "KeenEaten0"}
  BY <1>2 DEF IndInv, VictimWaits, At
<1>4. ck_currentEpisode = 4
  <2>1. ck_currentEpisode = 4 \/ ck_currentEpisode = 5 \/ ck_currentEpisode = 6
    BY <1>1
  <2> QED  BY <1>1, <1>2, <2>1, Foreign DEF Fish
<1>5. Kind4("SchoolfishEaten0") = "eatenFish" /\ Kind4("KeenEaten0") = "eaten"
  BY DEF Kind4, Birds, Arachnuts, Dopefishes
<1>6. KindAt(objs[i].ptr) = Kind4(objs[objs[i].ptr].act)
  BY <1>4 DEF KindAt, Kind
<1>7. KindAt(objs[i].ptr) \in Waiting
  BY <1>3, <1>5, <1>6 DEF Waiting
<1>8. objs[i].type = "Dopefish"
  BY Typed DEF TypeOf, Bound
<1> QED  BY <1>1, <1>2, <1>3, <1>4, <1>7, <1>8

\* A safe step keeps all of the invariant.
LEMMA SafeKeepsInv ==
    ASSUME IndInv, SafeStep
    PROVE  IndInv'
<1> DEFINE e == ck_currentEpisode
<1>1. /\ World(e, objs') /\ \A k \in Ids : Turns(e, objs[k], objs'[k])
      /\ ck_currentEpisode' = e /\ numShots' = numShots /\ quitMessage' = quitMessage /\ fired' = fired
      /\ levelState' \in LevelStates
      /\ killer' = killer \/ (killer' # <<>> /\ killer'[2] \in {"", "Arachnut"})
      /\ \/ stuns' = stuns
         \/ stuns' = stuns + 1 /\ \E s \in Stunners(objs) : s \notin Stunners(objs')
  BY DEF SafeStep, Keeps
<1>2. e \in 4 .. 6 /\ numShots \in Nat /\ fired \in Nat /\ numShots + fired = MaxShots /\ quitMessage = ""
  BY DEF IndInv
<1>3. \A k \in Ids : objs'[k].type \in Rare => objs[k].type = objs'[k].type
  BY <1>1 DEF Turns
<1>4. Stunners(objs') \subseteq Stunners(objs)
  BY <1>3 DEF Stunners, Rare
<1>5. ShotsAreSpent' /\ stuns' \in Nat
  BY <1>1, <1>4, ShotsLeft
<1>6. OneFoot'
  <2>1. \A k \in Ids : (objs'[k].type = "Foot" => Is(k, "Foot")) /\ (objs'[k].type = "Inchworm" => Is(k, "Inchworm"))
    BY <1>3 DEF Rare, Is
  <2> QED  BY <2>1, FeetNow, FeetNext
<1>7. VictimWaits'
  <2>1. ASSUME NEW i \in Ids, Kind(e, objs'[i].act) = "eating"
        PROVE  Kind(e, objs'[objs'[i].ptr].act) \in Waiting
    <3>1. KindAt(i) = "eating" /\ objs'[i].ptr = objs[i].ptr
      BY <1>1, <2>1 DEF Turns, KindAt
    <3>2. objs[i].ptr \in Ids /\ Kind(e, objs[objs[i].ptr].act) \in Waiting
      BY <3>1, VictimNow DEF KindAt
    <3> QED  BY <1>1, <3>1, <3>2 DEF Turns
  <2> QED  BY <1>1, <1>2, <2>1, VictimNext
<1>8. \A i, j \in Ids : objs'[i].type = "Dopefish" /\ objs'[j].type = "Dopefish" => i = j
  BY <1>3 DEF Rare, IndInv, Is
<1> HIDE DEF e
<1> QED  BY <1>1, <1>2, <1>5, <1>6, <1>7, <1>8, FirstsNext

(***************************************************************************)
(* The steps that are not safe in this sense: a new shot, a foot, a bite   *)
(* and a swallow.                                                          *)
(***************************************************************************)
\* A new object takes an empty slot or none.
LEMMA NewSlot ==
    ASSUME NEW os, NEW obj
    PROVE  \/ CK_GetNewObj(os, obj) = os
           \/ \E slot \in Ids : os[slot].type = "Nothing" /\ CK_GetNewObj(os, obj) = [os EXCEPT ![slot] = obj]
<1> DEFINE free == {k \in Ids : os[k].type = "Nothing"}
           slot == CHOOSE k \in free : \A k2 \in free : k <= k2
<1>1. CK_GetNewObj(os, obj) = IF free = {} THEN os ELSE [os EXCEPT ![slot] = obj]
  BY DEF CK_GetNewObj
<1>2. free # {} => slot \in free
  <2>1. SUFFICES ASSUME free # {} PROVE \E k \in free : \A k2 \in free : k <= k2
    OBVIOUS
  <2>2. free \subseteq Nat
    BY IdsFinite
  <2> HIDE DEF free
  <2> QED  BY <2>1, <2>2, LeastElement
<1>3. free \subseteq Ids /\ \A k \in free : os[k].type = "Nothing"
  OBVIOUS
<1> HIDE DEF free, slot
<1> QED  BY <1>1, <1>2, <1>3

\* Objects as they are made.
LEMMA ObjIn ==
    ASSUME NEW ty \in Types, NEW act \in Acts, NEW ac \in {"active", "onscreen", "always", "inactive"}
    PROVE  Obj(ty, act, ac) \in ObjType
  BY ZeroId DEF Obj, ObjType

\* A new shot.
LEMMA ShotGood ==
    ASSUME NEW e \in 4 .. 6
    PROVE  Good(e, Fixture("Stunner", "keenShot1"))
<1> DEFINE o == Obj("Stunner", "keenShot1", "always")
<1>1. "keenShot1" \in ActsOf(e) /\ Kind(e, "keenShot1") = "shot" /\ "keenShot1" \in Acts
  <2>1. "keenShot1" \in CommonActs
    BY DEF CommonActs
  <2> QED  BY <2>1, CommonKinds, ActsIn
<1>5. "Stunner" \in Types /\ "always" \in {"active", "onscreen", "always", "inactive"}
  BY DEF Types
<1>2. /\ o.type = "Stunner" /\ o.act = "keenShot1" /\ o.active = "always"
      /\ o.clipped = "normal" /\ o.hit = ""
  BY DEF Obj
<1>6. o \in ObjType
  BY <1>1, <1>5, ObjIn
<1>7. "Stunner" \notin Bound /\ TypeOf("shot") \notin Bound
  BY DEF TypeOf, Bound
<1> HIDE DEF o
<1>8. TypeFits(e, "shot", o)
  BY <1>2, <1>7 DEF TypeFits
<1>9. ClippingFits("shot", o.type, o.active, o.clipped) /\ CountersFit("shot", o.user1, o.user2, o.user3)
  BY <1>2 DEF ClippingFits, CountersFit
<1>10. Good(e, o)
  BY <1>1, <1>2, <1>6, <1>8, <1>9 DEF Good, Fits
<1> QED  BY <1>10 DEF o, Fixture

\* A level with one object changed.
LEMMA PutWorld ==
    ASSUME NEW e, NEW os, World(e, os), NEW i \in Ids, NEW o, Good(e, o),
           i = 0 => o.type \in {"Player", "Friendly"}
    PROVE  World(e, [os EXCEPT ![i] = o])
<1>1. o \in ObjType
  BY DEF Good
<1> QED  BY <1>1 DEF World

\* A shot that is fired pays for itself.
LEMMA Firing ==
    ASSUME NEW a \in Nat, NEW f \in Nat, NEW m \in Nat, NEW n \in Nat, NEW c \in Nat,
           a + m <= f, c <= m + 1, n <= c
    PROVE  a + n <= f + 1
  OBVIOUS

\* Keen shoots.
LEMMA SpawnKeepsInv ==
    ASSUME IndInv, CK_SpawnShot
    PROVE  IndInv'
<1> DEFINE e == ck_currentEpisode
           shot == Fixture("Stunner", "keenShot1")
<1>1. /\ e \in 4 .. 6 /\ numShots \in Nat /\ fired \in Nat /\ numShots + fired = MaxShots
      /\ quitMessage = "" /\ levelState \in LevelStates /\ stuns \in Nat /\ World(e, objs)
  BY DEF IndInv
<1>2. /\ numShots > 0 /\ numShots' = numShots - 1 /\ fired' = fired + 1
      /\ objs' = CK_GetNewObj(objs, shot)
      /\ ck_currentEpisode' = e /\ levelState' = levelState /\ quitMessage' = quitMessage
      /\ killer' = killer /\ stuns' = stuns
  BY DEF CK_SpawnShot
<1>3. shot.type = "Stunner" /\ shot.act = "keenShot1" /\ Good(e, shot) /\ Kind(e, shot.act) = "shot"
  BY <1>1, ShotGood, CommonKinds DEF Fixture, Obj
<1> HIDE DEF shot
<1>4. PICK slot \in Ids : objs' = objs \/ (objs[slot].type = "Nothing" /\ objs' = [objs EXCEPT ![slot] = shot])
  BY <1>2, NewSlot, ZeroId
<1>5. objs \in [Ids -> ObjType] /\ objs[0].type \in {"Player", "Friendly"}
  BY <1>1 DEF World
<1>6. World(e, objs')
  <2>1. CASE objs' = objs
    BY <1>1, <2>1
  <2>2. CASE objs[slot].type = "Nothing" /\ objs' = [objs EXCEPT ![slot] = shot]
    <3>1. slot # 0
      BY <1>5, <2>2
    <3> QED  BY <1>1, <1>3, <2>2, <3>1, PutWorld
  <2> QED  BY <1>4, <2>1, <2>2
<1>7. \A k \in Ids : objs'[k] = objs[k] \/ (k = slot /\ objs'[k] = shot /\ objs[k].type = "Nothing")
  BY <1>4, <1>5
<1>8. numShots' \in Nat /\ fired' \in Nat /\ numShots' + fired' = MaxShots
  <2> DEFINE a == numShots
             b == fired
  <2>1. a \in Nat /\ b \in Nat /\ a > 0 /\ a + b = MaxShots
    BY <1>1, <1>2
  <2> HIDE DEF a, b
  <2>2. a - 1 \in Nat /\ b + 1 \in Nat /\ (a - 1) + (b + 1) = MaxShots
    BY <2>1
  <2> QED  BY <1>2, <2>2 DEF a, b
<1>9. ShotsAreSpent'
  <2> DEFINE S == Stunners(objs)
             T == Stunners(objs')
  <2>1. T \in SUBSET (S \cup {slot})
    BY <1>7 DEF Stunners
  <2>2. IsFiniteSet(S) /\ Cardinality(S) \in Nat /\ IsFiniteSet(T) /\ Cardinality(T) \in Nat
    BY FewStunners
  <2>3. stuns + Cardinality(S) <= fired /\ (killer # <<>> => killer[2] \in {"", "Arachnut"})
    BY ShotsNow
  <2> HIDE DEF S, T
  <2>4. IsFiniteSet(S \cup {slot}) /\ Cardinality(S \cup {slot}) <= Cardinality(S) + 1
    <3>1. /\ IsFiniteSet(S \cup {slot})
          /\ Cardinality(S \cup {slot}) = IF slot \in S THEN Cardinality(S) ELSE Cardinality(S) + 1
      BY <2>2, FS_AddElement
    <3> QED  BY <2>2, <3>1
  <2>5. Cardinality(T) <= Cardinality(S \cup {slot}) /\ Cardinality(S \cup {slot}) \in Nat
    BY <2>1, <2>4, FS_Subset, FS_CardinalityType
  <2> DEFINE m == Cardinality(S)
             n == Cardinality(T)
             c == Cardinality(S \cup {slot})
  <2>6. m \in Nat /\ n \in Nat /\ c \in Nat /\ c <= m + 1 /\ n <= c /\ stuns + m <= fired
    BY <2>2, <2>3, <2>4, <2>5
  <2> HIDE DEF m, n, c
  <2>7. stuns + n <= fired + 1
    BY <1>1, <2>6, Firing
  <2>8. stuns' + n <= fired'
    BY <1>2, <2>7
  <2> QED  BY <1>2, <2>3, <2>8, ShotsNext DEF n, T
<1>10. OneFoot'
  <2>1. \A k \in Ids : (objs'[k].type = "Foot" => Is(k, "Foot")) /\ (objs'[k].type = "Inchworm" => Is(k, "Inchworm"))
    BY <1>3, <1>7 DEF Is
  <2> QED  BY <2>1, FeetNow, FeetNext
<1>11. VictimWaits'
  <2>1. ASSUME NEW i \in Ids, Kind(e, objs'[i].act) = "eating"
        PROVE  Kind(e, objs'[objs'[i].ptr].act) \in Waiting
    <3>1. objs'[i] = objs[i]
      BY <1>3, <1>7, <2>1
    <3>2. objs[i].ptr \in Ids /\ Kind(e, objs[objs[i].ptr].act) \in Waiting
      BY <2>1, <3>1, VictimNow DEF KindAt
    <3>3. objs[objs[i].ptr].type \in {"Schoolfish", "Friendly"}
      BY <1>1, <3>2, WaitingType DEF World
    <3> QED  BY <1>7, <3>1, <3>2, <3>3
  <2> QED  BY <1>1, <1>6, <2>1, VictimNext
<1>12. \A i, j \in Ids : objs'[i].type = "Dopefish" /\ objs'[j].type = "Dopefish" => i = j
  <2>1. \A k \in Ids : objs'[k].type = "Dopefish" => Is(k, "Dopefish")
    BY <1>3, <1>7 DEF Is
  <2> QED  BY <2>1 DEF IndInv
<1> HIDE DEF e
<1> QED  BY <1>1, <1>2, <1>6, <1>8, <1>9, <1>10, <1>11, <1>12, FirstsNext

\* The numbers of shots do not change in these steps.
LEMMA OthersNext ==
    ASSUME IndInv, NEW os, Becomes(os), World(ck_currentEpisode, os), Stunners(os) \subseteq Stunners(objs)
    PROVE  /\ ck_currentEpisode' = ck_currentEpisode /\ ck_currentEpisode \in 4 .. 6
           /\ World(ck_currentEpisode, objs')
           /\ numShots' \in Nat /\ fired' \in Nat /\ numShots' + fired' = MaxShots
           /\ quitMessage' = "" /\ levelState' \in LevelStates /\ stuns' \in Nat
           /\ ShotsAreSpent'
<1>1. /\ objs' = os /\ ck_currentEpisode' = ck_currentEpisode /\ numShots' = numShots /\ fired' = fired
      /\ quitMessage' = quitMessage /\ levelState' = levelState /\ stuns' = stuns /\ killer' = killer
  BY DEF Becomes, Others
<1>2. Stunners(objs') \subseteq Stunners(objs)
  BY <1>1
<1>3. ShotsAreSpent' /\ stuns' \in Nat
  BY <1>1, <1>2, ShotsLeft
<1> QED  BY <1>1, <1>3 DEF IndInv

\* The inchworms become a foot: as none of them is left, it is the only one.
LEMMA FootKeepsInv ==
    ASSUME IndInv, ck_currentEpisode = 4, NEW i \in Ids, MakesFoot(i)
    PROVE  IndInv'
<1> DEFINE foot == [objs EXCEPT ![i].type = "Foot", ![i].act = "Foot1"]
           os == [k \in Ids |-> IF foot[k].type = "Inchworm" THEN Nothing ELSE foot[k]]
           o == [objs[i] EXCEPT !.type = "Foot", !.act = "Foot1"]
<1>1. Action(i).collide = "CK4_InchwormCol" /\ Becomes(os)
  BY DEF MakesFoot
<1>2. KindAt(i) = "Inchworm"
  BY <1>1, Telling4At DEF Telling4, KindsOf4
<1>3. objs[i].type = "Inchworm"
  BY <1>2, Typed DEF TypeOf, Bound
<1>4. objs \in [Ids -> ObjType] /\ objs[i] \in ObjType /\ World(4, objs) /\ Good(4, objs[i])
  BY ObjectAt DEF IndInv
<1>5. i # 0
  BY <1>3, <1>4 DEF World
<1>6. "Foot1" \in ActsOf(4) /\ Kind(4, "Foot1") = "Foot" /\ "Foot1" \in Acts
  <2>1. "Foot1" \in Chosen4("Foot")
    BY DEF Chosen4
  <2> QED  BY <2>1, Chosen4Kinds, ActsIn, Ways
<1>7. Fits(4, "Inchworm", objs[i])
  BY <1>2, <1>4 DEF Good, KindAt
<1>8. objs[i].hit = "" /\ objs[i].clipped # "simple"
  BY <1>3, <1>7 DEF Fits, TypeFits, ClippingFits
<1>9. "Foot" \in Types
  BY DEF Types, Bound
<1>10. o \in ObjType /\ o.type = "Foot" /\ o.act = "Foot1" /\ o.hit = objs[i].hit /\ o.clipped = objs[i].clipped
  BY <1>4, <1>6, <1>9 DEF ObjType
<1>11. foot[i] = o /\ foot \in [Ids -> ObjType] /\ \A k \in Ids : k # i => foot[k] = objs[k]
  BY <1>4, <1>10
<1> HIDE DEF o, foot
<1>12. Good(4, o)
  <2>1. TypeFits(4, "Foot", o)
    BY <1>8, <1>10 DEF TypeFits, TypeOf
  <2>2. ClippingFits("Foot", o.type, o.active, o.clipped)
    BY <1>8, <1>10 DEF ClippingFits
  <2>3. CountersFit("Foot", o.user1, o.user2, o.user3)
    BY DEF CountersFit
  <2> QED  BY <1>6, <1>10, <2>1, <2>2, <2>3 DEF Good, Fits
<1>13. \A k \in Ids : \/ k = i /\ os[k] = o
                      \/ k # i /\ os[k] = objs[k] /\ objs[k].type # "Inchworm"
                      \/ k # i /\ os[k] = Nothing /\ objs[k].type = "Inchworm"
  BY <1>10, <1>11
<1>14. os \in [Ids -> {os[k] : k \in Ids}] /\ DOMAIN os = Ids
  OBVIOUS
<1> HIDE DEF os
<1>15. Good(4, Nothing) /\ Nothing.type = "Nothing" /\ Kind(4, Nothing.act) = "plain"
  BY NothingGood, Ways
<1>16. World(4, os)
  <2>1. \A k \in Ids : Good(4, os[k])
    BY <1>4, <1>12, <1>13, <1>15 DEF World
  <2>2. os \in [Ids -> ObjType]
    BY <1>14, <2>1 DEF Good
  <2>3. os[0].type \in {"Player", "Friendly"}
    BY <1>4, <1>5, <1>13, ZeroId DEF World
  <2> QED  BY <2>1, <2>2, <2>3 DEF World
<1>17. objs' = os
  BY <1>1 DEF Becomes
<1>18. \A k \in Ids : /\ os[k].type = "Foot" => k = i \/ Is(k, "Foot")
                      /\ os[k].type # "Inchworm"
                      /\ os[k].type = "Stunner" => objs[k].type = "Stunner"
                      /\ os[k].type = "Dopefish" => Is(k, "Dopefish")
  BY <1>10, <1>13, <1>15 DEF Is
<1>19. OneFoot'
  <2>1. \A k \in Ids : ~Is(k, "Foot")
    BY <1>3, FeetNow DEF Is
  <2> QED  BY <1>17, <1>18, <2>1, FeetNext
<1>20. VictimWaits'
  <2>1. ASSUME NEW k \in Ids, Kind(4, os[k].act) = "eating"
        PROVE  Kind(4, os[os[k].ptr].act) \in Waiting
    <3>1. os[k] = objs[k]
      BY <1>6, <1>10, <1>13, <1>15, <2>1
    <3>2. objs[k].ptr \in Ids /\ Kind(4, objs[objs[k].ptr].act) \in Waiting
      BY <2>1, <3>1, VictimNow DEF KindAt
    <3>3. objs[objs[k].ptr].type \in {"Schoolfish", "Friendly"}
      BY <1>4, <3>2, WaitingType DEF World
    <3>4. objs[k].ptr # i /\ objs[objs[k].ptr].type # "Inchworm"
      BY <1>3, <3>3
    <3>5. os[objs[k].ptr] = objs[objs[k].ptr]
      BY <1>13, <3>2, <3>4
    <3> QED  BY <3>1, <3>2, <3>5
  <2> QED  BY <1>16, <1>17, <2>1, Ways, VictimNext
<1>21. Stunners(os) \subseteq Stunners(objs)
  BY <1>18 DEF Stunners
<1>22. \A k, l \in Ids : objs'[k].type = "Dopefish" /\ objs'[l].type = "Dopefish" => k = l
  BY <1>17, <1>18 DEF IndInv
<1>23. /\ ck_currentEpisode' = ck_currentEpisode /\ ck_currentEpisode \in 4 .. 6
       /\ World(ck_currentEpisode, objs')
       /\ numShots' \in Nat /\ fired' \in Nat /\ numShots' + fired' = MaxShots
       /\ quitMessage' = "" /\ levelState' \in LevelStates /\ stuns' \in Nat
       /\ ShotsAreSpent'
  BY <1>1, <1>16, <1>21, OthersNext
<1> QED  BY <1>19, <1>20, <1>22, <1>23, FirstsNext

\* The Dopefish bites: its pointer is to what it has in its mouth.
LEMMA BiteKeepsInv ==
    ASSUME IndInv, ck_currentEpisode = 4, NEW i \in Ids, NEW j \in Ids, i # j, Is(i, "Dopefish"),
           NEW oi, Good(4, oi), oi.type = "Dopefish", oi.ptr = j,
           NEW oj, Good(4, oj), Kind(4, oj.act) \in Waiting,
           oj.type = "Friendly" \/ oj.type = objs[j].type,
           NEW os, os \in [Ids -> ObjType], os[i] = oi, os[j] = oj, \A k \in Ids \ {i, j} : os[k] = objs[k],
           Becomes(os)
    PROVE  IndInv'
<1>1. World(4, objs) /\ objs[0].type \in {"Player", "Friendly"}
  BY DEF IndInv, World
<1>2. i # 0
  BY <1>1 DEF Is
<1>3. World(4, os)
  <2>1. \A k \in Ids : Good(4, os[k])
    BY <1>1 DEF World
  <2>2. os[0].type \in {"Player", "Friendly"}
    BY <1>1, <1>2, ZeroId
  <2> QED  BY <2>1, <2>2 DEF World
<1>4. objs' = os
  BY DEF Becomes
<1>5. \A k \in Ids : os[k].type \in Rare => os[k].type = objs[k].type
  <2>1. "Friendly" \notin Rare
    BY DEF Rare
  <2> QED  BY <2>1 DEF Is
<1>6. Stunners(os) \subseteq Stunners(objs)
  BY <1>5 DEF Stunners, Rare
<1>7. OneFoot'
  <2>1. \A k \in Ids : (objs'[k].type = "Foot" => Is(k, "Foot")) /\ (objs'[k].type = "Inchworm" => Is(k, "Inchworm"))
    BY <1>4, <1>5 DEF Rare, Is
  <2> QED  BY <2>1, FeetNow, FeetNext
<1>8. \A k, l \in Ids : objs'[k].type = "Dopefish" /\ objs'[l].type = "Dopefish" => k = l
  BY <1>4, <1>5 DEF Rare, IndInv, Is
<1>9. VictimWaits'
  <2>1. ASSUME NEW k \in Ids, Kind(4, os[k].act) = "eating"
        PROVE  Kind(4, os[os[k].ptr].act) \in Waiting
    <3>1. Fits(4, "eating", os[k])
      BY <1>3, <2>1 DEF World, Good
    <3>2. os[k].type = "Dopefish"
      BY <3>1 DEF Fits, TypeFits, TypeOf, Bound
    <3>3. k = i
      BY <1>4, <1>8, <3>2
    <3> QED  BY <3>3
  <2> QED  BY <1>3, <1>4, <2>1, Ways, VictimNext
<1>10. /\ ck_currentEpisode' = ck_currentEpisode /\ ck_currentEpisode \in 4 .. 6
       /\ World(ck_currentEpisode, objs')
       /\ numShots' \in Nat /\ fired' \in Nat /\ numShots' + fired' = MaxShots
       /\ quitMessage' = "" /\ levelState' \in LevelStates /\ stuns' \in Nat
       /\ ShotsAreSpent'
  BY <1>3, <1>6, OthersNext
<1> QED  BY <1>7, <1>8, <1>9, <1>10, FirstsNext

\* The actions of the fish.
LEMMA FishActsKinds ==
    /\ "DopefishEat0" \in ActsOf(4) /\ Kind(4, "DopefishEat0") = "eating"
    /\ "DopefishBurp0" \in ActsOf(4) /\ Kind(4, "DopefishBurp0") = "Dopefish"
    /\ "SchoolfishEaten0" \in ActsOf(4) /\ Kind(4, "SchoolfishEaten0") = "eatenFish"
    /\ "KeenEaten0" \in ActsOf(4) /\ Kind(4, "KeenEaten0") = "eaten"
    /\ "KeenEaten1" \in ActsOf(4) /\ Kind(4, "KeenEaten1") = "plain"
    /\ {"DopefishEat0", "DopefishBurp0", "SchoolfishEaten0", "KeenEaten0", "KeenEaten1"} \subseteq Acts
<1>1. {"DopefishEat0", "DopefishBurp0", "SchoolfishEaten0", "KeenEaten0", "KeenEaten1"} \subseteq Acts4
  BY DEF Acts4, FishActs
<1>2. {"DopefishEat0", "DopefishBurp0", "SchoolfishEaten0", "KeenEaten0", "KeenEaten1"} \subseteq ActsOf(4)
  BY <1>1 DEF ActsOf
<1>3. /\ Kind4("DopefishEat0") = "eating" /\ Kind4("DopefishBurp0") = "Dopefish"
      /\ Kind4("SchoolfishEaten0") = "eatenFish" /\ Kind4("KeenEaten0") = "eaten" /\ Kind4("KeenEaten1") = "plain"
  BY DEF Kind4, Birds, Arachnuts, Dopefishes, Stunned4, Shots
<1> QED  BY <1>2, <1>3, ActsIn, Ways DEF Kind

\* What bites, and what is bitten.
LEMMA BitingGood ==
    ASSUME NEW o, Good(4, o), o.type = "Dopefish", NEW p \in Ids
    PROVE  Good(4, [o EXCEPT !.act = "DopefishEat0", !.ptr = p, !.clipped = "not"])
<1> DEFINE o2 == [o EXCEPT !.act = "DopefishEat0", !.ptr = p, !.clipped = "not"]
<1>1. o \in ObjType /\ Fits(4, Kind(4, o.act), o)
  BY DEF Good
<1>2. o.hit = ""
  BY <1>1 DEF Fits, TypeFits
<1>3. o2 \in ObjType /\ o2.type = "Dopefish" /\ o2.act = "DopefishEat0" /\ o2.clipped = "not" /\ o2.hit = ""
  BY <1>1, <1>2, FishActsKinds, Ways DEF ObjType
<1> HIDE DEF o2
<1>4. TypeFits(4, "eating", o2)
  BY <1>3 DEF TypeFits, TypeOf
<1>5. ClippingFits("eating", o2.type, o2.active, o2.clipped) /\ CountersFit("eating", o2.user1, o2.user2, o2.user3)
  BY <1>3 DEF ClippingFits, CountersFit
<1>6. Good(4, o2)
  BY <1>3, <1>4, <1>5, FishActsKinds DEF Good, Fits
<1> QED  BY <1>6 DEF o2

LEMMA BittenFish ==
    ASSUME NEW o, Good(4, o), o.type = "Schoolfish"
    PROVE  Good(4, [o EXCEPT !.act = "SchoolfishEaten0"])
<1> DEFINE o2 == [o EXCEPT !.act = "SchoolfishEaten0"]
<1>1. o \in ObjType /\ Fits(4, Kind(4, o.act), o)
  BY DEF Good
<1>2. o.hit = "" /\ o.type = TypeOf(Kind(4, o.act))
  BY <1>1 DEF Fits, TypeFits, Bound
<1>3. o.active = "active"
  <2>1. Kind(4, o.act) \in {"Schoolfish", "eatenFish"}
    BY <1>2 DEF TypeOf
  <2> QED  BY <1>1, <2>1 DEF Fits, ClippingFits
<1>4. /\ o2 \in ObjType /\ o2.type = "Schoolfish" /\ o2.act = "SchoolfishEaten0" /\ o2.active = "active"
      /\ o2.hit = ""
  BY <1>1, <1>2, <1>3, FishActsKinds DEF ObjType
<1> HIDE DEF o2
<1>5. TypeFits(4, "eatenFish", o2)
  BY <1>4 DEF TypeFits, TypeOf
<1>6. ClippingFits("eatenFish", o2.type, o2.active, o2.clipped) /\ CountersFit("eatenFish", o2.user1, o2.user2, o2.user3)
  BY <1>4 DEF ClippingFits, CountersFit
<1>7. Good(4, o2)
  BY <1>4, <1>5, <1>6, FishActsKinds DEF Good, Fits
<1> QED  BY <1>7 DEF o2

LEMMA BittenKeen ==
    ASSUME NEW o, Good(4, o), o.type = "Player"
    PROVE  Good(4, [o EXCEPT !.type = "Friendly", !.clipped = "not", !.act = "KeenEaten0"])
<1> DEFINE o2 == [o EXCEPT !.type = "Friendly", !.clipped = "not", !.act = "KeenEaten0"]
<1>1. o \in ObjType /\ Fits(4, Kind(4, o.act), o)
  BY DEF Good
<1>2. o.hit = "" /\ o.active = "active"
  BY <1>1 DEF Fits, TypeFits, ClippingFits
<1>3. "Friendly" \in Types
  BY DEF Types, Ordinary
<1>4. /\ o2 \in ObjType /\ o2.type = "Friendly" /\ o2.act = "KeenEaten0" /\ o2.active = "active"
      /\ o2.clipped = "not" /\ o2.hit = ""
  BY <1>1, <1>2, <1>3, FishActsKinds, Ways DEF ObjType
<1> HIDE DEF o2
<1>5. TypeFits(4, "eaten", o2)
  BY <1>4 DEF TypeFits, TypeOf, Bound
<1>6. ClippingFits("eaten", o2.type, o2.active, o2.clipped) /\ CountersFit("eaten", o2.user1, o2.user2, o2.user3)
  BY <1>4 DEF ClippingFits, CountersFit
<1>7. Good(4, o2)
  BY <1>4, <1>5, <1>6, FishActsKinds DEF Good, Fits
<1> QED  BY <1>7 DEF o2

\* The Dopefish bites a fish, or Keen.
LEMMA DopefishColKeepsInv ==
    ASSUME IndInv, ck_currentEpisode = 4, NEW i \in Ids, NEW j \in Ids, CK4_DopefishCol(i, j)
    PROVE  IndInv'
<1> DEFINE oi == [objs[i] EXCEPT !.act = "DopefishEat0", !.ptr = j, !.clipped = "not"]
           bites == [objs EXCEPT ![i].act = "DopefishEat0", ![i].ptr = j, ![i].clipped = "not"]
           fish == [objs[j] EXCEPT !.act = "SchoolfishEaten0"]
           keen == [objs[j] EXCEPT !.type = "Friendly", !.clipped = "not", !.act = "KeenEaten0"]
           bitesFish == [bites EXCEPT ![j].act = "SchoolfishEaten0"]
           bitesKeen == [bites EXCEPT ![j].type = "Friendly", ![j].clipped = "not", ![j].act = "KeenEaten0"]
<1>1. /\ Action(i).collide = "CK4_DopefishCol" /\ i # j
      /\ \/ Is(j, "Schoolfish") /\ Becomes(bitesFish)
         \/ Is(j, "Player") /\ Becomes(bitesKeen)
  BY DEF CK4_DopefishCol, Touches
<1>2. KindAt(i) = "swimming"
  BY <1>1, Telling4At DEF Telling4, KindsOf4
<1>3. Is(i, "Dopefish")
  BY <1>2, Typed DEF TypeOf, Bound, Is
<1>4. objs \in [Ids -> ObjType] /\ objs[i] \in ObjType /\ objs[j] \in ObjType /\ Good(4, objs[i]) /\ Good(4, objs[j])
  BY ObjectAt
<1>5. Good(4, oi)
  BY <1>3, <1>4, BitingGood DEF Is
<1>6. oi \in ObjType /\ oi.type = "Dopefish" /\ oi.ptr = j
  BY <1>3, <1>4, <1>5 DEF Good, Is, ObjType
<1>7. bites[i] = oi /\ bites \in [Ids -> ObjType] /\ \A k \in Ids \ {i} : bites[k] = objs[k]
  BY <1>4, <1>6
<1> HIDE DEF oi, bites
<1>8. CASE Is(j, "Schoolfish") /\ Becomes(bitesFish)
  <2>1. Good(4, fish)
    BY <1>4, <1>8, BittenFish DEF Is
  <2>2. fish \in ObjType /\ fish.type = objs[j].type /\ fish.act = "SchoolfishEaten0"
    BY <1>4, <2>1 DEF Good, ObjType
  <2>3. Kind(4, fish.act) \in Waiting
    BY <2>2, FishActsKinds DEF Waiting
  <2>4. /\ bitesFish \in [Ids -> ObjType] /\ bitesFish[i] = oi /\ bitesFish[j] = fish
        /\ \A k \in Ids \ {i, j} : bitesFish[k] = objs[k]
    BY <1>1, <1>7, <2>2
  <2> HIDE DEF fish, bitesFish
  <2> QED  BY <1>1, <1>3, <1>5, <1>6, <1>8, <2>1, <2>2, <2>3, <2>4, BiteKeepsInv
<1>9. CASE Is(j, "Player") /\ Becomes(bitesKeen)
  <2>1. Good(4, keen)
    BY <1>4, <1>9, BittenKeen DEF Is
  <2>2. keen \in ObjType /\ keen.type = "Friendly" /\ keen.act = "KeenEaten0"
    BY <1>4, <2>1 DEF Good, ObjType
  <2>3. Kind(4, keen.act) \in Waiting
    BY <2>2, FishActsKinds DEF Waiting
  <2>4. /\ bitesKeen \in [Ids -> ObjType] /\ bitesKeen[i] = oi /\ bitesKeen[j] = keen
        /\ \A k \in Ids \ {i, j} : bitesKeen[k] = objs[k]
    BY <1>1, <1>7, <2>2
  <2> HIDE DEF keen, bitesKeen
  <2> QED  BY <1>1, <1>3, <1>5, <1>6, <1>9, <2>1, <2>2, <2>3, <2>4, BiteKeepsInv
<1> QED  BY <1>1, <1>8, <1>9

\* The Dopefish has reached what it bit: the fish is gone, or Keen shows once more.
LEMMA SwallowKeepsInv ==
    ASSUME IndInv, ck_currentEpisode = 4, NEW i \in Ids, NEW j \in Ids, i # j, Is(i, "Dopefish"),
           NEW oi, Good(4, oi), oi.type = "Dopefish", Kind(4, oi.act) # "eating",
           NEW oj, Good(4, oj), oj.type \in {"Friendly", "Nothing"}, j = 0 => oj.type = "Friendly",
           NEW os, os \in [Ids -> ObjType], os[i] = oi, os[j] = oj, \A k \in Ids \ {i, j} : os[k] = objs[k],
           Becomes(os)
    PROVE  IndInv'
<1>1. World(4, objs) /\ objs[0].type \in {"Player", "Friendly"}
  BY DEF IndInv, World
<1>2. i # 0
  BY <1>1 DEF Is
<1>3. World(4, os)
  <2>1. \A k \in Ids : Good(4, os[k])
    BY <1>1 DEF World
  <2>2. os[0].type \in {"Player", "Friendly"}
    BY <1>1, <1>2, ZeroId
  <2> QED  BY <2>1, <2>2 DEF World
<1>4. objs' = os
  BY DEF Becomes
<1>5. \A k \in Ids : os[k].type \in Rare => os[k].type = objs[k].type
  <2>1. "Friendly" \notin Rare /\ "Nothing" \notin Rare
    BY DEF Rare
  <2> QED  BY <2>1 DEF Is
<1>6. Stunners(os) \subseteq Stunners(objs)
  BY <1>5 DEF Stunners, Rare
<1>7. OneFoot'
  <2>1. \A k \in Ids : (objs'[k].type = "Foot" => Is(k, "Foot")) /\ (objs'[k].type = "Inchworm" => Is(k, "Inchworm"))
    BY <1>4, <1>5 DEF Rare, Is
  <2> QED  BY <2>1, FeetNow, FeetNext
<1>8. \A k, l \in Ids : objs'[k].type = "Dopefish" /\ objs'[l].type = "Dopefish" => k = l
  BY <1>4, <1>5 DEF Rare, IndInv, Is
<1>9. VictimWaits'
  <2>1. ASSUME NEW k \in Ids, Kind(4, os[k].act) = "eating"
        PROVE  FALSE
    <3>1. Fits(4, "eating", os[k])
      BY <1>3, <2>1 DEF World, Good
    <3>2. os[k].type = "Dopefish"
      BY <3>1 DEF Fits, TypeFits, TypeOf, Bound
    <3>3. k = i
      BY <1>4, <1>8, <3>2
    <3> QED  BY <2>1, <3>3
  <2> QED  BY <1>3, <1>4, <2>1, Ways, VictimNext
<1>10. /\ ck_currentEpisode' = ck_currentEpisode /\ ck_currentEpisode \in 4 .. 6
       /\ World(ck_currentEpisode, objs')
       /\ numShots' \in Nat /\ fired' \in Nat /\ numShots' + fired' = MaxShots
       /\ quitMessage' = "" /\ levelState' \in LevelStates /\ stuns' \in Nat
       /\ ShotsAreSpent'
  BY <1>3, <1>6, OthersNext
<1> QED  BY <1>7, <1>8, <1>9, <1>10, FirstsNext

\* The Dopefish after its meal, and the meal.
LEMMA BurpingGood ==
    ASSUME NEW o, Good(4, o), o.act = "DopefishEat0"
    PROVE  LET o2 == [o EXCEPT !.act = "DopefishBurp0"] IN
           Good(4, o2) /\ o2.type = "Dopefish" /\ Kind(4, o2.act) # "eating" /\ o2 \in ObjType
<1> DEFINE o2 == [o EXCEPT !.act = "DopefishBurp0"]
<1>1. o \in ObjType /\ Fits(4, "eating", o)
  BY FishActsKinds DEF Good
<1>2. o.hit = "" /\ o.type = "Dopefish" /\ o.clipped # "simple"
  BY <1>1 DEF Fits, TypeFits, ClippingFits, TypeOf, Bound
<1>3. /\ o2 \in ObjType /\ o2.type = "Dopefish" /\ o2.act = "DopefishBurp0" /\ o2.clipped # "simple"
      /\ o2.hit = ""
  BY <1>1, <1>2, FishActsKinds DEF ObjType
<1> HIDE DEF o2
<1>4. TypeFits(4, "Dopefish", o2)
  BY <1>3 DEF TypeFits, TypeOf
<1>5. ClippingFits("Dopefish", o2.type, o2.active, o2.clipped) /\ CountersFit("Dopefish", o2.user1, o2.user2, o2.user3)
  BY <1>3 DEF ClippingFits, CountersFit
<1>6. Good(4, o2) /\ Kind(4, o2.act) # "eating"
  BY <1>3, <1>4, <1>5, FishActsKinds DEF Good, Fits
<1> QED  BY <1>3, <1>6 DEF o2

LEMMA EatenGood ==
    ASSUME NEW o, Good(4, o), o.act = "KeenEaten0"
    PROVE  LET o2 == [o EXCEPT !.act = "KeenEaten1"] IN
           Good(4, o2) /\ o2.type = "Friendly" /\ o2 \in ObjType
<1> DEFINE o2 == [o EXCEPT !.act = "KeenEaten1"]
<1>1. o \in ObjType /\ Fits(4, "eaten", o)
  BY FishActsKinds DEF Good
<1>2. o.hit = "" /\ o.type = "Friendly" /\ o.clipped # "simple"
  BY <1>1 DEF Fits, TypeFits, ClippingFits
<1>3. /\ o2 \in ObjType /\ o2.type = "Friendly" /\ o2.act = "KeenEaten1" /\ o2.clipped # "simple"
      /\ o2.hit = ""
  BY <1>1, <1>2, FishActsKinds DEF ObjType
<1> HIDE DEF o2
<1>4. o2.type \in Ordinary
  BY <1>3 DEF Ordinary
<1>5. Good(4, o2)
  BY <1>3, <1>4, FishActsKinds, Ways, PlainGood
<1> QED  BY <1>3, <1>5 DEF o2

\* The rows of what is eaten.
LEMMA EatenRows ==
    /\ Actions[4]["SchoolfishEaten0"].next = {"NULL"}
    /\ Actions[4]["KeenEaten0"].next = {"KeenEaten1"}
<1>1. "SchoolfishEaten0" \in Acts4 /\ "KeenEaten0" \in Acts4
  BY DEF Acts4, FishActs
<1>2. Actions4["SchoolfishEaten0"] = FishRows["SchoolfishEaten0"] /\ Actions4["KeenEaten0"] = FishRows["KeenEaten0"]
  BY <1>1 DEF Actions4, SlugActs, BirdActs, ArachnutActs, CloudActs, FootActs, SmirkyActs, FishActs
<1>3. FishRows["SchoolfishEaten0"].next = {"NULL"} /\ FishRows["KeenEaten0"].next = {"KeenEaten1"}
  BY DEF FishRows, FishActs, Row
<1> QED  BY <1>1, <1>2, <1>3, Rows4

\* The Dopefish comes nearer, or has arrived.
LEMMA DopefishEatKeepsInv ==
    ASSUME IndInv, ck_currentEpisode = 4, NEW i \in Ids, CK4_DopefishEat(i)
    PROVE  IndInv'
<1> DEFINE victim == objs[i].ptr
           swallowed == IF victim = 0 THEN Goes(0, "KeenEaten1")
                        ELSE IF Action(victim).next = {"NULL"} THEN CK_RemoveObj(objs, victim)
                        ELSE Goes(victim, CHOOSE act \in Action(victim).next : TRUE)
           os == SetAct(swallowed, i, "DopefishBurp0")
           oi == [objs[i] EXCEPT !.act = "DopefishBurp0"]
           keen == [objs[victim] EXCEPT !.act = "KeenEaten1"]
<1>1. Action(i).think = "CK4_DopefishEat" /\ (Becomes(objs) \/ ThinkOnly(i, os))
  BY DEF CK4_DopefishEat, Thinks
<1>2. KindAt(i) = "eating"
  BY <1>1, Telling4At DEF Telling4, KindsOf4
<1>3. /\ victim \in Ids /\ objs[i].act = "DopefishEat0" /\ objs[i].type = "Dopefish"
      /\ objs[victim].act \in {"SchoolfishEaten0", "KeenEaten0"}
  BY <1>2, VictimNow
<1>4. CASE Becomes(objs)
  BY <1>4, SafeNothing, SafeKeepsInv
<1>5. CASE ThinkOnly(i, os)
  <2>1. objs \in [Ids -> ObjType] /\ Good(4, objs[i]) /\ Good(4, objs[victim]) /\ objs[0].type \in {"Player", "Friendly"}
        /\ objs[i] \in ObjType
    BY <1>3, ObjectAt DEF IndInv, World
  <2>2. Good(4, oi) /\ oi.type = "Dopefish" /\ Kind(4, oi.act) # "eating" /\ oi \in ObjType
    BY <1>3, <2>1, BurpingGood
  <2>3. victim # i
    BY <1>3
  <2>4. PICK ov : /\ swallowed = [objs EXCEPT ![victim] = ov] /\ Good(4, ov) /\ ov \in ObjType
                  /\ ov.type \in {"Friendly", "Nothing"} /\ (victim = 0 => ov.type = "Friendly")
    <3>1. CASE objs[victim].act = "KeenEaten0"
      <4>1. Good(4, keen) /\ keen.type = "Friendly" /\ keen \in ObjType
        BY <2>1, <3>1, EatenGood
      <4>2. Action(victim).next = {"KeenEaten1"}
        BY <3>1, EatenRows DEF Action
      <4>3. {"KeenEaten1"} # {"NULL"} /\ (CHOOSE act \in {"KeenEaten1"} : TRUE) = "KeenEaten1"
        OBVIOUS
      <4>4. swallowed = Goes(victim, "KeenEaten1")
        BY <4>2, <4>3
      <4>5. Goes(victim, "KeenEaten1") = [objs EXCEPT ![victim] = keen]
        BY DEF Goes, SetAct
      <4> QED  BY <4>1, <4>4, <4>5
    <3>2. CASE objs[victim].act = "SchoolfishEaten0"
      <4>1. Fits(4, "eatenFish", objs[victim])
        BY <2>1, <3>2, FishActsKinds DEF Good
      <4>2. objs[victim].type = "Schoolfish"
        BY <4>1 DEF Fits, TypeFits, TypeOf, Bound
      <4>3. victim # 0
        BY <2>1, <4>2
      <4>4. Action(victim).next = {"NULL"}
        BY <3>2, EatenRows DEF Action
      <4>5. swallowed = [objs EXCEPT ![victim] = Nothing]
        BY <4>3, <4>4 DEF CK_RemoveObj
      <4>6. Good(4, Nothing) /\ Nothing.type = "Nothing" /\ Nothing \in ObjType
        BY NothingGood, Ways DEF Good
      <4> QED  BY <4>3, <4>5, <4>6
    <3> QED  BY <1>3, <3>1, <3>2
  <2>5. os = [[objs EXCEPT ![victim] = ov] EXCEPT ![i] = oi]
    BY <2>1, <2>3, <2>4 DEF SetAct
  <2>6. oi.act = "DopefishBurp0"
    BY <2>1 DEF ObjType
  <2> HIDE DEF swallowed, oi, keen, os
  <2>7. /\ os \in [Ids -> ObjType] /\ os[i] = oi /\ os[victim] = ov
        /\ \A k \in Ids \ {i, victim} : os[k] = objs[k]
    BY <1>3, <2>1, <2>2, <2>3, <2>4, <2>5
  <2>8. Becomes(os)
    <3>1. os[i].act # objs[i].act
      BY <1>3, <2>6, <2>7
    <3> QED  BY <1>5, <3>1 DEF ThinkOnly, CK_ActionThink
  <2> HIDE DEF victim
  <2> QED  BY <1>3, <2>2, <2>3, <2>4, <2>7, <2>8, SwallowKeepsInv DEF Is
<1> QED  BY <1>1, <1>4, <1>5

(***************************************************************************)
(* What a level spawns is good.                                            *)
(***************************************************************************)
Fresh(e, o) ==
    /\ Good(e, o) /\ o.type \in Bound \cup Ordinary \cup {"Arachnut"}
    /\ Kind(e, o.act) # "eating" /\ o.hit = ""

\* A new object of a plain action.
LEMMA ObjPlain ==
    ASSUME NEW e \in 4 .. 6, NEW ty \in Ordinary, NEW act \in ActsOf(e), Kind(e, act) = "plain",
           NEW ac \in {"active", "onscreen", "always", "inactive"}
    PROVE  Fresh(e, Obj(ty, act, ac)) /\ Kind(e, Obj(ty, act, ac).act) = "plain"
<1>1. Good(e, Obj(ty, act, ac)) /\ Obj(ty, act, ac).type = ty /\ Obj(ty, act, ac).act = act
  BY ObjGood
<1>2. Obj(ty, act, ac).hit = ""
  BY DEF Obj
<1>3. Obj(ty, act, ac).type \in Bound \cup Ordinary \cup {"Arachnut"}
  BY <1>1
<1>4. Kind(e, Obj(ty, act, ac).act) = "plain" /\ "plain" # "eating"
  BY <1>1
<1> QED  BY <1>1, <1>2, <1>3, <1>4 DEF Fresh

\* A plain object may be clipped otherwise, and its counters may be anything.
LEMMA PlainVaries ==
    ASSUME NEW e \in 4 .. 6, NEW o, Fresh(e, o), Kind(e, o.act) = "plain",
           NEW clipped \in {"normal", "not"}, NEW u \in Int
    PROVE  /\ Fresh(e, [o EXCEPT !.clipped = clipped])
           /\ Fresh(e, [o EXCEPT !.user1 = u, !.clipped = clipped])
           /\ Fresh(e, [o EXCEPT !.user2 = u])
<1>1. o \in ObjType /\ o.act \in ActsOf(e) /\ o.clipped # "simple"
  BY DEF Fresh, Good, Fits, ClippingFits
<1>2. o.type \notin Bound /\ o.type # "Arachnut"
  BY DEF Fresh, Good, Fits, TypeFits, TypeOf, Bound
<1>3. o.type \in Ordinary
  BY <1>2 DEF Fresh
<1>4. o.type # "Player"
  BY <1>3 DEF Ordinary
<1>5. ASSUME NEW o2 \in ObjType, o2.type = o.type, o2.act = o.act, o2.hit = o.hit, o2.clipped # "simple"
      PROVE  Fresh(e, o2)
  <2>1. Good(e, o2)
    BY <1>1, <1>3, <1>4, <1>5, PlainGood DEF Fresh
  <2> QED  BY <1>5, <2>1 DEF Fresh
<1>6. /\ [o EXCEPT !.clipped = clipped] \in ObjType
      /\ [o EXCEPT !.user1 = u, !.clipped = clipped] \in ObjType
      /\ [o EXCEPT !.user2 = u] \in ObjType
  BY <1>1 DEF ObjType
<1>7. /\ [o EXCEPT !.clipped = clipped].type = o.type
      /\ [o EXCEPT !.clipped = clipped].act = o.act
      /\ [o EXCEPT !.clipped = clipped].hit = o.hit
      /\ [o EXCEPT !.clipped = clipped].clipped = clipped
  BY <1>1 DEF ObjType
<1>8. /\ [o EXCEPT !.user1 = u, !.clipped = clipped].type = o.type
      /\ [o EXCEPT !.user1 = u, !.clipped = clipped].act = o.act
      /\ [o EXCEPT !.user1 = u, !.clipped = clipped].hit = o.hit
      /\ [o EXCEPT !.user1 = u, !.clipped = clipped].clipped = clipped
  BY <1>1 DEF ObjType
<1>9. /\ [o EXCEPT !.user2 = u].type = o.type
      /\ [o EXCEPT !.user2 = u].act = o.act
      /\ [o EXCEPT !.user2 = u].hit = o.hit
      /\ [o EXCEPT !.user2 = u].clipped = o.clipped
  BY <1>1 DEF ObjType
<1>10. clipped # "simple"
  OBVIOUS
<1> HIDE DEF Fresh
<1>11. Fresh(e, [o EXCEPT !.clipped = clipped])
  BY <1>5, <1>6, <1>7, <1>10
<1>12. Fresh(e, [o EXCEPT !.user1 = u, !.clipped = clipped])
  BY <1>5, <1>6, <1>8, <1>10
<1>13. Fresh(e, [o EXCEPT !.user2 = u])
  BY <1>1, <1>5, <1>6, <1>9
<1> QED  BY <1>11, <1>12, <1>13

\* Objects whose type says what they do.
LEMMA BoundFresh ==
    ASSUME NEW e \in 4 .. 6, NEW o \in ObjType, NEW kind, o.act \in ActsOf(e), kind = Kind(e, o.act),
           o.hit = "", o.type = TypeOf(kind), o.type \in Bound, kind # "eating",
           ClippingFits(kind, o.type, o.active, o.clipped),
           CountersFit(kind, o.user1, o.user2, o.user3)
    PROVE  Fresh(e, o)
<1>1. kind \notin {"Arachnut", "stunned", "shot", "eaten"}
  BY DEF Bound, TypeOf
<1>2. o.type \notin {"Arachnut", "StunnedCreature", "Stunner"}
  BY DEF Bound
<1>3. TypeFits(e, kind, o)
  BY <1>1, <1>2 DEF TypeFits
<1> QED  BY <1>3 DEF Fresh, Good, Fits

\* One whose kind says how it is clipped and bounds its counters.
LEMMA BoundVaries ==
    ASSUME NEW e \in 4 .. 6, NEW ty \in Bound, NEW act \in ActsOf(e), NEW kind, kind = Kind(e, act),
           ty = TypeOf(kind), kind # "eating", NEW clipped \in {"normal", "simple", "not"}, NEW u \in Int,
           ClippingFits(kind, ty, "active", clipped)
    PROVE  /\ CountersFit(kind, 0, 0, 0) =>
                 Fresh(e, [Obj(ty, act, "active") EXCEPT !.clipped = clipped])
           /\ CountersFit(kind, u, 0, 0) =>
                 Fresh(e, [Obj(ty, act, "active") EXCEPT !.user1 = u, !.clipped = clipped])
           /\ clipped = "normal" /\ CountersFit(kind, 0, 0, 0) => Fresh(e, Obj(ty, act, "active"))
           /\ clipped = "normal" /\ CountersFit(kind, u, 0, 0) =>
                 Fresh(e, [Obj(ty, act, "active") EXCEPT !.user1 = u])
           /\ clipped = "normal" /\ CountersFit(kind, 0, u, 0) =>
                 Fresh(e, [Obj(ty, act, "active") EXCEPT !.user2 = u])
           /\ clipped = "normal" /\ CountersFit(kind, 0, 0, u) =>
                 Fresh(e, [Obj(ty, act, "active") EXCEPT !.user3 = u])
<1> DEFINE o == Obj(ty, act, "active")
           zero == 0
<1>1. o \in ObjType
  BY ObjIn, ActsIn DEF Types
<1>2. o.type = ty /\ o.act = act /\ o.hit = "" /\ o.active = "active" /\ o.clipped = "normal"
  BY DEF Obj
<1>3. o.user1 = zero /\ o.user2 = zero /\ o.user3 = zero
  BY DEF Obj
<1>4. zero \in Int
  OBVIOUS
<1> HIDE DEF o, zero
<1>5. ASSUME NEW o2 \in ObjType, o2.type = ty, o2.act = act, o2.hit = "", o2.active = "active",
             o2.clipped = clipped, CountersFit(kind, o2.user1, o2.user2, o2.user3)
      PROVE  Fresh(e, o2)
  BY <1>5, BoundFresh
<1>6. CountersFit(kind, zero, zero, zero) => Fresh(e, [o EXCEPT !.clipped = clipped])
  <2> DEFINE o2 == [o EXCEPT !.clipped = clipped]
  <2>1. o2 \in ObjType
    BY <1>1 DEF ObjType
  <2>2. /\ o2.type = o.type /\ o2.act = o.act /\ o2.hit = o.hit /\ o2.active = o.active
        /\ o2.clipped = clipped
    BY <1>1 DEF ObjType
  <2>3. o2.user1 = o.user1 /\ o2.user2 = o.user2 /\ o2.user3 = o.user3
    BY <1>1 DEF ObjType
  <2> HIDE DEF o2
  <2>4. SUFFICES ASSUME CountersFit(kind, zero, zero, zero) PROVE Fresh(e, o2)
    BY DEF o2
  <2>5. CountersFit(kind, o2.user1, o2.user2, o2.user3)
    BY <1>3, <2>3, <2>4
  <2> QED  BY <1>2, <1>5, <2>1, <2>2, <2>5
<1>7. CountersFit(kind, u, zero, zero) => Fresh(e, [o EXCEPT !.user1 = u, !.clipped = clipped])
  <2> DEFINE o2 == [o EXCEPT !.user1 = u, !.clipped = clipped]
  <2>1. o2 \in ObjType
    BY <1>1 DEF ObjType
  <2>2. /\ o2.type = o.type /\ o2.act = o.act /\ o2.hit = o.hit /\ o2.active = o.active
        /\ o2.clipped = clipped
    BY <1>1 DEF ObjType
  <2>3. o2.user1 = u /\ o2.user2 = o.user2 /\ o2.user3 = o.user3
    BY <1>1 DEF ObjType
  <2> HIDE DEF o2
  <2>4. SUFFICES ASSUME CountersFit(kind, u, zero, zero) PROVE Fresh(e, o2)
    BY DEF o2
  <2>5. CountersFit(kind, o2.user1, o2.user2, o2.user3)
    BY <1>3, <2>3, <2>4
  <2> QED  BY <1>2, <1>5, <2>1, <2>2, <2>5
<1>8. clipped = "normal" /\ CountersFit(kind, zero, zero, zero) => Fresh(e, o)
  <2> SUFFICES ASSUME clipped = "normal", CountersFit(kind, zero, zero, zero) PROVE Fresh(e, o)
    OBVIOUS
  <2>1. CountersFit(kind, o.user1, o.user2, o.user3)
    BY <1>3
  <2> QED  BY <1>1, <1>2, <1>5, <2>1
<1>9. ASSUME NEW o2 \in ObjType, o2.type = o.type, o2.act = o.act, o2.hit = o.hit, o2.active = o.active,
             o2.clipped = o.clipped, clipped = "normal", CountersFit(kind, o2.user1, o2.user2, o2.user3)
      PROVE  Fresh(e, o2)
  BY <1>2, <1>5, <1>9
<1>10. clipped = "normal" /\ CountersFit(kind, u, zero, zero) => Fresh(e, [o EXCEPT !.user1 = u])
  <2> DEFINE o2 == [o EXCEPT !.user1 = u]
  <2>1. o2 \in ObjType
    BY <1>1 DEF ObjType
  <2>2. /\ o2.type = o.type /\ o2.act = o.act /\ o2.hit = o.hit /\ o2.active = o.active
        /\ o2.clipped = o.clipped
    BY <1>1 DEF ObjType
  <2>3. o2.user1 = u /\ o2.user2 = o.user2 /\ o2.user3 = o.user3
    BY <1>1 DEF ObjType
  <2> HIDE DEF o2
  <2>4. SUFFICES ASSUME clipped = "normal", CountersFit(kind, u, zero, zero) PROVE Fresh(e, o2)
    BY DEF o2
  <2>5. CountersFit(kind, o2.user1, o2.user2, o2.user3)
    BY <1>3, <2>3, <2>4
  <2> QED  BY <1>9, <2>1, <2>2, <2>4, <2>5
<1>11. clipped = "normal" /\ CountersFit(kind, zero, u, zero) => Fresh(e, [o EXCEPT !.user2 = u])
  <2> DEFINE o2 == [o EXCEPT !.user2 = u]
  <2>1. o2 \in ObjType
    BY <1>1 DEF ObjType
  <2>2. /\ o2.type = o.type /\ o2.act = o.act /\ o2.hit = o.hit /\ o2.active = o.active
        /\ o2.clipped = o.clipped
    BY <1>1 DEF ObjType
  <2>3. o2.user1 = o.user1 /\ o2.user2 = u /\ o2.user3 = o.user3
    BY <1>1 DEF ObjType
  <2> HIDE DEF o2
  <2>4. SUFFICES ASSUME clipped = "normal", CountersFit(kind, zero, u, zero) PROVE Fresh(e, o2)
    BY DEF o2
  <2>5. CountersFit(kind, o2.user1, o2.user2, o2.user3)
    BY <1>3, <2>3, <2>4
  <2> QED  BY <1>9, <2>1, <2>2, <2>4, <2>5
<1>12. clipped = "normal" /\ CountersFit(kind, zero, zero, u) => Fresh(e, [o EXCEPT !.user3 = u])
  <2> DEFINE o2 == [o EXCEPT !.user3 = u]
  <2>1. o2 \in ObjType
    BY <1>1 DEF ObjType
  <2>2. /\ o2.type = o.type /\ o2.act = o.act /\ o2.hit = o.hit /\ o2.active = o.active
        /\ o2.clipped = o.clipped
    BY <1>1 DEF ObjType
  <2>3. o2.user1 = o.user1 /\ o2.user2 = o.user2 /\ o2.user3 = u
    BY <1>1 DEF ObjType
  <2> HIDE DEF o2
  <2>4. SUFFICES ASSUME clipped = "normal", CountersFit(kind, zero, zero, u) PROVE Fresh(e, o2)
    BY DEF o2
  <2>5. CountersFit(kind, o2.user1, o2.user2, o2.user3)
    BY <1>3, <2>3, <2>4
  <2> QED  BY <1>9, <2>1, <2>2, <2>4, <2>5
<1> QED  BY <1>6, <1>7, <1>8, <1>10, <1>11, <1>12 DEF o, zero

\* Creatures as they are spawned, clipped normally, or not.
LEMMA CreatureBound ==
    ASSUME NEW e \in 4 .. 6, NEW ty \in Bound, NEW act \in ActsOf(e), NEW kind, kind = Kind(e, act),
           ty = TypeOf(kind), kind # "eating", ClippingFits(kind, ty, "active", "normal")
    PROVE  /\ CountersFit(kind, 0, 0, 0) => Fresh(e, Creature(ty, act))
           /\ \A u \in Int :
                 /\ CountersFit(kind, u, 0, 0) => Fresh(e, [Creature(ty, act) EXCEPT !.user1 = u])
                 /\ CountersFit(kind, 0, u, 0) => Fresh(e, [Creature(ty, act) EXCEPT !.user2 = u])
                 /\ CountersFit(kind, 0, 0, u) => Fresh(e, [Creature(ty, act) EXCEPT !.user3 = u])
<1>1. "normal" \in {"normal", "simple", "not"} /\ 0 \in Int
  OBVIOUS
<1>2. CountersFit(kind, 0, 0, 0) => Fresh(e, Creature(ty, act))
  BY <1>1, BoundVaries DEF Creature
<1>3. ASSUME NEW u \in Int
      PROVE  /\ CountersFit(kind, u, 0, 0) => Fresh(e, [Creature(ty, act) EXCEPT !.user1 = u])
             /\ CountersFit(kind, 0, u, 0) => Fresh(e, [Creature(ty, act) EXCEPT !.user2 = u])
             /\ CountersFit(kind, 0, 0, u) => Fresh(e, [Creature(ty, act) EXCEPT !.user3 = u])
  BY <1>1, BoundVaries DEF Creature
<1> QED  BY <1>2, <1>3

LEMMA CreaturePlain ==
    ASSUME NEW e \in 4 .. 6, NEW ty \in Ordinary, NEW act \in ActsOf(e), Kind(e, act) = "plain"
    PROVE  /\ Fresh(e, Creature(ty, act)) /\ Fresh(e, Fixture(ty, act))
           /\ Fresh(e, [Creature(ty, act) EXCEPT !.clipped = "not"])
           /\ Fresh(e, [Fixture(ty, act) EXCEPT !.clipped = "not"])
           /\ \A u \in Int : /\ Fresh(e, [Creature(ty, act) EXCEPT !.user1 = u, !.clipped = "not"])
                             /\ Fresh(e, [Creature(ty, act) EXCEPT !.user2 = u])
<1>1. /\ Fresh(e, Obj(ty, act, "active")) /\ Kind(e, Obj(ty, act, "active").act) = "plain"
      /\ Fresh(e, Obj(ty, act, "always")) /\ Kind(e, Obj(ty, act, "always").act) = "plain"
  BY ObjPlain
<1>2. "not" \in {"normal", "not"} /\ 0 \in Int
  OBVIOUS
<1> QED  BY <1>1, <1>2, PlainVaries DEF Creature, Fixture

\* In Keen 4.
LEMMA PlainSpawned4 ==
    \A o \in {CK4_SpawnCouncilMember, CK4_SpawnSlug, CK4_SpawnEgg, CK4_SpawnSkypest, CK4_SpawnWormmouth,
              CK4_SpawnCloud, CK4_SpawnBerkeloid, CK4_SpawnBounder, CK4_SpawnLick, CK4_SpawnSmirky,
              CK4_SpawnMimrock, CK4_SpawnSprite, CK4_SpawnMine, CK4_SpawnLindsey, CK4_SpawnWetsuit}
             \cup CK4_SpawnDartGun :
        Fresh(4, o)
<1> DEFINE e == 4
<1>1. e \in 4 .. 6
  OBVIOUS
<1>2. \A act \in {"CouncilWalk0", "SlugMove0", "Egg0", "SkypestFly0", "WormmouthMove0", "CloudDormant0",
                  "BerkeloidMove0", "Bounder0", "LickHop1", "Smirky0", "Mimrock0", "Sprite0", "Mine0",
                  "Lindsey0", "DartGun0", "Wetsuit0"} :
         act \in ActsOf(e) /\ Kind(e, act) = "plain"
  <2>1. ASSUME NEW act \in {"CouncilWalk0", "SlugMove0", "Egg0", "SkypestFly0", "WormmouthMove0",
                  "CloudDormant0", "BerkeloidMove0", "Bounder0", "LickHop1", "Smirky0", "Mimrock0",
                  "Sprite0", "Mine0", "Lindsey0", "DartGun0", "Wetsuit0"}
        PROVE  act \in Acts4
    BY DEF Acts4, SlugActs, BirdActs, ArachnutActs, CloudActs, FootActs, SmirkyActs, FishActs, SpriteActs
  <2>2. ASSUME NEW act \in {"CouncilWalk0", "SlugMove0", "Egg0", "SkypestFly0", "WormmouthMove0",
                  "CloudDormant0", "BerkeloidMove0", "Bounder0", "LickHop1", "Smirky0", "Mimrock0",
                  "Sprite0", "Mine0", "Lindsey0", "DartGun0", "Wetsuit0"}
        PROVE  Kind4(act) = "plain"
    BY DEF Kind4, Birds, Dopefishes, Arachnuts, Stunned4, Shots
  <2> QED  BY <2>1, <2>2 DEF ActsOf, Kind
<1>3. {"CouncilMember", "Slug", "Egg", "Skypest", "Wormmouth", "Cloud", "Berkeloid", "Bounder", "Lick",
       "Smirky", "Mimrock", "Sprite", "Mine", "Lindsey", "Turret", "Wetsuit"} \subseteq Ordinary
  BY DEF Ordinary
<1> HIDE DEF e
<1>4. /\ Fresh(e, Creature("CouncilMember", "CouncilWalk0")) /\ Fresh(e, Creature("Slug", "SlugMove0"))
      /\ Fresh(e, Creature("Egg", "Egg0")) /\ Fresh(e, Creature("Skypest", "SkypestFly0"))
  BY <1>1, <1>2, <1>3, CreaturePlain
<1>5. /\ Fresh(e, Creature("Wormmouth", "WormmouthMove0")) /\ Fresh(e, Creature("Cloud", "CloudDormant0"))
      /\ Fresh(e, Creature("Bounder", "Bounder0")) /\ Fresh(e, Creature("Lick", "LickHop1"))
  BY <1>1, <1>2, <1>3, CreaturePlain
<1>6. /\ Fresh(e, Creature("Smirky", "Smirky0")) /\ Fresh(e, Creature("Mimrock", "Mimrock0"))
      /\ Fresh(e, Creature("Lindsey", "Lindsey0")) /\ Fresh(e, Creature("Wetsuit", "Wetsuit0"))
  BY <1>1, <1>2, <1>3, CreaturePlain
<1>7. /\ Fresh(e, [Creature("Berkeloid", "BerkeloidMove0") EXCEPT !.user2 = 1])
      /\ Fresh(e, [Creature("Sprite", "Sprite0") EXCEPT !.clipped = "not"])
      /\ Fresh(e, Fixture("Mine", "Mine0"))
  <2>1. 1 \in Int
    OBVIOUS
  <2> QED  BY <1>1, <1>2, <1>3, <2>1, CreaturePlain
<1>8. ASSUME NEW d \in 0 .. 3
      PROVE  Fresh(e, [Creature("Turret", "DartGun0") EXCEPT !.user1 = d, !.clipped = "not"])
  <2>1. d \in Int
    OBVIOUS
  <2> QED  BY <1>1, <1>2, <1>3, <2>1, CreaturePlain
<1>9. \A o \in CK4_SpawnDartGun : Fresh(e, o)
  BY <1>8 DEF CK4_SpawnDartGun
<1> QED
  BY <1>4, <1>5, <1>6, <1>7, <1>9
     DEF e, CK4_SpawnCouncilMember, CK4_SpawnSlug, CK4_SpawnEgg, CK4_SpawnSkypest, CK4_SpawnWormmouth,
         CK4_SpawnCloud, CK4_SpawnBerkeloid, CK4_SpawnBounder, CK4_SpawnLick, CK4_SpawnSmirky,
         CK4_SpawnMimrock, CK4_SpawnSprite, CK4_SpawnMine, CK4_SpawnLindsey, CK4_SpawnWetsuit

\* Those whose type settles more.
LEMMA BoundSpawned4 ==
    \A o \in {CK4_SpawnMushroom, CK4_SpawnBird, CK4_SpawnInchworm, CK4_SpawnFoot, CK4_SpawnDopefish,
              CK4_SpawnSchoolfish} : Fresh(4, o)
<1> DEFINE e == 4
<1>1. e \in 4 .. 6 /\ 0 \in Int
  OBVIOUS
<1>2. {"Mushroom0", "BirdHatched0", "Inchworm0", "Foot1", "DopefishSwim0", "SchoolfishSwim0"} \subseteq ActsOf(e)
  BY DEF ActsOf, Acts4, SlugActs, BirdActs, ArachnutActs, CloudActs, FootActs, SmirkyActs, FishActs, SpriteActs
<1>3. /\ Kind(e, "Mushroom0") = "Mushroom" /\ Kind(e, "BirdHatched0") = "Bird"
      /\ Kind(e, "Inchworm0") = "Inchworm" /\ Kind(e, "Foot1") = "Foot"
      /\ Kind(e, "DopefishSwim0") = "swimming" /\ Kind(e, "SchoolfishSwim0") = "Schoolfish"
  BY DEF Kind, Kind4, Birds, Dopefishes, Arachnuts
<1>4. {"Mushroom", "Bird", "Inchworm", "Foot", "Dopefish", "Schoolfish"} \subseteq Bound
  BY DEF Bound
<1>5. /\ \A kind \in {"Mushroom", "Bird", "Inchworm", "Foot", "Schoolfish"} : TypeOf(kind) = kind
      /\ TypeOf("swimming") = "Dopefish"
  BY DEF TypeOf
<1>6. /\ \A kind \in {"Mushroom", "Bird", "Inchworm", "Foot"} : ClippingFits(kind, kind, "active", "normal")
      /\ ClippingFits("swimming", "Dopefish", "active", "simple")
      /\ ClippingFits("Schoolfish", "Schoolfish", "active", "simple")
  BY DEF ClippingFits
<1>7. \A kind \in {"Mushroom", "Bird", "Inchworm", "Foot", "swimming", "Schoolfish"} : CountersFit(kind, 0, 0, 0)
  BY Creatures4Assumption DEF CountersFit
<1> HIDE DEF e
<1>8. /\ Fresh(e, Creature("Mushroom", "Mushroom0")) /\ Fresh(e, Creature("Bird", "BirdHatched0"))
      /\ Fresh(e, Creature("Inchworm", "Inchworm0")) /\ Fresh(e, Creature("Foot", "Foot1"))
  BY <1>1, <1>2, <1>3, <1>4, <1>5, <1>6, <1>7, CreatureBound
<1>9. /\ Fresh(e, [Creature("Dopefish", "DopefishSwim0") EXCEPT !.clipped = "simple"])
      /\ Fresh(e, [Creature("Schoolfish", "SchoolfishSwim0") EXCEPT !.clipped = "simple"])
  BY <1>1, <1>2, <1>3, <1>4, <1>5, <1>6, <1>7, BoundVaries DEF Creature
<1> QED
  BY <1>8, <1>9
     DEF e, CK4_SpawnMushroom, CK4_SpawnBird, CK4_SpawnInchworm, CK4_SpawnFoot, CK4_SpawnDopefish,
         CK4_SpawnSchoolfish

\* The arachnut keeps its type when it gets up.
LEMMA ArachnutFresh == Fresh(4, CK4_SpawnArachnut)
<1> DEFINE e == 4
           o == Obj("Arachnut", "ArachnutWalk0", "active")
<1>1. e \in 4 .. 6 /\ "ArachnutWalk0" \in ActsOf(e)
  BY DEF ActsOf, Acts4, ArachnutActs
<1>2. Kind(e, "ArachnutWalk0") = "Arachnut"
  BY DEF Kind, Kind4, Birds, Dopefishes, Arachnuts
<1>3. o \in ObjType
  BY <1>1, ObjIn, ActsIn DEF Types
<1>4. o.type = "Arachnut" /\ o.act = "ArachnutWalk0" /\ o.hit = "" /\ o.active = "active" /\ o.clipped = "normal"
  BY DEF Obj
<1> HIDE DEF o, e
<1>5. TypeFits(e, "Arachnut", o)
  BY <1>4 DEF TypeFits, TypeOf, Bound
<1>6. ClippingFits("Arachnut", o.type, o.active, o.clipped)
  BY <1>4 DEF ClippingFits
<1>7. CountersFit("Arachnut", o.user1, o.user2, o.user3)
  BY DEF CountersFit
<1>8. Good(e, o)
  BY <1>1, <1>2, <1>3, <1>4, <1>5, <1>6, <1>7 DEF Good, Fits
<1>9. Fresh(e, o)
  BY <1>2, <1>4, <1>8 DEF Fresh
<1> QED  BY <1>9 DEF e, o, CK4_SpawnArachnut, Creature

\* In Keen 5.
LEMMA PlainSpawned5 ==
    \A o \in {CK5_SpawnVolte, CK5_SpawnMine, CK5_SpawnRobo, CK5_SpawnSpirogrip, CK5_SpawnMaster,
              CK5_SpawnKorath, CK5_QEDSpawn, CK_SneakPlatSpawn, CK_TurretSpawn, CK_SpawnSecurityDoor} :
        Fresh(5, o)
<1> DEFINE e == 5
<1>1. e \in 4 .. 6
  OBVIOUS
<1>2. \A act \in {"Volte0", "Mine2", "Robo0", "SpirogripAttachDown", "Master0", "KorathWalk1", "QED0",
                  "sneakPlatWait", "turretWait", "SecurityDoorOpen"} :
         act \in ActsOf(e) /\ Kind(e, act) = "plain"
  <2>1. ASSUME NEW act \in {"Volte0", "Mine2", "Robo0", "SpirogripAttachDown", "Master0", "KorathWalk1",
                  "QED0", "sneakPlatWait", "turretWait", "SecurityDoorOpen"}
        PROVE  act \in CommonActs \cup Acts5
    BY DEF CommonActs, Acts5, Fixture5Acts, SparkyActs, AmptonActs, ShellyActs, RoboActs, SpirogripActs,
           MasterActs, ShikadiActs
  <2>2. ASSUME NEW act \in {"Volte0", "Mine2", "Robo0", "SpirogripAttachDown", "Master0", "KorathWalk1",
                  "QED0", "sneakPlatWait", "turretWait", "SecurityDoorOpen"}
        PROVE  Kind5(act) = "plain"
    BY DEF Kind5, Sparkies, Amptons, Shikadis, Shocksunds, Stunned5, Shots
  <2> QED  BY <2>1, <2>2 DEF ActsOf, Kind
<1>3. {"Volte", "Mine", "Robo", "Spirogrip", "Master", "Korath", "QED", "Platform", "Turret", "Friendly"}
         \subseteq Ordinary
  BY DEF Ordinary
<1> HIDE DEF e
<1>4. /\ Fresh(e, Creature("Robo", "Robo0")) /\ Fresh(e, Creature("Spirogrip", "SpirogripAttachDown"))
      /\ Fresh(e, Creature("Master", "Master0")) /\ Fresh(e, Creature("Korath", "KorathWalk1"))
  BY <1>1, <1>2, <1>3, CreaturePlain
<1>5. /\ Fresh(e, Creature("QED", "QED0")) /\ Fresh(e, Creature("Turret", "turretWait"))
      /\ Fresh(e, Fixture("Friendly", "SecurityDoorOpen"))
  BY <1>1, <1>2, <1>3, CreaturePlain
<1>6. /\ Fresh(e, [Fixture("Volte", "Volte0") EXCEPT !.clipped = "not"])
      /\ Fresh(e, [Creature("Mine", "Mine2") EXCEPT !.clipped = "not"])
      /\ Fresh(e, [Fixture("Platform", "sneakPlatWait") EXCEPT !.clipped = "not"])
  BY <1>1, <1>2, <1>3, CreaturePlain
<1> QED
  BY <1>4, <1>5, <1>6
     DEF e, CK5_SpawnVolte, CK5_SpawnMine, CK5_SpawnRobo, CK5_SpawnSpirogrip, CK5_SpawnMaster,
         CK5_SpawnKorath, CK5_QEDSpawn, CK_SneakPlatSpawn, CK_TurretSpawn, CK_SpawnSecurityDoor

\* Those whose type settles more.
LEMMA BoundSpawned5 ==
    \A o \in {CK5_SpawnSparky, CK5_SpawnAmpton, CK5_SpawnSlice, CK5_SpawnSliceDiag, CK5_SpawnShelly,
              CK5_SpawnSpindred, CK5_SpawnShikadi, CK5_SpawnShocksund, CK5_SpawnSphereful} : Fresh(5, o)
<1> DEFINE e == 5
<1>1. e \in 4 .. 6 /\ SliceHealth \in Int /\ ShikadiHealth \in Int /\ ShocksundHealth \in Int /\ 0 \in Int
  BY Creatures5Assumption
<1>2. {"Sparky0", "Ampton0", "Slice0", "SliceDiag0", "Shelly0", "Spindred0", "ShikadiStand0", "Shocksund0",
       "Sphereful0"} \subseteq ActsOf(e)
  BY DEF ActsOf, Acts5, Fixture5Acts, SparkyActs, AmptonActs, ShellyActs, RoboActs, SpirogripActs,
         MasterActs, ShikadiActs
<1>3. /\ Kind(e, "Sparky0") = "Sparky" /\ Kind(e, "Shelly0") = "Sparky" /\ Kind(e, "Ampton0") = "Ampton"
      /\ Kind(e, "Slice0") = "SliceStar" /\ Kind(e, "SliceDiag0") = "SliceStar"
      /\ Kind(e, "Spindred0") = "Spindred" /\ Kind(e, "ShikadiStand0") = "Shikadi"
      /\ Kind(e, "Shocksund0") = "Shocksund" /\ Kind(e, "Sphereful0") = "Sphereful"
  BY DEF Kind, Kind5, Sparkies, Amptons, Shikadis, Shocksunds
<1>4. {"Sparky", "Ampton", "SliceStar", "Spindred", "Shikadi", "Shocksund", "Sphereful"} \subseteq Bound
  BY DEF Bound
<1>5. \A kind \in {"Sparky", "Ampton", "SliceStar", "Spindred", "Shikadi", "Shocksund", "Sphereful"} :
         TypeOf(kind) = kind
  BY DEF TypeOf
<1>6. /\ \A kind \in {"Sparky", "Ampton", "SliceStar", "Spindred", "Shikadi", "Shocksund"} :
            ClippingFits(kind, kind, "active", "normal")
      /\ ClippingFits("SliceStar", "SliceStar", "active", "simple")
      /\ ClippingFits("Sphereful", "Sphereful", "active", "simple")
  BY DEF ClippingFits
<1>7. /\ \A kind \in {"Sparky", "Ampton", "Spindred", "Sphereful"} : CountersFit(kind, 0, 0, 0)
      /\ CountersFit("SliceStar", SliceHealth, 0, 0)
      /\ CountersFit("Shikadi", 0, ShikadiHealth, 0) /\ CountersFit("Shocksund", 0, ShocksundHealth, 0)
  BY Creatures5Assumption DEF CountersFit
<1> HIDE DEF e
<1>8. /\ Fresh(e, Creature("Sparky", "Sparky0")) /\ Fresh(e, Creature("Sparky", "Shelly0"))
      /\ Fresh(e, Creature("Ampton", "Ampton0")) /\ Fresh(e, Creature("Spindred", "Spindred0"))
  BY <1>1, <1>2, <1>3, <1>4, <1>5, <1>6, <1>7, CreatureBound
<1>9. /\ Fresh(e, [Creature("SliceStar", "Slice0") EXCEPT !.user1 = SliceHealth])
      /\ Fresh(e, [Creature("Shikadi", "ShikadiStand0") EXCEPT !.user2 = ShikadiHealth])
      /\ Fresh(e, [Creature("Shocksund", "Shocksund0") EXCEPT !.user2 = ShocksundHealth])
  BY <1>1, <1>2, <1>3, <1>4, <1>5, <1>6, <1>7, CreatureBound
<1>10. /\ Fresh(e, [Creature("SliceStar", "SliceDiag0") EXCEPT !.user1 = SliceHealth, !.clipped = "simple"])
       /\ Fresh(e, [Creature("Sphereful", "Sphereful0") EXCEPT !.clipped = "simple"])
  BY <1>1, <1>2, <1>3, <1>4, <1>5, <1>6, <1>7, BoundVaries DEF Creature
<1> QED
  BY <1>8, <1>9, <1>10
     DEF e, CK5_SpawnSparky, CK5_SpawnAmpton, CK5_SpawnSlice, CK5_SpawnSliceDiag, CK5_SpawnShelly,
         CK5_SpawnSpindred, CK5_SpawnShikadi, CK5_SpawnShocksund, CK5_SpawnSphereful

\* In Keen 6.
LEMMA PlainSpawned6 ==
    \A o \in {CK6_SpawnGik, CK6_SpawnOrbatrix, CK6_SpawnBipship, CK_SneakPlatSpawn, CK_TurretSpawn} :
        Fresh(6, o)
<1> DEFINE e == 6
<1>1. e \in 4 .. 6 /\ 1 \in Int
  OBVIOUS
<1>2. \A act \in {"GikWalk0", "OrbatrixFloat0", "BipshipFly0", "sneakPlatWait", "turretWait"} :
         act \in ActsOf(e) /\ Kind(e, act) = "plain"
  <2>1. ASSUME NEW act \in {"GikWalk0", "OrbatrixFloat0", "BipshipFly0", "sneakPlatWait", "turretWait"}
        PROVE  act \in Acts6
    BY DEF Acts6, Fixture6Acts, BloogActs, NospikeActs, OrbatrixActs, FleexActs, BobbaActs, CeilickActs
  <2>2. ASSUME NEW act \in {"GikWalk0", "OrbatrixFloat0", "BipshipFly0", "sneakPlatWait", "turretWait"}
        PROVE  Kind6(act) = "plain"
    BY DEF Kind6, Guards, Blooglets, Falling, Flects, Fleexes, Bobbas, Babobbas, Ceilicks, Stunned6, Shots
  <2> QED  BY <2>1, <2>2 DEF ActsOf, Kind
<1>3. {"Gik", "Orbatrix", "Bipship", "Platform", "Turret"} \subseteq Ordinary
  BY DEF Ordinary
<1> HIDE DEF e
<1>4. /\ Fresh(e, Creature("Gik", "GikWalk0")) /\ Fresh(e, Creature("Bipship", "BipshipFly0"))
      /\ Fresh(e, Creature("Turret", "turretWait"))
  BY <1>1, <1>2, <1>3, CreaturePlain
<1>5. /\ Fresh(e, [Creature("Orbatrix", "OrbatrixFloat0") EXCEPT !.user2 = 1])
      /\ Fresh(e, [Fixture("Platform", "sneakPlatWait") EXCEPT !.clipped = "not"])
  BY <1>1, <1>2, <1>3, CreaturePlain
<1> QED
  BY <1>4, <1>5 DEF e, CK6_SpawnGik, CK6_SpawnOrbatrix, CK6_SpawnBipship, CK_SneakPlatSpawn, CK_TurretSpawn

\* Those whose type settles more.
LEMMA BoundSpawned6 ==
    \A o \in {CK6_SpawnSandwich, CK6_SpawnRope, CK6_SpawnPasscard, CK6_SpawnMolly, CK6_SpawnBloog,
              CK6_SpawnBloogguard, CK6_SpawnNospike, CK6_SpawnFlect, CK6_SpawnFleex, CK6_SpawnBobba,
              CK6_SpawnBabobba, CK6_SpawnBlorb, CK6_SpawnCeilick} \cup CK6_SpawnBlooglet : Fresh(6, o)
<1> DEFINE e == 6
<1>1. e \in 4 .. 6 /\ Health6 \in Int /\ 0 \in Int
  BY Creatures6Assumption
<1>2. {"Sandwich0", "Rope0", "Passcard0", "Molly0", "BloogWalk0", "BloogguardWalk0", "NospikeSit0",
       "FlectWalk0", "FleexWalk0", "BobbaJump0", "BabobbaJump0", "Blorb0", "CeilickWait0"}
         \cup Blooglets \subseteq ActsOf(e)
  BY DEF ActsOf, Acts6, Fixture6Acts, BloogActs, NospikeActs, OrbatrixActs, FleexActs, BobbaActs, CeilickActs,
         Blooglets
<1>3. /\ Kind(e, "Sandwich0") = "Sandwich" /\ Kind(e, "Rope0") = "Rope" /\ Kind(e, "Passcard0") = "Passcard"
      /\ Kind(e, "Molly0") = "Molly" /\ Kind(e, "BloogWalk0") = "Bloog"
      /\ Kind(e, "BloogguardWalk0") = "Bloogguard" /\ Kind(e, "NospikeSit0") = "Nospike"
      /\ Kind(e, "FlectWalk0") = "Flect" /\ Kind(e, "FleexWalk0") = "Fleex"
      /\ Kind(e, "BobbaJump0") = "Bobba" /\ Kind(e, "BabobbaJump0") = "Babobba"
      /\ Kind(e, "Blorb0") = "Blorb" /\ Kind(e, "CeilickWait0") = "Ceilick"
      /\ \A act \in Blooglets : Kind(e, act) = "Blooglet"
  BY DEF Kind, Kind6, Guards, Blooglets, Falling, Flects, Fleexes, Bobbas, Babobbas, Ceilicks
<1>4. {"Sandwich", "Rope", "Passcard", "Molly", "Bloog", "Bloogguard", "Nospike", "Flect", "Fleex", "Bobba",
       "Babobba", "Blorb", "Ceilick", "Blooglet"} \subseteq Bound
  BY DEF Bound
<1>5. \A kind \in {"Sandwich", "Rope", "Passcard", "Molly", "Bloog", "Bloogguard", "Nospike", "Flect",
                   "Fleex", "Bobba", "Babobba", "Blorb", "Ceilick", "Blooglet"} : TypeOf(kind) = kind
  BY DEF TypeOf
<1>6. /\ \A kind \in {"Molly", "Bloog", "Bloogguard", "Nospike", "Flect", "Fleex", "Bobba", "Babobba",
                      "Blooglet"} : ClippingFits(kind, kind, "active", "normal")
      /\ \A kind \in {"Sandwich", "Rope", "Passcard", "Ceilick"} : ClippingFits(kind, kind, "active", "not")
      /\ ClippingFits("Blorb", "Blorb", "active", "simple")
      /\ ClippingFits("Blooglet", "Blooglet", "active", "normal")
  BY DEF ClippingFits
<1>7. /\ \A kind \in {"Sandwich", "Rope", "Passcard", "Molly", "Bloog", "Flect", "Bobba", "Babobba", "Blorb",
                      "Ceilick"} : CountersFit(kind, 0, 0, 0)
      /\ CountersFit("Bloogguard", 0, Health6, 0) /\ CountersFit("Fleex", 0, Health6, 0)
      /\ CountersFit("Nospike", 0, 0, Health6)
  BY Creatures6Assumption DEF CountersFit
<1>8. \A u \in Int : CountersFit("Blooglet", u, 0, 0)
  BY DEF CountersFit
<1> HIDE DEF e
<1>9. /\ Fresh(e, Creature("Molly", "Molly0")) /\ Fresh(e, Creature("Bloog", "BloogWalk0"))
      /\ Fresh(e, Creature("Flect", "FlectWalk0")) /\ Fresh(e, Creature("Bobba", "BobbaJump0"))
      /\ Fresh(e, Creature("Babobba", "BabobbaJump0"))
  BY <1>1, <1>2, <1>3, <1>4, <1>5, <1>6, <1>7, CreatureBound
<1>10. /\ Fresh(e, [Creature("Bloogguard", "BloogguardWalk0") EXCEPT !.user2 = Health6])
       /\ Fresh(e, [Creature("Fleex", "FleexWalk0") EXCEPT !.user2 = Health6])
       /\ Fresh(e, [Creature("Nospike", "NospikeSit0") EXCEPT !.user3 = Health6])
  BY <1>1, <1>2, <1>3, <1>4, <1>5, <1>6, <1>7, CreatureBound
<1>11. /\ Fresh(e, [Creature("Sandwich", "Sandwich0") EXCEPT !.clipped = "not"])
       /\ Fresh(e, [Creature("Rope", "Rope0") EXCEPT !.clipped = "not"])
       /\ Fresh(e, [Creature("Passcard", "Passcard0") EXCEPT !.clipped = "not"])
       /\ Fresh(e, [Creature("Ceilick", "CeilickWait0") EXCEPT !.clipped = "not"])
       /\ Fresh(e, [Creature("Blorb", "Blorb0") EXCEPT !.clipped = "simple"])
  BY <1>1, <1>2, <1>3, <1>4, <1>5, <1>6, <1>7, BoundVaries DEF Creature
<1>12. ASSUME NEW act \in Blooglets, NEW u \in Int
       PROVE  Fresh(e, [Creature("Blooglet", act) EXCEPT !.user1 = u])
  <2>1. act \in ActsOf(e) /\ Kind(e, act) = "Blooglet" /\ "Blooglet" \in Bound /\ TypeOf("Blooglet") = "Blooglet"
    BY <1>2, <1>3, <1>4, <1>5
  <2>2. "Blooglet" # "eating"
    OBVIOUS
  <2> QED  BY <1>1, <1>6, <1>8, <2>1, <2>2, CreatureBound
<1>13. ASSUME NEW type \in 0 .. 7
       PROVE  <<"BloogletRRun0", "BloogletYRun0", "BloogletBRun0", "BloogletGRun0">>[(type % 4) + 1] \in Blooglets
  <2>1. (type % 4) + 1 \in {1, 2, 3, 4}
    OBVIOUS
  <2>2. \A n \in {1, 2, 3, 4} :
           <<"BloogletRRun0", "BloogletYRun0", "BloogletBRun0", "BloogletGRun0">>[n] \in Blooglets
    BY DEF Blooglets
  <2> QED  BY <2>1, <2>2
<1>14. \A o \in CK6_SpawnBlooglet : Fresh(e, o)
  <2>1. \A type \in 0 .. 7 : type \in Int
    OBVIOUS
  <2> QED  BY <1>12, <1>13, <2>1 DEF CK6_SpawnBlooglet
<1> QED
  BY <1>9, <1>10, <1>11, <1>14
     DEF e, CK6_SpawnSandwich, CK6_SpawnRope, CK6_SpawnPasscard, CK6_SpawnMolly, CK6_SpawnBloog,
         CK6_SpawnBloogguard, CK6_SpawnNospike, CK6_SpawnFlect, CK6_SpawnFleex, CK6_SpawnBobba,
         CK6_SpawnBabobba, CK6_SpawnBlorb, CK6_SpawnCeilick, StoryItem

\* In all of them.
LEMMA SpawnedFresh ==
    ASSUME NEW e \in 4 .. 6, NEW o \in Spawned(e)
    PROVE  Fresh(e, o)
<1>1. \A act \in {"DoorOpen1", "item", "FallPlat0", "AxisPlatform"} :
         act \in ActsOf(e) /\ Kind(e, act) = "plain"
  <2>1. ASSUME NEW act \in {"DoorOpen1", "item"} PROVE act \in CommonActs \ Shots
    BY DEF CommonActs, Shots
  <2>2. {"FallPlat0", "AxisPlatform"} \subseteq Acts4
    BY DEF Acts4, SlugActs, BirdActs, ArachnutActs, CloudActs, FootActs, SmirkyActs, FishActs, SpriteActs
  <2>3. {"FallPlat0", "AxisPlatform"} \subseteq Acts5
    BY DEF Acts5, Fixture5Acts
  <2>4. {"FallPlat0", "AxisPlatform"} \subseteq Acts6
    BY DEF Acts6, Fixture6Acts
  <2>5. ASSUME NEW act \in {"FallPlat0", "AxisPlatform"} PROVE Kind4(act) = "plain"
    BY DEF Kind4, Birds, Dopefishes, Arachnuts, Stunned4, Shots
  <2>6. ASSUME NEW act \in {"FallPlat0", "AxisPlatform"} PROVE Kind5(act) = "plain"
    BY DEF Kind5, Sparkies, Amptons, Shikadis, Shocksunds, Stunned5, Shots
  <2>7. ASSUME NEW act \in {"FallPlat0", "AxisPlatform"} PROVE Kind6(act) = "plain"
    BY DEF Kind6, Guards, Blooglets, Falling, Flects, Fleexes, Bobbas, Babobbas, Ceilicks, Stunned6, Shots
  <2>8. \A act \in {"FallPlat0", "AxisPlatform"} : act \in ActsOf(e) /\ Kind(e, act) = "plain"
    BY <2>2, <2>3, <2>4, <2>5, <2>6, <2>7 DEF ActsOf, Kind
  <2>9. \A act \in {"DoorOpen1", "item"} : act \in ActsOf(e) /\ Kind(e, act) = "plain"
    BY <2>1, CommonKinds
  <2> QED  BY <2>8, <2>9
<1>2. {"Friendly", "Item", "Platform"} \subseteq Ordinary
  BY DEF Ordinary
<1>3. 4 \in Int
  OBVIOUS
<1>4. /\ Fresh(e, [Fixture("Friendly", "DoorOpen1") EXCEPT !.clipped = "not"])
      /\ Fresh(e, [Creature("Item", "item") EXCEPT !.user1 = 4, !.clipped = "not"])
      /\ Fresh(e, [Fixture("Platform", "FallPlat0") EXCEPT !.clipped = "not"])
      /\ Fresh(e, Fixture("Platform", "AxisPlatform"))
  BY <1>1, <1>2, <1>3, CreaturePlain
<1>5. CASE o \in {CK_SpawnDoor, CK_SpawnItem, CK_SpawnFallPlat, CK_SpawnAxisPlatform}
  BY <1>4, <1>5 DEF CK_SpawnDoor, CK_SpawnItem, CK_SpawnFallPlat, CK_SpawnAxisPlatform
<1>6. CASE e = 4 /\ o \in Spawned4
  BY <1>6, PlainSpawned4, BoundSpawned4, ArachnutFresh DEF Spawned4
<1>7. CASE e = 5 /\ o \in Spawned5
  BY <1>7, PlainSpawned5, BoundSpawned5 DEF Spawned5
<1>8. CASE e = 6 /\ o \in Spawned6
  BY <1>8, PlainSpawned6, BoundSpawned6 DEF Spawned6
<1> QED  BY <1>5, <1>6, <1>7, <1>8 DEF Spawned

\* Keen, and with him the objects of a scene.
LEMMA KeenGood ==
    ASSUME NEW e \in 4 .. 6
    PROVE  /\ Good(e, Creature("Player", "keenStanding")) /\ Creature("Player", "keenStanding").type = "Player"
           /\ Kind(e, Creature("Player", "keenStanding").act) = "plain"
<1> DEFINE o == Obj("Player", "keenStanding", "active")
<1>1. "keenStanding" \in ActsOf(e) /\ Kind(e, "keenStanding") = "plain"
  BY CommonKinds DEF CommonActs, Shots
<1>2. o.type = "Player" /\ o.act = "keenStanding" /\ o.hit = "" /\ o.clipped = "normal" /\ o.active = "active"
  BY DEF Obj
<1>3. o \in ObjType
  BY <1>1, ObjIn, ActsIn DEF Types
<1> HIDE DEF o
<1>4. Good(e, o)
  BY <1>1, <1>2, <1>3, PlainGood
<1> QED  BY <1>1, <1>2, <1>4 DEF o, Creature

LEMMA SceneWorld ==
    ASSUME NEW e \in 4 .. 6, NEW spawned \in Seq(Spawned(e)),
           objs = [i \in Ids |-> IF i = 0 THEN Creature("Player", "keenStanding")
                                 ELSE IF i <= Len(spawned) THEN spawned[i] ELSE Nothing]
    PROVE  /\ World(e, objs)
           /\ \A i \in Ids : Kind(e, objs[i].act) # "eating" /\ objs[i].type # "Stunner"
           /\ \A i \in Ids : objs[i].type \in {"Dopefish", "Foot", "Inchworm"} =>
                 i \in 1 .. Len(spawned) /\ objs[i] = spawned[i]
<1>1. ASSUME NEW i \in Ids
      PROVE  /\ Good(e, objs[i]) /\ Kind(e, objs[i].act) # "eating" /\ objs[i].type # "Stunner"
             /\ i = 0 => objs[i].type = "Player"
             /\ objs[i].type \in {"Dopefish", "Foot", "Inchworm"} =>
                   i \in 1 .. Len(spawned) /\ objs[i] = spawned[i]
  <2>1. CASE i = 0
    <3>1. objs[i] = Creature("Player", "keenStanding")
      BY <2>1
    <3> QED  BY <3>1, KeenGood
  <2>2. CASE i # 0 /\ i <= Len(spawned)
    <3>1. i \in 1 .. Len(spawned)
      BY <2>2, CreaturesAssumption DEF Ids
    <3>2. spawned[i] \in Spawned(e) /\ objs[i] = spawned[i]
      BY <2>2, <3>1
    <3> HIDE DEF Spawned
    <3>3. Fresh(e, objs[i])
      BY <3>2, SpawnedFresh
    <3>4. objs[i].type # "Stunner"
      BY <3>3 DEF Fresh, Bound, Ordinary
    <3> QED  BY <2>2, <3>1, <3>2, <3>3, <3>4 DEF Fresh
  <2>3. CASE i # 0 /\ ~(i <= Len(spawned))
    <3>1. objs[i] = Nothing
      BY <2>3
    <3> QED  BY <2>3, <3>1, NothingGood
  <2> QED  BY <2>1, <2>2, <2>3
<1>2. objs \in [Ids -> ObjType]
  <2>1. objs = [i \in Ids |-> objs[i]]
    OBVIOUS
  <2>2. \A i \in Ids : objs[i] \in ObjType
    BY <1>1 DEF Good
  <2> QED  BY <2>1, <2>2
<1>3. objs[0].type = "Player"
  BY <1>1, ZeroId
<1> QED  BY <1>1, <1>2, <1>3 DEF World

\* A level as it starts.
LEMMA LevelInit ==
    ASSUME LoneHunters, Init
    PROVE  IndInv
<1>1. PICK scene \in Scenes :
         /\ ck_currentEpisode = scene[1]
         /\ objs = [i \in Ids |-> IF i = 0 THEN Creature("Player", "keenStanding")
                                  ELSE IF i <= Len(scene[2]) THEN scene[2][i] ELSE Nothing]
  BY DEF Init
<1> DEFINE e == ck_currentEpisode
           spawned == scene[2]
<1>2. e \in 4 .. 6 /\ spawned \in Seq(Spawned(e))
  BY <1>1, ScenesAssumption
<1>3. \A m, n \in 1 .. Len(spawned) :
         /\ spawned[m].type = "Dopefish" /\ spawned[n].type = "Dopefish" => m = n
         /\ spawned[m].type = "Foot" => spawned[n].type # "Inchworm"
         /\ spawned[m].type = "Foot" /\ spawned[n].type = "Foot" => m = n
  BY DEF LoneHunters
<1>4. objs = [i \in Ids |-> IF i = 0 THEN Creature("Player", "keenStanding")
                            ELSE IF i <= Len(spawned) THEN spawned[i] ELSE Nothing]
  BY <1>1
<1> HIDE DEF e, spawned
<1>5. /\ World(e, objs)
      /\ \A i \in Ids : Kind(e, objs[i].act) # "eating" /\ objs[i].type # "Stunner"
      /\ \A i \in Ids : objs[i].type \in {"Dopefish", "Foot", "Inchworm"} =>
            i \in 1 .. Len(spawned) /\ objs[i] = spawned[i]
  BY <1>2, <1>4, SceneWorld
<1>6. /\ \A i, j \in Ids : Is(i, "Dopefish") /\ Is(j, "Dopefish") => i = j
      /\ \A i, j \in Ids : Is(i, "Foot") => ~Is(j, "Inchworm")
      /\ \A i, j \in Ids : Is(i, "Foot") /\ Is(j, "Foot") => i = j
  BY <1>3, <1>5 DEF Is
<1>7. OneFoot
  <2> DEFINE feet == {i \in Live : Is(i, "Foot")}
  <2>1. \A i, j \in feet : i = j
    BY <1>6 DEF Live
  <2>2. feet # {} => ~\E i \in Live : Is(i, "Inchworm")
    BY <1>6 DEF Live
  <2>3. Cardinality(feet) <= 1
    <3> HIDE DEF feet
    <3>1. CASE feet = {}
      <4>1. Cardinality(feet) = 0
        BY <3>1, FS_EmptySet
      <4> QED  BY <4>1
    <3>2. CASE feet # {}
      <4>1. PICK x : feet = {x}
        BY <2>1, <3>2
      <4>2. Cardinality(feet) = 1
        BY <4>1, FS_Singleton
      <4> QED  BY <4>2
    <3> QED  BY <3>1, <3>2
  <2> QED  BY <2>2, <2>3 DEF OneFoot
<1>8. VictimWaits
  <2> SUFFICES ASSUME NEW i \in Ids, At(i, "DopefishEat0") PROVE FALSE
    BY DEF VictimWaits
  <2>1. objs[i].act \in ActsOf(e)
    BY <1>5 DEF World, Good
  <2> QED  BY <1>2, <1>5, <2>1, EatingAct DEF At
<1>9. levelState = "LS_Playing" /\ quitMessage = "" /\ killer = <<>>
  BY DEF Init
<1>10. ShotsAreSpent
  <2> DEFINE n == Cardinality({i \in Live : Is(i, "Stunner")})
  <2>1. {i \in Live : Is(i, "Stunner")} = {}
    BY <1>5 DEF Live, Is
  <2>2. n = 0
    BY <2>1, FS_EmptySet
  <2>3. stuns = 0 /\ fired = 0
    BY DEF Init
  <2> HIDE DEF n
  <2>4. stuns + n <= fired
    BY <2>2, <2>3
  <2> QED  BY <1>9, <2>4 DEF ShotsAreSpent, n
<1>11. numShots \in Nat /\ fired \in Nat /\ numShots + fired = MaxShots /\ stuns \in Nat
  <2>1. numShots = MaxShots /\ stuns = 0 /\ fired = 0
    BY DEF Init
  <2>2. MaxShots \in Nat
    BY CreaturesAssumption
  <2>3. MaxShots + 0 = MaxShots
    BY <2>2
  <2> QED  BY <2>1, <2>2, <2>3
<1>12. levelState \in LevelStates
  BY <1>9 DEF LevelStates
<1> QED  BY <1>2, <1>5, <1>6, <1>7, <1>8, <1>9, <1>10, <1>11, <1>12 DEF IndInv, e

\* Every step keeps the invariant.
LEMMA NextKeepsInv ==
    ASSUME IndInv, [Next]_vars
    PROVE  IndInv'
<1>1. CASE UNCHANGED vars
  <2> USE <1>1
  <2>1. SafeStep
    BY SelfKeeps DEF SafeStep, IndInv, vars
  <2> QED  BY <2>1, SafeKeepsInv
<1>2. CASE KeenStep
  BY <1>2, SafeKeenMoves, SafeKeenRecovers, SafeKeenDies, SpawnKeepsInv, SafeKeepsInv DEF KeenStep
<1>3. CASE KeenCollides
  <2>1. \A j \in Live : j \in Ids
    BY DEF Live
  <2> QED  BY <1>3, <2>1, SafeTakesItem, SafeKeen4, SafeKeen6, SafeKeepsInv DEF KeenCollides
<1>4. ASSUME NEW i \in Live \ {0}, ThinkOrDraw(i)
      PROVE  IndInv'
  <2>1. i \in Ids /\ i # 0
    BY DEF Live
  <2>2. CASE CreatureStep(i) \/ FixtureStep(i)
    BY <2>1, <2>2, SafeCreatureStep, SafeFixtureStep, SafeKeepsInv
  <2>3. CASE ck_currentEpisode = 4 /\ Step4(i)
    BY <2>1, <2>3, SafeStep4, DopefishEatKeepsInv, SafeKeepsInv
  <2>4. CASE ck_currentEpisode = 5 /\ Step5(i)
    BY <2>1, <2>4, SafeStep5, SafeKeepsInv
  <2>5. CASE ck_currentEpisode = 6 /\ Step6(i)
    BY <2>1, <2>5, SafeStep6, SafeKeepsInv
  <2> QED  BY <1>4, <2>2, <2>3, <2>4, <2>5 DEF ThinkOrDraw
<1>5. ASSUME NEW i \in Live \ {0}, NEW j \in Live, Collide(i, j)
      PROVE  IndInv'
  <2>1. i \in Ids /\ i # 0 /\ j \in Ids
    BY DEF Live
  <2>2. CASE CreatureTouch(i, j) \/ FixtureTouch(i, j)
    BY <2>1, <2>2, SafeCreatureTouch, SafeFixtureTouch, SafeKeepsInv
  <2>3. CASE ck_currentEpisode = 4 /\ Touch4(i, j)
    BY <2>1, <2>3, SafeTouch4, FootKeepsInv, DopefishColKeepsInv, SafeKeepsInv
  <2>4. CASE ck_currentEpisode = 5 /\ Touch5(i, j)
    BY <2>1, <2>4, SafeTouch5, SafeKeepsInv
  <2>5. CASE ck_currentEpisode = 6 /\ Touch6(i, j)
    BY <2>1, <2>5, SafeTouch6, SafeKeepsInv
  <2> QED  BY <1>5, <2>2, <2>3, <2>4, <2>5 DEF Collide
<1> QED  BY <1>1, <1>2, <1>3, <1>4, <1>5 DEF Next

\* (CK_PlayLoop, ck_play.c) Along every level each object has an action of its episode's
\* table and what that action's functions rely on: type, clipping, counters and victim.
THEOREM LevelInvariant == LoneHunters => (Spec => []IndInv)
<1> SUFFICES ASSUME LoneHunters PROVE Spec => []IndInv
  OBVIOUS
<1>1. Init => IndInv
  BY LevelInit
<1>2. IndInv /\ [Next]_vars => IndInv'
  BY NextKeepsInv
<1> QED  BY <1>1, <1>2, PTL DEF Spec

\* (CK_GetActionByName, ck_act.c) No function sets an action that the table lacks, and no
\* counter of shots leaves its range.
THEOREM LevelTypeOK == LoneHunters => (Spec => []TypeOK)
<1>1. IndInv => TypeOK
  BY IndInvImplies
<1> QED  BY <1>1, LevelInvariant, PTL

\* (the creatures' think functions; CK_BasicDrawFunc4, ck_misc.c) No counter passes the value
\* that a function compares it with, and the stars of whatever was stunned find a place: the
\* program does not quit with "No star spec for object!".
THEOREM LevelObjectsUnderstood == LoneHunters => (Spec => []ObjectsUnderstood)
<1>1. IndInv => ObjectsUnderstood
  BY IndInvImplies
<1> QED  BY <1>1, LevelInvariant, PTL

\* (CK_ShotHit, ck_keen.c, and CK_StunCreature, ck_misc.c) A shot stuns one creature, though it
\* touches several, and no stunned creature but the arachnut kills Keen.
THEOREM LevelShotsAreSpent == LoneHunters => (Spec => []ShotsAreSpent)
<1>1. IndInv => ShotsAreSpent
  BY IndInvImplies
<1> QED  BY <1>1, LevelInvariant, PTL

\* (ck4_obj2.c, ck4_obj3.c, ck5_obj2.c) The clipping of birds, amptons and the Dopefish
\* follows their actions through all functions that change either; one foot comes of the
\* inchworms and leaves none; and the Dopefish swims to what still waits to be eaten.
THEOREM LevelActsAgree == LoneHunters => (Spec => []ActsAgree)
<1>1. IndInv => ActsAgree
  BY IndInvImplies
<1> QED  BY <1>1, LevelInvariant, PTL
====
