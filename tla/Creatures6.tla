---- MODULE Creatures6 ----
(***************************************************************************)
(* The creatures of Keen 6 (ck6_obj1.c from the sandwich on, ck6_obj2.c,   *)
(* ck6_obj3.c).  The operators keep the names of the functions they stand  *)
(* for.                                                                    *)
(***************************************************************************)
EXTENDS Creatures

CONSTANTS
    Health6,            \* CK6_BloogguardHealth, CK6_NospikeHealth, CK6_FleexHealth
    AirHangTime,        \* CK6_NospikeAirHangTime
    BounceCount,        \* CK6_OrbatrixBounceCount
    FloatSteps,         \* CK6_OrbatrixMaxFloatYVel, in steps of a draw
    HopsPerShot,        \* CK6_BobbaHopsPerShot, CK6_BabobbaHopsPerShot
    DecayTime,          \* CK6_BabobbaShotDecayTime
    VanishTime          \* CK6_BabobbaShotVanishTime

ASSUME Creatures6Assumption ==
    {Health6, AirHangTime, BounceCount, FloatSteps, HopsPerShot, DecayTime, VanishTime} \subseteq Nat \ {0}

(***************************************************************************)
(* What the infoplane of a level spawns.                                   *)
(***************************************************************************)
StoryItem(type, act) == [Creature(type, act) EXCEPT !.clipped = "not"]
CK6_SpawnSandwich == StoryItem("Sandwich", "Sandwich0")
CK6_SpawnRope == StoryItem("Rope", "Rope0")
CK6_SpawnPasscard == StoryItem("Passcard", "Passcard0")
CK6_SpawnMolly == Creature("Molly", "Molly0")
CK6_SpawnBloog == Creature("Bloog", "BloogWalk0")
CK6_SpawnBloogguard == [Creature("Bloogguard", "BloogguardWalk0") EXCEPT !.user2 = Health6]
CK6_SpawnBlooglet ==        \* those above 3 carry a gem
    {[Creature("Blooglet", <<"BloogletRRun0", "BloogletYRun0", "BloogletBRun0", "BloogletGRun0">>[(type % 4) + 1])
        EXCEPT !.user1 = type] : type \in 0 .. 7}
CK6_SpawnNospike == [Creature("Nospike", "NospikeSit0") EXCEPT !.user3 = Health6]
CK6_SpawnGik == Creature("Gik", "GikWalk0")
CK6_SpawnOrbatrix == [Creature("Orbatrix", "OrbatrixFloat0") EXCEPT !.user2 = 1]
CK6_SpawnBipship == Creature("Bipship", "BipshipFly0")
CK6_SpawnFlect == Creature("Flect", "FlectWalk0")
CK6_SpawnFleex == [Creature("Fleex", "FleexWalk0") EXCEPT !.user2 = Health6]
CK6_SpawnBobba == Creature("Bobba", "BobbaJump0")
CK6_SpawnBabobba == Creature("Babobba", "BabobbaJump0")
CK6_SpawnBlorb == [Creature("Blorb", "Blorb0") EXCEPT !.clipped = "simple"]
CK6_SpawnCeilick == [Creature("Ceilick", "CeilickWait0") EXCEPT !.clipped = "not"]

CK6_StoryItemCol(i, j) ==
    /\ KeenTouches(i, "CK6_StoryItemCol", j)
    /\ EndsLevel(objs, CASE Is(i, "Rope") -> "LS_Rope"
                         [] Is(i, "Passcard") -> "LS_Passcard"
                         [] Is(i, "Molly") -> "LS_Molly"
                         [] Is(i, "Sandwich") -> "LS_Sandwich")

(***************************************************************************)
(* Bloogs, their guards and blooglets.                                     *)
(***************************************************************************)
CK6_Bloog(i) == May(i, "CK6_Bloog", {})

CK6_BloogCol(i, j) ==
    \/ KeenTouches(i, "CK6_BloogCol", j) /\ Kills(i)
    \/ ShotTouches(i, "CK6_BloogCol", j) /\ Stuns(i, j, "BloogStunned0")

CK6_BloogguardWalk(i) == May(i, "CK6_BloogguardWalk", {"BloogguardClub0"})

\* The ground shakes under Keen's feet.
CK6_BloogguardSmash(i) ==
    /\ Thinks(i, "CK6_BloogguardSmash")
    /\ \/ ThinkOnly(i, objs)
       \/ objs[0].act \in KeenActs /\ ThinkOnly(i, Goes(0, "keenStunned0"))

\* A hit that is not the last: user1 counts the draws it flashes for, user2 its health.
Hurts(i, s, act) ==
    Becomes(CK_ShotHit([objs EXCEPT ![i].user2 = @ - 1, ![i].user1 = 2, ![i].act = act], s))

\* It falls at zero.
BloogguardColAtZero(i, j) ==
    \/ KeenTouches(i, "CK6_BloogguardCol", j) /\ Kills(i)
    \/ /\ ShotTouches(i, "CK6_BloogguardCol", j)
       /\ IF objs[i].user2 = 0 THEN Stuns(i, j, "BloogguardStunned0") ELSE Hurts(i, j, objs[i].act)

CK6_BloogguardCol(i, j) ==
    \/ KeenTouches(i, "CK6_BloogguardCol", j) /\ Kills(i)
    \/ /\ ShotTouches(i, "CK6_BloogguardCol", j)
       /\ IF objs[i].user2 = 1 THEN Stuns(i, j, "BloogguardStunned0") ELSE Hurts(i, j, objs[i].act)

CK6_MultihitDraw(i) ==
    Draws(i, "CK6_MultihitDraw") /\ Becomes([objs EXCEPT ![i].user1 = IF @ > 0 THEN @ - 1 ELSE 0])

\* Keen is pushed.  A shot makes it drop its gem, of the colour of user1 & 3.
CK6_BloogletCol(i, j) ==
    LET colour == objs[i].user1 % 4
        gem == [Creature("Item", "fallingitem") EXCEPT !.user1 = colour]
        act == <<"BloogletRStunned0", "BloogletYStunned0", "BloogletBStunned0", "BloogletGStunned0">>[colour + 1]
    IN /\ ShotTouches(i, "CK6_BloogletCol", j)
       /\ CK_StunCreature(IF objs[i].user1 > 3 THEN CK_GetNewObj(objs, gem) ELSE objs, i, j, act)

(***************************************************************************)
(* Nospikes: user1 counts the draws in the air, user2 is set while one     *)
(* charges by its own will, user3 is its health (user4).  Where it hangs   *)
(* in the air, a question mark shows.                                      *)
(***************************************************************************)
CK6_NospikeWalk(i) ==
    \/ May(i, "CK6_NospikeWalk", {"NospikeSit0"})
    \/ /\ Thinks(i, "CK6_NospikeWalk")
       /\ ThinkOnly(i, [objs EXCEPT ![i].user1 = 0, ![i].user2 = 1, ![i].act = "NospikeCharge0"])

\* It gives up.
CK6_NospikeCharge(i) ==
    \/ May(i, "CK6_NospikeCharge", {})
    \/ /\ Thinks(i, "CK6_NospikeCharge") /\ objs[i].user1 = 0
       /\ ThinkOnly(i, [objs EXCEPT ![i].user2 = 0, ![i].act = "NospikeWalk0"])

NospikeFalls(os, i) == [os EXCEPT ![i] = StunnedAs(@, "NospikeStunned0")]

\* A shot makes it charge; two that charge run each other down, if they are heading so.
CK6_NospikeCol(i, j) ==
    \/ KeenTouches(i, "CK6_NospikeCol", j) /\ Kills(i)
    \/ /\ ShotTouches(i, "CK6_NospikeCol", j)
       /\ IF objs[i].user3 = 1 THEN Stuns(i, j, "NospikeStunned0")
          ELSE Becomes(CK_ShotHit([objs EXCEPT ![i].user3 = @ - 1, ![i].act = "NospikeCharge0"], j))
    \/ /\ Touches(i, "CK6_NospikeCol", j) /\ Is(j, "Nospike")
       /\ objs[i].user2 = 1 /\ objs[j].user2 = 1
       /\ Becomes(NospikeFalls(NospikeFalls(objs, i), j))

CK6_NospikeFall(i) == May(i, "CK6_NospikeFall", {})

\* It sets user1 and user2 to the sprite of the question mark, which CK6_NospikeFall has taken
\* away and set to 0.
CK6_NospikeFallDraw2(i) == Draws(i, "CK6_NospikeFallDraw2") /\ Becomes(NospikeFalls(objs, i))

CK6_NospikeChargeDraw(i) ==
    /\ Draws(i, "CK6_NospikeChargeDraw")
    /\ \/ Becomes([objs EXCEPT ![i].user1 = 0])
       \/ Becomes([objs EXCEPT ![i].user1 = 0, ![i].user2 = 0, ![i].act = "NospikeSit0"])
       \/ Becomes([objs EXCEPT ![i].user1 = @ + 1,
                               ![i].act = IF objs[i].user1 + 1 = AirHangTime THEN "NospikeFall0" ELSE @])

(***************************************************************************)
(* Giks, orbatrixes, bips and their ships.                                 *)
(***************************************************************************)
CK6_GikWalk(i) == May(i, "CK6_GikWalk", {"GikJump0"})
CK6_GikSlide(i) == May(i, "CK6_GikSlide", {"GikEndSlide0"})
CK6_GikJumpDraw(i) == DrawsTo(i, "CK6_GikJumpDraw", Action(i).next)

CK6_OrbatrixFloat(i) == May(i, "CK6_OrbatrixFloat", {"OrbatrixUncurl2", "OrbatrixCurl0"})

CK6_OrbatrixCol(i, j) ==
    ShotTouches(i, "CK6_OrbatrixCol", j) /\ Becomes(CK_ShotHit(Goes(i, "OrbatrixUncurl2"), j))

\* user3 floats up and down; user2, its direction, is user4 in the code.
CK6_OrbatrixDraw(i) ==
    LET next == objs[i].user3 + objs[i].user2 IN
    /\ Draws(i, "CK6_OrbatrixDraw")
    /\ Becomes([objs EXCEPT
          ![i].user3 = IF next > FloatSteps THEN FloatSteps ELSE IF next < -FloatSteps THEN -FloatSteps ELSE next,
          ![i].user2 = IF next > FloatSteps THEN -1 ELSE IF next < -FloatSteps THEN 1 ELSE @])

\* user1 counts the bounces that are left; then it rises.
CK6_OrbatrixBounceDraw(i) ==
    /\ Draws(i, "CK6_OrbatrixBounceDraw")
    /\ Becomes([objs EXCEPT ![i].user1 = @ - 1,
                            ![i].act = IF objs[i].user1 = 1 THEN "OrbatrixUncurl0" ELSE @])

\* Near the top of its way it drops.
CK6_OrbatrixCurl(i) ==
    /\ Thinks(i, "CK6_OrbatrixCurl")
    /\ \/ Becomes(objs)
       \/ objs[i].user3 > 0 /\ Becomes([objs EXCEPT ![i].user1 = BounceCount, ![i].act = "OrbatrixBounce0"])

CK6_OrbatrixUncurlThink(i) == May(i, "CK6_OrbatrixUncurlThink", Action(i).next)

CK6_OrbatrixCol2(i, j) ==
    \/ KeenTouches(i, "CK6_OrbatrixCol2", j) /\ Kills(i)
    \/ ShotTouches(i, "CK6_OrbatrixCol2", j) /\ Deflects(j)

CK6_BipWalk(i) == May(i, "CK6_BipWalk", {"BipStand0"})

\* Keen walks over it.
CK6_BipCol(i, j) ==
    KeenTouches(i, "CK6_BipCol", j) /\ Becomes([objs EXCEPT ![i].type = "Friendly", ![i].act = "BipSquished0"])

CK6_BipShotDraw(i) == Draws(i, "CK6_BipShotDraw") /\ Becomes(CK_RemoveObj(objs, i))

CK6_BipshipTurn(i) == May(i, "CK6_BipshipTurn", {})

\* It may shoot, and turn in the same frame.
CK6_BipshipFly(i) ==
    LET shot == CK_GetNewObj(objs, Debris("EnemyShot", "BipShot0")) IN
    /\ Thinks(i, "CK6_BipshipFly")
    /\ \E os \in {objs, shot}, act \in {"BipshipFly0", "BipshipTurn0"} : Becomes(SetAct(os, i, act))

CK6_BipshipCrash(i) ==
    Thinks(i, "CK6_BipshipCrash") /\ ThinkOnly(i, CK_GetNewObj(objs, Creature("Bip", "BipStand0")))

CK6_BipshipCol(i, j) ==
    ShotTouches(i, "CK6_BipshipCol", j) /\ Becomes(CK_ShotHit(Goes(i, "BipshipHit0"), j))

(***************************************************************************)
(* Flects, which only a shot from above or below stuns.                    *)
(***************************************************************************)
CK6_FlectTurn(i) == May(i, "CK6_FlectTurn", {"FlectTurn1", "FlectWalk0"})
CK6_FlectWalk(i) == May(i, "CK6_FlectWalk", {"FlectTurn0", "FlectTurn1"})

\* Others come back: user1 (user4) of the shot tells Keen.  Keen is pushed.
CK6_FlectCol(i, j) ==
    /\ ShotTouches(i, "CK6_FlectCol", j)
    /\ \/ objs[j].user1 = 0 /\ Stuns(i, j, "FlectStunned0")
       \/ Becomes([objs EXCEPT ![j].user1 = 1])

\* CK_KeenColFunc.
CK6_KeenCol(j) ==
    /\ objs[0].act \in KeenActs /\ Is(j, "Stunner") /\ objs[j].user1 = 1
    /\ Becomes(CK_ShotHit(Goes(0, "keenStunned0"), j))

(***************************************************************************)
(* Fleexes, bobbas, babobbas, blorbs and ceilicks.                         *)
(***************************************************************************)
CK6_FleexWalk(i) == Thinks(i, "CK6_FleexWalk")
    /\ \/ objs[i].user1 = 0 /\ Chooses(i, "FleexSearch0")
       \/ ThinkOnly(i, objs)
CK6_FleexSearch(i) == May(i, "CK6_FleexSearch", {})

CK6_FleexCol(i, j) ==
    \/ KeenTouches(i, "CK6_FleexCol", j) /\ Kills(i)
    \/ /\ ShotTouches(i, "CK6_FleexCol", j)
       /\ IF objs[i].user2 = 1 THEN Stuns(i, j, "FleexStunned0")
          ELSE Hurts(i, j, IF objs[i].act \in {"FleexSearch0", "FleexSearch1"} THEN "FleexWalk0" ELSE objs[i].act)

\* user1 counts the hops until the next shot.
Hops(i, shot, act) ==
    IF objs[i].user1 + 1 = HopsPerShot
    THEN ThinkOnly(i, CK_GetNewObj([objs EXCEPT ![i].user1 = 0, ![i].act = act], Debris("EnemyShot", shot)))
    ELSE ThinkOnly(i, [objs EXCEPT ![i].user1 = @ + 1])

CK6_Bobba(i) == Thinks(i, "CK6_Bobba") /\ Hops(i, "BobbaTwinkle0", "BobbaShoot0")
CK6_BobbaFireball(i) == May(i, "CK6_BobbaFireball", {})

CK6_BobbaCol(i, j) ==
    \/ KeenTouches(i, "CK6_BobbaCol", j) /\ Kills(i)
    \/ ShotTouches(i, "CK6_BobbaCol", j) /\ Deflects(j)

CK6_BobbaJumpDraw(i) == DrawsTo(i, "CK6_BobbaJumpDraw", {"BobbaStand0"})
CK6_BobbaFireballDraw(i) == DrawsTo(i, "CK6_BobbaFireballDraw", {"BobbaFireballHits0"})

CK6_BabobbaSit(i) ==
    /\ Thinks(i, "CK6_BabobbaSit")
    /\ \/ ThinkOnly(i, [objs EXCEPT ![i].user1 = 0, ![i].act = "BabobbaNap0"])
       \/ Hops(i, "BabobbaShotStart0", "BabobbaSit1")

CK6_BabobbaCol(i, j) ==
    \/ KeenTouches(i, "CK6_BabobbaCol", j) /\ Kills(i)
    \/ ShotTouches(i, "CK6_BabobbaCol", j) /\ Stuns(i, j, "BabobbaStunned0")

CK6_BabobbaNapCol(i, j) == ShotTouches(i, "CK6_BabobbaNapCol", j) /\ Stuns(i, j, "BabobbaStunned0")

CK6_BabobbaJumpDraw(i) == DrawsTo(i, "CK6_BabobbaJumpDraw", {"BabobbaSit0"})

\* On the ground its shot burns down: user1 counts.
CK6_BabobbaShot(i) ==
    /\ Thinks(i, "CK6_BabobbaShot")
    /\ ThinkOnly(i, IF objs[i].user1 + 1 = DecayTime
                    THEN [objs EXCEPT ![i].user1 = 0, ![i].act = "BabobbaShotVanish0"]
                    ELSE [objs EXCEPT ![i].user1 = @ + 1])

CK6_BabobbaShotVanish(i) ==
    /\ Thinks(i, "CK6_BabobbaShotVanish")
    /\ ThinkOnly(i, IF objs[i].user1 + 1 = VanishTime THEN CK_RemoveObj(objs, i)
                    ELSE [objs EXCEPT ![i].user1 = @ + 1])

CK6_Ceilick(i) == May(i, "CK6_Ceilick", {"CeilickStrike00"})
CK6_CeilickDescend(i) ==
    Action(i).think \in {"CK6_CeilickDescend", "CK6_CeilickStunned"} /\ ThinkOnly(i, objs)

CK6_CeilickCol(i, j) == ShotTouches(i, "CK6_CeilickCol", j) /\ Stuns(i, j, "CeilickStunned0")

Step6(i) ==
    \/ CK6_Bloog(i) \/ CK6_BloogguardWalk(i) \/ CK6_BloogguardSmash(i) \/ CK6_MultihitDraw(i)
    \/ CK6_NospikeWalk(i) \/ CK6_NospikeCharge(i) \/ CK6_NospikeFall(i)
    \/ CK6_NospikeFallDraw2(i) \/ CK6_NospikeChargeDraw(i) \/ CK6_GikWalk(i) \/ CK6_GikSlide(i)
    \/ CK6_GikJumpDraw(i) \/ CK6_OrbatrixFloat(i) \/ CK6_OrbatrixDraw(i)
    \/ CK6_OrbatrixBounceDraw(i) \/ CK6_OrbatrixCurl(i) \/ CK6_OrbatrixUncurlThink(i)
    \/ CK6_BipWalk(i) \/ CK6_BipShotDraw(i) \/ CK6_BipshipTurn(i) \/ CK6_BipshipFly(i)
    \/ CK6_BipshipCrash(i) \/ CK6_FlectTurn(i) \/ CK6_FlectWalk(i) \/ CK6_FleexWalk(i)
    \/ CK6_FleexSearch(i) \/ CK6_Bobba(i) \/ CK6_BobbaFireball(i) \/ CK6_BobbaJumpDraw(i)
    \/ CK6_BobbaFireballDraw(i) \/ CK6_BabobbaSit(i) \/ CK6_BabobbaJumpDraw(i)
    \/ CK6_BabobbaShot(i) \/ CK6_BabobbaShotVanish(i) \/ CK6_Ceilick(i) \/ CK6_CeilickDescend(i)

Touch6(i, j) ==
    \/ CK6_StoryItemCol(i, j) \/ CK6_BloogCol(i, j) \/ CK6_BloogguardCol(i, j)
    \/ CK6_BloogletCol(i, j) \/ CK6_NospikeCol(i, j) \/ CK6_OrbatrixCol(i, j)
    \/ CK6_OrbatrixCol2(i, j) \/ CK6_BipCol(i, j) \/ CK6_BipshipCol(i, j) \/ CK6_FlectCol(i, j)
    \/ CK6_FleexCol(i, j) \/ CK6_BobbaCol(i, j) \/ CK6_BabobbaCol(i, j)
    \/ CK6_BabobbaNapCol(i, j) \/ CK6_CeilickCol(i, j)

Keen6 == \E j \in Live : CK6_KeenCol(j)
====
