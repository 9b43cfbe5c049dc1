---- MODULE Creatures ----
(***************************************************************************)
(* The machine that all creatures share (ck_play.c, ck_misc.c, ck_obj.c,   *)
(* the shot of ck_keen.c): a pool of objects, each in an action of the     *)
(* action table.  An action has a think function, called every frame or    *)
(* when its timer runs out, a collide function, called for each object     *)
(* that touches, a draw function, called after the movement, and a next    *)
(* action.  A module per episode adds its table and its functions.         *)
(*                                                                         *)
(* Places, speeds and times are abstracted: any two objects may touch, any *)
(* object may meet a wall, a floor or a ceiling, any timer may run out,    *)
(* and the thinks, touches and draws of a frame come in any order.  Frames *)
(* of an animation that share their functions are one action, named after  *)
(* the first.                                                              *)
(***************************************************************************)
EXTENDS ActionTables, Sequences, FiniteSets

CONSTANTS
    Slots,          \* CK_MAX_OBJECTS: the objects of the pool besides Keen, who is object 0
    MaxShots        \* the stunner shots Keen starts with

ASSUME CreaturesAssumption == Slots \in Nat /\ MaxShots \in Nat

VARIABLES
    ck_currentEpisode,
    objs,           \* ck_objArray
    numShots,       \* ck_gameState.numShots
    levelState,     \* ck_gameState.levelState
    quitMessage,    \* the message of the first Quit, or ""
    \* history
    killer,         \* what killed Keen: its type and the type it was stunned as, or <<>>
    stuns,          \* the creatures stunned
    fired           \* the shots fired

vars == <<ck_currentEpisode, objs, numShots, levelState, quitMessage, killer, stuns, fired>>

(***************************************************************************)
(* Objects.  user4 of a stunned creature keeps its type; ptr stands for    *)
(* the user fields that hold a pointer to another object; `hit` is a       *)
(* history: the type it was stunned as, if it has not recovered since.     *)
(***************************************************************************)
Obj(type, act, active) ==
    [type |-> type, act |-> act, active |-> active, clipped |-> "normal",
     user1 |-> 0, user2 |-> 0, user3 |-> 0, user4 |-> "", ptr |-> 0, hit |-> ""]

Nothing == Obj("Nothing", "NULL", "inactive")
Creature(type, act) == Obj(type, act, "active")
Debris(type, act) == Obj(type, act, "onscreen")     \* OBJ_EXISTS_ONLY_ONSCREEN
Fixture(type, act) == Obj(type, act, "always")      \* OBJ_ALWAYS_ACTIVE

Ids == 0 .. Slots
Live == {i \in Ids : objs[i].type # "Nothing"}
Is(i, type) == objs[i].type = type
At(i, act) == objs[i].act = act

\* A slot of the pool, or tempObj, whose contents nobody looks at.  What only shows itself
\* and touches nothing (bits of shell, puffs, bubbles, sparks) takes no slot here.
CK_GetNewObj(os, obj) ==
    LET free == {i \in Ids : os[i].type = "Nothing"} IN
    IF free = {} THEN os ELSE [os EXCEPT ![CHOOSE i \in free : \A j \in free : i <= j] = obj]

\* Keen cannot be removed: that quits.
CK_RemoveObj(os, i) == [os EXCEPT ![i] = Nothing]

SetAct(os, i, act) == [os EXCEPT ![i].act = act]
Goes(i, act) == SetAct(objs, i, act)

(***************************************************************************)
(* Effects of a step.                                                      *)
(***************************************************************************)
Others == <<ck_currentEpisode, numShots, levelState, quitMessage, killer, stuns, fired>>

Becomes(os) == objs' = os /\ UNCHANGED Others

Quit(message) ==
    /\ quitMessage' = message
    /\ UNCHANGED <<ck_currentEpisode, objs, numShots, levelState, killer, stuns, fired>>

EndsLevel(os, state) ==
    /\ objs' = os /\ levelState' = state
    /\ UNCHANGED <<ck_currentEpisode, numShots, quitMessage, killer, stuns, fired>>

\* The shot that hit is a shot still.
ShotHitFliesOn(os, s) == [os EXCEPT ![s].act = "keenShotHit1"]

CK_ShotHit(os, s) == [os EXCEPT ![s].type = "Friendly", ![s].act = "keenShotHit1"]

\* The shot is spent on creature i, which keeps its type in user4.
StunnedAs(o, act) ==
    [o EXCEPT !.user1 = 0, !.user2 = 0, !.user3 = 0, !.user4 = o.type, !.act = act,
              !.type = "StunnedCreature", !.hit = IF o.hit = "" THEN o.type ELSE o.hit]

CK_StunCreature(os, i, s, act) ==
    /\ objs' = CK_ShotHit([os EXCEPT ![i] = StunnedAs(@, act)], s)
    /\ stuns' = stuns + 1
    /\ UNCHANGED <<ck_currentEpisode, numShots, levelState, quitMessage, killer, fired>>

Stuns(i, s, act) == CK_StunCreature(objs, i, s, act)
Deflects(s) == Becomes(CK_ShotHit(objs, s))

\* Creature i kills Keen, unless he is dying already; os is what else becomes of the objects.
Dying == objs[0].act \in {"keenDie0", "KeenEaten0", "KeenEaten1", "NULL"}
CK_KillKeen(i, os) ==
    IF Dying THEN Becomes(os)
    ELSE /\ objs' = SetAct(os, 0, "keenDie0") /\ killer' = <<objs[i].type, objs[i].hit>>
         /\ UNCHANGED <<ck_currentEpisode, numShots, levelState, quitMessage, stuns, fired>>

Kills(i) == CK_KillKeen(i, objs)

(***************************************************************************)
(* What calls the functions of the table.                                  *)
(***************************************************************************)
Action(i) == Actions[ck_currentEpisode][objs[i].act]

Thinks(i, function) == Action(i).think = function
Draws(i, function) == Action(i).draw = function
Touches(i, function, j) == i # j /\ j \in Live /\ Action(i).collide = function

\* CK_ActionThink: after the think, which made os of the objects, the timer may have run
\* out; then the next action follows, unless the think chose one itself.  An object
\* without an action is removed (CK_RunAction).
CK_ActionThink(i, os) ==
    \E action \in {Action(i)} :
        \/ action.type # "once" /\ Becomes(os)
        \/ /\ action.type \in {"once", "both"}
           /\ IF os[i].act # objs[i].act THEN Becomes(os)
              ELSE \E act \in action.next :
                      Becomes(IF act = "NULL" THEN CK_RemoveObj(os, i) ELSE SetAct(os, i, act))

ThinkOnly(i, os) == CK_ActionThink(i, os)
Chooses(i, act) == CK_ActionThink(i, Goes(i, act))

\* A think function that moves the object and may choose one of these actions; a draw
\* function that takes one of these when the object has met a wall, an edge or the ground.
May(i, function, acts) == Thinks(i, function) /\ \E act \in acts \cup {objs[i].act} : Chooses(i, act)
DrawsTo(i, function, acts) == Draws(i, function) /\ \E act \in acts : Becomes(Goes(i, act))

\* Keen, or one of his shots, touches the object.
KeenTouches(i, function, j) == Touches(i, function, j) /\ Is(j, "Player")
ShotTouches(i, function, j) == Touches(i, function, j) /\ Is(j, "Stunner")

\* Functions that move or turn an object, or show another picture of it.
Moves == {"NULL", "CK_Fall", "CK_Fall2", "CK_Glide", "CK_SetDraw", "CK_AxisPlatform",
          "CK_PointItem"}

CK_RunAction(i) == Action(i).think \in Moves /\ CK_ActionThink(i, objs)

\* A creature that turned at a wall or an edge keeps its think function waiting
\* (timeUntillThink), but not its timer.
Turners == {"CK_BasicDrawFunc2", "CK_BasicDrawFunc3", "CK4_BirdDraw", "CK4_BerkeloidDraw",
            "CK6_MultihitDraw", "CK6_FlectDraw"}
TimeUntillThink(i) == Action(i).draw \in Turners /\ CK_ActionThink(i, objs)

\* Out of the picture: CK_PlayLoop removes what exists only on the screen.
LeavesScreen(i) == objs[i].active = "onscreen" /\ Becomes(CK_RemoveObj(objs, i))

\* What only sleeps there loses its sprites.
LosesStars(i) == Is(i, "StunnedCreature") /\ Becomes([objs EXCEPT ![i].user3 = 0])

\* Below the map there is nothing.
FallsOut(i) == Action(i).think \in {"CK_Fall", "CK_Fall2"} /\ Becomes(CK_RemoveObj(objs, i))

(***************************************************************************)
(* Keen and his shots.                                                     *)
(***************************************************************************)
KeenMoves ==
    /\ objs[0].act \in KeenActs /\ levelState = "LS_Playing"
    /\ \E act \in KeenActs : Becomes(Goes(0, act))

CK_SpawnShot ==
    /\ objs[0].act \in KeenActs /\ numShots > 0
    /\ numShots' = numShots - 1 /\ fired' = fired + 1
    /\ objs' = CK_GetNewObj(objs, Fixture("Stunner", "keenShot1"))
    /\ UNCHANGED <<ck_currentEpisode, levelState, quitMessage, killer, stuns>>

\* A shot that has left the screen by far is gone.
CK_ShotThink(i) ==
    /\ Thinks(i, "CK_ShotThink")
    /\ \/ Becomes(CK_RemoveObj(objs, i))
       \/ CK_ActionThink(i, objs)

CK_ShotDrawFunc(i) == Draws(i, "CK_ShotDrawFunc") /\ Deflects(i)

CK_KeenDeathThink == At(0, "keenDie0") /\ EndsLevel(objs, "LS_Died")

(***************************************************************************)
(* Functions that several creatures share.                                 *)
(***************************************************************************)
CK_DeadlyCol(i, j) ==
    /\ Touches(i, "CK_DeadlyCol", j)
    /\ \/ Is(j, "Stunner") /\ Deflects(j)
       \/ Is(j, "Player") /\ Kills(i)

CK_LethalCol(i, j) == Touches(i, "CK_LethalCol", j) /\ Is(j, "Player") /\ Kills(i)

\* The stunned creatures that BasicDrawFunc4 finds a place for the stars of.
StarSpecs6 == {"Bloogguard", "Flect", "Bloog", "Nospike", "Blooglet", "Babobba", "Fleex", "Ceilick"}

\* A stunned creature falls; on the ground it takes its next action.  The stars, whose
\* sprite user3 holds, go round in three pictures.
CK_BasicDrawFunc4(i) ==
    LET stars == ck_currentEpisode # 6 \/ objs[i].user4 \in StarSpecs6
        shown == [objs EXCEPT ![i].user2 = (@ + 1) % 3, ![i].user3 = 1]
    IN /\ Draws(i, "CK_BasicDrawFunc4")
       /\ \/ ~stars /\ Quit("No star spec for object!")
          \/ stars /\ Becomes(shown)
          \/ stars /\ \E act \in Action(i).next \ {"NULL"} : Becomes(SetAct(shown, i, act))

\* What has come to rest takes its next action; without one it is removed.
CK_DieOnContactDraw(i) ==
    /\ Draws(i, "CK_DieOnContactDraw")
    /\ \E act \in Action(i).next \ {"NULL"} : Becomes(Goes(i, act))

CK_ShrapnelTileCol(i) ==
    /\ Draws(i, "CK_ShrapnelTileCol")
    /\ \E act \in Action(i).next :
          Becomes(IF act = "NULL" THEN CK_RemoveObj(objs, i) ELSE Goes(i, act))

(***************************************************************************)
(* The steps that no episode owns.                                         *)
(***************************************************************************)
CreatureStep(i) ==
    \/ CK_RunAction(i) \/ TimeUntillThink(i)
    \/ LeavesScreen(i) \/ LosesStars(i) \/ FallsOut(i)
    \/ CK_ShotThink(i) \/ CK_ShotDrawFunc(i)
    \/ CK_BasicDrawFunc4(i) \/ CK_DieOnContactDraw(i) \/ CK_ShrapnelTileCol(i)

CreatureTouch(i, j) == CK_DeadlyCol(i, j) \/ CK_LethalCol(i, j)

KeenRecovers == At(0, "keenStunned0") /\ CK_RunAction(0)

KeenStep == KeenMoves \/ KeenRecovers \/ CK_SpawnShot \/ CK_KeenDeathThink

\* The level is being played.
Running == levelState = "LS_Playing" /\ quitMessage = ""
====
