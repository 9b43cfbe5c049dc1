---- MODULE ObjList ----
(***************************************************************************)
(* The object list (ck_play.c) and the three walks that CK_PlayLoop takes  *)
(* along it in a frame: to think, to collide, to draw.  The functions it   *)
(* calls for an object remove objects and spawn others while it walks.     *)
(*                                                                         *)
(* Objects are the slots of an array; slot 1 is Keen, slot 2 the score box *)
(* and slot 0 stands for NULL.  A slot keeps what it held when it is       *)
(* freed, `next` included.                                                 *)
(***************************************************************************)
EXTENDS Integers, Sequences, FiniteSets

CONSTANTS
    CK_MAX_OBJECTS,     \* the slots
    MaxDeeds,           \* what a function does in one call before it removes its own object
    Callbacks           \* what the functions of an object do to the list in one call, of
                        \* {"spawn", "self", "other", "selfThenSpawn", "selfAndNext"}; "again" if
                        \* an object that has been removed may be removed once more

ASSUME ObjListAssumption == CK_MAX_OBJECTS \in Nat \ {0, 1} /\ MaxDeeds \in Nat

VARIABLE ol

Slots == 1 .. CK_MAX_OBJECTS
Keen == 1
Permanent == {1, 2}     \* Keen and the score box, which no function of theirs removes

(***************************************************************************)
(* The array.                                                              *)
(***************************************************************************)
Objects ==
    [prev |-> [s \in Slots |-> IF s = CK_MAX_OBJECTS THEN 0 ELSE s + 1],
     next |-> [s \in Slots |-> 0],
     free |-> 1, last |-> 0, num |-> 0,
     active |-> [s \in Slots |-> "no"], visible |-> {}, stunned |-> {},
     sde |-> {}, star |-> {},       \* the slots with a pointer to a sprite, and to stars
     sprites |-> {},                \* the sprites: a slot and what they show of it
     temp |-> FALSE,                \* the last object asked for was tempObj
     quit |-> FALSE,
     walk |-> "think", cur |-> Keen, other |-> 0,
     live |-> {},                   \* history: the slots that are objects
     due |-> {},                    \* history: who should still think in this frame
     deadThinks |-> FALSE]          \* history: a removed object has been called to think or draw

CK_GetNewObj(o, nonCritical) ==
    LET s == o.free IN
    IF s = 0 THEN [o EXCEPT !.temp = TRUE, !.quit = @ \/ ~nonCritical]
    ELSE [o EXCEPT !.free = o.prev[s], !.prev[s] = o.last,
                   !.next = [x \in Slots |-> IF x = o.last THEN s ELSE IF x = s THEN 0 ELSE o.next[x]],
                   !.active[s] = "yes", !.visible = @ \ {s}, !.stunned = @ \ {s},
                   !.sde = @ \ {s}, !.star = @ \ {s},
                   !.last = s, !.num = @ + 1, !.live = @ \cup {s}, !.temp = FALSE]

RF_RemoveSpriteDraw(o, s) ==
    IF s \in o.sde THEN [o EXCEPT !.sde = @ \ {s}, !.sprites = @ \ {<<s, "self">>}] ELSE o

RemoveStars(o, s) ==
    IF s \in o.stunned \cap o.star THEN [o EXCEPT !.star = @ \ {s}, !.sprites = @ \ {<<s, "stars">>}] ELSE o

\* The stars of a stunned creature are forgotten.
RemoveObjNotItsStars(o, s) ==
    LET p == RF_RemoveSpriteDraw(o, s) IN
    [p EXCEPT !.last = IF @ = s THEN o.prev[s] ELSE @,
              !.prev = [x \in Slots |-> CASE x = s -> o.free
                                          [] x # s /\ x = o.next[s] -> o.prev[s]
                                          [] OTHER -> o.prev[x]],
              !.next[o.prev[s]] = o.next[s],
              !.free = s, !.num = @ - 1, !.live = @ \ {s}]

CK_RemoveObj(o, s) ==
    LET p == RemoveStars(RF_RemoveSpriteDraw(o, s), s) IN
    IF s = Keen THEN [o EXCEPT !.quit = TRUE]
    ELSE [p EXCEPT !.last = IF @ = s THEN o.prev[s] ELSE @,
                   !.prev = [x \in Slots |-> CASE x = s -> o.free
                                               [] x # s /\ x = o.next[s] -> o.prev[s]
                                               [] OTHER -> o.prev[x]],
                   !.next[o.prev[s]] = o.next[s],
                   !.free = s, !.num = @ - 1, !.live = @ \ {s}]

(***************************************************************************)
(* What a function called for slot s makes of the list.                    *)
(***************************************************************************)
Can(callback, results) == IF callback \in Callbacks THEN results ELSE {}

\* A shot is no object unless it is on the screen, nor if it is stuck in a wall.
SpawnEnemyShot(o) ==
    LET p == CK_GetNewObj(o, TRUE)
        shot == p.last
    IN IF p.temp THEN {p} ELSE {[p EXCEPT !.active[shot] = "onscreen"], CK_RemoveObj(p, shot)}

Spawned(o) == {CK_GetNewObj(o, FALSE)} \cup SpawnEnemyShot(o)

Stuns(o, s) ==
    IF s \in Permanent THEN {}
    ELSE {[o EXCEPT !.stunned = @ \cup {s}, !.star = @ \cup {s}, !.sprites = @ \cup {<<s, "stars">>}]}

\* It stuns its own object, spawns others, removes others: the worms that become a foot do all.
Deeds(o, s) ==
    Stuns(o, s) \cup Can("spawn", Spawned(o))
    \cup Can("other", {CK_RemoveObj(o, x) : x \in o.live \ ({s} \cup Permanent)})

Did(o, s) ==
    LET after[k \in 0 .. MaxDeeds] ==
            IF k = 0 THEN {o} ELSE after[k - 1] \cup UNION {Deeds(p, s) : p \in after[k - 1]}
    IN after[MaxDeeds]

Called(o, s) ==
    IF s \notin o.live THEN {o} \cup Can("again", {CK_RemoveObj(o, s)})
    ELSE LET did == Did(o, s) IN
    did
    \cup Can("self", IF s \in Permanent THEN {} ELSE {CK_RemoveObj(p, s) : p \in did})
    \cup Can("selfThenSpawn", IF s \in Permanent THEN {} ELSE Spawned(CK_RemoveObj(o, s)))
    \cup Can("selfAndNext", IF s \in Permanent \/ o.next[s] = 0 THEN {}
                            ELSE {CK_RemoveObj(CK_RemoveObj(o, s), o.next[s])})

(***************************************************************************)
(* The walks.  Where the objects are is left open.                         *)
(***************************************************************************)
CK_SetupObjArray == CK_GetNewObj(CK_GetNewObj(Objects, FALSE), FALSE)

OlInits == {[CK_SetupObjArray EXCEPT !.active = [@ EXCEPT ![Keen] = "always", ![2] = "always"]]}

Step(o, s) == [o EXCEPT !.cur = o.next[s], !.due = (@ \ {s}) \cap o.live, !.deadThinks = @ \/ s \notin ol.live]

\* An object out of the active area; it thinks all the same if it is lucky.
Leaves(o, s) ==
    CASE o.active[s] = "onscreen" -> {CK_RemoveObj(o, s)}
      [] o.active[s] = "yes" -> {[RemoveStars(RF_RemoveSpriteDraw(o, s), s) EXCEPT !.active[s] = "no"]}
      [] OTHER -> {}

CK_RunAction(o, s) == {[p EXCEPT !.visible = @ \cup {s}] : p \in Called(o, s)}

Activated(o, s) == IF o.active[s] = "no" THEN {o, [o EXCEPT !.active[s] = "yes", !.visible = @ \cup {s}]} ELSE {o}

Thinks(o, s) ==
    UNION {IF p.active[s] = "no" THEN {p} ELSE Leaves(p, s) \cup CK_RunAction(p, s) : p \in Activated(o, s)}

Think ==
    /\ ol.walk = "think" /\ ol.cur # 0
    /\ \E o \in Thinks(ol, ol.cur) : ol' = Step(o, ol.cur)

ThinkEnds ==
    /\ ol.walk = "think" /\ ol.cur = 0
    /\ ol' = [ol EXCEPT !.walk = "collide", !.cur = Keen, !.other = ol.next[Keen]]

\* The collide function of the first may remove the second, which then is called all the same.
Collides(o, s, t) ==
    IF o.active[s] = "no" \/ o.active[t] = "no" THEN {o}
    ELSE {o} \cup UNION {Called(p, t) : p \in Called(o, s)}

Collide ==
    /\ ol.walk = "collide" /\ ol.cur # 0 /\ ol.other # 0
    /\ \E o \in Collides(ol, ol.cur, ol.other) : ol' = [o EXCEPT !.other = o.next[ol.other]]

CollideNext ==
    /\ ol.walk = "collide" /\ ol.cur # 0 /\ ol.other = 0
    /\ LET s == ol.next[ol.cur]
       IN ol' = IF s = 0 THEN [ol EXCEPT !.walk = "draw", !.cur = Keen]
                ELSE [ol EXCEPT !.cur = s, !.other = ol.next[s]]

\* Who has fallen out of the map is removed, and not drawn.
Draws(o, s) ==
    IF o.active[s] = "no" THEN {o}
    ELSE (IF s \in Permanent THEN {} ELSE {CK_RemoveObj(o, s)})
         \cup (IF s \in o.visible
               THEN UNION {Called([o EXCEPT !.visible = @ \ {s}, !.sde = @ \cup {s},
                                            !.sprites = @ \cup {<<s, "self">>}], s)}
               ELSE {o})

Draw ==
    /\ ol.walk = "draw" /\ ol.cur # 0
    /\ \E o \in Draws(ol, ol.cur) : ol' = Step(o, ol.cur)

\* The next frame; who is an object now is due to think in it.
DrawEnds ==
    /\ ol.walk = "draw" /\ ol.cur = 0
    /\ ol' = [ol EXCEPT !.walk = "think", !.cur = Keen, !.other = 0, !.due = ol.live]

(***************************************************************************)
(* Saved games (ck_game.c): the objects in the order of the list.          *)
(***************************************************************************)
\* From slot s along the links.
Chain(link, s) ==
    LET at[i \in Slots] == IF i = 1 THEN s ELSE IF at[i - 1] = 0 THEN 0 ELSE link[at[i - 1]]
    IN [i \in 1 .. Cardinality({j \in Slots : at[j] # 0}) |-> at[i]]
List(o) == Chain(o.next, Keen)

\* CK_SaveObject keeps what counts here of an object.
Saved(o) == [i \in DOMAIN List(o) |-> [active |-> o.active[List(o)[i]], stunned |-> List(o)[i] \in o.stunned]]

\* The pointers to sprites in the file are stale: the stars of the stunned are omitted.
CK_LoadObject(o, s, saved) ==
    [o EXCEPT !.active[s] = saved.active, !.visible = @ \cup {s},
              !.stunned = IF saved.stunned THEN @ \cup {s} ELSE @]

\* Each but Keen and the score box gets a slot of its own.
LoadFrom(file) ==
    LET loaded[i \in 0 .. Len(file)] ==
            IF i = 0 THEN CK_SetupObjArray
            ELSE CK_LoadObject(IF i <= 2 THEN loaded[i - 1] ELSE CK_GetNewObj(loaded[i - 1], FALSE), i, file[i])
    IN loaded[Len(file)]

\* A game is loaded; whatever was played in between leaves no trace.
CK_LoadGame ==
    /\ ol.walk = "think" /\ ol.cur = Keen
    /\ LET o == LoadFrom(Saved(ol)) IN ol' = [o EXCEPT !.due = o.live]

OlNext ==
    /\ ~ol.quit
    /\ Think \/ ThinkEnds \/ Collide \/ CollideNext \/ Draw \/ DrawEnds \/ CK_LoadGame

OlSpec == ol \in OlInits /\ [][OlNext]_ol

(***************************************************************************)
(* Properties.                                                             *)
(***************************************************************************)
Elements(seq) == {seq[i] : i \in DOMAIN seq}

\* Whatever the functions of the objects do to the list, in whatever order: its links lead
\* through every object once, both ways, and those of the free slots through all others.
ListSound ==
    LET list == List(ol)
        free == Chain(ol.prev, ol.free)
    IN ~ol.quit =>
       /\ Elements(list) = ol.live /\ Len(list) = ol.num /\ ol.num = Cardinality(ol.live)
       /\ ol.last = list[Len(list)]
       /\ \A i \in 2 .. Len(list) : ol.prev[list[i]] = list[i - 1]
       /\ Elements(free) = Slots \ ol.live /\ Len(free) = CK_MAX_OBJECTS - ol.num

\* Only objects think and are drawn: a walk never follows the links of a freed slot to
\* another freed slot.
OnlyObjectsThink == ~ol.deadThinks

\* Every object that has been there since the frame began thinks in it.
AllThink == ol.walk = "think" /\ ol.cur = 0 /\ ~ol.quit => ol.due = {}

\* The sprites on the screen are those of the objects, and each has one pointer to it.
SpritesOwned ==
    ~ol.quit => ol.sprites = {<<s, "self">> : s \in ol.sde \cap ol.live} \cup {<<s, "stars">> : s \in ol.star \cap ol.live}

\* The list, the walks along it and the sprites agree, whatever the functions of the
\* objects do: the four above.
ObjectListSound == ListSound /\ OnlyObjectsThink /\ AllThink /\ SpritesOwned
====
