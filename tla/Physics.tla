---- MODULE Physics ----
(***************************************************************************)
(* How Keen and a platform move (ck_phys.c, the platforms of ck_obj.c,     *)
(* CK_KeenRidePlatform, the thinks and draws of a Keen on his feet or in   *)
(* the air, and the camera of the levels): sloped tiles are clipped at the *)
(* middle of a body, walls at its sides, a platform carries who stands on  *)
(* it, and the view follows Keen.                                          *)
(*                                                                         *)
(* Units are the program's: 256 a tile, 16 a pixel. One step is one frame  *)
(* of the play loop; the player holds an input for as many frames as he    *)
(* likes and changes it a few times. Poles, the pogo, shots, deadly tiles  *)
(* and pulling oneself up a ledge are in module Keen.                      *)
(***************************************************************************)
EXTENDS Integers, Sequences, FiniteSets, SequencesExt, Bitwise

CONSTANT
    PhScenes        \* scene -> its episode, map, info plane, platform, starts, inputs, how often the
                    \* player changes his input, and the limits of the view

ASSUME PhysicsAssumption == \A name \in DOMAIN PhScenes : PhScenes[name].changes \in Nat

VARIABLE ph

World(s) == PhScenes[s.scene]
NoTile == [top |-> 0, right |-> 0, bottom |-> 0, left |-> 0]
TI(w, x, y) == IF <<x, y>> \in DOMAIN w.map THEN w.map[<<x, y>>] ELSE NoTile
Info(w, x, y) == IF <<x, y>> \in DOMAIN w.info THEN w.info[<<x, y>>] ELSE 0
BlockTile == 31             \* 0x1F, where platforms turn
Carried == 25           \* 0x19, the top of a platform
UnitToTile(u) == u \div 256
Within(u, low, high) == IF u < low THEN low ELSE IF u > high THEN high ELSE u
Size(u) == IF u < 0 THEN -u ELSE u
First(rows) == CHOOSE y \in rows : \A z \in rows : y <= z

\* The height of a slope below the top of its tile, at one of its 16 columns.
ck_physSlopeHeight(ti, x) ==
    CASE ti % 8 = 0 -> 256
      [] ti % 8 = 1 -> 0
      [] ti % 8 = 2 -> 8 * x
      [] ti % 8 = 3 -> 128 + 8 * x
      [] ti % 8 = 4 -> 16 * x
      [] ti % 8 = 5 -> 120 - 8 * x
      [] ti % 8 = 6 -> 248 - 8 * x
      [] OTHER -> 240 - 16 * x

(***************************************************************************)
(* A body: its position and clip rectangle (which the code moves apart),   *)
(* the middle of it in units and in tiles, what it touches, how far it     *)
(* went this frame.                                                        *)
(***************************************************************************)
Boxes == [keen |-> [xh |-> 191, yh |-> 511], platform |-> [xh |-> 511, yh |-> 255]]

CK_ResetClipRects(b) ==
    LET half == Boxes[b.who].xh \div 2
    IN  [b EXCEPT !.x1 = b.x, !.x2 = b.x + Boxes[b.who].xh, !.y1 = b.y, !.y2 = b.y + Boxes[b.who].yh,
                  !.xmid = b.x + half, !.tileXmid = UnitToTile(b.x + half)]

\* Only Keen 6 moves the middle along; its tile stays in all three.
CK_PhysUpdateX(w, b, by) ==
    [b EXCEPT !.x = @ + by, !.x1 = @ + by, !.x2 = @ + by, !.xmid = IF w.ep = 6 THEN @ + by ELSE @]
CK_PhysUpdateY(b, by) == [b EXCEPT !.y = @ + by, !.y1 = @ + by, !.y2 = @ + by]

MidColumn(b) == (b.xmid \div 16) % 16
Surface(w, b, y) == 256 * y + ck_physSlopeHeight(TI(w, b.tileXmid, y).top, MidColumn(b)) - 1

\* `old` is the body before the move, d how its rectangle moved.
ClipUpOne(w, d, nextY, b, y) ==
    LET ti == TI(w, b.tileXmid, y).bottom
        by == 256 * (y + 1) - ck_physSlopeHeight(ti, MidColumn(b)) - b.y1
    IN  IF y >= UnitToTile(b.y1) /\ ti # 0 /\ by > 0 /\ by <= Size(d.xmid) - d.y1 + 16 /\ nextY + by \in -255..255
        THEN CK_PhysUpdateY([b EXCEPT !.bottomTI = ti], by)
        ELSE b

OntoFloor(w, b, y) == CK_PhysUpdateY([b EXCEPT !.topTI = TI(w, b.tileXmid, y).top], Surface(w, b, y) - b.y2)
Floors(w, b, old, d) ==
    {y \in UnitToTile(old.y2) - 1 .. UnitToTile(b.y2) :
        /\ TI(w, b.tileXmid, y).top # 0
        /\ Surface(w, b, y) - b.y2 \in -Size(d.xmid) - d.y2 - 16 .. -1}
ClipUp(w, b, old, d, nextY) ==
    LET y1 == UnitToTile(old.y1) + 1
    IN  FoldLeft(LAMBDA c, y : ClipUpOne(w, d, nextY, c, y), b,
                 [i \in 1 .. y1 - UnitToTile(b.y1) + 1 |-> y1 + 1 - i])
ClipOnFloors(w, b, old, d, nextY, floors) ==
    IF floors # {} THEN OntoFloor(w, b, First(floors)) ELSE ClipUp(w, b, old, d, nextY)
CK_PhysClipVert(w, b, old, d, nextY) == ClipOnFloors(w, b, old, d, nextY, Floors(w, b, old, d))

\* A Keen whose middle is over nothing may still land on, or be stopped by, what is at the side he faces.
Side(b) == IF b.dir = 1 THEN b.x2 ELSE b.x1
Facing(w, b, y) == LET t == TI(w, UnitToTile(Side(b)), y) IN IF b.dir = 1 THEN t.left ELSE t.right

CK_PhysKeenClipDown(w, b, d) ==
    LET col == UnitToTile(Side(b))
        row == UnitToTile(b.y2)
        by == 256 * row - 1 - b.y2
    IN  IF /\ Facing(w, b, row - 2) = 0 /\ Facing(w, b, row - 1) = 0 /\ TI(w, col, row - 1).top = 0
           /\ TI(w, col, row).top = 1 /\ by <= 0 /\ -d.y2 <= by
        THEN CK_PhysUpdateX(w, CK_PhysUpdateY([b EXCEPT !.topTI = 1], by), Side(b) - b.xmid)
        ELSE b

CK_PhysKeenClipUp(w, b, d) ==
    LET col == UnitToTile(Side(b))
        row == UnitToTile(b.y1)
        ti == TI(w, col, row).bottom
        by == 256 * (row + 1) - ck_physSlopeHeight(ti, IF b.dir = 1 THEN 0 ELSE 15) - b.y1
    IN  IF /\ Facing(w, b, row + 2) = 0 /\ Facing(w, b, row + 3) = 0 /\ TI(w, col, row + 1).bottom = 0
           /\ ti # 0 /\ by >= 0 /\ -d.y1 >= by
        THEN CK_PhysUpdateY([b EXCEPT !.bottomTI = ti], by)
        ELSE b

CK_PhysClipHorz(w, b) ==
    LET rows == UnitToTile(b.y1) + (IF b.bottomTI > 1 THEN 1 ELSE 0)
                .. UnitToTile(b.y2) - (IF b.topTI > 1 THEN 1 ELSE 0)
        column1 == UnitToTile(b.x1)
        column2 == UnitToTile(b.x2)
        atLeft == {y \in rows : TI(w, column1, y).right # 0}
        atRight == {y \in rows : TI(w, column2, y).left # 0}
    IN  IF atLeft # {}
        THEN CK_PhysUpdateX(w, [b EXCEPT !.rightTI = TI(w, column1, First(atLeft)).right], 256 * (column1 + 1) - b.x1)
        ELSE IF atRight # {}
        THEN CK_PhysUpdateX(w, [b EXCEPT !.rightTI = 0, !.leftTI = TI(w, column2, First(atRight)).left],
                            256 * column2 - 1 - b.x2)
        ELSE [b EXCEPT !.rightTI = 0, !.leftTI = 0]

Counted(b, old) == [b EXCEPT !.dx = @ + b.x - old.x, !.dy = @ + b.y - old.y]
Displaced(b, old) == [xmid |-> b.xmid - old.xmid, y1 |-> b.y1 - old.y1, y2 |-> b.y2 - old.y2]

\* Actions that stick to the ground.
Sticks(b) == b.act \in {"stand", "run", "lookUp1", "lookUp2", "lookDown1", "lookDown2", "lookDown3", "lookDown4"}

ClippedDown(w, b, d) == IF b.topTI = 0 /\ d.y2 > 0 THEN CK_PhysKeenClipDown(w, b, d) ELSE b
ClippedUp(w, b, d) == IF b.bottomTI = 0 /\ d.y1 < 0 THEN CK_PhysKeenClipUp(w, b, d) ELSE b
ClippedBody(w, b, old, d, nextY) ==
    CK_PhysClipHorz(w, ClippedUp(w, ClippedDown(w, CK_PhysClipVert(w, b, old, d, nextY), d), d))

\* Keen 6 only: a Keen pushed against a wall on a slope is put back on it, and the frame's move is not counted.
SlopeRows(w, b, old) ==
    {y \in UnitToTile(old.y2) .. UnitToTile(b.y2) + 1 : TI(w, b.tileXmid, y).top # 0}
AgainstWallOnSlope(w, b, old) ==
    w.ep = 6 /\ b.who = "keen" /\ b.topTI % 8 > 1 /\ (b.leftTI # 0 \/ b.rightTI # 0) /\ SlopeRows(w, b, old) # {}
BackOnSlope(w, b, old) == OntoFloor(w, b, First(SlopeRows(w, b, old)))

\* One that looked for ground and found none is left where it was.
SettledBody(w, b, old, looks, x) ==
    IF AgainstWallOnSlope(w, b, old) THEN BackOnSlope(w, b, old)
    ELSE IF b.topTI = 0 /\ looks THEN Counted(CK_ResetClipRects([b EXCEPT !.x = x, !.y = old.y]), old)
    ELSE Counted(b, old)

CK_PhysUpdateNormalObj(w, b, nx, ny) ==
    LET looks == Sticks(b) /\ b.topTI # Carried       \* for the ground below
        nextX == Within(nx, -239, 239)
        nextY == Within(IF looks THEN Size(nx) + 16 ELSE IF Sticks(b) THEN 145 ELSE ny, -239, 255)
        moved == [CK_ResetClipRects([b EXCEPT !.x = @ + nextX, !.y = @ + nextY])
                     EXCEPT !.topTI = 0, !.bottomTI = 0, !.leftTI = 0, !.rightTI = 0, !.visible = TRUE]
        clipped == IF b.who = "keen" THEN ClippedBody(w, moved, b, Displaced(moved, b), nextY) ELSE moved
    IN  SettledBody(w, clipped, b, looks, b.x + nextX)

\* Without a reset of what the body touches.
CK_PhysUpdateSimpleObj(w, b, nextX, nextY) ==
    LET moved == [CK_ResetClipRects([b EXCEPT !.x = @ + nextX, !.y = @ + nextY]) EXCEPT !.visible = TRUE]
    IN  Counted(CK_PhysClipHorz(w, CK_PhysClipVert(w, moved, b, Displaced(moved, b), nextY)), b)

\* The swimmers' clipping: the whole rectangle is free, or the move is undone, one axis or both.
NotStuckInWall(w, at, size) ==
    \A x \in UnitToTile(at[1]) .. UnitToTile(at[1] + size[1]), y \in UnitToTile(at[2]) .. UnitToTile(at[2] + size[2]) :
        TI(w, x, y) = NoTile
CK_PhysFullClipToWalls(w, at, by, size) ==
    LET to == <<at[1] + by[1], at[2] + by[2]>>
    IN  IF NotStuckInWall(w, to, size) THEN to
        ELSE IF NotStuckInWall(w, <<at[1], to[2]>>, size) THEN <<at[1], to[2]>>
        ELSE IF NotStuckInWall(w, <<to[1], at[2]>>, size) THEN <<to[1], at[2]>>
        ELSE at

(***************************************************************************)
(* Speeds. One element of `tics` per tic of the frame: whether it is odd.  *)
(***************************************************************************)
Tics(s) == [i \in 1 .. s.sync |-> (s.lastTimeCount - s.sync + i - 1) % 2 = 1]

\* At the top of a flight the frame's remaining tics are lost.
GravityTic(acc, g, odd) ==
    IF g.apex THEN g
    ELSE IF odd /\ g.vel \in -acc .. -1 THEN [vel |-> 0, next |-> g.next + g.vel, apex |-> TRUE]
    ELSE LET vel == IF odd THEN (IF g.vel + acc > 70 THEN 70 ELSE g.vel + acc) ELSE g.vel
         IN  [g EXCEPT !.vel = vel, !.next = @ + vel]
CK_PhysGravity(acc, vel, next, tics) ==
    FoldLeft(LAMBDA g, odd : GravityTic(acc, g, odd), [vel |-> vel, next |-> next, apex |-> FALSE], tics)

Damped(vel) == IF vel > 0 THEN vel - 1 ELSE IF vel < 0 THEN vel + 1 ELSE 0
SpeedTic(Change(_), g, odd) ==
    LET vel == IF odd THEN Change(g.vel) ELSE g.vel IN [vel |-> vel, next |-> g.next + vel]
CK_PhysDampHorz(vel, next, tics) ==
    FoldLeft(LAMBDA g, odd : SpeedTic(Damped, g, odd), [vel |-> vel, next |-> next], tics)
CK_PhysAccelHorz(vel, next, acc, limit, tics) ==
    FoldLeft(LAMBDA g, odd : SpeedTic(LAMBDA v : Within(v + acc, -limit, limit), g, odd),
             [vel |-> vel, next |-> next], tics)

(***************************************************************************)
(* Keen's thinks. A turn c is Keen, ck_nextX, ck_nextY, whether he has a   *)
(* platform and the time his action leaves to the next one.                *)
(***************************************************************************)
Acts(c, act) == [c EXCEPT !.keen.act = act]
NewPress(c, input) == input.jump /\ ~c.keen.jumpWasPressed
Jumps(c, velX) ==
    [c EXCEPT !.keen.act = "jump1", !.keen.velX = velX, !.keen.velY = -40, !.keen.jumpTimer = 18,
              !.keen.jumpWasPressed = TRUE, !.nextY = 0]
ck_KeenRunXVels == <<0, 0, 4, 4, 8, -4, -4, -8>>
OnSlope(c, sync) == ck_KeenRunXVels[(c.keen.topTI % 8) + 1] * sync

GroundIdle(c, input) ==
    IF NewPress(c, input) THEN Jumps(c, 0)
    ELSE IF input.y = -1 THEN Acts(c, "lookUp1")
    ELSE IF input.y = 1 THEN Acts(c, "lookDown1")
    ELSE c

CK_KeenRunningThink(c, s, input) ==
    IF input.x = 0 THEN GroundIdle(Acts(c, "stand"), input)
    ELSE LET turned == [c EXCEPT !.keen.dir = input.x]
             runs == IF NewPress(c, input) THEN [Jumps(turned, 16 * input.x) EXCEPT !.nextX = 0] ELSE turned
         IN  [runs EXCEPT !.nextX = @ + OnSlope(c, s.sync)]

\* One think, then a quarter of the run's speed.
CK_HandleInputOnGround(c, s, input) ==
    IF input.x = 0 THEN GroundIdle(c, input)
    ELSE LET runs == CK_KeenRunningThink(Acts(c, "run"), s, input)
         IN  [runs EXCEPT !.nextX = IF runs.keen.act = "run" THEN 6 * s.sync * input.x ELSE 0]

CK_KeenStandingThink(c, s, input) == CK_HandleInputOnGround(Acts(c, "stand"), s, input)

CK_KeenLookUpThink(c, s, input) ==
    IF input.y # -1 \/ input.x # 0 \/ NewPress(c, input)
    THEN CK_HandleInputOnGround(Acts(c, "stand"), s, input) ELSE c

\* Keen jumps down through what holds him by its top only.
Holds(t) == t.left # 0 \/ t.bottom # 0 \/ t.right # 0
CK_KeenLookDownThink(c, s, input) ==
    LET w == World(s)
        row == UnitToTile(c.keen.y2)
        down == 16 * (IF s.sync > 4 THEN s.sync ELSE 4) + (IF c.on THEN s.platform.dy ELSE 0)
    IN  IF NewPress(c, input) /\ c.keen.topTI % 8 = 1
        THEN IF Holds(TI(w, c.keen.tileXmid, row)) \/ Holds(TI(w, c.keen.tileXmid, row + 1))
             THEN [c EXCEPT !.keen.jumpWasPressed = TRUE]
             ELSE [c EXCEPT !.keen.jumpWasPressed = TRUE, !.on = FALSE, !.keen.y2 = @ + down, !.keen.y = @ + down,
                            !.nextX = 0, !.nextY = 0, !.keen.act = "fall1", !.keen.velX = 0, !.keen.velY = 0]
        ELSE IF input.y # 1 \/ input.x # 0 \/ NewPress(c, input) THEN Acts(c, "lookDown4") ELSE c

NextAct(act) ==
    CASE act = "jump1" -> "jump2" [] act = "jump2" -> "fall1"
      [] act = "fall1" -> "fall2" [] act = "fall2" -> "fall1"
      [] act = "lookUp1" -> "lookUp2" [] act = "lookDown1" -> "lookDown2" [] act = "lookDown2" -> "lookDown3"
      [] act = "lookDown4" -> "stand" [] OTHER -> act

Rises(c, s, input) ==
    LET timer == c.keen.jumpTimer
        left == IF input.jump /\ timer > s.sync THEN timer - s.sync ELSE 0
        act == IF left = 0 THEN NextAct(c.keen.act) ELSE c.keen.act
    IN  [c EXCEPT !.nextY = c.keen.velY * (IF timer < s.sync THEN timer ELSE s.sync),
                  !.keen.jumpTimer = left, !.keen.act = act]
Falls(c, tics) ==
    LET g == CK_PhysGravity(3, c.keen.velY, c.nextY, tics)
        act == IF g.vel > 0 /\ c.keen.act \notin {"fall1", "fall2"} THEN NextAct(c.keen.act) ELSE c.keen.act
    IN  [c EXCEPT !.nextY = g.next, !.keen.velY = g.vel, !.keen.act = act]
Drifts(c, input, tics) ==
    IF input.x = 0
    THEN LET g == CK_PhysDampHorz(c.keen.velX, c.nextX, tics) IN [c EXCEPT !.nextX = g.next, !.keen.velX = g.vel]
    ELSE LET g == CK_PhysAccelHorz(c.keen.velX, c.nextX, 2 * input.x, 24, tics)
             dir == IF (g.vel < 0) = (c.keen.velX < 0) THEN input.x ELSE IF g.vel < 0 THEN -1 ELSE 1
         IN  [c EXCEPT !.nextX = g.next, !.keen.velX = g.vel, !.keen.dir = dir]
CK_KeenJumpThink(c, s, input) ==
    Drifts(IF c.keen.jumpTimer > 0 THEN Rises(c, s, input) ELSE Falls(c, Tics(s)), input, Tics(s))

ActThink(c, s, input) ==
    CASE c.keen.act = "stand" -> CK_KeenStandingThink(c, s, input)
      [] c.keen.act = "run" -> CK_KeenRunningThink(c, s, input)
      [] c.keen.act \in {"lookUp1", "lookUp2"} -> CK_KeenLookUpThink(c, s, input)
      [] c.keen.act \in {"lookDown1", "lookDown2", "lookDown3"} -> CK_KeenLookDownThink(c, s, input)
      [] c.keen.act \in {"jump1", "jump2", "fall1", "fall2"} -> CK_KeenJumpThink(c, s, input)
      [] OTHER -> c

\* Tics an action lasts; 0 is an action of type Frame.
Lasts == [stand |-> 4, run |-> 6, lookUp1 |-> 30, lookUp2 |-> 0, lookDown1 |-> 6, lookDown2 |-> 24, lookDown3 |-> 0,
          lookDown4 |-> 6, jump1 |-> 0, jump2 |-> 0, fall1 |-> 50, fall2 |-> 40]

ActionThink(c, s, input, time) ==
    LET act == c.keen.act
        newTime == c.keen.timer + time
        ends == Lasts[act] # 0 /\ newTime >= Lasts[act]
        moves == [c EXCEPT !.nextX = IF act = "run" THEN @ + 24 * c.keen.dir * (time - (IF ends THEN newTime - 6 ELSE 0))
                                     ELSE @,
                           !.nextY = IF act = "stand" /\ ends THEN @ + 32 ELSE @,
                           !.keen.timer = IF Lasts[act] = 0 \/ ends THEN 0 ELSE newTime,
                           !.left = IF ends THEN newTime - Lasts[act] ELSE 0]
        thought == ActThink(moves, s, input)
    IN  IF ends /\ thought.keen.act = act THEN Acts(thought, NextAct(act))
        ELSE IF thought.keen.act # act THEN [thought EXCEPT !.keen.timer = 0] ELSE thought

\* Keen's part of CK_RunAction: he is moved only when there is a reason to.
Turn(s) == [keen |-> [s.keen EXCEPT !.dx = 0, !.dy = 0], nextX |-> 0, nextY |-> 0, on |-> s.on, left |-> 0]
ThinksOn(c, s, input) == IF c.left > 0 THEN ActionThink(c, s, input, c.left) ELSE c
MovedIfNeeded(c, s) ==
    IF c.nextX # 0 \/ c.nextY # 0 \/ c.keen.act # s.keen.act \/ c.keen.topTI = Carried
    THEN [c EXCEPT !.keen = CK_PhysUpdateNormalObj(World(s), @, c.nextX, c.nextY)]
    ELSE c
KeenTurn(s, input) == MovedIfNeeded(ThinksOn(ActionThink(Turn(s), s, input, s.sync), s, input), s)

(***************************************************************************)
(* Platforms. Each think gives the platform and its ck_nextX, ck_nextY.    *)
(***************************************************************************)
Heads(p, nextX, nextY) == [platform |-> p, nextX |-> nextX, nextY |-> nextY]

\* Between two blocks: turns where it would enter one, or stays in a shaft too short for it.
AxisTurn(p, far, by) ==
    IF p.dir + p.ydir = 1 THEN by - (far % 256) ELSE by + (IF p.dir = -1 THEN (256 - far) % 256 ELSE 256 - (far % 256))
CK_AxisPlatform(w, p, sync) ==
    LET by == 12 * sync * (p.dir + p.ydir)
        sign == p.dir + p.ydir
        edge == IF p.dir = 1 THEN p.x2 ELSE IF p.dir = -1 THEN p.x1 ELSE IF p.ydir = 1 THEN p.y2 ELSE p.y1
        far == edge + by
        meets(tile) == IF p.dir # 0 THEN Info(w, tile, UnitToTile(p.y1)) = BlockTile
                       ELSE Info(w, UnitToTile(p.x1), tile) = BlockTile
        turns == UnitToTile(edge) # UnitToTile(far) /\ meets(UnitToTile(far))
        stays == turns /\ p.ydir # 0 /\ meets(UnitToTile(far) - 2 * sign)
        goes == IF stays THEN 0 ELSE IF turns THEN AxisTurn(p, far, by) ELSE by
        turned == IF turns /\ ~stays THEN [p EXCEPT !.dir = -@, !.ydir = -@] ELSE p
    IN  IF p.dir # 0 THEN Heads(turned, goes, 0) ELSE Heads(turned, 0, goes)

\* Along arrows: user1 the arrow it follows, user2 the units left to the next.
ck_infoplaneArrows == <<<<0, -1>>, <<1, 0>>, <<0, 1>>, <<-1, 0>>, <<1, -1>>, <<1, 1>>, <<-1, 1>>, <<-1, -1>>>>
Arrow(i) == ck_infoplaneArrows[i + 1]
CK_GoPlatThink(w, p, sync) ==
    LET by == 12 * sync
        left == p.user2
        reached == <<p.x + Arrow(p.user1)[1] * left, p.y + Arrow(p.user1)[2] * left>>
        next == Info(w, UnitToTile(reached[1]), UnitToTile(reached[2])) - 91       \* 0x5B
    IN  IF left > by THEN Heads([p EXCEPT !.user2 = @ - by], Arrow(p.user1)[1] * by, Arrow(p.user1)[2] * by)
        ELSE Heads([p EXCEPT !.user1 = next, !.user2 = 256 - (by - left)],
                   Arrow(p.user1)[1] * left + Arrow(next)[1] * (by - left),
                   Arrow(p.user1)[2] * left + Arrow(next)[2] * (by - left))

CK_FallPlatSit(s, p) ==
    IF ~s.on THEN Heads(p, 0, 0)
    ELSE Heads([p EXCEPT !.velY = 0, !.act = IF p.y + 16 * s.sync - p.user1 >= 128 THEN "fall" ELSE @], 0, 16 * s.sync)

CK_FallPlatFall(s, p) ==
    LET g == CK_PhysGravity(4, p.velY, 0, Tics(s))
        tile == UnitToTile(p.y2 + g.next)
        falling == [p EXCEPT !.velY = g.vel]
    IN  IF UnitToTile(p.y2) # tile /\ Info(World(s), UnitToTile(p.x1), tile) = BlockTile
        THEN Heads([falling EXCEPT !.act = IF s.on THEN @ ELSE "rise"], 0, 255 - (p.y2 % 256))
        ELSE Heads(falling, 0, g.next)

CK_FallPlatRise(s, p) ==
    IF s.on THEN Heads([p EXCEPT !.velY = 0, !.act = "fall"], 0, -32 * s.sync)
    ELSE IF p.y <= p.user1 THEN Heads([p EXCEPT !.act = "sit"], 0, p.user1 - p.y)
    ELSE Heads(p, 0, -32 * s.sync)

\* Sneaks away from under a Keen who jumps towards it, and comes back at half the speed.
CK_SneakPlatThink(s, p) ==
    LET k == s.keen
        gap == IF k.dir = 1 THEN p.x1 - k.x2 ELSE k.x1 - p.x2
    IN  IF k.act = "jump1" /\ gap \in 0 .. 1024 /\ k.y - p.y \in -1536 .. 1536
        THEN [p EXCEPT !.dir = k.dir, !.act = "sneak"] ELSE p
SneakTics(act) == IF act = "sneak" THEN 48 ELSE 96
SneakSpeed(act) == IF act = "sneak" THEN 32 ELSE -16
Sneaks(s, p) ==
    IF p.act = "wait" THEN Heads(CK_SneakPlatThink(s, p), 0, 0)
    ELSE LET over == p.timer + s.sync - SneakTics(p.act)
             last == p.dir * SneakSpeed(p.act) * (s.sync - over)
             home == [p EXCEPT !.act = "wait", !.timer = 0]
         IN  IF over < 0 THEN Heads([p EXCEPT !.timer = @ + s.sync], p.dir * SneakSpeed(p.act) * s.sync, 0)
             ELSE IF p.act = "sneak"
             THEN Heads([p EXCEPT !.act = "return", !.timer = over], last + p.dir * SneakSpeed("return") * over, 0)
             ELSE Heads(IF over > 0 THEN CK_SneakPlatThink(s, home) ELSE home, last, 0)

PlatformTurn(s) ==
    LET w == World(s)
        p == [s.platform EXCEPT !.dx = 0, !.dy = 0]
        goes == CASE w.kind = "axis" -> CK_AxisPlatform(w, p, s.sync)
                  [] w.kind = "go" -> CK_GoPlatThink(w, p, s.sync)
                  [] p.act = "sit" -> CK_FallPlatSit(s, p)
                  [] p.act = "fall" -> CK_FallPlatFall(s, p)
                  [] p.act = "rise" -> CK_FallPlatRise(s, p)
                  [] w.kind = "sneak" -> Sneaks(s, p)
                  [] OTHER -> Heads(p, 0, 0)
    IN  IF goes.nextX = 0 /\ goes.nextY = 0 THEN goes.platform
        ELSE CK_PhysUpdateNormalObj(w, goes.platform, goes.nextX, goes.nextY)

(***************************************************************************)
(* The ride, and the first contact.                                        *)
(***************************************************************************)
InStep_added(x, px) == x + (px % 32)

InStep(x, px) == 32 * (x \div 32) + ((x % 32) | (px % 32))

CK_KeenRidePlatform(s) ==
    LET w == World(s)
        k == s.keen
        p == s.platform
        rides == CK_PhysUpdateSimpleObj(w, k, p.dx, p.y1 - k.y2 - 16)
        rider == [rides EXCEPT !.x = InStep(@, p.x)]
    IN  IF ~s.on THEN s
        ELSE IF k.x2 < p.x1 \/ k.x1 > p.x2 THEN [s EXCEPT !.on = FALSE]
        ELSE IF k.dy < 0
        THEN [s EXCEPT !.on = FALSE, !.keen = IF p.dy < 0 THEN CK_PhysUpdateSimpleObj(w, k, 0, p.dy) ELSE k]
        ELSE IF rider.bottomTI # 0 THEN [s EXCEPT !.on = FALSE, !.keen = rider]
        ELSE [s EXCEPT !.keen = [rider EXCEPT !.topTI = Carried], !.slip = @ + rider.x - rides.x]

Overlap(k, p) == k.x2 > p.x1 /\ k.x1 < p.x2 /\ k.y1 < p.y2 /\ k.y2 > p.y1
CK_PhysPushY(s) ==
    LET k == s.keen
        into == k.y2 - s.platform.y1
        pushed == CK_PhysUpdateNormalObj(World(s), [k EXCEPT !.act = "fall1"], 0, -into)     \* it does not stick meanwhile
    IN  IF into >= 0 /\ into <= k.dy - s.platform.dy
        THEN [s EXCEPT !.on = TRUE, !.slip = 0,
                       !.keen = [pushed EXCEPT !.act = k.act, !.topTI = IF pushed.bottomTI = 0 THEN Carried ELSE @]]
        ELSE s

CK_SetAction2(w, k, act) ==
    LET does == [k EXCEPT !.act = act, !.timer = 0, !.visible = TRUE]
    IN  IF k.topTI = Carried THEN does ELSE CK_PhysUpdateNormalObj(w, does, 0, 0)

\* A Keen who looks is not held by what he touches: he falls onto it.
Contact(s) ==
    LET k == s.keen
        falls == CK_SetAction2(World(s), k, "fall1")
    IN  IF World(s).kind = "none" \/ ~Overlap(k, s.platform) THEN s
        ELSE IF k.act \in {"lookUp2", "lookDown2", "lookDown3"}
        THEN CK_PhysPushY([s EXCEPT !.keen = [falls EXCEPT !.jumpTimer = 0, !.velX = 0, !.velY = 0]])
        ELSE IF s.on THEN s ELSE CK_PhysPushY(s)

(***************************************************************************)
(* Draws: what Keen does about what he touches.                            *)
(***************************************************************************)
Conveyed(w, k, sync) ==
    IF k.topTI = 41 THEN CK_PhysUpdateNormalObj(w, k, 8 * sync, 0)              \* 0x29
    ELSE IF k.topTI = 49 THEN CK_PhysUpdateNormalObj(w, k, -8 * sync, 0)        \* 0x31
    ELSE k
CK_KeenDrawFunc(w, k, sync) ==
    IF k.topTI = 0
    THEN [CK_SetAction2(w, [k EXCEPT !.velX = 8 * k.dir, !.velY = 0], "fall1") EXCEPT !.jumpTimer = 0]
    ELSE Conveyed(w, k, sync)
AtWall(k) == (k.rightTI # 0 /\ k.dir = -1) \/ (k.leftTI # 0 /\ k.dir = 1)
StopsAtWall(k) == IF AtWall(k) THEN [k EXCEPT !.timer = 0, !.act = "stand"] ELSE k
CK_KeenRunDrawFunc(w, k, sync) == StopsAtWall(CK_KeenDrawFunc(w, k, sync))

Bumped(k) ==
    LET stopped == IF AtWall(k) THEN [k EXCEPT !.velX = 0] ELSE k
        slow == IF k.bottomTI = 1 \/ k.velY + 16 < 0 THEN 0 ELSE k.velY + 16
    IN  IF k.bottomTI = 0 THEN stopped ELSE [stopped EXCEPT !.velY = slow, !.jumpTimer = 0]

\* Past the edge of a tile, with the key towards it, above a tile that is a ledge.
Ledge(w, k, input) ==
    LET edge == 256 * UnitToTile(k.y1 - 64) + 64
        row == UnitToTile(edge) - 1
        col == IF input.x = -1 THEN UnitToTile(k.x1) - (IF k.rightTI # 0 THEN 1 ELSE 0)
               ELSE UnitToTile(k.x2) + (IF k.leftTI # 0 THEN 1 ELSE 0)
        lower == TI(w, col, row + 1)
    IN  /\ k.dy > 0 /\ k.y1 - k.dy < edge /\ k.y1 >= edge /\ input.x # 0
        /\ TI(w, col, row) = NoTile /\ lower.top # 0
        /\ IF input.x = -1 THEN lower.right # 0 ELSE lower.left # 0

CK_KeenJumpDrawFunc(w, k0, input) ==
    LET k == Bumped(k0)
        act == IF input.x = 0 THEN "stand" ELSE "run"
    IN  IF k.topTI # 0
        THEN IF k.topTI # Carried \/ k.jumpTimer = 0 THEN CK_SetAction2(w, [k EXCEPT !.dy = 0], act)
             ELSE [k EXCEPT !.dy = 0]
        ELSE IF Ledge(w, k, input) THEN [k EXCEPT !.act = "hang", !.dir = input.x] ELSE k

KeenDrawn(s, input) ==
    LET w == World(s)
        k == [s.keen EXCEPT !.visible = FALSE]
    IN  CASE ~s.keen.visible -> s.keen
          [] k.act = "run" -> CK_KeenRunDrawFunc(w, k, s.sync)
          [] k.act \in {"jump1", "jump2", "fall1", "fall2"} -> CK_KeenJumpDrawFunc(w, k, input)
          [] OTHER -> CK_KeenDrawFunc(w, k, s.sync)

(***************************************************************************)
(* The camera. `feet` is screenYpx, the line of the screen Keen's feet     *)
(* are kept at; `low` and `high` limit the view.                           *)
(***************************************************************************)
ScreenTiles == <<20, 13>>
Scrolled(w, scroll, by) ==
    [i \in 1 .. 2 |-> Within(scroll[i] + by[i], w.low[i], w.high[i])]

\* A pixel a tic while Keen looks up or down.
Looked(s) ==
    CASE s.keen.act = "lookUp2" -> IF s.feet + s.sync > 167 THEN 167 ELSE s.feet + s.sync
      [] s.keen.act = "lookDown3" -> IF s.feet - s.sync < 33 THEN 33 ELSE s.feet - s.sync
      [] OTHER -> s.feet

\* Towards the line, by an eighth of the distance a tic and 3 pixels a tic at most, a pixel at least.
Approach(distance, sync) ==
    LET by == sync * (IF distance \div 8 > 48 THEN 48 ELSE distance \div 8)
    IN  IF by >= 16 THEN by ELSE IF distance < 16 THEN distance ELSE 16
ToLine(s, feet, by) ==
    LET line == 16 * feet + s.scroll[2] + by
    IN  IF s.keen.y2 < line THEN by - Approach(line - s.keen.y2, s.sync)
        ELSE IF s.keen.y2 > line THEN by + Approach(s.keen.y2 - line, s.sync) ELSE by
InView(s, by) ==
    IF s.keen.y2 < s.scroll[2] + by + 16 * 32 THEN s.keen.y2 - s.scroll[2] - 16 * 32
    ELSE IF s.keen.y2 > s.scroll[2] + by + 16 * 168 THEN s.keen.y2 - s.scroll[2] - 16 * 168
    ELSE by

CK_NormalCamera(s) ==
    LET w == World(s)
        k == s.keen
        held == k.topTI # 0 \/ k.act = "hang"
        feet == Looked(s)
        looked == 16 * (s.feet - feet)
        byX == Within(k.x, s.scroll[1] + 16 * 144, s.scroll[1] + 16 * 192)
        byY == InView(s, IF held THEN ToLine(s, feet, looked + k.dy) ELSE looked)
        bottom == w.high[2] + 256 * ScreenTiles[2]
    IN  IF k.x1 < w.low[1] \/ k.x2 > w.high[1] + 256 * ScreenTiles[1] THEN [s EXCEPT !.keen.act = "out"]
        ELSE IF k.y2 > bottom THEN [s EXCEPT !.keen.act = "dead", !.keen.y = @ - (k.y2 - bottom)]
        ELSE [s EXCEPT !.feet = IF held THEN feet ELSE 140,
                       !.scroll = Scrolled(w, @, <<Within(k.x - byX, -255, 255), Within(byY, -255, 255)>>)]

CK_CentreCamera(w, k) ==
    [i \in 1 .. 2 |-> Within(IF i = 1 THEN k.x - 16 * 152 ELSE k.y2 - 16 * 140, w.low[i], w.high[i])]

(***************************************************************************)
(* A frame: Keen, the platform, the ride, contact, draws, the camera.      *)
(***************************************************************************)
Takes(s, turn) == [s EXCEPT !.keen = turn.keen, !.on = turn.on]
Thought(s, input) == Takes(s, KeenTurn([s EXCEPT !.keen.jumpWasPressed = @ /\ input.jump], input))
PlatformPlaced(s) == [s EXCEPT !.platform = IF World(s).kind = "none" THEN @ ELSE PlatformTurn(s)]
Drawn(s, input) == [s EXCEPT !.keen = KeenDrawn(s, input)]
FrameEnds(s, input, was) ==
    LET rests == s.on /\ s.keen.act = "stand" /\ s.keen.leftTI = 0 /\ s.keen.rightTI = 0
    IN  [s EXCEPT !.input = input, !.changes = IF input = was.input THEN @ ELSE @ + 1,
                  !.slip = IF rests THEN @ ELSE 0, !.aboard = was.on, !.lastTimeCount = (@ + was.sync) % 2]
Framed(s, input) ==
    FrameEnds(CK_NormalCamera(Drawn(Contact(CK_KeenRidePlatform(PlatformPlaced(Thought(s, input)))), input)), input, s)

CK_PlayLoop_moves ==
    /\ ph.keen.act \notin {"hang", "out", "dead"}
    /\ \E input \in World(ph).inputs :
        /\ input = ph.input \/ ph.changes < World(ph).changes
        /\ ph' = Framed(ph, input)

\* A swimmer takes any course at any frame.
Swims ==
    /\ World(ph).kind = "swim"
    /\ \E x, y \in World(ph).strokes :
        LET to == CK_PhysFullClipToWalls(World(ph), <<ph.keen.x, ph.keen.y>>, <<x, y>>, World(ph).size)
        IN  ph' = [ph EXCEPT !.keen.x = to[1], !.keen.y = to[2]]

PhNext ==
    \/ World(ph).kind # "swim" /\ CK_PlayLoop_moves
    \/ Swims

NewBody(who, at, act, dir) ==
    CK_ResetClipRects(
        [who |-> who, x |-> at[1], y |-> at[2], x1 |-> 0, x2 |-> 0, y1 |-> 0, y2 |-> 0, xmid |-> 0, tileXmid |-> 0,
         topTI |-> 0, rightTI |-> 0, bottomTI |-> 0, leftTI |-> 0, dx |-> 0, dy |-> 0, visible |-> TRUE,
         act |-> act, timer |-> 0, dir |-> dir, ydir |-> 1, velX |-> 0, velY |-> 0, jumpTimer |-> 0,
         jumpWasPressed |-> FALSE, user1 |-> 0, user2 |-> 0])

\* Keen is spawned a little above the ground, set on it and drawn: he stands, or falls.
PhStart(name, at, sync) ==
    LET w == PhScenes[name]
        keen == NewBody("keen", at, "stand", 1)
        set == IF w.kind = "swim" THEN keen ELSE CK_KeenDrawFunc(w, CK_PhysUpdateNormalObj(w, keen, 0, 0), sync)
        spawned == NewBody("platform", w.at, w.act, w.dir[1])
    IN  [scene |-> name, sync |-> sync, lastTimeCount |-> sync % 2, input |-> [x |-> 0, y |-> 0, jump |-> FALSE],
         changes |-> 0, keen |-> set, on |-> FALSE, aboard |-> FALSE, slip |-> 0, feet |-> 140, scroll |-> CK_CentreCamera(w, set),
         platform |-> [spawned EXCEPT !.ydir = w.dir[2], !.user1 = w.user1, !.user2 = 256]]
PhInits == UNION {{PhStart(name, at, sync) : at \in PhScenes[name].starts, sync \in PhScenes[name].syncs} :
                  name \in DOMAIN PhScenes}

----------------------------------------------------------------------------
(***************************************************************************)
(* Properties, for a Keen who is in the level.                             *)
(***************************************************************************)
InLevel == World(ph).kind # "swim" /\ ph.keen.act \notin {"out", "dead"}

\* Keen's actions on the ground go with ground below him: where there is none he is drawn, and so
\* falls, at the next frame.
NeverInMidAir == InLevel /\ Sticks(ph.keen) /\ ph.keen.topTI = 0 => ph.keen.visible

\* A Keen who is carried has a platform. One who is on his feet on it is carried, and at the end of
\* the next frame he is a pixel above it, or stands on a tile it passes.
OnTile(w, k) == \E y \in UnitToTile(k.y2) .. UnitToTile(k.y2) + 1 : TI(w, k.tileXmid, y).top # 0 /\ k.y2 = Surface(w, k, y)
RidesThePlatform ==
    /\ ph.keen.topTI = Carried => ph.on
    /\ ph.on /\ Sticks(ph.keen) =>
           /\ ph.keen.topTI = Carried
           /\ ph.aboard => ph.keen.y2 = ph.platform.y1 - 16 \/ OnTile(World(ph), ph.keen)

\* Keen's position is moved in step with the platform bit by bit, apart from his rectangle: this
\* never adds up to more than two of the steps.
SlipsLittle == InLevel => ph.slip < 64 /\ ph.keen.x - ph.keen.x1 \in 0 .. 31

\* However far he falls, rides or looks, his feet stay between the lines 32 and 168 of the screen, as
\* far as the view can go.
FeetInView ==
    LET w == World(ph)
        feet == ph.keen.y2 - ph.scroll[2]
    IN  InLevel => /\ feet < 16 * 32 => ph.scroll[2] = w.low[2]
                   /\ feet > 16 * 168 => ph.scroll[2] = w.high[2]

\* Platforms stay on their tracks: an axis platform enters the blocks that turn it by a unit at
\* most, a falling one comes to rest above its block and overshoots its place by less than two
\* frames' rise (the second for a Keen who has just stepped on it), one that sneaks away is home when it waits.
KeepsTrack ==
    LET w == World(ph)
        p == ph.platform
        Free(x2, y2) == \A x \in UnitToTile(p.x1) .. UnitToTile(x2), y \in UnitToTile(p.y1) .. UnitToTile(y2) :
                            Info(w, x, y) # BlockTile
    IN  /\ w.kind = "axis" => Free(IF p.dir = 0 THEN p.x2 ELSE p.x2 - 1, IF p.ydir = 0 THEN p.y2 ELSE p.y2 - 1)
        /\ w.kind = "fall" => Free(p.x2, p.y2) /\ p.y > p.user1 - 64 * ph.sync
        /\ w.kind = "sneak" /\ p.act = "wait" => p.x = w.at[1]

\* A swimmer is never inside a tile.
SwimsFree == World(ph).kind = "swim" => NotStuckInWall(World(ph), <<ph.keen.x, ph.keen.y>>, World(ph).size)

PhysicsSound == NeverInMidAir /\ RidesThePlatform /\ SlipsLittle /\ FeetInView /\ KeepsTrack /\ SwimsFree
====
