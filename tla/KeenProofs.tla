---- MODULE KeenProofs ----
(***************************************************************************)
(* Keen keeps his type, his clipping and his gems, a press counts once and *)
(* the dead stay dead.                                                     *)
(*                                                                         *)
(* Framed is inductive by itself: Keen's record is Sound (its type, and    *)
(* what items and presses allow) and Timely (his timer has not run past    *)
(* its action).  Kept needs it, and that no platform passes a pole or a    *)
(* gem holder: his clipping is that of his action, his gems add up, and    *)
(* the ground fits both.  The rows of the tables enter by RowsAre, the     *)
(* functions of ck_keen.c one by one, on any record; the steps of the      *)
(* frame come last.                                                        *)
(***************************************************************************)
EXTENDS Keen, TLAPS

(***************************************************************************)
(* Kinds of actions.                                                       *)
(***************************************************************************)
\* Unclipped, with a gem in the hand, shooting, and those of the shooting that spawn the shot.
ClipLess == PoleActs \cup (LedgeActs \ {"keenPull5"}) \cup DieActs
ShotActs == {"keenShoot1", "keenShootUp1", "keenJumpShoot1", "keenJumpShoot2", "keenJumpShootUp1",
             "keenJumpShootUp2", "keenJumpShootDown1", "keenJumpShootDown2", "keenPoleShoot1"}
JumpShots == {"keenJumpShoot2", "keenJumpShootUp2", "keenJumpShootDown2"}
SpawnActs == JumpShots \cup {"keenShoot1", "keenShootUp1", "keenPoleShoot1"}
SwimmingActs == SwimActs \ DieActs

(***************************************************************************)
(* What the table of actions says of each of its rows.                     *)
(***************************************************************************)
Timed(a, row) ==
    /\ row.type \in {"once", "frame", "each"} /\ row.timer \in 0 .. 2
    /\ row.type # "each" => row.timer > 0
    /\ a \in JumpShots => row.timer = 1 /\ row.type # "each"
    /\ a \in SpawnActs \ JumpShots => row.type = "once"
    /\ a \in {"keenPlaceGem", "keenPull4"} => row.type = "once"
    /\ a \in DieActs => row.type = "each"

Succeeds(a, n) ==
    /\ n \in Acts \ {"keenSlide", "keenPlaceGem"}
    /\ n \in PogoActs => a \in PogoActs
    /\ a # "keenPull4" => (n \in ClipLess <=> a \in ClipLess)
    /\ a = "keenPull4" => n = "keenPull5"
    /\ n \in ShotActs => a \in ShotActs \ SpawnActs

Follows(a, row) == \A n \in row.next : Succeeds(a, n)

ThinksOnFoot(a, row) ==
    /\ row.think = "KeenStandingThink" => a \in {"keenStanding", "keenIdle", "keenBored1"}
    /\ row.think = "HandleInputOnGround" => a = "keenRidePlatform"
    /\ row.think = "KeenRunningThink" => a = "keenRun1"
    /\ row.think = "KeenReadThink" => a = "keenReadBook1"
    /\ row.think = "KeenLookUpThink" => a \in {"keenLookUp1", "keenLookUp2"}
    /\ row.think = "KeenLookDownThink" => a \in {"keenLookDown1", "keenLookDown2", "keenLookDown3"}
    /\ row.think = "KeenSlide" => a = "keenSlide"
    /\ row.think = "KeenEnterDoor" => a \in {"keenEnterDoor4", "keenEnteredDoor"}

ThinksElsewhere(a, row) ==
    /\ row.think = "KeenJumpThink" => a \in {"keenJump1", "keenJump2", "keenFall1", "keenFall2"}
    /\ row.think = "KeenPogoBounceThink" => a = "keenPogo1"
    /\ row.think = "KeenPogoThink" => a \in {"keenPogo2", "keenPogo3"}
    /\ row.think = "KeenPoleSitThink" => a = "keenPoleSit"
    /\ row.think = "KeenPoleUpThink" => a = "keenPoleUp1"
    /\ row.think = "KeenPoleDownThink" => a = "keenPoleDown1"
    /\ row.think = "KeenHangThink" => a = "keenHang2"
    /\ row.think \in {"KeenSwim", "KeenSwimFast"} => a \in SwimmingActs

ThinksOnce(a, row) ==
    /\ row.think = "KeenSpawnShot" <=> a \in SpawnActs
    /\ row.think = "KeenPullThink4" <=> a = "keenPull4"
    /\ row.think = "KeenPlaceGem" <=> a = "keenPlaceGem"
    /\ row.think = "KeenDeathThink" <=> a \in DieActs

Touches(a, row) ==
    /\ row.collide = "KeenColFunc" => a \notin ClipLess \cup {"keenPlaceGem", "keenSlide"}
    /\ row.collide = "KeenSpecialColFunc" => a \notin DieActs \cup {"keenPlaceGem", "keenSlide"}
    /\ row.collide = "KeenSwimCol" => a \in SwimmingActs

Draws(a, row) ==
    /\ row.draw = "KeenDrawFunc" => a \notin ClipLess
    /\ row.draw = "KeenRunDrawFunc" => a = "keenRun1"
    /\ row.draw = "KeenJumpDrawFunc" => a \in AirActs \ PogoActs
    /\ row.draw = "KeenPogoDrawFunc" => a \in PogoActs
    /\ row.draw = "KeenPoleDownDrawFunc" => a = "keenPoleDown1"

RowOf(a, row) ==
    /\ Timed(a, row) /\ Follows(a, row)
    /\ ThinksOnFoot(a, row) /\ ThinksElsewhere(a, row) /\ ThinksOnce(a, row)
    /\ Touches(a, row) /\ Draws(a, row)

\* The rows on the ground.
LEMMA GroundRowsAre == \A a \in GroundActs : RowOf(a, GroundRows[a])
<1> SUFFICES ASSUME NEW a \in GroundActs PROVE RowOf(a, GroundRows[a])
  OBVIOUS
<1> USE DEF GroundActs, GroundRows, Row, PogoActs, ClipLess, PoleActs, LedgeActs, DieActs, ShotActs, SpawnActs, JumpShots
<1>1. Timed(a, GroundRows[a])
  BY DEF Timed
<1>2. ASSUME NEW n \in GroundRows[a].next PROVE Succeeds(a, n)
  <2>1. n \in Acts \ {"keenSlide", "keenPlaceGem"}
    BY DEF Acts
  <2>2. /\ n \in PogoActs => a \in PogoActs
        /\ n \in ShotActs => a \in ShotActs \ SpawnActs
    OBVIOUS
  <2>3. /\ a # "keenPull4" => (n \in ClipLess <=> a \in ClipLess)
        /\ a = "keenPull4" => n = "keenPull5"
    OBVIOUS
  <2> QED  BY <2>1, <2>2, <2>3 DEF Succeeds
<1>3. ThinksOnFoot(a, GroundRows[a])
  BY ZenonT(60) DEF ThinksOnFoot
<1>4. ThinksElsewhere(a, GroundRows[a])
  BY ZenonT(60) DEF ThinksElsewhere, SwimmingActs
<1>5. ThinksOnce(a, GroundRows[a])
  BY DEF ThinksOnce
<1>6. Touches(a, GroundRows[a])
  BY DEF Touches, SwimmingActs
<1>7. Draws(a, GroundRows[a])
  BY DEF Draws, AirActs
<1> QED  BY <1>1, <1>2, <1>3, <1>4, <1>5, <1>6, <1>7 DEF RowOf, Follows

\* The rows at switches and doors.
LEMMA BusyRowsAre == \A a \in BusyActs : RowOf(a, BusyRows[a])
<1> SUFFICES ASSUME NEW a \in BusyActs PROVE RowOf(a, BusyRows[a])
  OBVIOUS
<1> USE DEF BusyActs, BusyRows, Row, PogoActs, ClipLess, PoleActs, LedgeActs, DieActs, ShotActs, SpawnActs, JumpShots
<1>1. Timed(a, BusyRows[a])
  BY DEF Timed
<1>2. ASSUME NEW n \in BusyRows[a].next PROVE Succeeds(a, n)
  <2>1. n \in Acts \ {"keenSlide", "keenPlaceGem"}
    BY DEF Acts, GroundActs
  <2>2. /\ n \in PogoActs => a \in PogoActs
        /\ n \in ShotActs => a \in ShotActs \ SpawnActs
    OBVIOUS
  <2>3. /\ a # "keenPull4" => (n \in ClipLess <=> a \in ClipLess)
        /\ a = "keenPull4" => n = "keenPull5"
    OBVIOUS
  <2> QED  BY <2>1, <2>2, <2>3 DEF Succeeds
<1>3. ThinksOnFoot(a, BusyRows[a])
  BY DEF ThinksOnFoot
<1>4. ThinksElsewhere(a, BusyRows[a])
  BY DEF ThinksElsewhere, SwimmingActs
<1>5. ThinksOnce(a, BusyRows[a])
  BY DEF ThinksOnce
<1>6. Touches(a, BusyRows[a])
  BY DEF Touches, SwimmingActs
<1>7. Draws(a, BusyRows[a])
  BY DEF Draws, AirActs
<1> QED  BY <1>1, <1>2, <1>3, <1>4, <1>5, <1>6, <1>7 DEF RowOf, Follows

\* The rows in the air.
LEMMA AirRowsAre == \A a \in AirActs : RowOf(a, AirRows[a])
<1> SUFFICES ASSUME NEW a \in AirActs PROVE RowOf(a, AirRows[a])
  OBVIOUS
<1> USE DEF AirActs, AirRows, Row, PogoActs, ClipLess, PoleActs, LedgeActs, DieActs, ShotActs, SpawnActs, JumpShots
<1>1. Timed(a, AirRows[a])
  BY DEF Timed
<1>2. ASSUME NEW n \in AirRows[a].next PROVE Succeeds(a, n)
  <2>1. n \in Acts \ {"keenSlide", "keenPlaceGem"}
    BY DEF Acts
  <2>2. /\ n \in PogoActs => a \in PogoActs
        /\ n \in ShotActs => a \in ShotActs \ SpawnActs
    OBVIOUS
  <2>3. /\ a # "keenPull4" => (n \in ClipLess <=> a \in ClipLess)
        /\ a = "keenPull4" => n = "keenPull5"
    OBVIOUS
  <2> QED  BY <2>1, <2>2, <2>3 DEF Succeeds
<1>3. ThinksOnFoot(a, AirRows[a])
  BY DEF ThinksOnFoot
<1>4. ThinksElsewhere(a, AirRows[a])
  BY DEF ThinksElsewhere, SwimmingActs
<1>5. ThinksOnce(a, AirRows[a])
  BY DEF ThinksOnce
<1>6. Touches(a, AirRows[a])
  BY DEF Touches, SwimmingActs
<1>7. Draws(a, AirRows[a])
  BY DEF Draws, AirActs
<1> QED  BY <1>1, <1>2, <1>3, <1>4, <1>5, <1>6, <1>7 DEF RowOf, Follows

\* The rows on poles and ledges.
LEMMA HangRowsAre == \A a \in HangActs : RowOf(a, HangRows[a])
<1> SUFFICES ASSUME NEW a \in HangActs PROVE RowOf(a, HangRows[a])
  OBVIOUS
<1> USE DEF HangActs, HangRows, Row, PogoActs, ClipLess, PoleActs, LedgeActs, DieActs, ShotActs, SpawnActs, JumpShots
<1>1. Timed(a, HangRows[a])
  BY DEF Timed
<1>2. ASSUME NEW n \in HangRows[a].next PROVE Succeeds(a, n)
  <2>1. n \in Acts \ {"keenSlide", "keenPlaceGem"}
    BY DEF Acts, GroundActs
  <2>2. /\ n \in PogoActs => a \in PogoActs
        /\ n \in ShotActs => a \in ShotActs \ SpawnActs
    OBVIOUS
  <2>3. /\ a # "keenPull4" => (n \in ClipLess <=> a \in ClipLess)
        /\ a = "keenPull4" => n = "keenPull5"
    OBVIOUS
  <2> QED  BY <2>1, <2>2, <2>3 DEF Succeeds
<1>3. ThinksOnFoot(a, HangRows[a])
  BY DEF ThinksOnFoot
<1>4. ThinksElsewhere(a, HangRows[a])
  BY DEF ThinksElsewhere, SwimmingActs
<1>5. ThinksOnce(a, HangRows[a])
  BY DEF ThinksOnce
<1>6. Touches(a, HangRows[a])
  BY DEF Touches, SwimmingActs
<1>7. Draws(a, HangRows[a])
  BY DEF Draws, AirActs
<1> QED  BY <1>1, <1>2, <1>3, <1>4, <1>5, <1>6, <1>7 DEF RowOf, Follows

\* The rows under water.
LEMMA SwimRowsAre == \A a \in SwimActs : RowOf(a, SwimRows[a])
<1> SUFFICES ASSUME NEW a \in SwimActs PROVE RowOf(a, SwimRows[a])
  OBVIOUS
<1> USE DEF SwimActs, SwimRows, Row, PogoActs, ClipLess, PoleActs, LedgeActs, DieActs, ShotActs, SpawnActs, JumpShots
<1>1. Timed(a, SwimRows[a])
  BY DEF Timed
<1>2. ASSUME NEW n \in SwimRows[a].next PROVE Succeeds(a, n)
  <2>1. n \in Acts \ {"keenSlide", "keenPlaceGem"}
    BY DEF Acts
  <2>2. /\ n \in PogoActs => a \in PogoActs
        /\ n \in ShotActs => a \in ShotActs \ SpawnActs
    OBVIOUS
  <2>3. /\ a # "keenPull4" => (n \in ClipLess <=> a \in ClipLess)
        /\ a = "keenPull4" => n = "keenPull5"
    OBVIOUS
  <2> QED  BY <2>1, <2>2, <2>3 DEF Succeeds
<1>3. ThinksOnFoot(a, SwimRows[a])
  BY DEF ThinksOnFoot
<1>4. ThinksElsewhere(a, SwimRows[a])
  BY DEF ThinksElsewhere, SwimmingActs
<1>5. ThinksOnce(a, SwimRows[a])
  BY DEF ThinksOnce
<1>6. Touches(a, SwimRows[a])
  BY DEF Touches, SwimmingActs
<1>7. Draws(a, SwimRows[a])
  BY DEF Draws, AirActs
<1> QED  BY <1>1, <1>2, <1>3, <1>4, <1>5, <1>6, <1>7 DEF RowOf, Follows

LEMMA RowsAre == \A a \in Acts : RowOf(a, Rows[a])
<1> SUFFICES ASSUME NEW a \in Acts PROVE RowOf(a, Rows[a])
  OBVIOUS
<1>1. CASE a \in GroundActs
  BY <1>1, GroundRowsAre DEF Rows
<1>2. CASE a \in BusyActs \ GroundActs
  BY <1>2, BusyRowsAre DEF Rows
<1>3. CASE a \in AirActs \ (GroundActs \cup BusyActs)
  BY <1>3, AirRowsAre DEF Rows
<1>4. CASE a \in HangActs \ (GroundActs \cup BusyActs \cup AirActs)
  BY <1>4, HangRowsAre DEF Rows
<1>5. CASE a \in SwimActs \ (GroundActs \cup BusyActs \cup AirActs \cup HangActs)
  BY <1>5, SwimRowsAre DEF Rows
<1> QED  BY <1>1, <1>2, <1>3, <1>4, <1>5 DEF Acts

(***************************************************************************)
(* Keen's record, and what holds of it at each point of a frame.           *)
(***************************************************************************)
Ends == {"LS_Playing", "LS_Foot", "LS_CouncilRescued", "LS_Died", "LS_LevelComplete"}

Keens ==
    [act : Acts, actionTimer : 0 .. 1, clipped : {"normal", "not"}, topTI : Grounds \cup {"platform"},
     user1 : Places \cup {"holder", "door"}, platform : BOOLEAN,
     jumpTimer : 0 .. JumpTime + 1, keenSliding : BOOLEAN, isPressed : SUBSET Buttons,
     wasPressed : SUBSET Buttons, pogoTimer : 0 .. 1 + MaxSync, invincible : Nat,
     gems : 0 .. start.gems, card : {0, 1}, shots : 0 .. start.shots, level : Ends,
     x : {"none", "ahead", "back"}, y : {-1, 0, 1}, sync : Nat,
     due : BOOLEAN, used : BOOLEAN, extraShot : BOOLEAN, extraUse : BOOLEAN, opened : Nat, lostGems : Nat]

\* What the items of Keen and the presses so far allow.
Gated(s) ==
    /\ s.act \in PogoActs => "pogo" \in has
    /\ s.act \in ShotActs => "stunner" \in has /\ s.due
    /\ "stunner" \notin has => s.shots = start.shots
    /\ s.used => s.keenSliding
    /\ s.act = "keenSlide" => s.user1 \in {"nothing", "holder"} \/ ~s.used
    /\ ~s.extraShot /\ ~s.extraUse

Sound(s) == s \in Keens /\ Gated(s)

\* His clipping is that of his action, and his gems are accounted for.
Whole(s) ==
    /\ s.clipped = "not" <=> s.act \in ClipLess
    /\ s.gems + s.opened + s.lostGems + (IF s.act = "keenPlaceGem" THEN 1 ELSE 0) = start.gems
    /\ s.act = "keenPlaceGem" => ~s.platform /\ s.topTI \notin {"none", "platform"}

\* What each part of a think function keeps.
Keeps(s, t) == Sound(t) /\ t.actionTimer \in {0, s.actionTimer} /\ (Whole(s) => Whole(t))

\* With his hands free, and clipped.
OnFoot(s) == Sound(s) /\ s.act \notin ClipLess \cup {"keenPlaceGem"}

LEMMA Constants ==
    /\ MaxSync \in Nat \ {0} /\ JumpTime \in Nat \ {0} /\ DoorTime \in Nat /\ DeathTime \in Nat
    /\ JumpTime - 1 \in 0 .. JumpTime + 1 /\ JumpTime + 1 \in 0 .. JumpTime + 1
    /\ JumpTime \in 0 .. JumpTime + 1
BY KeenAssumption

LEMMA KeepsOn ==
    ASSUME NEW s, NEW t, NEW u, Keeps(s, t), Keeps(t, u)
    PROVE  Keeps(s, u)
BY DEF Keeps

LEMMA KeepsItself ==
    ASSUME NEW s, Sound(s)
    PROVE  Keeps(s, s)
BY DEF Keeps

\* What CK_SetAction2 makes of Keen.
Unchanged(s, t) ==
    /\ t.clipped = s.clipped /\ t.platform = s.platform /\ t.jumpTimer = s.jumpTimer
    /\ t.invincible = s.invincible /\ t.gems = s.gems /\ t.opened = s.opened /\ t.lostGems = s.lostGems
    /\ t.shots = s.shots /\ t.due = s.due /\ t.used = s.used /\ t.keenSliding = s.keenSliding
    /\ t.extraShot = s.extraShot /\ t.extraUse = s.extraUse

LEMMA SetsAction ==
    ASSUME NEW s \in Keens, NEW a \in Acts, NEW t, t = CK_SetAction2(s, a)
    PROVE  /\ t \in Keens /\ Unchanged(s, t)
           /\ t.act = a /\ t.actionTimer = 0 /\ t.user1 = "nothing"
           /\ t.topTI = IF s.clipped = "not" /\ s.topTI # "platform" THEN "none" ELSE s.topTI
<1> DEFINE Leads == Places \cup {"holder", "door"}
           Ground == Grounds \cup {"platform"}
           Set(i, u, g) == [s EXCEPT !.act = a, !.actionTimer = i, !.user1 = u, !.topTI = g]
           g == IF s.clipped = "not" /\ s.topTI # "platform" THEN "none" ELSE s.topTI
           i == 0
<1>1. ASSUME NEW ii \in 0 .. 1, NEW u \in Leads, NEW gg \in Ground
      PROVE  /\ Set(ii, u, gg) \in Keens /\ Unchanged(s, Set(ii, u, gg))
             /\ Set(ii, u, gg).act = a /\ Set(ii, u, gg).actionTimer = ii
             /\ Set(ii, u, gg).user1 = u /\ Set(ii, u, gg).topTI = gg
  BY ZenonT(60) DEF Keens, Unchanged
<1>2. g \in Ground /\ "nothing" \in Leads /\ i \in 0 .. 1
  BY DEF Keens, Grounds, Places
<1>3. CK_SetAction2(s, a) = Set(i, "nothing", g)
  BY DEF CK_SetAction2
<1> HIDE DEF Set, g, i, Ground, Leads
<1>4. /\ Set(i, "nothing", g) \in Keens /\ Unchanged(s, Set(i, "nothing", g))
      /\ Set(i, "nothing", g).act = a /\ Set(i, "nothing", g).actionTimer = i
      /\ Set(i, "nothing", g).user1 = "nothing" /\ Set(i, "nothing", g).topTI = g
  BY <1>1, <1>2
<1> QED  BY <1>3, <1>4 DEF g, i

(***************************************************************************)
(* The parts of the think functions.                                       *)
(***************************************************************************)
\* Another action of the same kind.
LEMMA Becomes ==
    ASSUME NEW s, Sound(s), NEW a \in Acts, a \notin {"keenSlide", "keenPlaceGem"},
           s.act # "keenPlaceGem", a \in ClipLess <=> s.act \in ClipLess,
           a \in PogoActs => "pogo" \in has, a \in ShotActs => "stunner" \in has /\ s.due
    PROVE  Keeps(s, Does(s, a)) /\ Does(s, a).act = a
<1>1. Does(s, a) \in Keens
  BY DEF Sound, Keens, Does
<1> QED  BY <1>1 DEF Does, Sound, Keens, Keeps, Gated, Whole

\* The plain actions, which need no item.
Plain == Acts \ (ClipLess \cup PogoActs \cup ShotActs \cup {"keenSlide", "keenPlaceGem"})

LEMMA PlainActs ==
    /\ {"keenStanding", "keenIdle", "keenBored1", "keenOpenBook1", "keenReadBook1", "keenStowBook1",
        "keenRidePlatform", "keenRun1", "keenLookUp1", "keenLookUp2", "keenLookDown1", "keenLookDown2",
        "keenLookDown3", "keenLookDown4", "keenStunned0"} \subseteq Plain
    /\ {"keenPressSwitch1", "keenEnterSecurityDoor", "keenEnterDoor0", "keenEnterDoor4", "keenEnteredDoor"} \subseteq Plain
    /\ {"keenJump1", "keenJump2", "keenFall1", "keenFall2"} \subseteq Plain
    /\ SwimmingActs \subseteq Plain
    /\ PoleActs \subseteq Acts /\ LedgeActs \subseteq Acts /\ DieActs \subseteq Acts
    /\ PogoActs \subseteq Acts /\ ShotActs \subseteq Acts
    /\ PogoActs \cap (ClipLess \cup ShotActs) = {} /\ ShotActs \cap ClipLess = {"keenPoleShoot1"}
    /\ "keenSlide" \in Acts /\ "keenPlaceGem" \in Acts /\ "keenPull5" \in Plain
    /\ {"keenSlide", "keenPlaceGem"} \cap (ClipLess \cup PogoActs \cup ShotActs) = {}
BY DEF Plain, Acts, GroundActs, BusyActs, AirActs, HangActs, SwimActs, SwimmingActs, ClipLess, PoleActs,
       LedgeActs, DieActs, PogoActs, ShotActs

LEMMA BecomesPlain ==
    ASSUME NEW s, OnFoot(s), NEW a \in Plain
    PROVE  Keeps(s, Does(s, a)) /\ Does(s, a).act = a /\ OnFoot(Does(s, a))
BY Becomes DEF OnFoot, Plain, Keeps

LEMMA Handles ==
    ASSUME NEW s, Sound(s), NEW b \in Buttons
    PROVE  Keeps(s, Handled(s, b)) /\ Handled(s, b).act = s.act
<1>1. Handled(s, b) \in Keens
  BY DEF Sound, Keens, Handled
<1> QED  BY <1>1 DEF Handled, Sound, Keens, Keeps, Gated, Whole

LEMMA FiresWell ==
    ASSUME NEW s, Sound(s), NEW a \in ShotActs, s.act # "keenPlaceGem", a \in ClipLess <=> s.act \in ClipLess
    PROVE  Keeps(s, Fires(s, a)) /\ Fires(s, a).act \in {s.act, a}
<1>1. Keeps(s, Handled(s, "shoot")) /\ Handled(s, "shoot").act = s.act
  BY Handles DEF Buttons
<1>2. CASE "stunner" \notin has
  BY <1>1, <1>2 DEF Fires
<1>3. CASE "stunner" \in has
  <2> DEFINE t == Handled(s, "shoot")
             u == [t EXCEPT !.act = a, !.due = TRUE]
  <2>1. Sound(t) /\ t.act = s.act
    BY <1>1 DEF Keeps
  <2> HIDE DEF t
  <2>2. u \in Keens /\ a \in Acts /\ a \notin PogoActs \cup {"keenSlide", "keenPlaceGem"}
    BY <2>1, PlainActs, ZenonT(60) DEF Sound, Keens
  <2>3. Keeps(t, u) /\ u.act = a
    BY <1>3, <2>1, <2>2 DEF Keeps, Sound, Keens, Gated, Whole
  <2>4. Fires(s, a) = u
    BY <1>3 DEF Fires, t
  <2>5. Keeps(s, u)
    BY <1>1, <2>3, KeepsOn DEF t
  <2> QED  BY <2>3, <2>4, <2>5
<1> QED  BY <1>2, <1>3

LEMMA JumpsWell ==
    ASSUME NEW s, OnFoot(s), NEW j \in 0 .. JumpTime + 1
    PROVE  Keeps(s, Jumps(s, j)) /\ Jumps(s, j).act = "keenJump1" /\ OnFoot(Jumps(s, j))
<1>1. "keenJump1" \in Plain
  BY PlainActs
<1>2. Jumps(s, j) \in Keens
  BY <1>1 DEF OnFoot, Sound, Keens, Handled, Jumps, Buttons, Plain
<1>3. Jumps(s, j).act = "keenJump1"
  BY DEF Jumps, Handled, OnFoot, Sound, Keens
<1> QED  BY <1>1, <1>2, <1>3 DEF Handled, Jumps, OnFoot, Sound, Keens, Keeps, Gated, Whole, Plain

LEMMA StartsPogoWell ==
    ASSUME NEW s, OnFoot(s)
    PROVE  Keeps(s, StartsPogo(s)) /\ OnFoot(StartsPogo(s))
<1>1. Keeps(s, Handled(s, "pogo")) /\ Handled(s, "pogo").act = s.act
  BY Handles DEF Buttons, OnFoot
<1>2. CASE "pogo" \notin has
  BY <1>1, <1>2 DEF StartsPogo, OnFoot, Keeps
<1>3. CASE "pogo" \in has
  <2> DEFINE t == Handled(s, "pogo")
             u == [t EXCEPT !.act = "keenPogo1", !.jumpTimer = JumpTime + 1]
  <2>1. OnFoot(t)
    BY <1>1 DEF OnFoot, Keeps
  <2> HIDE DEF t
  <2>2. "keenPogo1" \in Acts /\ "keenPogo1" \notin ClipLess \cup ShotActs
    BY PlainActs DEF PogoActs
  <2>3. u \in Keens /\ u.act = "keenPogo1"
    BY <2>1, <2>2, Constants DEF OnFoot, Sound, Keens
  <2>4. Keeps(t, u)
    BY <1>3, <2>1, <2>2, <2>3 DEF Keeps, OnFoot, Sound, Keens, Gated, Whole
  <2>5. StartsPogo(s) = u
    BY <1>3 DEF StartsPogo, t
  <2>6. Keeps(s, u)
    BY <1>1, <2>4, KeepsOn DEF t
  <2> QED  BY <2>2, <2>3, <2>5, <2>6 DEF OnFoot, Keeps
<1> QED  BY <1>2, <1>3

LEMMA ClimbsWell ==
    ASSUME NEW s, OnFoot(s)
    PROVE  Keeps(s, CK_KeenTryClimbPole(s))
<1> DEFINE t == CK_KeenTryClimbPole(s)
<1>1. "keenPoleSit" \in Acts /\ "keenPoleSit" \in ClipLess
      /\ "keenPoleSit" \notin PogoActs \cup ShotActs
  BY PlainActs DEF PoleActs, ClipLess, ShotActs
<1>2. t \in Keens /\ t.act = "keenPoleSit"
  BY <1>1 DEF CK_KeenTryClimbPole, OnFoot, Sound, Keens
<1> QED  BY <1>1, <1>2 DEF CK_KeenTryClimbPole, OnFoot, Sound, Keens, Keeps, Gated, Whole

LEMMA UsesWell ==
    ASSUME NEW s, OnFoot(s), ~s.used
    PROVE  Uses(s) = [s EXCEPT !.keenSliding = TRUE, !.used = TRUE, !.extraUse = FALSE]
<1>1. (s.extraUse \/ s.used) = FALSE
  BY DEF OnFoot, Sound, Keens, Gated
<1>2. Uses(s) = [s EXCEPT !.keenSliding = TRUE, !.used = TRUE, !.extraUse = s.extraUse \/ s.used]
  BY DEF Uses
<1> QED  BY <1>1, <1>2

\* Before a switch or a door, when up has not been used.
LEMMA PressesUpWell ==
    ASSUME NEW s, OnFoot(s), ~s.used, NEW here, here.place \in Places \cup {"door"}, here.aligned \in BOOLEAN,
           start \in Starts
    PROVE  Keeps(s, CK_KeenPressUp(s, here)) /\ OnFoot(CK_KeenPressUp(s, here))
<1> DEFINE t == CK_KeenPressUp(s, here)
<1>1. here.place \in {"nothing", "switch", "door", "securityDoor", "exit"}
  BY KeenAssumption DEF Places
<1>2. {"keenPressSwitch1", "keenEnterSecurityDoor", "keenEnterDoor0", "keenStanding"} \subseteq Plain
  BY PlainActs
<1> DEFINE used == [s EXCEPT !.keenSliding = TRUE, !.used = TRUE, !.extraUse = FALSE]
<1>u. Uses(s) = used
  BY UsesWell
<1>p. here.place \in Places \cup {"holder", "door"} /\ "keenSlide" \in Acts
  BY PlainActs
<1>v. used \in Keens
  BY DEF OnFoot, Sound, Keens
<1>d. DoorTime \in Nat /\ "door" \in Places \cup {"holder", "door"}
  BY Constants
<1>a. /\ "keenPressSwitch1" \in Acts /\ "keenEnterSecurityDoor" \in Acts /\ "keenEnterDoor0" \in Acts
  BY <1>2 DEF Plain
<1>3. CASE here.place = "nothing"
  BY <1>3, KeepsItself DEF CK_KeenPressUp, OnFoot
<1>4. CASE here.place # "nothing" /\ ~here.aligned
  <2>1. t = [s EXCEPT !.act = "keenSlide", !.user1 = here.place, !.keenSliding = TRUE]
    BY <1>4 DEF CK_KeenPressUp
  <2>2. t \in Keens /\ t.act = "keenSlide"
    <3>1. s \in Keens
      BY DEF OnFoot, Sound
    <3> QED  BY <2>1, <1>p, <3>1, ZenonT(60) DEF Keens
  <2> QED  BY <2>1, <2>2, PlainActs DEF OnFoot, Sound, Keens, Keeps, Gated, Whole
<1>5. CASE here.place = "switch" /\ here.aligned
  <2>1. t = Does(used, "keenPressSwitch1")
    BY <1>5, <1>u DEF CK_KeenPressUp
  <2>2. t \in Keens /\ t.act = "keenPressSwitch1"
    <3> HIDE DEF used, t
    <3> QED  BY <1>a, <1>d, <1>p, <1>v, <2>1 DEF Keens, Does
  <2> QED  BY <1>2, <2>1, <2>2 DEF OnFoot, Sound, Keens, Keeps, Gated, Whole, Does, Plain
<1>6. CASE here.place = "securityDoor" /\ here.aligned /\ s.card > 0
  <2>1. t = [used EXCEPT !.card = 0, !.act = "keenEnterSecurityDoor", !.user1 = "door"]
    BY <1>6, <1>u DEF CK_KeenPressUp
  <2>2. t \in Keens /\ t.act = "keenEnterSecurityDoor"
    <3> HIDE DEF used, t
    <3> QED  BY <1>a, <1>d, <1>p, <1>v, <2>1 DEF Keens, Does
  <2> QED  BY <1>2, <2>1, <2>2 DEF OnFoot, Sound, Keens, Keeps, Gated, Whole, Plain
<1>7. CASE here.place = "securityDoor" /\ here.aligned /\ s.card = 0
  <2>1. t = [s EXCEPT !.act = "keenStanding", !.keenSliding = TRUE]
    BY <1>7 DEF CK_KeenPressUp
  <2>2. t \in Keens /\ t.act = "keenStanding"
    BY <1>2, <2>1, ZenonT(60) DEF OnFoot, Sound, Keens, Plain
  <2> QED  BY <1>2, <2>1, <2>2 DEF OnFoot, Sound, Keens, Keeps, Gated, Whole, Plain
<1>8. CASE here.place \in {"door", "exit"} /\ here.aligned
  <2>1. t = [used EXCEPT !.invincible = DoorTime, !.act = "keenEnterDoor0", !.user1 = here.place]
    BY <1>8, <1>u DEF CK_KeenPressUp
  <2>2. t \in Keens /\ t.act = "keenEnterDoor0"
    <3> HIDE DEF used, t
    <3> QED  BY <1>a, <1>d, <1>p, <1>v, <2>1 DEF Keens, Does
  <2> QED  BY <1>2, <2>1, <2>2 DEF OnFoot, Sound, Keens, Keeps, Gated, Whole, Plain
<1> QED
  <2>1. s.card \in {0, 1}
    BY DEF OnFoot, Sound, Keens
  <2> QED  BY <1>1, <1>3, <1>4, <1>5, <1>6, <1>7, <1>8, <2>1

(***************************************************************************)
(* The think functions on the ground.                                      *)
(***************************************************************************)
LEMMA SurfsWell ==
    ASSUME NEW s, OnFoot(s)
    PROVE  Keeps(s, Surfs(s)) /\ OnFoot(Surfs(s))
<1>1. "keenRidePlatform" \in Plain
  BY PlainActs
<1> QED  BY <1>1, BecomesPlain, KeepsItself DEF Surfs, OnFoot

LEMMA FiresOnFoot ==
    ASSUME NEW s, OnFoot(s), NEW a \in ShotActs, a # "keenPoleShoot1"
    PROVE  Keeps(s, Fires(s, a))
<1>1. a \notin ClipLess /\ s.act \notin ClipLess /\ s.act # "keenPlaceGem" /\ Sound(s)
  BY PlainActs DEF OnFoot
<1> QED  BY <1>1, FiresWell

LEMMA UpFiresShots ==
    ASSUME NEW s
    PROVE  UpFires(s) \in ShotActs /\ UpFires(s) # "keenPoleShoot1"
BY DEF UpFires, ShotActs

LEMMA RunsOnWell ==
    ASSUME NEW s, OnFoot(s)
    PROVE  Keeps(s, RunsOn(s))
<1> DEFINE t == IF Pressed(s, "jump") THEN Jumps(s, JumpTime) ELSE s
<1>1. Keeps(s, t) /\ OnFoot(t)
  BY JumpsWell, Constants, KeepsItself DEF OnFoot
<1>2. Keeps(s, StartsPogo(t))
  BY <1>1, StartsPogoWell, KeepsOn
<1>3. Keeps(s, Fires(s, UpFires(s)))
  BY FiresOnFoot, UpFiresShots
<1>4. RunsOn(s) \in {Fires(s, UpFires(s)), StartsPogo(t), t}
  BY DEF RunsOn
<1> QED  BY <1>1, <1>2, <1>3, <1>4

\* What is before Keen where the play loop says what he sees.
LEMMA SeenPlaces ==
    ASSUME NEW s, NEW here \in Seen(s)
    PROVE  here.place \in Places \cup {"door"} /\ here.aligned \in BOOLEAN
BY DEF Seen, Here

LEMMA RunsWell ==
    ASSUME NEW s, OnFoot(s), start \in Starts,
           NEW here, here.place \in Places \cup {"door"}, here.aligned \in BOOLEAN
    PROVE  Keeps(s, CK_KeenRuns(s, here))
<1>1. CASE s.y # 0 /\ here.pole
  BY <1>1, ClimbsWell DEF CK_KeenRuns
<1>2. CASE s.y = -1 /\ ~here.pole
  <2>1. CASE s.keenSliding
    BY <1>2, <2>1, KeepsItself DEF CK_KeenRuns, OnFoot
  <2>2. CASE ~s.keenSliding
    <3> DEFINE t == CK_KeenPressUp(s, here)
    <3>1. ~s.used
      BY <2>2 DEF OnFoot, Sound, Gated
    <3>2. Keeps(s, t) /\ OnFoot(t)
      BY <3>1, PressesUpWell
    <3>3. Keeps(s, RunsOn(t))
      BY <3>2, RunsOnWell, KeepsOn
    <3>4. CK_KeenRuns(s, here) \in {t, RunsOn(t)}
      BY <1>2, <2>2 DEF CK_KeenRuns
    <3> QED  BY <3>2, <3>3, <3>4
  <2> QED  BY <2>1, <2>2
<1>3. CASE ~(s.y # 0 /\ here.pole) /\ ~(s.y = -1 /\ ~here.pole)
  <2>1. CK_KeenRuns(s, here) = RunsOn(s)
    BY <1>3 DEF CK_KeenRuns
  <2> QED  BY <2>1, RunsOnWell
<1> QED  BY <1>1, <1>2, <1>3

LEMMA OnGroundWell ==
    ASSUME NEW s, OnFoot(s), start \in Starts,
           NEW here, here.place \in Places \cup {"door"}, here.aligned \in BOOLEAN
    PROVE  Keeps(s, CK_HandleInputOnGround(s, here))
<1> DEFINE t == Surfs(s)
           h == CK_HandleInputOnGround(s, here)
           u == IF t.keenSliding THEN t ELSE CK_KeenPressUp(t, here)
<1>1. Keeps(s, t) /\ OnFoot(t)
  BY SurfsWell
<1>2. {"keenRun1", "keenLookUp1", "keenLookDown1"} \subseteq Plain
  BY PlainActs
<1>3. Keeps(s, CK_KeenRuns(Does(t, "keenRun1"), here))
  BY <1>1, <1>2, BecomesPlain, RunsWell, KeepsOn
<1>4. Keeps(s, Fires(t, UpFires(s)))
  BY <1>1, FiresOnFoot, UpFiresShots, KeepsOn
<1>5. Keeps(s, Jumps(t, JumpTime)) /\ Keeps(s, StartsPogo(t)) /\ Keeps(s, CK_KeenTryClimbPole(t))
  BY <1>1, JumpsWell, StartsPogoWell, ClimbsWell, Constants, KeepsOn
<1>6. Keeps(s, u) /\ OnFoot(u)
  <2>1. CASE t.keenSliding
    BY <1>1, <2>1
  <2>2. CASE ~t.keenSliding
    <3>1. ~t.used
      BY <1>1, <2>2 DEF OnFoot, Sound, Gated
    <3> QED  BY <1>1, <2>2, <3>1, PressesUpWell, KeepsOn
  <2> QED  BY <2>1, <2>2
<1>7. Keeps(s, Does(u, "keenLookUp1")) /\ Keeps(s, Does(t, "keenLookDown1"))
  BY <1>1, <1>2, <1>6, BecomesPlain, KeepsOn
<1>8. h \in {CK_KeenRuns(Does(t, "keenRun1"), here), Fires(t, UpFires(s)), Jumps(t, JumpTime), StartsPogo(t),
             CK_KeenTryClimbPole(t), u, Does(u, "keenLookUp1"), Does(t, "keenLookDown1"), t}
  <2>1. CASE s.x # "none"
    BY <2>1 DEF CK_HandleInputOnGround
  <2>2. CASE s.x = "none" /\ Pressed(t, "shoot")
    BY <2>2 DEF CK_HandleInputOnGround
  <2>3. CASE s.x = "none" /\ ~Pressed(t, "shoot") /\ Pressed(t, "jump")
    BY <2>3 DEF CK_HandleInputOnGround
  <2>4. CASE s.x = "none" /\ ~Pressed(t, "shoot") /\ ~Pressed(t, "jump") /\ Pressed(t, "pogo")
    BY <2>4 DEF CK_HandleInputOnGround
  <2>5. CASE s.x = "none" /\ ~Pressed(t, "shoot") /\ ~Pressed(t, "jump") /\ ~Pressed(t, "pogo")
    BY <2>5 DEF CK_HandleInputOnGround
  <2> QED  BY <2>1, <2>2, <2>3, <2>4, <2>5
<1> HIDE DEF t, u
<1> QED  BY <1>1, <1>3, <1>4, <1>5, <1>6, <1>7, <1>8

LEMMA StandsWell ==
    ASSUME NEW s, OnFoot(s), start \in Starts,
           NEW here, here.place \in Places \cup {"door"}, here.aligned \in BOOLEAN
    PROVE  Keeps(s, Stands(s, here))
<1>1. "keenStanding" \in Plain
  BY PlainActs
<1> QED  BY <1>1, BecomesPlain, OnGroundWell, KeepsOn DEF Stands

LEMMA RunningThinkWell ==
    ASSUME NEW s, OnFoot(s), start \in Starts,
           NEW here, here.place \in Places \cup {"door"}, here.aligned \in BOOLEAN
    PROVE  Keeps(s, CK_KeenRunningThink(s, here))
<1>1. "keenStanding" \in Plain
  BY PlainActs
<1> QED  BY <1>1, BecomesPlain, OnGroundWell, RunsWell, KeepsOn DEF CK_KeenRunningThink

LEMMA StandingThinkWell ==
    ASSUME NEW s, OnFoot(s), start \in Starts,
           NEW here, here.place \in Places \cup {"door"}, here.aligned \in BOOLEAN,
           NEW t \in CK_KeenStandingThink(s, here)
    PROVE  Keeps(s, t)
<1>1. IdleActs \subseteq Plain
  BY PlainActs DEF IdleActs
<1>2. \/ t = Stands(s, here) \/ t = Surfs(s)
      \/ \E act \in IdleActs : t = Does(s, act)
  BY DEF CK_KeenStandingThink
<1> QED  BY <1>1, <1>2, StandsWell, SurfsWell, BecomesPlain

LEMMA LooksWell ==
    ASSUME NEW s, OnFoot(s), start \in Starts,
           NEW here, here.place \in Places \cup {"door"}, here.aligned \in BOOLEAN
    PROVE  Keeps(s, CK_KeenLookUpThink(s, here)) /\ Keeps(s, CK_KeenReadThink(s))
<1>1. "keenStowBook1" \in Plain
  BY PlainActs
<1>2. Keeps(s, CK_KeenReadThink(s))
  BY <1>1, BecomesPlain, KeepsItself DEF CK_KeenReadThink, OnFoot
<1>3. Keeps(s, CK_KeenLookUpThink(s, here))
  BY StandsWell, KeepsItself DEF CK_KeenLookUpThink, OnFoot
<1> QED  BY <1>2, <1>3

LEMMA LookDownWell ==
    ASSUME NEW s, OnFoot(s), NEW here
    PROVE  Keeps(s, CK_KeenLookDownThink(s, here))
<1> DEFINE t == Handled(s, "jump")
           v == [t EXCEPT !.platform = FALSE, !.act = "keenFall1"]
<1>1. Keeps(s, t) /\ t.act = s.act
  BY Handles DEF Buttons, OnFoot
<1>2. OnFoot(t)
  BY <1>1 DEF OnFoot, Keeps
<1>3. "keenFall1" \in Plain /\ "keenLookDown4" \in Plain
  BY PlainActs
<1>4. CK_KeenLookDownThink(s, here) \in {t, v, Does(s, "keenLookDown4"), s}
  BY DEF CK_KeenLookDownThink
<1> HIDE DEF t
<1>5. v \in Keens /\ v.act = "keenFall1"
  BY <1>2, <1>3, ZenonT(60) DEF OnFoot, Sound, Keens, Plain
<1>6. Keeps(t, v)
  BY <1>2, <1>3, <1>5 DEF OnFoot, Sound, Keens, Keeps, Gated, Whole, Plain
<1> HIDE DEF v
<1> QED  BY <1>1, <1>3, <1>4, <1>6, KeepsOn, BecomesPlain, KeepsItself DEF OnFoot

LEMMA SlidesWell ==
    ASSUME NEW s, Sound(s), s.act = "keenSlide", start \in Starts, NEW here \in Seen(s)
    PROVE  Keeps(s, CK_KeenSlide(s, here))
<1> DEFINE there == [here EXCEPT !.place = IF s.user1 = "holder" THEN "nothing" ELSE s.user1]
           t == [s EXCEPT !.user1 = "nothing"]
           p == CK_KeenPressUp(t, there)
<1>1. OnFoot(s)
  BY PlainActs DEF OnFoot
<1>2. t \in Keens /\ t.act = s.act /\ t.used = s.used /\ t.user1 = "nothing"
  BY <1>1 DEF OnFoot, Sound, Keens, Places
<1>3. Keeps(s, t) /\ OnFoot(t)
  BY <1>1, <1>2 DEF OnFoot, Sound, Keens, Keeps, Gated, Whole
<1>4. there.place \in Places \cup {"door"} /\ there.aligned = here.aligned /\ there.aligned \in BOOLEAN
  BY <1>1 DEF Seen, Here, OnFoot, Sound, Keens, Places
<1>5. Keeps(s, p) /\ OnFoot(p)
  <2>1. CASE ~s.used
    BY <1>2, <1>3, <1>4, <2>1, PressesUpWell, KeepsOn
  <2>2. CASE s.used
    <3>1. there.place = "nothing"
      BY <2>2 DEF Sound, Gated, Seen, Here
    <3>2. p = t
      BY <3>1 DEF CK_KeenPressUp
    <3> QED  BY <1>3, <3>2
  <2> QED  BY <2>1, <2>2
<1>6. "keenStanding" \in Plain
  BY PlainActs
<1>7. Keeps(s, Does(p, "keenStanding"))
  BY <1>5, <1>6, BecomesPlain, KeepsOn
<1>8. CK_KeenSlide(s, here) \in {s, p, Does(p, "keenStanding")}
  BY DEF CK_KeenSlide
<1> HIDE DEF p, t, there
<1> QED  BY <1>1, <1>5, <1>7, <1>8, KeepsItself DEF OnFoot

(***************************************************************************)
(* The think functions in the air.                                         *)
(***************************************************************************)
AirFireShots == {"keenJumpShootUp1", "keenJumpShoot1", "keenJumpShootDown1"}

LEMMA AirFiresWell ==
    ASSUME NEW s, OnFoot(s)
    PROVE  Keeps(s, AirFires(s))
<1>1. \E a \in AirFireShots : AirFires(s) = Fires(s, a)
  BY DEF AirFires, AirFireShots
<1>2. \A a \in AirFireShots : a \in ShotActs /\ a # "keenPoleShoot1"
  BY DEF AirFireShots, ShotActs
<1> QED  BY <1>1, <1>2, FiresOnFoot

\* The next action of what does not shoot, for think functions that go on to it themselves.
LEMMA NextWell ==
    ASSUME NEW s, OnFoot(s), s.act \notin ShotActs
    PROVE  Keeps(s, NextOf(s)) /\ OnFoot(NextOf(s))
<1>1. CASE Rows[s.act].next = {}
  BY <1>1, KeepsItself DEF NextOf, OnFoot
<1>2. CASE Rows[s.act].next # {}
  <2> DEFINE n == CHOOSE act \in Rows[s.act].next : TRUE
  <2>1. n \in Rows[s.act].next
    BY <1>2
  <2>2. s.act \in Acts
    BY DEF OnFoot, Sound, Keens
  <2>3. Succeeds(s.act, n)
    BY <2>1, <2>2, RowsAre DEF RowOf, Follows
  <2>4. NextOf(s) = Does(s, n)
    BY <1>2 DEF NextOf
  <2> HIDE DEF n
  <2>5. /\ n \in Acts /\ n \notin {"keenSlide", "keenPlaceGem"} /\ n \notin ClipLess
        /\ n \in PogoActs => s.act \in PogoActs
        /\ n \notin ShotActs
    BY <2>3, PlainActs DEF Succeeds, OnFoot, ClipLess, PoleActs, LedgeActs, DieActs
  <2>6. Keeps(s, Does(s, n)) /\ Does(s, n).act = n
    BY <2>5, Becomes DEF OnFoot, Sound, Gated
  <2> QED  BY <2>4, <2>5, <2>6 DEF OnFoot, Keeps
<1> QED  BY <1>1, <1>2

LEMMA HeldTime ==
    ASSUME NEW s, Sound(s)
    PROVE  Held(s) \in 0 .. JumpTime + 1
<1>1. s.jumpTimer \in 0 .. JumpTime + 1 /\ s.sync \in Nat
  BY DEF Sound, Keens
<1> QED  BY <1>1, Constants DEF Held

LEMMA TimerWell ==
    ASSUME NEW s, Sound(s), NEW j \in 0 .. JumpTime + 1
    PROVE  LET t == [s EXCEPT !.jumpTimer = j] IN Keeps(s, t) /\ t.act = s.act /\ (OnFoot(s) => OnFoot(t))
<1> DEFINE t == [s EXCEPT !.jumpTimer = j]
<1>1. t \in Keens /\ t.act = s.act
  BY DEF Sound, Keens
<1> QED  BY <1>1 DEF Sound, Keens, Keeps, Gated, Whole, OnFoot

LEMMA JumpThinkWell ==
    ASSUME NEW s, OnFoot(s), s.act \in {"keenJump1", "keenJump2", "keenFall1", "keenFall2"}, NEW here, NEW falls
    PROVE  Keeps(s, CK_KeenJumpThink(s, here, falls))
<1> DEFINE j == IF "jump" \in s.isPressed THEN Held(s) ELSE 0
           t == [s EXCEPT !.jumpTimer = j]
           u == IF s.jumpTimer > 0 THEN IF t.jumpTimer = 0 THEN NextOf(t) ELSE t
                ELSE IF falls /\ s.act \notin {"keenFall1", "keenFall2"} THEN NextOf(s) ELSE s
           v == Handled(u, "pogo")
           w == [v EXCEPT !.act = "keenPogo2", !.jumpTimer = 0]
<1>1. j \in 0 .. JumpTime + 1 /\ 0 \in 0 .. JumpTime + 1
  BY HeldTime, Constants DEF OnFoot
<1>2. s.act \notin ShotActs
  BY DEF ShotActs
<1>3. Keeps(s, t) /\ OnFoot(t) /\ t.act = s.act
  BY <1>1, TimerWell DEF OnFoot
<1>4. Keeps(s, u) /\ OnFoot(u)
  <2>1. Keeps(s, NextOf(t)) /\ OnFoot(NextOf(t)) /\ Keeps(s, NextOf(s)) /\ OnFoot(NextOf(s))
    BY <1>2, <1>3, NextWell, KeepsOn
  <2> HIDE DEF t
  <2> QED  BY <1>3, <2>1, KeepsItself DEF OnFoot
<1>5. CK_KeenJumpThink(s, here, falls) \in
        {AirFires(u), v, CK_KeenTryClimbPole(u), u} \cup (IF "pogo" \in has THEN {w} ELSE {})
  <2> HIDE DEF u
  <2>1. CK_KeenJumpThink(s, here, falls) =
          CASE Pressed(u, "shoot") -> AirFires(u)
            [] ~Pressed(u, "shoot") /\ Pressed(u, "pogo") -> IF "pogo" \notin has THEN v ELSE w
            [] ~Pressed(u, "shoot") /\ ~Pressed(u, "pogo") /\ s.y = -1 /\ here.pole -> CK_KeenTryClimbPole(u)
            [] OTHER -> u
    BY DEF CK_KeenJumpThink, u
  <2> HIDE DEF v, w
  <2> QED  BY <2>1
<1> HIDE DEF u
<1>6. Keeps(s, v) /\ OnFoot(v)
  <2>1. Keeps(u, v) /\ v.act = u.act
    BY <1>4, Handles DEF Buttons, OnFoot
  <2> QED  BY <1>4, <2>1, KeepsOn DEF OnFoot, Keeps
<1>7. "pogo" \in has => Keeps(s, w)
  <2> SUFFICES ASSUME "pogo" \in has PROVE Keeps(s, w)
    OBVIOUS
  <2> HIDE DEF v
  <2>1. "keenPogo2" \in Acts /\ "keenPogo2" \in PogoActs /\ "keenPogo2" \notin ClipLess \cup ShotActs
    BY PlainActs DEF PogoActs
  <2>2. w \in Keens /\ w.act = "keenPogo2"
    BY <1>1, <1>6, <2>1 DEF OnFoot, Sound, Keens
  <2>3. Keeps(v, w)
    BY <1>6, <2>1, <2>2 DEF OnFoot, Sound, Keens, Keeps, Gated, Whole
  <2> QED  BY <1>6, <2>3, KeepsOn
<1>8. Keeps(s, AirFires(u)) /\ Keeps(s, CK_KeenTryClimbPole(u))
  BY <1>4, AirFiresWell, ClimbsWell, KeepsOn
<1> HIDE DEF v, w
<1> QED  BY <1>4, <1>5, <1>6, <1>7, <1>8

LEMMA PogoThinkWell ==
    ASSUME NEW s, OnFoot(s), s.act \in PogoActs
    PROVE  Keeps(s, CK_KeenPogoThink(s)) /\ Keeps(s, CK_KeenPogoBounceThink(s))
<1> DEFINE t == [s EXCEPT !.jumpTimer = Held(s)]
           u == IF s.jumpTimer > 0 THEN IF t.jumpTimer = 0 THEN NextOf(t) ELSE t ELSE s
           v == Handled(u, "pogo")
<1>1. Keeps(s, t) /\ OnFoot(t) /\ t.act = s.act
  BY HeldTime, TimerWell DEF OnFoot
<1>2. s.act \notin ShotActs
  BY PlainActs
<1>3. Keeps(s, u) /\ OnFoot(u)
  <2>1. Keeps(s, NextOf(t)) /\ OnFoot(NextOf(t))
    BY <1>1, <1>2, NextWell, KeepsOn
  <2> HIDE DEF t
  <2> QED  BY <1>1, <2>1, KeepsItself DEF OnFoot
<1>4. Keeps(s, CK_KeenPogoBounceThink(s))
  BY TimerWell, Constants DEF CK_KeenPogoBounceThink, OnFoot
<1>5. CK_KeenPogoThink(s) \in {AirFires(u), Does(v, "keenFall1"), u}
  <2> HIDE DEF u
  <2>1. CK_KeenPogoThink(s) = CASE Pressed(u, "shoot") -> AirFires(u)
                                [] ~Pressed(u, "shoot") /\ Pressed(u, "pogo") -> Does(v, "keenFall1")
                                [] OTHER -> u
    BY DEF CK_KeenPogoThink, u
  <2> HIDE DEF v
  <2> QED  BY <2>1
<1> HIDE DEF u
<1>6. Keeps(u, v) /\ v.act = u.act
  BY <1>3, Handles DEF Buttons, OnFoot
<1>7. OnFoot(v) /\ Keeps(s, v)
  BY <1>3, <1>6, KeepsOn DEF OnFoot, Keeps
<1>8. Keeps(s, AirFires(u)) /\ Keeps(s, Does(v, "keenFall1"))
  BY <1>3, <1>7, AirFiresWell, BecomesPlain, PlainActs, KeepsOn
<1> QED  BY <1>3, <1>4, <1>5, <1>8

(***************************************************************************)
(* The think functions on poles and ledges, and the others.                *)
(***************************************************************************)
OnPole(s) == Sound(s) /\ s.act \in PoleActs

LEMMA PoleFacts ==
    /\ {"keenPoleSit", "keenPoleUp1", "keenPoleDown1"} \subseteq PoleActs \ ShotActs
    /\ PoleActs \subseteq Acts /\ PoleActs \subseteq ClipLess
    /\ PoleActs \cap (PogoActs \cup {"keenSlide", "keenPlaceGem"}) = {}
    /\ "keenPoleShoot1" \in ShotActs \cap PoleActs
    /\ "keenFall1" \in Plain /\ "keenJump1" \in Plain
BY PlainActs DEF PoleActs, ShotActs, ClipLess, PogoActs

LEMMA StaysOnPole ==
    ASSUME NEW s, OnPole(s), NEW a \in PoleActs \ ShotActs
    PROVE  Keeps(s, Does(s, a)) /\ Does(s, a).act = a /\ OnPole(Does(s, a))
<1>1. a \in Acts /\ a \in ClipLess /\ a \notin PogoActs \cup ShotActs \cup {"keenSlide", "keenPlaceGem"}
  BY PoleFacts
<1>2. s.act \in ClipLess /\ s.act # "keenPlaceGem" /\ Sound(s)
  BY PoleFacts DEF OnPole
<1>3. Keeps(s, Does(s, a)) /\ Does(s, a).act = a
  BY <1>1, <1>2, Becomes
<1> QED  BY <1>3 DEF OnPole, Keeps

\* Off the pole: in the air, clipped again.
LEMMA LeavesWell ==
    ASSUME NEW s, Sound(s), s.act # "keenPlaceGem", NEW j \in 0 .. JumpTime + 1, NEW a \in Plain
    PROVE  Keeps(s, [s EXCEPT !.act = a, !.jumpTimer = j, !.clipped = "normal"])
<1> DEFINE t == [s EXCEPT !.act = a, !.jumpTimer = j, !.clipped = "normal"]
<1>1. t \in Keens /\ t.act = a
  BY DEF Sound, Keens, Plain
<1> QED  BY <1>1 DEF Sound, Keens, Keeps, Gated, Whole, Plain

LEMMA LeavesPoleWell ==
    ASSUME NEW s, Sound(s), s.act # "keenPlaceGem"
    PROVE  Keeps(s, LeavesPole(s))
<1>1. 0 \in 0 .. JumpTime + 1 /\ "keenFall1" \in Plain
  BY Constants, PoleFacts
<1>2. LeavesPole(s) = [s EXCEPT !.act = "keenFall1", !.jumpTimer = 0, !.clipped = "normal"]
  BY DEF LeavesPole
<1>3. Keeps(s, [s EXCEPT !.act = "keenFall1", !.jumpTimer = 0, !.clipped = "normal"])
  BY <1>1, LeavesWell
<1> QED  BY <1>2, <1>3

LEMMA PoleInputWell ==
    ASSUME NEW s, OnPole(s)
    PROVE  Keeps(s, CK_KeenPoleHandleInput(s))
<1> DEFINE j == [Jumps(s, JumpTime - 1) EXCEPT !.clipped = "normal"]
           h == Handled(s, "jump")
<1>1. CK_KeenPoleHandleInput(s) \in {Fires(s, "keenPoleShoot1"), j, s}
  <2> HIDE DEF j
  <2>1. CK_KeenPoleHandleInput(s) = CASE Pressed(s, "shoot") -> Fires(s, "keenPoleShoot1")
                                      [] ~Pressed(s, "shoot") /\ Pressed(s, "jump") -> j
                                      [] OTHER -> s
    BY DEF CK_KeenPoleHandleInput, j
  <2> QED  BY <2>1
<1>2. Keeps(s, Fires(s, "keenPoleShoot1"))
  BY FiresWell, PoleFacts DEF OnPole
<1>3. Keeps(s, j)
  <2>1. Keeps(s, h) /\ h.act = s.act
    BY Handles DEF OnPole, Buttons
  <2>2. Sound(h) /\ h.act # "keenPlaceGem"
    BY <2>1, PoleFacts DEF OnPole, Keeps
  <2>3. j = [h EXCEPT !.act = "keenJump1", !.jumpTimer = JumpTime - 1, !.clipped = "normal"]
    BY DEF Jumps
  <2> HIDE DEF h, j
  <2>4. Keeps(h, j)
    BY <2>2, <2>3, LeavesWell, PoleFacts, Constants
  <2> QED  BY <2>1, <2>4, KeepsOn
<1> HIDE DEF j
<1> QED  BY <1>1, <1>2, <1>3, KeepsItself DEF OnPole

LEMMA PoleDownWell ==
    ASSUME NEW s, OnPole(s), s.y \in {-1, 0, 1}, NEW here
    PROVE  Keeps(s, CK_KeenPoleDownThink(s, here))
<1> DEFINE a == CASE s.y = 0 -> "keenPoleSit" [] s.y = -1 -> "keenPoleUp1" [] OTHER -> s.act
           t == Does(s, a)
<1>1. Keeps(s, t) /\ OnPole(t)
  <2>1. CASE a \in {"keenPoleSit", "keenPoleUp1"}
    BY <2>1, PoleFacts, StaysOnPole
  <2>2. CASE a = s.act
    <3>1. t = s
      BY <2>2 DEF Does, OnPole, Sound, Keens
    <3> QED  BY <3>1, KeepsItself DEF OnPole
  <2>3. a \in {"keenPoleSit", "keenPoleUp1", s.act}
    OBVIOUS
  <2> HIDE DEF a, t
  <2> QED  BY <2>1, <2>2, <2>3
<1>2. CK_KeenPoleDownThink(s, here) \in {LeavesPole(s), CK_KeenPoleHandleInput(t)}
  BY DEF CK_KeenPoleDownThink
<1> HIDE DEF t
<1>3. Keeps(s, CK_KeenPoleHandleInput(t))
  BY <1>1, PoleInputWell, KeepsOn
<1>4. Keeps(s, LeavesPole(s))
  BY LeavesPoleWell, PoleFacts DEF OnPole
<1> QED  BY <1>2, <1>3, <1>4

LEMMA PoleThinkWell ==
    ASSUME NEW s, OnPole(s), NEW here
    PROVE  /\ Keeps(s, CK_KeenPoleSitThink(s, here)) /\ Keeps(s, CK_KeenPoleUpThink(s, here))
           /\ Keeps(s, CK_KeenPoleDownThink(s, here))
<1> DEFINE d == Does(s, "keenPoleDown1")
           u == Does(s, "keenPoleUp1")
           i == Does(s, "keenPoleSit")
<1>1. /\ Keeps(s, d) /\ OnPole(d) /\ Keeps(s, u) /\ Keeps(s, i) /\ OnPole(i)
  BY StaysOnPole, PoleFacts
<1>2. s.y \in {-1, 0, 1} /\ d.y = s.y
  BY DEF OnPole, Sound, Keens, Does
<1>3. /\ CK_KeenPoleSitThink(s, here) \in
           {CK_KeenPoleDownThink(d, here), u, LeavesPole(s), CK_KeenPoleHandleInput(s)}
      /\ CK_KeenPoleUpThink(s, here) \in
           {CK_KeenPoleHandleInput(i), i, CK_KeenPoleDownThink(d, here), CK_KeenPoleHandleInput(s)}
  BY DEF CK_KeenPoleSitThink, CK_KeenPoleUpThink
<1> HIDE DEF d, u, i
<1>4. Keeps(s, CK_KeenPoleDownThink(d, here)) /\ Keeps(s, CK_KeenPoleDownThink(s, here))
  BY <1>1, <1>2, PoleDownWell, KeepsOn
<1>5. /\ Keeps(s, LeavesPole(s)) /\ Keeps(s, CK_KeenPoleHandleInput(s)) /\ Keeps(s, CK_KeenPoleHandleInput(i))
  BY <1>1, LeavesPoleWell, PoleInputWell, PoleFacts, KeepsOn DEF OnPole
<1> QED  BY <1>1, <1>3, <1>4, <1>5

LEMMA HangsWell ==
    ASSUME NEW s, Sound(s), s.act = "keenHang2"
    PROVE  Keeps(s, CK_KeenHangThink(s))
<1> DEFINE p == Does(s, "keenPull1")
           f == [s EXCEPT !.act = "keenFall1", !.clipped = "normal"]
<1>1. /\ "keenPull1" \in Acts /\ "keenPull1" \in ClipLess /\ "keenHang2" \in ClipLess
      /\ "keenPull1" \notin PogoActs \cup ShotActs
  BY PlainActs DEF ClipLess, LedgeActs, ShotActs, PogoActs
<1>2. Keeps(s, p)
  BY <1>1, Becomes
<1>3. Keeps(s, f)
  <2>1. f = [s EXCEPT !.act = "keenFall1", !.jumpTimer = s.jumpTimer, !.clipped = "normal"]
    BY DEF Sound, Keens
  <2>2. s.jumpTimer \in 0 .. JumpTime + 1 /\ "keenFall1" \in Plain
    BY PoleFacts DEF Sound, Keens
  <2> HIDE DEF f
  <2> QED  BY <2>1, <2>2, LeavesWell
<1>4. CK_KeenHangThink(s) \in {p, f, s}
  BY DEF CK_KeenHangThink
<1> HIDE DEF p, f
<1> QED  BY <1>2, <1>3, <1>4, KeepsItself

LEMMA EntersWell ==
    ASSUME NEW s, OnFoot(s)
    PROVE  Keeps(s, CK_KeenEnterDoor(s))
<1>1. "keenEnteredDoor" \in Plain /\ "keenStanding" \in Plain
  BY PlainActs
<1>2. CASE s.user1 = "exit"
  <2> DEFINE t == [s EXCEPT !.level = "LS_LevelComplete", !.act = "keenEnteredDoor"]
  <2>1. t \in Keens /\ t.act = "keenEnteredDoor"
    BY <1>1 DEF OnFoot, Sound, Keens, Plain, Ends
  <2>2. CK_KeenEnterDoor(s) = t
    BY <1>2 DEF CK_KeenEnterDoor
  <2>3. Keeps(s, t)
    BY <1>1, <2>1 DEF OnFoot, Sound, Keens, Keeps, Gated, Whole, Plain
  <2> QED  BY <2>2, <2>3
<1>3. CASE s.user1 # "exit"
  <2> DEFINE r == [s EXCEPT !.clipped = "not"]
             v == CK_SetAction2(r, "keenStanding")
             t == [v EXCEPT !.clipped = "normal"]
  <2>1. r \in Keens /\ [r EXCEPT !.clipped = s.clipped] = s
    BY DEF OnFoot, Sound, Keens
  <2>2. Unchanged([s EXCEPT !.clipped = "not"], v) /\ v \in Keens /\ v.act = "keenStanding" /\ v.actionTimer = 0
    BY <1>1, <2>1, SetsAction DEF Plain
  <2>3. CK_KeenEnterDoor(s) = t
    BY <1>3 DEF CK_KeenEnterDoor
  <2> HIDE DEF v
  <2>4. /\ t \in Keens /\ t.act = "keenStanding" /\ t.actionTimer = 0 /\ t.clipped = "normal"
        /\ t.shots = s.shots /\ t.used = s.used /\ t.keenSliding = s.keenSliding
        /\ t.extraShot = s.extraShot /\ t.extraUse = s.extraUse
        /\ t.gems = s.gems /\ t.opened = s.opened /\ t.lostGems = s.lostGems
    BY <2>2 DEF OnFoot, Sound, Keens, Unchanged
  <2> HIDE DEF t
  <2>5. Keeps(s, t)
    BY <1>1, <2>4 DEF OnFoot, Sound, Keeps, Gated, Whole, Plain
  <2> QED  BY <2>3, <2>5
<1> QED  BY <1>2, <1>3

LEMMA SwimsWell ==
    ASSUME NEW s, Sound(s), s.act \in SwimmingActs
    PROVE  Keeps(s, CK4_KeenSwim(s)) /\ Keeps(s, CK4_KeenSwimFast(s))
<1> DEFINE h == Handled(s, "jump")
           t == IF Pressed(s, "jump") THEN h ELSE s
           a == IF t.act = "KeenSwimFast0" THEN "KeenSwimFast1" ELSE "KeenSwimFast0"
<1>1. OnFoot(s) /\ s.act \notin ShotActs
  BY PlainActs DEF OnFoot, Plain
<1>2. Keeps(s, h) /\ OnFoot(h) /\ h.act = s.act
  BY <1>1, Handles DEF Buttons, OnFoot, Keeps
<1>3. Keeps(s, CK4_KeenSwim(s))
  BY <1>1, <1>2, NextWell, KeepsOn, KeepsItself DEF CK4_KeenSwim, OnFoot
<1>4. Keeps(s, t) /\ OnFoot(t)
  BY <1>1, <1>2, KeepsItself DEF OnFoot
<1>5. a \in Plain
  BY PlainActs DEF SwimmingActs, SwimActs, DieActs
<1>6. CK4_KeenSwimFast(s) = Does(t, a)
  BY DEF CK4_KeenSwimFast, Does
<1> HIDE DEF t, a
<1>7. Keeps(s, CK4_KeenSwimFast(s))
  BY <1>4, <1>5, <1>6, BecomesPlain, KeepsOn
<1> QED  BY <1>3, <1>7

LEMMA DeathThinkWell ==
    ASSUME NEW s, Sound(s), NEW gone
    PROVE  Keeps(s, CK_KeenDeathThink(s, gone)) /\ CK_KeenDeathThink(s, gone).act = s.act
<1> DEFINE t == [s EXCEPT !.level = "LS_Died"]
<1>1. t \in Keens /\ t.act = s.act
  BY DEF Sound, Keens, Ends
<1>2. Keeps(s, t)
  BY <1>1 DEF Sound, Keens, Keeps, Gated, Whole
<1> QED  BY <1>1, <1>2, KeepsItself DEF CK_KeenDeathThink

(***************************************************************************)
(* A thought, and what CK_ActionThink makes of it.                         *)
(***************************************************************************)
\* The actions that think only when they end, and whose thought is half of a step.
Halves == SpawnActs \cup {"keenPlaceGem", "keenPull4"}

LEMMA ThinksWell ==
    ASSUME NEW s, Sound(s), start \in Starts, NEW here \in Seen(s), NEW t \in Thinks(s, here),
           s.act \notin Halves
    PROVE  Keeps(s, t) /\ (s.act \in DieActs => t.act = s.act)
<1> DEFINE think == Rows[s.act].think
           goal == Keeps(s, t) /\ (s.act \in DieActs => t.act = s.act)
<1>1. s.act \in Acts /\ s.act \notin SpawnActs \cup {"keenPlaceGem", "keenPull4"}
  BY DEF Sound, Keens, Halves
<1>2. RowOf(s.act, Rows[s.act])
  BY <1>1, RowsAre
<1>3. /\ ThinksOnFoot(s.act, Rows[s.act]) /\ ThinksElsewhere(s.act, Rows[s.act])
      /\ ThinksOnce(s.act, Rows[s.act])
  BY <1>2 DEF RowOf
<1>4. here.place \in Places \cup {"door"} /\ here.aligned \in BOOLEAN
  BY SeenPlaces
<1>5. think \notin {"KeenSpawnShot", "KeenPlaceGem", "KeenPullThink4"}
  BY <1>1, <1>3 DEF ThinksOnce
<1>6. \A a \in Plain \cup PogoActs \cup {"keenSlide"} : a \notin ClipLess \cup {"keenPlaceGem"}
  BY PlainActs DEF Plain
<1>7. CASE think \in {"KeenStandingThink", "HandleInputOnGround", "KeenRunningThink", "KeenReadThink",
                      "KeenLookUpThink", "KeenLookDownThink"}
  <2>1. s.act \in Plain
    BY <1>3, <1>7, PlainActs DEF ThinksOnFoot
  <2>2. OnFoot(s) /\ s.act \notin DieActs
    BY <1>6, <2>1 DEF OnFoot, ClipLess
  <2>3. \/ t \in CK_KeenStandingThink(s, here)
        \/ t \in {CK_HandleInputOnGround(s, here), CK_KeenRunningThink(s, here), CK_KeenReadThink(s),
                  CK_KeenLookUpThink(s, here), CK_KeenLookDownThink(s, here)}
    BY <1>7 DEF Thinks
  <2> QED  BY <1>4, <2>2, <2>3, StandingThinkWell, OnGroundWell, RunningThinkWell, LooksWell, LookDownWell
<1>8. CASE think = "KeenSlide"
  <2>1. s.act = "keenSlide" /\ s.act \notin DieActs
    BY <1>3, <1>8, PlainActs DEF ThinksOnFoot, DieActs
  <2>2. t = CK_KeenSlide(s, here)
    BY <1>8 DEF Thinks
  <2> QED  BY <2>1, <2>2, SlidesWell
<1>9. CASE think = "KeenJumpThink"
  <2>1. s.act \in {"keenJump1", "keenJump2", "keenFall1", "keenFall2"}
    BY <1>3, <1>9 DEF ThinksElsewhere
  <2>2. OnFoot(s) /\ s.act \notin DieActs
    BY <1>6, <2>1, PlainActs DEF OnFoot, ClipLess
  <2>3. PICK falls \in BOOLEAN : t = CK_KeenJumpThink(s, here, falls)
    BY <1>9 DEF Thinks
  <2> QED  BY <2>1, <2>2, <2>3, JumpThinkWell
<1>10. CASE think \in {"KeenPogoBounceThink", "KeenPogoThink"}
  <2>1. s.act \in PogoActs
    BY <1>3, <1>10 DEF ThinksElsewhere, PogoActs
  <2>2. OnFoot(s) /\ s.act \notin DieActs
    BY <1>6, <2>1 DEF OnFoot, ClipLess
  <2>3. t \in {CK_KeenPogoBounceThink(s), CK_KeenPogoThink(s)}
    BY <1>10 DEF Thinks
  <2> QED  BY <2>1, <2>2, <2>3, PogoThinkWell
<1>11. CASE think \in {"KeenPoleSitThink", "KeenPoleUpThink", "KeenPoleDownThink"}
  <2>1. s.act \in PoleActs /\ s.act \notin DieActs
    BY <1>3, <1>11 DEF ThinksElsewhere, PoleActs, DieActs
  <2>2. t \in {CK_KeenPoleSitThink(s, here), CK_KeenPoleUpThink(s, here), CK_KeenPoleDownThink(s, here)}
    BY <1>11 DEF Thinks
  <2> QED  BY <2>1, <2>2, PoleThinkWell DEF OnPole
<1>12. CASE think = "KeenHangThink"
  <2>1. s.act = "keenHang2" /\ s.act \notin DieActs
    BY <1>3, <1>12 DEF ThinksElsewhere, DieActs
  <2>2. t = CK_KeenHangThink(s)
    BY <1>12 DEF Thinks
  <2> QED  BY <2>1, <2>2, HangsWell
<1>13. CASE think = "KeenEnterDoor"
  <2>1. s.act \in Plain
    BY <1>3, <1>13, PlainActs DEF ThinksOnFoot
  <2>2. OnFoot(s) /\ s.act \notin DieActs
    BY <1>6, <2>1 DEF OnFoot, ClipLess
  <2>3. t = CK_KeenEnterDoor(s)
    BY <1>13 DEF Thinks
  <2> QED  BY <2>2, <2>3, EntersWell
<1>14. CASE think = "KeenDeathThink"
  <2>1. \E gone \in BOOLEAN : t = CK_KeenDeathThink(s, gone)
    BY <1>14 DEF Thinks
  <2> QED  BY <2>1, DeathThinkWell
<1>15. CASE think \in {"KeenSwim", "KeenSwimFast"}
  <2>1. s.act \in SwimmingActs /\ s.act \notin DieActs
    BY <1>3, <1>15 DEF ThinksElsewhere, SwimmingActs
  <2>2. t \in {CK4_KeenSwim(s), CK4_KeenSwimFast(s)}
    BY <1>15 DEF Thinks
  <2> QED  BY <2>1, <2>2, SwimsWell
<1>16. CASE think \notin {"KeenStandingThink", "HandleInputOnGround", "KeenRunningThink", "KeenReadThink",
                          "KeenLookUpThink", "KeenLookDownThink", "KeenSlide", "KeenJumpThink",
                          "KeenPogoBounceThink", "KeenPogoThink", "KeenPoleSitThink", "KeenPoleUpThink",
                          "KeenPoleDownThink", "KeenHangThink", "KeenEnterDoor", "KeenDeathThink",
                          "KeenSwim", "KeenSwimFast"}
  <2>1. t = s
    BY <1>5, <1>16 DEF Thinks
  <2> QED  BY <2>1, KeepsItself
<1> QED  BY <1>7, <1>8, <1>9, <1>10, <1>11, <1>12, <1>13, <1>14, <1>15, <1>16

\* Before its timer has run out, an action that is not looked at every tic has time left.
Timely(s) == Rows[s.act].type # "each" => s.actionTimer < Rows[s.act].timer

LEMMA HalvesStay ==
    ASSUME NEW s, Sound(s), s.act \in Halves, NEW here, NEW t \in Thinks(s, here)
    PROVE  t.act = s.act /\ s.act \notin DieActs
<1>1. ThinksOnce(s.act, Rows[s.act])
  BY RowsAre DEF Sound, Keens, RowOf
<1>2. t \in {CK_KeenSpawnShot(s), CK_KeenPlaceGem(s), CK_KeenPullThink4(s)}
  BY <1>1 DEF Thinks, ThinksOnce, Halves
<1>3. t.act = s.act
  BY <1>2 DEF Sound, Keens, CK_KeenSpawnShot, CK_KeenPlaceGem, CK_KeenPullThink4
<1> QED  BY <1>3 DEF Halves, SpawnActs, JumpShots, DieActs

\* The next action begins.
Begins(t, a) == [t EXCEPT !.act = a, !.actionTimer = 0]

\* The thought and the next action together: the shot, the gem, and the last of the pull.
LEMMA HalvesWell ==
    ASSUME NEW s, Sound(s), start \in Starts, s.act \in Halves, NEW here, NEW t \in Thinks(s, here),
           NEW n \in Rows[s.act].next, NEW v, v = Begins(t, n)
    PROVE  Sound(v) /\ v.act = n /\ v.actionTimer = 0 /\ (Whole(s) => Whole(v))
<1>1. s.act \in Acts
  BY DEF Sound, Keens
<1>2. RowOf(s.act, Rows[s.act])
  BY <1>1, RowsAre
<1>3. /\ Succeeds(s.act, n) /\ ThinksOnce(s.act, Rows[s.act])
  BY <1>2 DEF RowOf, Follows
<1>5. ASSUME NEW i \in 0 .. 1, i = 0, NEW u \in Keens
      PROVE  /\ [u EXCEPT !.act = n, !.actionTimer = i] \in Keens
             /\ [u EXCEPT !.act = n, !.actionTimer = i].act = n
             /\ [u EXCEPT !.act = n, !.actionTimer = i].actionTimer = i
  BY <1>3 DEF Succeeds, Keens
<1>6. PICK i \in 0 .. 1 : i = 0
  OBVIOUS
<1>7. v = [t EXCEPT !.act = n, !.actionTimer = i]
  BY <1>6 DEF Begins
<1>8. CASE s.act \in SpawnActs
  <2>1. t = CK_KeenSpawnShot(s)
    BY <1>3, <1>8 DEF Thinks, ThinksOnce
  <2> DEFINE shots == IF s.shots > 0 THEN s.shots - 1 ELSE 0
             x == [s EXCEPT !.shots = shots, !.due = FALSE, !.extraShot = FALSE]
  <2>2. s.act \in ShotActs /\ s.act \notin {"keenPull4", "keenPlaceGem"}
    BY <1>8 DEF SpawnActs, JumpShots, ShotActs
  <2>3. s.due = TRUE /\ s.extraShot = FALSE /\ "stunner" \in has
    BY <2>2 DEF Sound, Gated, Keens
  <2>4. (s.extraShot \/ ~s.due) = FALSE
    BY <2>3
  <2>5. t = x
    <3>1. t = [s EXCEPT !.shots = shots, !.due = FALSE, !.extraShot = s.extraShot \/ ~s.due]
      BY <2>1 DEF CK_KeenSpawnShot
    <3> HIDE DEF shots
    <3> QED  BY <2>4, <3>1
  <2>6. shots \in 0 .. start.shots
    <3>1. start.shots \in Nat
      BY KeenAssumption
    <3>2. s.shots \in 0 .. start.shots
      BY DEF Sound, Keens
    <3> QED  BY <3>1, <3>2
  <2> HIDE DEF shots
  <2>7. x \in Keens
    BY <2>6 DEF Sound, Keens
  <2>8. v \in Keens /\ v.act = n /\ v.actionTimer = 0
    <3>1. t \in Keens
      BY <2>5, <2>7
    <3> QED  BY <1>5, <1>6, <1>7, <3>1, ZenonT(60)
  <2>9. n \notin ShotActs \cup PogoActs \cup {"keenSlide", "keenPlaceGem"} /\ (n \in ClipLess <=> s.act \in ClipLess)
    <3>1. s.act \notin PogoActs
      BY <2>2, PlainActs
    <3> QED  BY <1>3, <1>8, <2>2, <3>1 DEF Succeeds
  <2>11. /\ v.clipped = s.clipped /\ v.gems = s.gems /\ v.opened = s.opened /\ v.lostGems = s.lostGems
         /\ v.used = s.used /\ v.keenSliding = s.keenSliding /\ v.extraUse = s.extraUse /\ v.extraShot = FALSE
    BY <1>7, <2>5 DEF Sound, Keens
  <2> HIDE DEF x
  <2>12. Sound(v)
    BY <2>3, <2>8, <2>9, <2>11 DEF Sound, Gated
  <2>13. Whole(s) => Whole(v)
    BY <2>2, <2>8, <2>9, <2>11 DEF Whole
  <2> QED  BY <2>8, <2>12, <2>13
<1>9. CASE s.act = "keenPlaceGem"
  <2>1. t = [s EXCEPT !.opened = s.opened + 1]
    BY <1>3, <1>9 DEF Thinks, ThinksOnce, CK_KeenPlaceGem
  <2>2. t \in Keens /\ t.act = s.act
    BY <2>1 DEF Sound, Keens
  <2>3. v \in Keens /\ v.act = n /\ v.actionTimer = 0
    BY <1>5, <1>6, <1>7, <2>2, ZenonT(60)
  <2>4. n \notin ShotActs \cup PogoActs \cup {"keenSlide", "keenPlaceGem"} /\ n \notin ClipLess /\ s.act \notin ClipLess
    BY <1>3, <1>9, PlainActs DEF Succeeds
  <2>5. /\ v.clipped = s.clipped /\ v.gems = s.gems /\ v.opened = s.opened + 1 /\ v.lostGems = s.lostGems
        /\ v.used = s.used /\ v.keenSliding = s.keenSliding /\ v.extraUse = s.extraUse
        /\ v.extraShot = s.extraShot /\ v.shots = s.shots
    BY <1>7, <2>1 DEF Sound, Keens
  <2>6. s.gems \in Int /\ s.opened \in Int /\ s.lostGems \in Int
    BY DEF Sound, Keens
  <2>7. Sound(v)
    BY <2>3, <2>4, <2>5 DEF Sound, Gated
  <2>8. Whole(s) => Whole(v)
    BY <1>9, <2>3, <2>4, <2>5, <2>6 DEF Whole
  <2> QED  BY <2>3, <2>7, <2>8
<1>10. CASE s.act = "keenPull4"
  <2>1. t = [s EXCEPT !.clipped = "normal"]
    BY <1>3, <1>10 DEF Thinks, ThinksOnce, CK_KeenPullThink4
  <2>2. t \in Keens /\ t.act = s.act
    BY <2>1 DEF Sound, Keens
  <2>3. v \in Keens /\ v.act = n /\ v.actionTimer = 0
    BY <1>5, <1>6, <1>7, <2>2, ZenonT(60)
  <2>4. n = "keenPull5" /\ n \in Plain
    BY <1>3, <1>10, PlainActs DEF Succeeds
  <2>5. /\ v.clipped = "normal" /\ v.gems = s.gems /\ v.opened = s.opened /\ v.lostGems = s.lostGems
        /\ v.used = s.used /\ v.keenSliding = s.keenSliding /\ v.extraUse = s.extraUse
        /\ v.extraShot = s.extraShot /\ v.shots = s.shots
    BY <1>7, <2>1 DEF Sound, Keens
  <2>6. Sound(v)
    BY <2>3, <2>4, <2>5 DEF Sound, Gated, Plain
  <2>7. Whole(s) => Whole(v)
    BY <1>10, <2>3, <2>4, <2>5 DEF Whole, Plain
  <2> QED  BY <2>3, <2>6, <2>7
<1> QED  BY <1>8, <1>9, <1>10 DEF Halves

\* The action and the timer of Keen set.
LEMMA SetsTimer ==
    ASSUME NEW s, Sound(s), NEW i \in 0 .. 1, NEW t, t = [s EXCEPT !.actionTimer = i]
    PROVE  Sound(t) /\ t.act = s.act /\ t.actionTimer = i /\ (Whole(s) => Whole(t))
<1>1. t \in Keens /\ t.act = s.act /\ t.actionTimer = i
  BY DEF Sound, Keens
<1> QED  BY <1>1 DEF Sound, Keens, Gated, Whole

LEMMA FollowsWell ==
    ASSUME NEW s, Sound(s), s.act \notin Halves, NEW n \in Rows[s.act].next,
           NEW t, t = Begins(s, n)
    PROVE  Sound(t) /\ t.act = n /\ t.actionTimer = 0 /\ (Whole(s) => Whole(t))
<1> DEFINE u == Does(s, n)
<1>1. s.act \in Acts
  BY DEF Sound, Keens
<1>2. Succeeds(s.act, n)
  BY <1>1, RowsAre DEF RowOf, Follows
<1>3. Keeps(s, u) /\ u.act = n
  <2>1. /\ n \in Acts /\ n \notin {"keenSlide", "keenPlaceGem"} /\ s.act # "keenPlaceGem"
        /\ n \in ClipLess <=> s.act \in ClipLess
        /\ n \in PogoActs => "pogo" \in has
        /\ n \in ShotActs => "stunner" \in has /\ s.due
    BY <1>2 DEF Succeeds, Halves, Sound, Gated
  <2> QED  BY <2>1, Becomes
<1>4. t = [u EXCEPT !.actionTimer = 0]
  BY DEF Does, Begins
<1>5. PICK i \in 0 .. 1 : i = 0
  OBVIOUS
<1>6. t = [u EXCEPT !.actionTimer = i] /\ Sound(u)
  BY <1>3, <1>4, <1>5 DEF Keeps
<1>7. Sound(t) /\ t.act = u.act /\ t.actionTimer = i /\ (Whole(u) => Whole(t))
  <2> HIDE DEF u
  <2> QED  BY <1>6, SetsTimer
<1> QED  BY <1>3, <1>5, <1>7 DEF Keeps

\* CK_ActionThink, for as many tics as the play loop asks for.
LEMMA ActionThinks ==
    ASSUME NEW s, Sound(s), Timely(s), start \in Starts, NEW time \in -1 .. MaxSync,
           Rows[s.act].type # "each" => time >= 0, s.act \in JumpShots => time >= 1,
           NEW r \in CK_ActionThink(s, time)
    PROVE  /\ Sound(r.keen) /\ Timely(r.keen) /\ r.left \in 0 .. MaxSync
           /\ Whole(s) => Whole(r.keen)
           /\ s.act \in DieActs => r.keen.act \in DieActs
<1> DEFINE row == Rows[s.act]
           newTime == time + s.actionTimer
           lasts == row.timer > newTime \/ row.timer = 0
           thoughts == IF row.type = "once" /\ lasts THEN {s} ELSE UNION {Thinks(s, here) : here \in Seen(s)}
           Timer(t) == IF t.act # s.act THEN 0 ELSE IF row.type = "each" THEN t.actionTimer ELSE newTime
           After(t) == IF t.act # s.act THEN {t.act} ELSE row.next
           Stays(t) == [keen |-> [t EXCEPT !.actionTimer = Timer(t)], left |-> 0]
           Ends1(t, a) == [keen |-> Begins(t, a), left |-> newTime - row.timer]
<1>1. CK_ActionThink(s, time) =
        IF row.type = "each" \/ lasts THEN {Stays(t) : t \in thoughts}
        ELSE UNION {{Ends1(t, a) : a \in After(t)} : t \in thoughts}
  BY DEF CK_ActionThink, Begins
<1>2. s.act \in Acts /\ s.actionTimer \in 0 .. 1
  BY DEF Sound, Keens
<1>3. Timed(s.act, row)
  BY <1>2, RowsAre DEF RowOf
<1>4. /\ row.type \in {"once", "frame", "each"} /\ row.timer \in 0 .. 2
      /\ row.type # "each" => row.timer > 0
      /\ s.act \in JumpShots => row.timer = 1 /\ row.type # "each"
      /\ s.act \in Halves \ JumpShots => row.type = "once"
      /\ s.act \in DieActs => row.type = "each"
  BY <1>3 DEF Timed, Halves
<1>5. MaxSync \in Nat /\ newTime \in Int
  BY <1>2, Constants
<1>j. s.act \in JumpShots => ~(row.type = "each" \/ lasts)
  <2> HIDE DEF row
  <2> QED  BY <1>2, <1>4, <1>5
<1>t. row.type # "each" /\ lasts => newTime \in 0 .. 1
  <2>1. row.type # "each" => time >= 0 /\ s.actionTimer < row.timer
    BY DEF Timely
  <2> HIDE DEF row
  <2> QED  BY <2>1, <1>2, <1>4, <1>5
<1> HIDE DEF row, Stays, Ends1, thoughts
<1>6. CASE row.type = "each" \/ lasts
  <2>1. PICK t \in thoughts : r = Stays(t)
    BY <1>1, <1>6
  <2>2. Sound(t) /\ t.actionTimer \in {0, s.actionTimer} /\ (Whole(s) => Whole(t)) /\ (s.act \in DieActs => t.act = s.act)
    <3>1. CASE row.type = "once" /\ lasts
      BY <2>1, <3>1 DEF thoughts
    <3>2. CASE ~(row.type = "once" /\ lasts)
      <4>1. PICK here \in Seen(s) : t \in Thinks(s, here)
        BY <2>1, <3>2 DEF thoughts
      <4>2. s.act \notin Halves
        <5>1. CASE s.act \in JumpShots
          BY <1>j, <1>6, <5>1
        <5>2. CASE s.act \notin JumpShots
          BY <1>4, <1>6, <3>2, <5>2
        <5> QED  BY <5>1, <5>2
      <4> QED  BY <4>1, <4>2, ThinksWell DEF Keeps
    <3> QED  BY <3>1, <3>2
  <2>3. Timer(t) \in 0 .. 1
    <3>1. t.actionTimer \in 0 .. 1
      BY <1>2, <2>2
    <3> HIDE DEF newTime, lasts
    <3> QED  BY <1>t, <1>6, <3>1
  <2>4. r.keen = [t EXCEPT !.actionTimer = Timer(t)] /\ r.left = 0
    BY <2>1 DEF Stays
  <2>5. t.act \in Acts
    BY <2>2 DEF Sound, Keens
  <2>6. Rows[t.act].type # "each" => Timer(t) < Rows[t.act].timer
    <3>1. CASE t.act = s.act
      BY <1>4, <1>6, <3>1 DEF row
    <3>2. CASE t.act # s.act
      <4>1. Rows[t.act].type # "each" => Rows[t.act].timer > 0
        BY <2>5, RowsAre DEF RowOf, Timed
      <4> QED  BY <3>2, <4>1
    <3> QED  BY <3>1, <3>2
  <2> HIDE DEF Timer
  <2>7. /\ Sound(r.keen) /\ r.keen.act = t.act /\ r.keen.actionTimer = Timer(t) /\ (Whole(t) => Whole(r.keen))
    <3>1. PICK i \in 0 .. 1 : i = Timer(t)
      BY <2>3
    <3>2. r.keen = [t EXCEPT !.actionTimer = i]
      BY <2>4, <3>1
    <3> QED  BY <2>2, <3>1, <3>2, SetsTimer
  <2> QED  BY <1>5, <2>2, <2>4, <2>6, <2>7 DEF Timely
<1>7. CASE ~(row.type = "each" \/ lasts)
  <2>1. PICK t \in thoughts : r \in {Ends1(t, a) : a \in After(t)}
    BY <1>1, <1>7
  <2>2. PICK a \in After(t) : r = Ends1(t, a)
    BY <2>1
  <2>3. PICK here \in Seen(s) : t \in Thinks(s, here)
    BY <1>7, <2>1 DEF thoughts
  <2>4. r.keen = Begins(t, a) /\ r.left = newTime - row.timer
    BY <2>2 DEF Ends1
  <2>5. r.left \in 0 .. MaxSync
    BY <1>2, <1>4, <1>5, <1>7, <2>4 DEF Timely, row
  <2>6. s.act \notin DieActs
    BY <1>4, <1>7
  <2>7. Sound(r.keen) /\ r.keen.act = a /\ r.keen.actionTimer = 0 /\ (Whole(s) => Whole(r.keen))
    <3>1. CASE s.act \in Halves
      <4>1. a \in Rows[s.act].next
        BY <2>2, <2>3, <3>1, HalvesStay DEF row
      <4> QED  BY <2>3, <2>4, <3>1, <4>1, HalvesWell
    <3>2. CASE s.act \notin Halves
      <4>1. Keeps(s, t)
        BY <2>3, <3>2, ThinksWell
      <4>2. CASE t.act # s.act
        <5>1. a = t.act
          BY <2>2, <4>2
        <5>2. PICK i \in 0 .. 1 : i = 0
          OBVIOUS
        <5>3. r.keen = [t EXCEPT !.actionTimer = i]
          BY <2>4, <4>1, <5>1, <5>2, ZenonT(60) DEF Keeps, Sound, Keens, Begins
        <5>4. /\ Sound(r.keen) /\ r.keen.act = t.act /\ r.keen.actionTimer = i
              /\ Whole(t) => Whole(r.keen)
          BY <4>1, <5>3, SetsTimer DEF Keeps
        <5> QED  BY <4>1, <5>1, <5>2, <5>4 DEF Keeps
      <4>3. CASE t.act = s.act
        <5>1. a \in Rows[t.act].next
          BY <2>2, <4>3 DEF row
        <5>2. r.keen = Begins(t, a) /\ t.act \notin Halves
          BY <2>4, <3>2, <4>3
        <5>3. /\ Sound(r.keen) /\ r.keen.act = a /\ r.keen.actionTimer = 0
              /\ Whole(t) => Whole(r.keen)
          BY <4>1, <5>1, <5>2, FollowsWell DEF Keeps
        <5> QED  BY <4>1, <5>3 DEF Keeps
      <4> QED  BY <4>2, <4>3
    <3> QED  BY <3>1, <3>2
  <2>8. Rows[a].type # "each" => Rows[a].timer > 0
    <3>1. a \in Acts
      BY <2>7 DEF Sound, Keens
    <3> QED  BY <3>1, RowsAre DEF RowOf, Timed
  <2> QED  BY <2>5, <2>6, <2>7, <2>8 DEF Timely
<1> QED  BY <1>6, <1>7

(***************************************************************************)
(* Death, and the controls.                                                *)
(***************************************************************************)
\* What can become of Keen at any time: nothing, or he dies.
Kills(s, t) ==
    /\ Sound(t) /\ (Timely(s) => Timely(t)) /\ (Whole(s) => Whole(t))
    /\ \/ t = s
       \/ /\ t.act \in DieActs /\ t.clipped = "not" /\ t.platform = s.platform
          /\ t.topTI = IF s.topTI = "platform" THEN "platform" ELSE "none"

\* The gem in his hand falls.
LEMMA DropsGemWell ==
    ASSUME NEW s \in Keens, NEW t, t = DropsGem(s)
    PROVE  /\ t \in Keens /\ t.act = s.act /\ t.actionTimer = s.actionTimer /\ t.topTI = s.topTI
           /\ t.clipped = s.clipped /\ t.platform = s.platform
           /\ t.gems = s.gems /\ t.opened = s.opened
           /\ t.lostGems = s.lostGems + (IF s.act = "keenPlaceGem" THEN 1 ELSE 0)
           /\ t.shots = s.shots /\ t.used = s.used /\ t.keenSliding = s.keenSliding
           /\ t.extraShot = s.extraShot /\ t.extraUse = s.extraUse
<1> DEFINE lost == IF s.act = "keenPlaceGem" THEN s.lostGems + 1 ELSE s.lostGems
<1>1. s.lostGems \in Nat
  BY DEF Keens
<1>2. lost \in Nat
  BY <1>1
<1>3. t = [s EXCEPT !.lostGems = lost]
  BY DEF DropsGem
<1>4. lost = s.lostGems + (IF s.act = "keenPlaceGem" THEN 1 ELSE 0)
  BY <1>1
<1> HIDE DEF lost
<1>5. t \in Keens
  BY <1>2, <1>3 DEF Keens
<1> QED  BY <1>3, <1>4, <1>5 DEF Keens

LEMMA KillsWell ==
    ASSUME NEW s, Sound(s)
    PROVE  Kills(s, CK_KillKeen(s))
<1> DEFINE t == CK_KillKeen(s)
           g == DropsGem(s)
           u == [g EXCEPT !.clipped = "not"]
           a == IF ep = 4 /\ s.act \in SwimActs THEN "KeenSwimDie0" ELSE "keenDie0"
           v == CK_SetAction2(u, a)
<1>1. CASE s.invincible > 0 \/ s.act = "keenNot"
  BY <1>1 DEF CK_KillKeen, Kills
<1>2. CASE ~(s.invincible > 0 \/ s.act = "keenNot")
  <2>1. a \in DieActs /\ a \in Acts /\ a \in ClipLess
    BY PlainActs DEF DieActs, ClipLess
  <2>2. a \notin PogoActs \cup ShotActs \cup {"keenSlide", "keenPlaceGem"}
    BY <2>1 DEF DieActs, PogoActs, ShotActs
  <2>3. t = [v EXCEPT !.invincible = DeathTime]
    BY <1>2 DEF CK_KillKeen
  <2>4. s \in Keens
    BY DEF Sound
  <2> HIDE DEF a, g
  <2>5. /\ g \in Keens /\ g.act = s.act /\ g.topTI = s.topTI /\ g.platform = s.platform
        /\ g.gems = s.gems /\ g.opened = s.opened
        /\ g.lostGems = s.lostGems + (IF s.act = "keenPlaceGem" THEN 1 ELSE 0)
        /\ g.shots = s.shots /\ g.used = s.used /\ g.keenSliding = s.keenSliding
        /\ g.extraShot = s.extraShot /\ g.extraUse = s.extraUse
    BY <2>4, DropsGemWell DEF g
  <2>6. /\ u \in Keens /\ u.topTI = s.topTI /\ u.platform = s.platform /\ u.clipped = "not"
        /\ u.gems = s.gems /\ u.opened = s.opened
        /\ u.lostGems = s.lostGems + (IF s.act = "keenPlaceGem" THEN 1 ELSE 0)
        /\ u.shots = s.shots /\ u.used = s.used /\ u.keenSliding = s.keenSliding
        /\ u.extraShot = s.extraShot /\ u.extraUse = s.extraUse
    BY <2>5 DEF Keens
  <2> HIDE DEF u
  <2>7. /\ v \in Keens /\ Unchanged(u, v) /\ v.act = a
        /\ v.topTI = IF u.clipped = "not" /\ u.topTI # "platform" THEN "none" ELSE u.topTI
    BY <2>1, <2>6, SetsAction
  <2> HIDE DEF v, t
  <2>8. DeathTime \in Nat
    BY Constants
  <2>9. t \in Keens /\ Unchanged(u, [t EXCEPT !.invincible = u.invincible]) /\ t.act = a /\ t.topTI = v.topTI
    BY <2>3, <2>7, <2>8 DEF Keens, Unchanged
  <2>10. /\ t.clipped = "not" /\ t.platform = s.platform /\ t.gems = s.gems /\ t.opened = s.opened
         /\ t.lostGems = s.lostGems + (IF s.act = "keenPlaceGem" THEN 1 ELSE 0)
         /\ t.shots = s.shots /\ t.used = s.used /\ t.keenSliding = s.keenSliding
         /\ t.extraShot = s.extraShot /\ t.extraUse = s.extraUse
    BY <2>3, <2>6, <2>7 DEF Keens, Unchanged
  <2>11. t.topTI = IF s.topTI = "platform" THEN "platform" ELSE "none"
    BY <2>6, <2>7, <2>9
  <2>12. Sound(t)
    BY <2>2, <2>9, <2>10 DEF Sound, Gated
  <2>13. Whole(s) => Whole(t)
    <3>1. s.gems \in Int /\ s.opened \in Int /\ s.lostGems \in Int
      BY DEF Sound, Keens
    <3> QED  BY <2>1, <2>2, <2>9, <2>10, <3>1 DEF Whole
  <2>14. Timely(t)
    BY <2>1, <2>9, RowsAre DEF Timely, RowOf, Timed
  <2> QED  BY <2>1, <2>9, <2>10, <2>11, <2>12, <2>13, <2>14 DEF Kills, t
<1> QED  BY <1>1, <1>2

\* Nothing that matters here changes, but that up may have been let go.
Alike(s, t) ==
    /\ t.act = s.act /\ t.actionTimer = s.actionTimer /\ t.clipped = s.clipped /\ t.topTI = s.topTI
    /\ t.user1 = s.user1 /\ t.platform = s.platform
    /\ t.gems = s.gems /\ t.opened = s.opened /\ t.lostGems = s.lostGems
    /\ t.shots = s.shots /\ t.due = s.due /\ t.extraShot = s.extraShot /\ t.extraUse = s.extraUse
    /\ \/ t.used = s.used /\ t.keenSliding = s.keenSliding
       \/ t.used = FALSE /\ t.keenSliding = FALSE

LEMMA AlikeWell ==
    ASSUME NEW s, Sound(s), NEW t \in Keens, Alike(s, t)
    PROVE  Sound(t) /\ (Timely(s) => Timely(t)) /\ (Whole(s) => Whole(t))
<1>1. Gated(t)
  BY DEF Sound, Gated, Alike
<1> QED  BY <1>1 DEF Sound, Alike, Timely, Whole

\* The controls of a frame.
LEMMA HandlesInput ==
    ASSUME NEW s, Sound(s), start \in Starts, NEW f \in Frames, NEW tics \in 1 .. MaxSync,
           twoButton => "shoot" \notin f.buttons, NEW t, t = CK_HandleInput(s, f, tics)
    PROVE  /\ t \in Keens /\ Alike(s, t) /\ t.sync = tics
<1> DEFINE r == [s EXCEPT !.x = f.x, !.y = f.y, !.sync = tics]
           u == IF f.y # -1 THEN [r EXCEPT !.keenSliding = FALSE, !.used = FALSE] ELSE r
           late == u.pogoTimer <= 1
           Presses(p, w, i) == [u EXCEPT !.isPressed = p, !.wasPressed = w, !.pogoTimer = i]
<1>1. /\ f.x \in {"none", "ahead", "back"} /\ f.y \in {-1, 0, 1} /\ f.buttons \in SUBSET Buttons
      /\ tics \in Nat /\ MaxSync \in Nat /\ s \in Keens
  BY Constants DEF Frames, Controls, Sound
<1>2. r \in Keens /\ Alike(s, r) /\ r.sync = tics
  BY <1>1, ZenonT(60) DEF Keens, Alike
<1>3. u \in Keens /\ Alike(s, u) /\ u.sync = tics
  <2>1. CASE f.y = -1
    BY <1>2, <2>1
  <2>2. CASE f.y # -1
    <3> HIDE DEF r
    <3> QED  BY <1>2, <2>2, ZenonT(60) DEF Keens, Alike
  <2> QED  BY <2>1, <2>2
<1>4. ASSUME NEW p \in SUBSET Buttons, NEW w \in SUBSET Buttons, NEW i \in 0 .. 1 + MaxSync
      PROVE  Presses(p, w, i) \in Keens /\ Alike(s, Presses(p, w, i)) /\ Presses(p, w, i).sync = tics
  <2> HIDE DEF u
  <2> QED  BY <1>3, <1>4, ZenonT(60) DEF Keens, Alike
<1>5. /\ u.wasPressed \in SUBSET Buttons /\ u.isPressed \in SUBSET Buttons /\ u.pogoTimer \in 0 .. 1 + MaxSync
      /\ 0 \in 0 .. 1 + MaxSync /\ u = [u EXCEPT !.pogoTimer = u.pogoTimer]
  <2> HIDE DEF u
  <2> QED  BY <1>1, <1>3 DEF Keens
<1>6. CASE ~twoButton
  <2>1. t = [u EXCEPT !.isPressed = f.buttons, !.wasPressed = u.wasPressed \cap f.buttons]
    BY <1>6 DEF CK_HandleInput
  <2>2. t = Presses(f.buttons, u.wasPressed \cap f.buttons, u.pogoTimer)
    <3> HIDE DEF u
    <3> QED  BY <1>3, <2>1 DEF Keens
  <2>3. u.wasPressed \cap f.buttons \in SUBSET Buttons
    BY <1>1, <1>5
  <2> HIDE DEF u, Presses
  <2> QED  BY <1>1, <1>4, <1>5, <2>2, <2>3
<1>7. CASE twoButton /\ f.buttons = {"jump", "pogo"}
  <2>1. t = [u EXCEPT !.isPressed = {"shoot"}, !.wasPressed = u.wasPressed \ {"jump", "pogo"}]
    BY <1>7 DEF CK_HandleInput
  <2>2. t = Presses({"shoot"}, u.wasPressed \ {"jump", "pogo"}, u.pogoTimer)
    <3> HIDE DEF u
    <3> QED  BY <1>3, <2>1 DEF Keens
  <2>3. u.wasPressed \ {"jump", "pogo"} \in SUBSET Buttons /\ {"shoot"} \in SUBSET Buttons
    BY <1>5 DEF Buttons
  <2> HIDE DEF u, Presses
  <2> QED  BY <1>4, <1>5, <2>2, <2>3
<1>8. CASE twoButton /\ f.buttons = {"pogo"}
  <2> DEFINE p == IF late THEN u.isPressed \cap {"pogo"} ELSE {"pogo"}
             i == IF late THEN u.pogoTimer + tics ELSE u.pogoTimer
  <2>1. t = Presses(p, u.wasPressed \cap {"pogo"}, i)
    BY <1>8 DEF CK_HandleInput
  <2>2. p \in SUBSET Buttons /\ u.wasPressed \cap {"pogo"} \in SUBSET Buttons
    BY <1>5 DEF Buttons
  <2>3. i \in 0 .. 1 + MaxSync
    <3> HIDE DEF u
    <3> QED  BY <1>1, <1>5
  <2> HIDE DEF u, Presses, p, i
  <2> QED  BY <1>4, <2>1, <2>2, <2>3
<1>9. CASE twoButton /\ f.buttons \in SUBSET {"jump"}
  <2> DEFINE p == f.buttons \cup (IF u.pogoTimer > 0 THEN {"pogo"} ELSE {})
             i == 0
  <2>1. t = Presses(p, u.wasPressed \cap p, i)
    BY <1>9 DEF CK_HandleInput
  <2>2. p \in SUBSET Buttons /\ u.wasPressed \cap p \in SUBSET Buttons
    BY <1>1, <1>5 DEF Buttons
  <2>3. i \in 0 .. 1 + MaxSync
    BY <1>5
  <2> HIDE DEF u, Presses, p, i
  <2> QED  BY <1>4, <2>1, <2>2, <2>3
<1>10. twoButton => f.buttons \in {{"jump", "pogo"}, {"pogo"}} \cup SUBSET {"jump"}
  BY <1>1 DEF Buttons
<1> QED  BY <1>6, <1>7, <1>8, <1>9, <1>10

\* A death link may come first.
LEMMA InputsWell ==
    ASSUME NEW s, Sound(s), Timely(s), start \in Starts, NEW t \in Inputs(s)
    PROVE  /\ Sound(t) /\ Timely(t) /\ (Whole(s) => Whole(t)) /\ t.sync \in 1 .. MaxSync
           /\ s.act \in DieActs => t.act \in DieActs
<1>1. PICK u \in {s, CK_KillKeen(s)} : \E f \in {g \in Frames : twoButton => "shoot" \notin g.buttons},
                                          tics \in 1 .. MaxSync : t = CK_HandleInput(u, f, tics)
  BY DEF Inputs
<1>2. Kills(s, u)
  BY <1>1, KillsWell DEF Kills
<1>3. Sound(u)
  BY <1>2 DEF Kills
<1>4. t \in Keens /\ Alike(u, t) /\ t.sync \in 1 .. MaxSync
  BY <1>1, <1>3, HandlesInput
<1>5. Sound(t) /\ (Timely(u) => Timely(t)) /\ (Whole(u) => Whole(t)) /\ t.act = u.act
  BY <1>3, <1>4, AlikeWell DEF Alike
<1> QED  BY <1>2, <1>4, <1>5 DEF Kills

(***************************************************************************)
(* A new action, outside the thoughts.                                     *)
(***************************************************************************)
\* All the gems are accounted for, the one in the hand apart.
HandEmpty(s) == s.gems + s.opened + s.lostGems = start.gems

\* The items and the presses allow the action.
Allows(s, a) ==
    /\ a \in Acts \ {"keenSlide", "keenPlaceGem"}
    /\ a \in PogoActs => "pogo" \in has
    /\ a \in ShotActs => "stunner" \in has /\ s.due

LEMMA PlainAllowed ==
    ASSUME NEW s, NEW a \in Plain
    PROVE  Allows(s, a) /\ a \notin ClipLess
BY DEF Plain, Allows

LEMMA HandsFree ==
    ASSUME NEW s, Sound(s), s.act # "keenPlaceGem", Whole(s)
    PROVE  HandEmpty(s)
<1>1. s.gems \in Int /\ s.opened \in Int /\ s.lostGems \in Int
  BY DEF Sound, Keens
<1> QED  BY <1>1 DEF Whole, HandEmpty

\* Another clipping.
LEMMA ClipsWell ==
    ASSUME NEW s, Sound(s), NEW c \in {"normal", "not"}, NEW t, t = [s EXCEPT !.clipped = c]
    PROVE  /\ Sound(t) /\ t.clipped = c /\ t.act = s.act /\ t.platform = s.platform /\ t.topTI = s.topTI
           /\ t.due = s.due /\ t.jumpTimer = s.jumpTimer /\ t.x = s.x /\ (HandEmpty(s) => HandEmpty(t))
<1>1. t \in Keens /\ t.act = s.act
  BY DEF Sound, Keens
<1> QED  BY <1>1 DEF Sound, Keens, Gated, HandEmpty

LEMMA SetsActionWell ==
    ASSUME NEW s, Sound(s), NEW a, Allows(s, a), NEW t, t = CK_SetAction2(s, a)
    PROVE  /\ Sound(t) /\ Timely(t) /\ t.act = a /\ t.clipped = s.clipped /\ t.platform = s.platform
           /\ t.topTI = IF s.clipped = "not" /\ s.topTI # "platform" THEN "none" ELSE s.topTI
           /\ HandEmpty(s) /\ (s.clipped = "not" <=> a \in ClipLess) => Whole(t)
<1>1. /\ t \in Keens /\ Unchanged(s, t) /\ t.act = a /\ t.actionTimer = 0 /\ t.user1 = "nothing"
      /\ t.topTI = IF s.clipped = "not" /\ s.topTI # "platform" THEN "none" ELSE s.topTI
  BY SetsAction DEF Sound, Allows
<1>2. Sound(t)
  BY <1>1 DEF Sound, Gated, Allows, Unchanged
<1>3. Timely(t)
  <2>1. Rows[a].type # "each" => Rows[a].timer > 0
    BY RowsAre DEF RowOf, Timed, Allows
  <2> QED  BY <1>1, <2>1 DEF Timely
<1>4. ASSUME HandEmpty(s), s.clipped = "not" <=> a \in ClipLess
      PROVE  Whole(t)
  <2>1. t.gems \in Int /\ t.opened \in Int /\ t.lostGems \in Int
    BY <1>1 DEF Keens
  <2> QED  BY <1>1, <1>4, <2>1 DEF Whole, HandEmpty, Allows, Unchanged
<1> QED  BY <1>1, <1>2, <1>3, <1>4 DEF Unchanged

\* The timer of a jump.
LEMMA JumpTimerWell ==
    ASSUME NEW s, Sound(s), NEW j \in 0 .. JumpTime + 1, NEW t, t = [s EXCEPT !.jumpTimer = j]
    PROVE  /\ Sound(t) /\ (Timely(s) => Timely(t)) /\ (Whole(s) => Whole(t))
           /\ t.act = s.act /\ t.topTI = s.topTI /\ t.clipped = s.clipped /\ t.platform = s.platform
<1>1. t \in Keens /\ Alike(s, t)
  BY DEF Sound, Keens, Alike
<1> QED  BY <1>1, AlikeWell DEF Alike

\* He is stunned, whatever he has in his hand.
LEMMA StunsWell ==
    ASSUME NEW s, Sound(s), NEW t, t = Stunned(s)
    PROVE  /\ Sound(t) /\ Timely(t) /\ t.act = "keenStunned0" /\ t.clipped = s.clipped
           /\ t.platform = s.platform /\ (s.clipped = "normal" => t.topTI = s.topTI)
           /\ Whole(s) /\ s.clipped = "normal" => Whole(t)
<1> DEFINE g == DropsGem(s)
<1>1. "keenStunned0" \in Plain
  BY PlainActs
<1>2. /\ g \in Keens /\ g.act = s.act /\ g.actionTimer = s.actionTimer /\ g.topTI = s.topTI
      /\ g.clipped = s.clipped /\ g.platform = s.platform
      /\ g.gems = s.gems /\ g.opened = s.opened
      /\ g.lostGems = s.lostGems + (IF s.act = "keenPlaceGem" THEN 1 ELSE 0)
  BY DropsGemWell DEF Sound
<1>3. Sound(g)
  <2>1. g.due = s.due /\ g.user1 = s.user1 /\ g.used = s.used /\ g.keenSliding = s.keenSliding
        /\ g.extraShot = s.extraShot /\ g.extraUse = s.extraUse /\ g.shots = s.shots
    BY DEF DropsGem, Sound, Keens
  <2> QED  BY <1>2, <2>1 DEF Sound, Gated
<1>4. t = CK_SetAction2(g, "keenStunned0")
  BY DEF Stunned
<1>5. Allows(g, "keenStunned0") /\ "keenStunned0" \notin ClipLess
  BY <1>1, PlainAllowed
<1> HIDE DEF g
<1>6. /\ Sound(t) /\ Timely(t) /\ t.act = "keenStunned0" /\ t.clipped = g.clipped /\ t.platform = g.platform
      /\ t.topTI = IF g.clipped = "not" /\ g.topTI # "platform" THEN "none" ELSE g.topTI
      /\ HandEmpty(g) /\ (g.clipped = "not" <=> "keenStunned0" \in ClipLess) => Whole(t)
  BY <1>3, <1>4, <1>5, SetsActionWell
<1>7. Whole(s) => HandEmpty(g)
  <2>1. s.gems \in Int /\ s.opened \in Int /\ s.lostGems \in Int
    BY DEF Sound, Keens
  <2> QED  BY <1>2, <2>1 DEF Whole, HandEmpty
<1> QED  BY <1>2, <1>5, <1>6, <1>7

\* He falls, with his clipping back.
LEMMA FallsFreeWell ==
    ASSUME NEW s, Sound(s), s.act # "keenPlaceGem", NEW t, t = FallsFree(s)
    PROVE  /\ Sound(t) /\ Timely(t) /\ t.act = "keenFall1" /\ t.clipped = "normal" /\ t.platform = s.platform
           /\ t.topTI = s.topTI /\ (Whole(s) => Whole(t))
<1> DEFINE u == [s EXCEPT !.clipped = "normal"]
           v == CK_SetAction2(u, "keenFall1")
<1>1. "keenFall1" \in Plain
  BY PlainActs
<1>2. /\ Sound(u) /\ u.clipped = "normal" /\ u.platform = s.platform /\ u.topTI = s.topTI
      /\ HandEmpty(s) => HandEmpty(u)
  BY ClipsWell
<1>3. Allows(u, "keenFall1") /\ "keenFall1" \notin ClipLess
  BY <1>1, PlainAllowed
<1>4. PICK j \in 0 .. JumpTime + 1 : j = 0
  BY Constants
<1>5. t = [v EXCEPT !.jumpTimer = j]
  BY <1>4 DEF FallsFree
<1> HIDE DEF u
<1>6. /\ Sound(v) /\ Timely(v) /\ v.act = "keenFall1" /\ v.clipped = u.clipped /\ v.platform = u.platform
      /\ v.topTI = IF u.clipped = "not" /\ u.topTI # "platform" THEN "none" ELSE u.topTI
      /\ HandEmpty(u) /\ (u.clipped = "not" <=> "keenFall1" \in ClipLess) => Whole(v)
  BY <1>2, <1>3, SetsActionWell
<1> HIDE DEF v
<1>7. /\ Sound(t) /\ (Timely(v) => Timely(t)) /\ (Whole(v) => Whole(t))
      /\ t.act = v.act /\ t.topTI = v.topTI /\ t.clipped = v.clipped /\ t.platform = v.platform
  BY <1>5, <1>6, JumpTimerWell
<1>8. Whole(s) => Whole(v)
  BY <1>2, <1>3, <1>6, HandsFree
<1> QED  BY <1>2, <1>6, <1>7, <1>8

(***************************************************************************)
(* The ground under him, and who touches him.                              *)
(***************************************************************************)
\* What the ground is to him, after he has moved and after he has been touched.
Placed(s, p) ==
    /\ p = "collide" => /\ s.platform => s.topTI = "platform"
                        /\ s.clipped = "not" => s.topTI = "none"
    /\ p = "draw" => /\ s.platform => s.topTI \in {"platform", "none"}
                     /\ s.clipped = "not" => s.topTI \in {"none", "platform"}

LEMMA MovesWell ==
    ASSUME NEW s, Sound(s), Timely(s), NEW u \in CK_PhysUpdateNormalObj(s), NEW t \in CK_KeenRidePlatform(u)
    PROVE  /\ Sound(t) /\ Timely(t) /\ t.act = s.act
           /\ Whole(s) /\ "pole" \notin PlatformsPass => Whole(t) /\ Placed(t, "collide")
<1> DEFINE Ground == Grounds \cup {"platform"}
<1>1. PICK g \in Grounds :
        /\ u = [s EXCEPT !.topTI = g]
        /\ s.clipped = "not" => g = "none"
        /\ s.clipped # "not" /\ s.act \in Still /\ s.topTI \in Grounds \ {"none"} => g = s.topTI
  <2>1. "none" \in Grounds
    BY DEF Grounds
  <2> QED  BY <2>1 DEF CK_PhysUpdateNormalObj
<1>2. s \in Keens
  BY DEF Sound
<1>3. g \in Ground /\ "platform" \in Ground
  OBVIOUS
<1>4. \E gg \in Ground, p \in BOOLEAN :
        /\ t = [s EXCEPT !.topTI = gg, !.platform = p]
        /\ \/ gg = g /\ p = FALSE
           \/ gg = "platform" /\ p = TRUE /\ s.platform /\ ~Rises(u)
  <2>1. u \in Keens /\ u.platform = s.platform /\ s.platform \in BOOLEAN
    BY <1>1, <1>2, <1>3 DEF Keens
  <2>2. CASE ~u.platform
    <3>1. t = u /\ s.platform = FALSE
      BY <2>1, <2>2 DEF CK_KeenRidePlatform
    <3>2. t = [s EXCEPT !.topTI = g, !.platform = FALSE]
      BY <1>1, <1>2, <3>1 DEF Keens
    <3> QED  BY <1>3, <3>2
  <2>3. CASE u.platform /\ t = [u EXCEPT !.platform = FALSE]
    <3>1. t = [s EXCEPT !.topTI = g, !.platform = FALSE]
      BY <1>1, <1>2, <2>3 DEF Keens
    <3> QED  BY <1>3, <3>1
  <2>4. CASE u.platform /\ ~Rises(u) /\ t = [u EXCEPT !.topTI = "platform"]
    <3>1. t = [s EXCEPT !.topTI = "platform", !.platform = TRUE]
      BY <1>1, <1>2, <2>1, <2>4, ZenonT(60) DEF Keens
    <3> QED  BY <1>3, <2>1, <2>4, <3>1
  <2> QED  BY <2>2, <2>3, <2>4 DEF CK_KeenRidePlatform
<1> HIDE DEF Ground
<1>5. PICK gg \in Ground, p \in BOOLEAN :
        /\ t = [s EXCEPT !.topTI = gg, !.platform = p]
        /\ \/ gg = g /\ p = FALSE
           \/ gg = "platform" /\ p = TRUE /\ s.platform /\ ~Rises(u)
  BY <1>4
<1>6. t \in Keens /\ t.act = s.act /\ t.topTI = gg /\ t.platform = p /\ t.clipped = s.clipped
  BY <1>2, <1>5 DEF Keens, Ground
<1>7. /\ t.actionTimer = s.actionTimer /\ t.user1 = s.user1 /\ t.shots = s.shots /\ t.due = s.due
      /\ t.used = s.used /\ t.keenSliding = s.keenSliding
      /\ t.extraShot = s.extraShot /\ t.extraUse = s.extraUse
      /\ t.gems = s.gems /\ t.opened = s.opened /\ t.lostGems = s.lostGems
  BY <1>2, <1>5 DEF Keens
<1>8. Sound(t) /\ Timely(t)
  BY <1>6, <1>7 DEF Sound, Gated, Timely
<1>9. ASSUME Whole(s), "pole" \notin PlatformsPass
      PROVE  Whole(t) /\ Placed(t, "collide")
  <2>1. s.act \in ClipLess => Rises(u)
    <3>1. u.act = s.act
      BY <1>1, <1>2 DEF Keens
    <3> QED  BY <1>9, <3>1 DEF Rises, ClipLess
  <2>2. Placed(t, "collide")
    BY <1>1, <1>5, <1>6, <1>9, <2>1 DEF Placed, Whole
  <2>3. s.act = "keenPlaceGem" => ~t.platform /\ t.topTI = s.topTI
    <3> SUFFICES ASSUME s.act = "keenPlaceGem"
                 PROVE  ~t.platform /\ t.topTI = s.topTI
      OBVIOUS
    <3>1. s.act \in Still /\ s.act \notin ClipLess
      BY PlainActs DEF Still
    <3>2. s.topTI \in Grounds \ {"none"} /\ s.platform = FALSE
      BY <1>2, <1>9 DEF Whole, Keens
    <3> QED  BY <1>1, <1>5, <1>6, <1>9, <3>1, <3>2 DEF Whole
  <2> QED  BY <1>6, <1>7, <1>9, <2>2, <2>3 DEF Whole
<1> QED  BY <1>6, <1>8, <1>9

\* After something has touched him.
TouchedWell(s, t) ==
    /\ Sound(t) /\ Timely(t)
    /\ Whole(s) /\ Placed(s, "collide") =>
          /\ Whole(t) /\ Placed(t, "draw")
          /\ s.act \in DieActs => t.act \in DieActs

LEMMA KilledWell ==
    ASSUME NEW s, Sound(s), Timely(s)
    PROVE  TouchedWell(s, CK_KillKeen(s))
BY KillsWell DEF Kills, TouchedWell, Placed

\* He lands on a platform.
LEMMA PushedWell ==
    ASSUME NEW s, Sound(s), Timely(s), s.act \notin ClipLess \cup {"keenPlaceGem"}, NEW t \in CK_PhysPushY(s)
    PROVE  /\ Sound(t) /\ Timely(t) /\ t.act = s.act
           /\ Whole(s) => Whole(t) /\ Placed(t, "draw")
<1> DEFINE Ground == Grounds \cup {"platform"}
<1>1. PICK g \in {"platform", "none"} : t = [s EXCEPT !.platform = TRUE, !.topTI = g]
  BY DEF CK_PhysPushY
<1>2. g \in Ground
  BY DEF Grounds
<1>3. s \in Keens
  BY DEF Sound
<1>4. t \in Keens /\ t.act = s.act /\ t.topTI = g
  BY <1>1, <1>2, <1>3 DEF Keens
<1>5. /\ t.actionTimer = s.actionTimer /\ t.user1 = s.user1 /\ t.shots = s.shots /\ t.due = s.due
      /\ t.used = s.used /\ t.keenSliding = s.keenSliding
      /\ t.extraShot = s.extraShot /\ t.extraUse = s.extraUse
      /\ t.gems = s.gems /\ t.opened = s.opened /\ t.lostGems = s.lostGems /\ t.clipped = s.clipped
  BY <1>1, <1>3 DEF Keens
<1>6. Sound(t) /\ Timely(t)
  BY <1>4, <1>5 DEF Sound, Gated, Timely
<1> QED  BY <1>4, <1>5, <1>6 DEF Whole, Placed

\* Something that he picks up, or that ends the level.
LEMMA PicksUpWell ==
    ASSUME NEW s, Sound(s), Timely(s), start \in Starts,
           NEW t, \/ t = Ammo(s)
                  \/ \E e \in Ends : t = [s EXCEPT !.level = e]
    PROVE  TouchedWell(s, t)
<1>1. s \in Keens
  BY DEF Sound
<1>2. CASE t = Ammo(s)
  <2> DEFINE n == IF s.shots < start.shots THEN s.shots + 1 ELSE s.shots
  <2>1. start.shots \in Nat /\ s.shots \in 0 .. start.shots
    BY <1>1, KeenAssumption DEF Keens
  <2>2. n \in 0 .. start.shots /\ (s.shots = start.shots => n = start.shots)
    BY <2>1
  <2>3. t = [s EXCEPT !.shots = n]
    BY <1>2 DEF Ammo
  <2> HIDE DEF n
  <2>4. /\ t \in Keens /\ t.shots = n /\ t.act = s.act /\ t.actionTimer = s.actionTimer /\ t.user1 = s.user1
        /\ t.due = s.due /\ t.used = s.used /\ t.keenSliding = s.keenSliding
        /\ t.extraShot = s.extraShot /\ t.extraUse = s.extraUse
        /\ t.gems = s.gems /\ t.opened = s.opened /\ t.lostGems = s.lostGems
        /\ t.clipped = s.clipped /\ t.topTI = s.topTI /\ t.platform = s.platform
    BY <1>1, <2>2, <2>3 DEF Keens
  <2> QED  BY <2>2, <2>4 DEF TouchedWell, Sound, Gated, Timely, Whole, Placed
<1>3. ASSUME NEW e \in Ends, t = [s EXCEPT !.level = e]
      PROVE  TouchedWell(s, t)
  <2>1. t \in Keens /\ Alike(s, t)
    BY <1>1, <1>3 DEF Keens, Alike
  <2> QED  BY <2>1, AlikeWell DEF TouchedWell, Alike, Placed
<1> QED  BY <1>2, <1>3

LEMMA CollidesWell ==
    ASSUME NEW s, Sound(s), Timely(s), start \in Starts,
           NEW t \in Touched(s) \cup CK6_BloogguardSmash(s) \cup {CK_KillKeen(s)}
    PROVE  TouchedWell(s, t)
<1> DEFINE collide == Rows[s.act].collide
<1>1. Touches(s.act, Rows[s.act])
  BY RowsAre DEF RowOf, Sound, Keens
<1>2. {"LS_Foot", "LS_CouncilRescued"} \subseteq Ends
  BY DEF Ends
<1>3. ASSUME NEW u, u = Stunned(s), s.topTI # "none" \/ s.act \notin ClipLess
      PROVE  TouchedWell(s, u)
  <2>1. /\ Sound(u) /\ Timely(u) /\ u.act = "keenStunned0" /\ u.clipped = s.clipped
        /\ u.platform = s.platform /\ (s.clipped = "normal" => u.topTI = s.topTI)
        /\ Whole(s) /\ s.clipped = "normal" => Whole(u)
    BY <1>3, StunsWell
  <2>2. Whole(s) /\ Placed(s, "collide") => s.clipped = "normal" /\ s.act \notin DieActs
    BY <1>3 DEF Whole, Placed, Sound, Keens, ClipLess
  <2> QED  BY <2>1, <2>2 DEF TouchedWell, Placed
<1>4. CASE t = CK_KillKeen(s)
  BY <1>4, KilledWell
<1>5. CASE t \in CK6_BloogguardSmash(s)
  BY <1>3, <1>5 DEF CK6_BloogguardSmash
<1>6. CASE collide = "KeenColFunc" /\ t \in CK_KeenColFunc(s)
  <2>1. s.act \notin ClipLess \cup {"keenPlaceGem", "keenSlide"}
    BY <1>1, <1>6 DEF Touches
  <2>2. \/ t = Ammo(s)
        \/ t \in CK_PhysPushY(s)
        \/ t = [s EXCEPT !.level = "LS_Foot"]
        \/ t = [s EXCEPT !.level = "LS_CouncilRescued"]
        \/ t = Stunned(s)
    BY <1>6 DEF CK_KeenColFunc
  <2>3. CASE t \in CK_PhysPushY(s)
    <3>1. s.act \notin ClipLess \cup {"keenPlaceGem"}
      BY <2>1
    <3> QED  BY <2>3, <3>1, PushedWell DEF TouchedWell
  <2>4. CASE t = Stunned(s)
    BY <1>3, <2>1, <2>4
  <2> QED  BY <1>2, <2>2, <2>3, <2>4, PicksUpWell
<1>7. CASE collide = "KeenSpecialColFunc" /\ t \in CK_KeenSpecialColFunc(s)
  <2> DEFINE u == FallsFree(s)
  <2>1. s.act \notin DieActs \cup {"keenPlaceGem", "keenSlide"}
    BY <1>1, <1>7 DEF Touches
  <2>2. /\ Sound(u) /\ Timely(u) /\ u.act = "keenFall1" /\ u.clipped = "normal" /\ u.platform = s.platform
        /\ u.topTI = s.topTI /\ (Whole(s) => Whole(u))
    BY <2>1, FallsFreeWell
  <2>3. t \in CK_PhysPushY(u) \/ t = u \/ t = CK_KillKeen(s)
    BY <1>7 DEF CK_KeenSpecialColFunc
  <2> HIDE DEF u
  <2>4. CASE t = u
    BY <2>1, <2>2, <2>4 DEF TouchedWell, Placed
  <2>5. CASE t \in CK_PhysPushY(u)
    <3>1. u.act \notin ClipLess \cup {"keenPlaceGem"}
      BY <2>2, PlainActs DEF Plain
    <3>2. /\ Sound(t) /\ Timely(t) /\ t.act = u.act
          /\ Whole(u) => Whole(t) /\ Placed(t, "draw")
      BY <2>2, <2>5, <3>1, PushedWell
    <3> QED  BY <2>1, <2>2, <3>2 DEF TouchedWell
  <2> QED  BY <1>4, <2>3, <2>4, <2>5
<1>8. CASE collide = "KeenSwimCol" /\ t \in CK4_KeenSwimCol(s)
  <2>1. t = Ammo(s) \/ t = [s EXCEPT !.level = "LS_CouncilRescued"]
    BY <1>8 DEF CK4_KeenSwimCol
  <2> QED  BY <1>2, <2>1, PicksUpWell
<1>9. \/ collide = "KeenColFunc" /\ t \in CK_KeenColFunc(s)
      \/ collide = "KeenSpecialColFunc" /\ t \in CK_KeenSpecialColFunc(s)
      \/ collide = "KeenSwimCol" /\ t \in CK4_KeenSwimCol(s)
      \/ t \in CK6_BloogguardSmash(s)
      \/ t = CK_KillKeen(s)
  BY DEF Touched
<1> QED  BY <1>4, <1>5, <1>6, <1>7, <1>8, <1>9

(***************************************************************************)
(* The tiles around him, and his draw functions.                           *)
(***************************************************************************)
\* After the tiles have acted, and after he has been drawn.
TiledWell(s, t) ==
    /\ Sound(t) /\ Timely(t)
    /\ Whole(s) /\ Placed(s, "draw") /\ PlatformsPass = {} =>
          /\ Whole(t) /\ Placed(t, "draw")
          /\ s.act \in DieActs => t.act \in DieActs

DrawnWell(s, t) ==
    /\ Sound(t) /\ Timely(t)
    /\ Whole(s) /\ Placed(s, "draw") =>
          /\ Whole(t)
          /\ s.act \in DieActs => t.act \in DieActs

LEMMA KilledOnTile ==
    ASSUME NEW s, Sound(s), Timely(s)
    PROVE  TiledWell(s, CK_KillKeen(s)) /\ DrawnWell(s, CK_KillKeen(s))
BY KillsWell DEF Kills, TiledWell, DrawnWell, Placed

\* At a gem holder.
LEMMA HoldersWell ==
    ASSUME NEW s, Sound(s), Timely(s), start \in Starts, AtHolder(s),
           NEW t \in {[CK_SetAction2(s, "keenPlaceGem") EXCEPT !.gems = @ - 1],
                      [s EXCEPT !.user1 = "holder", !.act = "keenSlide"]}
    PROVE  TiledWell(s, t)
<1>1. /\ "keenPlaceGem" \in Acts /\ "keenSlide" \in Acts
      /\ {"keenSlide", "keenPlaceGem"} \cap (ClipLess \cup PogoActs \cup ShotActs \cup DieActs) = {}
  BY PlainActs DEF DieActs
<1>2. s \in Keens /\ start.gems \in Nat
  BY KeenAssumption DEF Sound
<1>3. s.act # "keenPlaceGem" /\ s.gems > 0 /\ s.topTI # "none"
  BY DEF AtHolder
<1>4. Whole(s) /\ Placed(s, "draw") /\ PlatformsPass = {} =>
        s.clipped = "normal" /\ ~s.platform /\ s.topTI \notin {"none", "platform"} /\ s.act \notin ClipLess \cup DieActs
  BY <1>2 DEF AtHolder, Whole, Placed, Keens, ClipLess
<1>5. CASE t = [CK_SetAction2(s, "keenPlaceGem") EXCEPT !.gems = @ - 1]
  <2> DEFINE v == CK_SetAction2(s, "keenPlaceGem")
             n == s.gems - 1
  <2>1. /\ v \in Keens /\ Unchanged(s, v) /\ v.act = "keenPlaceGem" /\ v.actionTimer = 0 /\ v.user1 = "nothing"
        /\ v.topTI = IF s.clipped = "not" /\ s.topTI # "platform" THEN "none" ELSE s.topTI
    BY <1>1, <1>2, SetsAction
  <2>2. n \in 0 .. start.gems
    BY <1>2, <1>3 DEF Keens
  <2>3. t = [v EXCEPT !.gems = n]
    BY <1>5, <2>1 DEF Unchanged
  <2> HIDE DEF v, n
  <2>4. /\ t \in Keens /\ t.gems = n /\ t.act = "keenPlaceGem" /\ t.actionTimer = 0 /\ t.user1 = "nothing"
        /\ t.topTI = v.topTI /\ t.clipped = s.clipped /\ t.platform = s.platform
        /\ t.opened = s.opened /\ t.lostGems = s.lostGems /\ t.shots = s.shots
        /\ t.used = s.used /\ t.keenSliding = s.keenSliding
        /\ t.extraShot = s.extraShot /\ t.extraUse = s.extraUse
    BY <2>1, <2>2, <2>3 DEF Keens, Unchanged
  <2>5. Sound(t)
    BY <1>1, <2>4 DEF Sound, Gated
  <2>6. Timely(t)
    <3>1. Rows["keenPlaceGem"].type # "each" => Rows["keenPlaceGem"].timer > 0
      BY <1>1, RowsAre DEF RowOf, Timed
    <3> QED  BY <2>4, <3>1 DEF Timely
  <2>7. ASSUME Whole(s), Placed(s, "draw"), PlatformsPass = {}
        PROVE  Whole(t) /\ Placed(t, "draw") /\ s.act \notin DieActs
    <3>1. s.clipped = "normal" /\ ~s.platform /\ s.topTI \notin {"none", "platform"} /\ s.act \notin ClipLess \cup DieActs
      BY <1>4, <2>7
    <3>2. s.gems \in Int /\ s.opened \in Int /\ s.lostGems \in Int /\ n = s.gems - 1
      BY <1>2 DEF Keens, n
    <3>3. s.gems + s.opened + s.lostGems = start.gems
      BY <1>3, <2>7, <3>2 DEF Whole
    <3>4. t.gems + t.opened + t.lostGems + 1 = start.gems
      BY <2>4, <3>2, <3>3
    <3>5. t.topTI = s.topTI /\ "keenPlaceGem" \notin ClipLess
      BY <1>1, <2>1, <2>4, <3>1
    <3>6. Placed(t, "draw")
      BY <2>4, <3>1 DEF Placed
    <3> QED  BY <2>4, <3>1, <3>4, <3>5, <3>6 DEF Whole
  <2> QED  BY <2>5, <2>6, <2>7 DEF TiledWell
<1>6. CASE t = [s EXCEPT !.user1 = "holder", !.act = "keenSlide"]
  <2>1. "holder" \in Places \cup {"holder", "door"}
    OBVIOUS
  <2>2. /\ t \in Keens /\ t.act = "keenSlide" /\ t.user1 = "holder" /\ t.actionTimer = s.actionTimer
    BY <1>1, <1>2, <1>6, <2>1, ZenonT(60) DEF Keens
  <2>3. /\ t.topTI = s.topTI /\ t.clipped = s.clipped /\ t.platform = s.platform
        /\ t.gems = s.gems /\ t.opened = s.opened /\ t.lostGems = s.lostGems /\ t.shots = s.shots
        /\ t.used = s.used /\ t.keenSliding = s.keenSliding
        /\ t.extraShot = s.extraShot /\ t.extraUse = s.extraUse
    BY <1>2, <1>6 DEF Keens
  <2>4. Sound(t)
    BY <1>1, <2>2, <2>3 DEF Sound, Gated
  <2>5. Timely(t)
    <3>1. Rows["keenSlide"].type = "each"
      BY DEF Rows, Acts, GroundActs, BusyActs, BusyRows, Row
    <3> QED  BY <2>2, <3>1 DEF Timely
  <2>6. ASSUME Whole(s), Placed(s, "draw"), PlatformsPass = {}
        PROVE  Whole(t) /\ Placed(t, "draw") /\ s.act \notin DieActs
    <3>1. s.clipped = "normal" /\ ~s.platform /\ s.topTI \notin {"none", "platform"} /\ s.act \notin ClipLess \cup DieActs
      BY <1>4, <2>6
    <3>2. "keenSlide" \notin ClipLess \cup {"keenPlaceGem"}
      BY <1>1
    <3>3. Placed(t, "draw")
      BY <2>3, <3>1 DEF Placed
    <3> QED  BY <1>3, <2>2, <2>3, <2>6, <3>1, <3>2, <3>3 DEF Whole
  <2> QED  BY <2>4, <2>5, <2>6 DEF TiledWell
<1> QED  BY <1>5, <1>6

LEMMA TilesWell ==
    ASSUME NEW s, Sound(s), Timely(s), start \in Starts, NEW t \in CK_KeenCheckSpecialTileInfo(s)
    PROVE  TiledWell(s, t)
<1>1. \/ t = s
      \/ t = CK_KillKeen(s)
      \/ /\ AtHolder(s)
         /\ t \in {[CK_SetAction2(s, "keenPlaceGem") EXCEPT !.gems = @ - 1],
                   [s EXCEPT !.user1 = "holder", !.act = "keenSlide"]}
  BY DEF CK_KeenCheckSpecialTileInfo
<1>2. CASE t = s
  BY <1>2 DEF TiledWell
<1> QED  BY <1>1, <1>2, KilledOnTile, HoldersWell

\* He begins an action that clips as he does, or another clipping comes with it.
LEMMA DrawsAction ==
    ASSUME NEW s, Sound(s), NEW c \in {"normal", "not"}, NEW a, Allows(s, a),
           Whole(s) /\ Placed(s, "draw") =>
              s.act \notin {"keenPlaceGem"} \cup DieActs /\ (c = "not" <=> a \in ClipLess),
           NEW t, t = CK_SetAction2([s EXCEPT !.clipped = c], a)
    PROVE  DrawnWell(s, t)
<1> DEFINE u == [s EXCEPT !.clipped = c]
<1>1. Sound(u) /\ u.clipped = c /\ u.due = s.due /\ (HandEmpty(s) => HandEmpty(u))
  BY ClipsWell
<1>2. Allows(u, a)
  BY <1>1 DEF Allows
<1> HIDE DEF u
<1>3. Sound(t) /\ Timely(t) /\ (HandEmpty(u) /\ (u.clipped = "not" <=> a \in ClipLess) => Whole(t))
  BY <1>1, <1>2, SetsActionWell DEF u
<1>4. Whole(s) /\ Placed(s, "draw") => HandEmpty(s)
  BY HandsFree
<1> QED  BY <1>1, <1>3, <1>4 DEF DrawnWell

\* The same with the clipping that he has.
LEMMA DrawsOnFoot ==
    ASSUME NEW s, Sound(s), s.act \notin ClipLess, Whole(s) /\ Placed(s, "draw") => s.act # "keenPlaceGem",
           NEW a, Allows(s, a), a \notin ClipLess, NEW t, t = CK_SetAction2(s, a)
    PROVE  DrawnWell(s, t)
<1>1. s \in Keens /\ s.clipped \in {"normal", "not"}
  BY DEF Sound, Keens
<1>2. s = [s EXCEPT !.clipped = s.clipped]
  BY <1>1 DEF Keens
<1>3. Whole(s) /\ Placed(s, "draw") =>
        s.act \notin {"keenPlaceGem"} \cup DieActs /\ (s.clipped = "not" <=> a \in ClipLess)
  BY DEF Whole, ClipLess
<1>4. t = CK_SetAction2([s EXCEPT !.clipped = s.clipped], a)
  BY <1>2
<1> QED  BY <1>1, <1>3, <1>4, DrawsAction

LEMMA DrawnTimer ==
    ASSUME NEW s, NEW u, DrawnWell(s, u), NEW j \in 0 .. JumpTime + 1, NEW t, t = [u EXCEPT !.jumpTimer = j]
    PROVE  DrawnWell(s, t)
<1>1. Sound(u)
  BY DEF DrawnWell
<1>2. /\ Sound(t) /\ (Timely(u) => Timely(t)) /\ (Whole(u) => Whole(t)) /\ t.act = u.act
  BY <1>1, JumpTimerWell
<1> QED  BY <1>2 DEF DrawnWell

LEMMA NoTime == \E j \in 0 .. JumpTime + 1 : j = 0
BY Constants

\* On the ground.
LEMMA GroundedWell ==
    ASSUME NEW s, Sound(s), Timely(s), s.act \notin ClipLess
    PROVE  DrawnWell(s, Grounded(s))
<1>1. "keenFall1" \in Plain
  BY PlainActs
<1>2. CASE s.topTI = "none"
  <2> DEFINE v == CK_SetAction2(s, "keenFall1")
  <2>1. Whole(s) => s.act # "keenPlaceGem"
    BY <1>2 DEF Whole
  <2>2. DrawnWell(s, v)
    BY <1>1, <2>1, DrawsOnFoot, PlainAllowed
  <2>3. PICK j \in 0 .. JumpTime + 1 : j = 0
    BY NoTime
  <2>4. Grounded(s) = [v EXCEPT !.jumpTimer = j]
    BY <1>2, <2>3 DEF Grounded
  <2> HIDE DEF v
  <2> QED  BY <2>2, <2>4, DrawnTimer
<1>3. CASE s.topTI = "deadly"
  BY <1>3, KilledOnTile DEF Grounded
<1>4. CASE s.topTI \notin {"none", "deadly"}
  BY <1>4 DEF Grounded, DrawnWell
<1> QED  BY <1>2, <1>3, <1>4

LEMMA RunDrawnWell ==
    ASSUME NEW s, Sound(s), Timely(s), s.act = "keenRun1", NEW t \in CK_KeenRunDrawFunc(s)
    PROVE  DrawnWell(s, t)
<1>1. {"keenRun1", "keenStanding"} \subseteq Plain
  BY PlainActs
<1>2. s.act \notin ClipLess \cup {"keenPlaceGem"} \cup DieActs
  BY <1>1 DEF Plain, ClipLess
<1>3. CASE t = Grounded(s)
  BY <1>2, <1>3, GroundedWell
<1>4. CASE t = [s EXCEPT !.actionTimer = 0, !.act = "keenStanding"]
  <2>1. OnFoot(s)
    BY <1>2 DEF OnFoot
  <2>2. Keeps(s, Does(s, "keenStanding")) /\ Does(s, "keenStanding").act = "keenStanding"
    BY <1>1, <2>1, BecomesPlain
  <2>3. PICK i \in 0 .. 1 : i = 0
    OBVIOUS
  <2> DEFINE u == Does(s, "keenStanding")
  <2>4. t = [u EXCEPT !.actionTimer = i]
    BY <1>4, <2>3 DEF Does
  <2> HIDE DEF u
  <2>5. Sound(t) /\ t.act = u.act /\ t.actionTimer = i /\ (Whole(u) => Whole(t))
    BY <2>2, <2>4, SetsTimer DEF Keeps, u
  <2>6. Timely(t)
    <3>1. "keenStanding" \in Acts
      BY <1>1 DEF Plain
    <3>2. Rows["keenStanding"].type # "each" => Rows["keenStanding"].timer > 0
      BY <3>1, RowsAre DEF RowOf, Timed
    <3> QED  BY <2>2, <2>3, <2>5, <3>2 DEF Timely, u
  <2> QED  BY <1>2, <2>2, <2>5, <2>6 DEF DrawnWell, Keeps, u
<1> QED  BY <1>3, <1>4 DEF CK_KeenRunDrawFunc

LEMMA HeadWell ==
    ASSUME NEW s, Sound(s), Timely(s), NEW t \in HitsHead(s)
    PROVE  DrawnWell(s, t)
<1>1. DrawnWell(s, s)
  BY DEF DrawnWell
<1>2. PICK j \in 0 .. JumpTime + 1 : j = 0
  BY NoTime
<1> QED  BY <1>1, <1>2, DrawnTimer DEF HitsHead

\* In the air.
LEMMA JumpDrawnWell ==
    ASSUME NEW s, Sound(s), Timely(s), s.act \in AirActs \ PogoActs, NEW t \in CK_KeenJumpDrawFunc(s)
    PROVE  DrawnWell(s, t)
<1>1. s.act \notin ClipLess \cup {"keenPlaceGem"} \cup DieActs
  BY DEF AirActs, ClipLess, PoleActs, LedgeActs, DieActs
<1>2. CASE t = CK_SetAction2(s, LandAct(s))
  <2>1. {"keenRun1", "keenStanding"} \subseteq Plain
    BY PlainActs
  <2>2. \/ LandAct(s) \in {"keenShoot1", "keenShootUp1"} /\ s.act \in ShotActs
        \/ LandAct(s) \in {"keenRun1", "keenStanding"}
    BY DEF LandAct, ShotActs
  <2>3. CASE LandAct(s) \in {"keenShoot1", "keenShootUp1"} /\ s.act \in ShotActs
    <3>1. "stunner" \in has /\ s.due
      BY <2>3 DEF Sound, Gated
    <3>2. Allows(s, LandAct(s)) /\ LandAct(s) \notin ClipLess
      <4>1. LandAct(s) \in ShotActs \cap Acts
        BY <2>3, PlainActs DEF ShotActs
      <4>2. LandAct(s) # "keenPoleShoot1"
        BY <2>3
      <4> QED  BY <3>1, <4>1, <4>2, PlainActs DEF Allows
    <3> QED  BY <1>1, <1>2, <3>2, DrawsOnFoot
  <2>4. CASE LandAct(s) \in {"keenRun1", "keenStanding"}
    BY <1>1, <1>2, <2>1, <2>4, PlainAllowed, DrawsOnFoot
  <2> QED  BY <2>2, <2>3, <2>4
<1>3. CASE t = CK_SetAction2([s EXCEPT !.clipped = "not"], "keenHang1")
  <2>1. "keenHang1" \in ClipLess /\ Allows(s, "keenHang1")
    BY PlainActs DEF ClipLess, LedgeActs, Allows, ShotActs
  <2> QED  BY <1>1, <1>3, <2>1, DrawsAction
<1>4. \/ t = CK_KillKeen(s) \/ t = s \/ t \in HitsHead(s)
      \/ t = CK_SetAction2(s, LandAct(s)) \/ t = CK_SetAction2([s EXCEPT !.clipped = "not"], "keenHang1")
  BY DEF CK_KeenJumpDrawFunc, HitsHead
<1>5. CASE t = s
  BY <1>5 DEF DrawnWell
<1> QED  BY <1>2, <1>3, <1>4, <1>5, KilledOnTile, HeadWell

LEMMA PogoDrawnWell ==
    ASSUME NEW s, Sound(s), Timely(s), s.act \in PogoActs, NEW t \in CK_KeenPogoDrawFunc(s)
    PROVE  DrawnWell(s, t)
<1>1. s.act \notin ClipLess \cup {"keenPlaceGem"}
  BY PlainActs DEF PogoActs
<1> DEFINE v == CK_SetAction2(s, "keenPogo2")
<1>2. CASE t = [v EXCEPT !.jumpTimer = JumpTime + 1]
  <2>1. "keenPogo2" \notin ClipLess /\ Allows(s, "keenPogo2")
    BY PlainActs DEF PogoActs, Sound, Gated, Allows
  <2>2. DrawnWell(s, v)
    BY <1>1, <2>1, DrawsOnFoot
  <2>3. JumpTime + 1 \in 0 .. JumpTime + 1
    BY Constants
  <2> HIDE DEF v
  <2> QED  BY <1>2, <2>2, <2>3, DrawnTimer
<1>3. CASE t = s
  BY <1>3 DEF DrawnWell
<1>4. \/ t = CK_KillKeen(s) \/ t = s \/ t \in HitsHead(s) \/ t = [v EXCEPT !.jumpTimer = JumpTime + 1]
  BY DEF CK_KeenPogoDrawFunc
<1> QED  BY <1>2, <1>3, <1>4, KilledOnTile, HeadWell

\* At the foot of a pole.
LEMMA PoleDrawnWell ==
    ASSUME NEW s, Sound(s), Timely(s), s.act = "keenPoleDown1", NEW t \in CK_KeenPoleDownDrawFunc(s)
    PROVE  DrawnWell(s, t)
<1>1. CASE t = s
  BY <1>1 DEF DrawnWell
<1>2. CASE t = CK_SetAction2([s EXCEPT !.clipped = "normal"], "keenLookDown1")
  <2>1. "keenLookDown1" \in Plain
    BY PlainActs
  <2>2. Allows(s, "keenLookDown1") /\ "keenLookDown1" \notin ClipLess
    BY <2>1, PlainAllowed
  <2>3. s.act \notin {"keenPlaceGem"} \cup DieActs
    BY DEF DieActs
  <2> QED  BY <1>2, <2>2, <2>3, DrawsAction
<1> QED  BY <1>1, <1>2 DEF CK_KeenPoleDownDrawFunc

LEMMA DrawsWell ==
    ASSUME NEW s, Sound(s), Timely(s), NEW t \in Drawn(s) \cup FallsOut(s)
    PROVE  DrawnWell(s, t)
<1> DEFINE draw == Rows[s.act].draw
<1>1. Draws(s.act, Rows[s.act])
  BY RowsAre DEF RowOf, Sound, Keens
<1>2. CASE t \in FallsOut(s)
  <2>1. t = [s EXCEPT !.level = "LS_Died"]
    BY <1>2 DEF FallsOut
  <2>2. t \in Keens /\ Alike(s, t)
    BY <2>1 DEF Sound, Keens, Alike, Ends
  <2> QED  BY <2>2, AlikeWell DEF DrawnWell, Alike
<1>3. CASE t = s
  BY <1>3 DEF DrawnWell
<1>4. CASE draw = "KeenDrawFunc" /\ t = Grounded(s)
  <2>1. s.act \notin ClipLess
    BY <1>1, <1>4 DEF Draws
  <2> QED  BY <1>4, <2>1, GroundedWell
<1>5. CASE draw = "KeenRunDrawFunc" /\ t \in CK_KeenRunDrawFunc(s)
  BY <1>1, <1>5, RunDrawnWell DEF Draws
<1>6. CASE draw = "KeenJumpDrawFunc" /\ t \in CK_KeenJumpDrawFunc(s)
  BY <1>1, <1>6, JumpDrawnWell DEF Draws
<1>7. CASE draw = "KeenPogoDrawFunc" /\ t \in CK_KeenPogoDrawFunc(s)
  BY <1>1, <1>7, PogoDrawnWell DEF Draws
<1>8. CASE draw = "KeenPoleDownDrawFunc" /\ t \in CK_KeenPoleDownDrawFunc(s)
  BY <1>1, <1>8, PoleDrawnWell DEF Draws
<1>9. \/ draw = "KeenDrawFunc" /\ t = Grounded(s)
      \/ draw = "KeenRunDrawFunc" /\ t \in CK_KeenRunDrawFunc(s)
      \/ draw = "KeenJumpDrawFunc" /\ t \in CK_KeenJumpDrawFunc(s)
      \/ draw = "KeenPogoDrawFunc" /\ t \in CK_KeenPogoDrawFunc(s)
      \/ draw = "KeenPoleDownDrawFunc" /\ t \in CK_KeenPoleDownDrawFunc(s)
      \/ t = s \/ t \in FallsOut(s)
  BY DEF Drawn, CK_KeenDrawFunc
<1> QED  BY <1>2, <1>3, <1>4, <1>5, <1>6, <1>7, <1>8, <1>9

LEMMA AgesWell ==
    ASSUME NEW s, Sound(s), Timely(s)
    PROVE  /\ Sound(Ages(s)) /\ Timely(Ages(s)) /\ (Whole(s) => Whole(Ages(s))) /\ Ages(s).act = s.act
<1> DEFINE n == IF s.invincible <= s.sync THEN 0 ELSE s.invincible - s.sync
           t == Ages(s)
<1>1. s \in Keens /\ s.invincible \in Nat /\ s.sync \in Nat
  BY DEF Sound, Keens
<1>2. n \in Nat
  BY <1>1
<1>3. t = [s EXCEPT !.invincible = n, !.x = "none", !.sync = 0]
  BY DEF Ages
<1> HIDE DEF n, t
<1>4. t \in Keens /\ Alike(s, t)
  BY <1>1, <1>2, <1>3 DEF Keens, Alike
<1> QED  BY <1>4, AlikeWell DEF Alike, t

(***************************************************************************)
(* The frame.                                                              *)
(***************************************************************************)
\* When the step of the play loop is over.
Framed ==
    /\ start \in Starts /\ phase \in Phases /\ ticsLeft \in 0 .. MaxSync
    /\ phase = "rest" => ticsLeft >= 1
    /\ Sound(k) /\ Timely(k)

\* Where no platform carries Keen past a pole, a ledge or a gem holder.
Kept == Whole(k) /\ Placed(k, phase)

\* What a step makes of Keen.
StepsWell(t) ==
    /\ Sound(t) /\ Timely(t)
    /\ Kept /\ PlatformsPass = {} =>
          /\ Whole(t) /\ Placed(t, phase')
          /\ k.act \in DieActs => t.act \in DieActs

LEMMA Starting ==
    ASSUME start \in Starts, NEW s \in {Start, [Start EXCEPT !.act = "KeenSwim0", !.topTI = "none"]}
    PROVE  Sound(s) /\ Timely(s) /\ Whole(s) /\ Placed(s, "input")
<1>1. start.gems \in Nat /\ start.shots \in Nat /\ start.card \in {0, 1}
  BY KeenAssumption
<1>2. {"keenStanding", "KeenSwim0"} \subseteq Plain
  BY PlainActs DEF SwimmingActs, SwimActs, DieActs
<1>3. 0 \in 0 .. 1 /\ 0 \in 0 .. JumpTime + 1 /\ 0 \in 0 .. 1 + MaxSync /\ MaxSync \in Nat
  BY Constants
<1>s. DOMAIN Start = {"act", "actionTimer", "clipped", "topTI", "user1", "platform", "jumpTimer", "keenSliding",
                       "isPressed", "wasPressed", "pogoTimer", "invincible", "gems", "card", "shots", "level",
                       "x", "y", "sync", "due", "used", "extraShot", "extraUse", "opened", "lostGems"}
  BY DEF Start
<1>4. /\ s.act \in {"keenStanding", "KeenSwim0"} /\ s.actionTimer = 0 /\ s.clipped = "normal"
      /\ s.topTI \in {"floor", "none"} /\ s.platform = FALSE /\ s.shots = start.shots
      /\ s.gems = start.gems /\ s.opened = 0 /\ s.lostGems = 0
      /\ s.used = FALSE /\ s.extraShot = FALSE /\ s.extraUse = FALSE
  <2>1. CASE s = Start
    BY <2>1 DEF Start
  <2>2. CASE s = [Start EXCEPT !.act = "KeenSwim0", !.topTI = "none"]
    BY <2>2, <1>s DEF Start
  <2> QED  BY <2>1, <2>2
<1>5. s \in Keens
  <2>1. Start \in Keens
    BY <1>1, <1>2, <1>3 DEF Start, Keens, Plain, Grounds, Places, Ends
  <2>2. "KeenSwim0" \in Acts /\ "none" \in Grounds \cup {"platform"}
    BY <1>2 DEF Plain, Grounds
  <2>3. CASE s = [Start EXCEPT !.act = "KeenSwim0", !.topTI = "none"]
    <3> DEFINE Ground == Grounds \cup {"platform"}
    <3>1. ASSUME NEW a \in Acts, NEW g \in Ground
          PROVE  [Start EXCEPT !.act = a, !.topTI = g] \in Keens
      BY <2>1 DEF Keens
    <3> HIDE DEF Ground
    <3> QED  BY <2>2, <2>3, <3>1 DEF Ground
  <2> QED  BY <2>1, <2>3
<1>6. s.act \in Plain
  BY <1>2, <1>4
<1>7. Sound(s)
  BY <1>4, <1>5, <1>6 DEF Sound, Gated, Plain
<1>8. Timely(s)
  BY <1>4, <1>6, RowsAre DEF Timely, RowOf, Timed, Plain
<1>9. Whole(s)
  BY <1>1, <1>4, <1>6 DEF Whole, Plain
<1> QED  BY <1>7, <1>8, <1>9 DEF Placed

LEMMA BeginsWell == Init => Framed /\ Kept
<1> SUFFICES ASSUME Init PROVE Framed /\ Kept
  OBVIOUS
<1>1. k \in {Start, [Start EXCEPT !.act = "KeenSwim0", !.topTI = "none"]} /\ start \in Starts
  BY DEF Init
<1>2. Sound(k) /\ Timely(k) /\ Whole(k) /\ Placed(k, "input")
  BY <1>1, Starting
<1> QED  BY <1>1, <1>2, Constants DEF Init, Framed, Kept, Phases

\* The thoughts of a frame.
LEMMA ThoughtWell ==
    ASSUME NEW s, Sound(s), Timely(s), start \in Starts, NEW time \in -1 .. MaxSync,
           Rows[s.act].type # "each" => time >= 0, s.act \in JumpShots => time >= 1,
           Thought(CK_ActionThink(s, time))
    PROVE  /\ Sound(k') /\ Timely(k') /\ (Whole(s) => Whole(k'))
           /\ s.act \in DieActs => k'.act \in DieActs
           /\ phase' \in {"rest", "move"} /\ ticsLeft' \in 0 .. MaxSync
           /\ phase' = "rest" => ticsLeft' >= 1
<1>1. PICK r \in CK_ActionThink(s, time) :
        /\ ticsLeft' = r.left
        /\ phase' = IF r.left > 0 THEN "rest" ELSE "move"
        /\ k' = IF r.left > 0 THEN r.keen
                ELSE [r.keen EXCEPT !.y = 0, !.x = IF @ = "none" THEN @ ELSE "ahead",
                                    !.isPressed = IF twoButton THEN @ ELSE {}]
  BY DEF Thought
<1>2. /\ Sound(r.keen) /\ Timely(r.keen) /\ r.left \in 0 .. MaxSync
      /\ Whole(s) => Whole(r.keen)
      /\ s.act \in DieActs => r.keen.act \in DieActs
  BY ActionThinks
<1>3. MaxSync \in Nat
  BY Constants
<1>4. CASE r.left > 0
  BY <1>1, <1>2, <1>3, <1>4
<1>5. CASE ~(r.left > 0)
  <2> DEFINE u == r.keen
             xx == IF u.x = "none" THEN u.x ELSE "ahead"
             pp == IF twoButton THEN u.isPressed ELSE {}
  <2>1. u \in Keens /\ xx \in {"none", "ahead", "back"} /\ pp \in SUBSET Buttons
    BY <1>2 DEF Sound, Keens
  <2>2. PICK yy \in {-1, 0, 1} : yy = 0
    OBVIOUS
  <2>3. k' = [u EXCEPT !.y = yy, !.x = xx, !.isPressed = pp]
    BY <1>1, <1>5, <2>2
  <2> HIDE DEF u, xx, pp
  <2>4. k' \in Keens /\ Alike(u, k')
    BY <2>1, <2>3 DEF Keens, Alike
  <2>5. Sound(u) /\ Timely(u)
    BY <1>2 DEF u
  <2>6. Sound(k') /\ Timely(k') /\ (Whole(u) => Whole(k')) /\ k'.act = u.act
    BY <2>4, <2>5, AlikeWell DEF Alike
  <2> QED  BY <1>1, <1>2, <1>3, <1>5, <2>6 DEF u
<1> QED  BY <1>4, <1>5

LEMMA StepFacts ==
    ASSUME Framed, Next
    PROVE  /\ start' = start /\ phase' \in Phases /\ ticsLeft' \in 0 .. MaxSync
           /\ phase' = "rest" => ticsLeft' >= 1
           /\ StepsWell(k')
<1>1. /\ start \in Starts /\ phase \in Phases /\ ticsLeft \in 0 .. MaxSync /\ Sound(k) /\ Timely(k)
      /\ phase = "rest" => ticsLeft >= 1
  BY DEF Framed
<1>2. CASE Think
  <2>1. PICK s \in Inputs(k) : Thought(CK_ActionThink(s, s.sync))
    BY <1>2 DEF Think
  <2>2. /\ Sound(s) /\ Timely(s) /\ (Whole(k) => Whole(s)) /\ s.sync \in 1 .. MaxSync
        /\ k.act \in DieActs => s.act \in DieActs
    BY <1>1, InputsWell
  <2>3. s.sync \in -1 .. MaxSync /\ s.sync >= 1 /\ s.sync >= 0
    BY <2>2, Constants
  <2>4. /\ Sound(k') /\ Timely(k') /\ (Whole(s) => Whole(k'))
        /\ s.act \in DieActs => k'.act \in DieActs
        /\ phase' \in {"rest", "move"} /\ ticsLeft' \in 0 .. MaxSync
        /\ phase' = "rest" => ticsLeft' >= 1
    BY <1>1, <2>1, <2>2, <2>3, ThoughtWell
  <2> QED  BY <1>2, <2>2, <2>4 DEF Think, StepsWell, Kept, Placed, Phases
<1>3. CASE ThinkOn
  <2> DEFINE time == IF k.act \in ProtectAnimation \/ Rows[k.act].timer > ticsLeft
                     THEN ticsLeft ELSE Rows[k.act].timer - 1
  <2>1. Timed(k.act, Rows[k.act])
    BY <1>1, RowsAre DEF RowOf, Sound, Keens
  <2>2. /\ Rows[k.act].timer \in 0 .. 2
        /\ Rows[k.act].type # "each" => Rows[k.act].timer > 0
    BY <2>1 DEF Timed
  <2>3. ticsLeft >= 1
    BY <1>1, <1>3 DEF ThinkOn
  <2>4. time \in -1 .. MaxSync /\ (Rows[k.act].type # "each" => time >= 0)
    <3>1. MaxSync \in Nat \ {0}
      BY Constants
    <3>2. CASE time = ticsLeft
      BY <1>1, <2>3, <3>1, <3>2
    <3>3. CASE time = Rows[k.act].timer - 1
      <4>1. Rows[k.act].timer \in {0, 1, 2}
        BY <2>2
      <4>2. time \in {-1, 0, 1} /\ (Rows[k.act].timer > 0 => time >= 0)
        <5> HIDE DEF time
        <5> QED  BY <3>3, <4>1
      <4> HIDE DEF time
      <4> QED  BY <2>2, <3>1, <4>2
    <3> QED  BY <3>2, <3>3
  <2>5. k.act \in JumpShots => time >= 1
    BY <2>3 DEF JumpShots, ProtectAnimation
  <2>6. Thought(CK_ActionThink(k, time))
    BY <1>3 DEF ThinkOn
  <2> HIDE DEF time
  <2>7. /\ Sound(k') /\ Timely(k') /\ (Whole(k) => Whole(k'))
        /\ k.act \in DieActs => k'.act \in DieActs
        /\ phase' \in {"rest", "move"} /\ ticsLeft' \in 0 .. MaxSync
        /\ phase' = "rest" => ticsLeft' >= 1
    BY <1>1, <2>4, <2>5, <2>6, ThoughtWell
  <2> QED  BY <1>3, <2>7 DEF ThinkOn, StepsWell, Kept, Placed, Phases
<1>4. CASE Move
  <2>1. PICK s \in CK_PhysUpdateNormalObj(k) : k' \in CK_KeenRidePlatform(s)
    BY <1>4 DEF Move
  <2>2. /\ Sound(k') /\ Timely(k') /\ k'.act = k.act
        /\ Whole(k) /\ "pole" \notin PlatformsPass => Whole(k') /\ Placed(k', "collide")
    BY <1>1, <2>1, MovesWell
  <2> QED  BY <1>1, <1>4, <2>2 DEF Move, StepsWell, Kept, Phases
<1>5. CASE Touch
  <2>1. k' \in Touched(k) \cup CK6_BloogguardSmash(k) \cup {CK_KillKeen(k)}
    BY <1>5 DEF Touch
  <2>2. TouchedWell(k, k')
    BY <1>1, <2>1, CollidesWell
  <2> QED  BY <1>1, <1>5, <2>2 DEF Touch, TouchedWell, StepsWell, Kept, Phases
<1>6. CASE NoTouch
  <2>1. Placed(k, "collide") => Placed(k, "draw")
    BY DEF Placed
  <2> QED  BY <1>1, <1>6, <2>1 DEF NoTouch, StepsWell, Kept, Phases
<1>7. CASE Draw
  <2>1. PICK t \in CK_KeenCheckSpecialTileInfo(k) : \E s \in Drawn(t) \cup FallsOut(t) : k' = Ages(s)
    BY <1>7 DEF Draw
  <2>2. PICK s \in Drawn(t) \cup FallsOut(t) : k' = Ages(s)
    BY <2>1
  <2>3. TiledWell(k, t)
    BY <1>1, TilesWell
  <2>4. Sound(t) /\ Timely(t)
    BY <2>3 DEF TiledWell
  <2>5. DrawnWell(t, s)
    BY <2>2, <2>4, DrawsWell
  <2>6. Sound(s) /\ Timely(s)
    BY <2>5 DEF DrawnWell
  <2>7. Sound(k') /\ Timely(k') /\ (Whole(s) => Whole(k')) /\ k'.act = s.act
    BY <2>2, <2>6, AgesWell
  <2> QED  BY <1>1, <1>7, <2>3, <2>5, <2>7 DEF Draw, TiledWell, DrawnWell, StepsWell, Kept, Placed, Phases
<1> QED  BY <1>2, <1>3, <1>4, <1>5, <1>6, <1>7 DEF Next

\* What holds of the next Keen in this state holds of Keen in the next.
LEMMA SameStart ==
    ASSUME start' = start
    PROVE  /\ Sound(k') => Sound(k)'
           /\ Whole(k') => Whole(k)'
BY DEF Sound, Keens, Gated, Whole, Grounds, Places, ep, has

LEMMA FramedStays == Framed /\ [Next]_vars => Framed'
<1> SUFFICES ASSUME Framed, [Next]_vars PROVE Framed'
  OBVIOUS
<1>1. CASE Next
  <2>1. /\ start' = start /\ phase' \in Phases /\ ticsLeft' \in 0 .. MaxSync
        /\ phase' = "rest" => ticsLeft' >= 1
        /\ Sound(k') /\ Timely(k')
    BY <1>1, StepFacts DEF StepsWell
  <2>2. Sound(k)'
    BY <2>1, SameStart
  <2>3. Timely(k)'
    BY <2>1 DEF Timely
  <2> QED  BY <2>1, <2>2, <2>3 DEF Framed, Phases
<1>2. CASE UNCHANGED vars
  BY <1>2 DEF vars, Framed, Sound, Keens, Gated, Timely, Grounds, Places, ep, has, Phases
<1> QED  BY <1>1, <1>2

LEMMA KeptStays == PlatformsPass = {} /\ Framed /\ Kept /\ [Next]_vars => Kept'
<1> SUFFICES ASSUME PlatformsPass = {}, Framed, Kept, [Next]_vars PROVE Kept'
  OBVIOUS
<1>1. CASE Next
  <2>1. start' = start /\ Whole(k') /\ Placed(k', phase')
    BY <1>1, StepFacts DEF StepsWell
  <2> QED  BY <2>1, SameStart DEF Kept, Placed
<1>2. CASE UNCHANGED vars
  BY <1>2 DEF vars, Kept, Whole, Placed
<1> QED  BY <1>1, <1>2

LEMMA AlwaysFramed == Spec => []Framed
BY BeginsWell, FramedStays, PTL DEF Spec

LEMMA AlwaysKept == ASSUME PlatformsPass = {} PROVE Spec => []Kept
<1>1. Framed /\ Kept /\ [Next]_vars => Kept'
  BY KeptStays
<1> QED  BY <1>1, BeginsWell, FramedStays, PTL DEF Spec

(***************************************************************************)
(* The theorems.                                                           *)
(***************************************************************************)
\* Keen's record stays what ck_keen.c can read, and without the AP items for the stunner
\* and the pogo stick he has neither shots nor bounces, whatever happens to him.
THEOREM KeenHasItsType == Spec => []KeenTypeOK
<1>1. ASSUME Framed PROVE KeenTypeOK
  <2>1. k \in Keens /\ Gated(k) /\ start.gems \in Nat /\ start.shots \in Nat
    BY <1>1, KeenAssumption DEF Framed, Sound
  <2>2. ItemsGateMoves
    BY <2>1 DEF ItemsGateMoves, Gated
  <2>3. /\ k.act \in Acts /\ k.actionTimer \in 0 .. 1 /\ k.clipped \in {"normal", "not"}
        /\ k.topTI \in Grounds \cup {"platform"} /\ k.user1 \in Places \cup {"holder", "door"}
        /\ k.jumpTimer \in 0 .. JumpTime + 1 /\ k.pogoTimer \in 0 .. 1 + MaxSync
        /\ k.isPressed \subseteq Buttons /\ k.wasPressed \subseteq Buttons
        /\ k.gems \in 0 .. start.gems /\ k.card \in {0, 1} /\ k.shots \in 0 .. start.shots
    BY <2>1 DEF Keens
  <2>4. k.actionTimer \in 0 .. 2
    BY <2>3
  <2> QED  BY <1>1, <2>2, <2>3, <2>4 DEF KeenTypeOK, Framed
<1> QED  BY <1>1, AlwaysFramed, PTL

\* One press of the fire button is at most one shot, and one press of up is for one switch
\* or door, however the frames fall.
THEOREM OneUseOfAPress == Spec => []PressesCountOnce
<1>1. Framed => PressesCountOnce
  BY DEF Framed, Sound, Gated, PressesCountOnce
<1> QED  BY <1>1, AlwaysFramed, PTL

\* Where no platform passes a pole, a ledge or a gem holder, Keen goes through walls on
\* poles, on ledges and when he dies, and at no other time.
THEOREM ClippingFollowsAction == ASSUME PlatformsPass = {} PROVE Spec => []ClippedAsActs
<1>1. Kept => ClippedAsActs
  BY DEF Kept, Whole, ClippedAsActs, ClipLess
<1> QED  BY <1>1, AlwaysKept, PTL

\* There, too, no gem is spent twice or for nothing.
THEOREM GemsAreAccounted == ASSUME PlatformsPass = {} PROVE Spec => []GemsAccounted
<1>1. Kept => GemsAccounted
  BY DEF Kept, Whole, GemsAccounted
<1> QED  BY <1>1, AlwaysKept, PTL

\* And there nothing that is still to come of the frame gives a dead Keen another action.
THEOREM TheDeadStayDead == ASSUME PlatformsPass = {} PROVE Spec => DeadStayDead
<1>1. Framed /\ Kept /\ [Next]_vars =>
        [k.act \in DieActs => k'.act \in DieActs \cup {"keenNot"}]_vars
  BY StepFacts DEF StepsWell
<1> QED  BY <1>1, AlwaysFramed, AlwaysKept, PTL DEF Spec, DeadStayDead

====
