---- MODULE WorldMap ----
(***************************************************************************)
(* Keen on the world map (ck_map.c, ck4_map.c, ck5_map.c and the objects   *)
(* of the map in ck6_obj1.c): he walks, swims, enters levels, and is taken *)
(* by the foot, the elevators, the teleporters, the rocket, the rope and   *)
(* the satellite, each of which takes over his action, clipping or type    *)
(* and has to give them back.                                              *)
(*                                                                         *)
(* The map is a strip of tiles of 16 units; the tiles and objects of one   *)
(* dimension are enough to be on a shore, in front of a cliff or at a      *)
(* stop. Walking and swimming are one think, six units, at a time.         *)
(***************************************************************************)
EXTENDS Integers, Sequences, FiniteSets, SequencesExt

CONSTANTS
    MapOf,          \* map -> its episode, the tile of a new game, the things found in its levels, and
                    \* the strip: a sequence of [kind, to, foot], from tile 1 on
    LockedLevels,   \* levels the multiworld has not sent
    Under,          \* kinds of tiles below flights
    WaitsAshore,    \* out of the water, the player may wait until Keen waves
    FlightTime,     \* frames a flight takes
    FlagSync        \* tics the flag's flight is advanced by, several frames at once

ASSUME WorldMapAssumption == FlightTime \in Nat \ {0} /\ FlagSync \in Nat \ {0}

VARIABLE wm

Strip(s) == MapOf[s.map].strip
TileAt(s, pos) == Strip(s)[pos \div 16]
Mid(s) == s.pos + 8
Near(s, tile) == s.pos - 16 * tile \in -15..15
Kinds == {"land", "wall", "fence", "level", "shoreE", "shoreW", "water", "teleporter", "elevator",
          "grabbiter", "rocket", "cliff", "station"}
TilesByKind ==
    [m \in DOMAIN MapOf |-> [k \in Kinds |-> {i \in DOMAIN MapOf[m].strip : MapOf[m].strip[i].kind = k}]]
TilesOf(s, kind) == TilesByKind[s.map][kind]
LevelsOf(s) == {Strip(s)[i].to : i \in TilesOf(s, "level")}

\* Directions as the input has them, 8 for none; the axis of the strip runs east and south.
Directions(ep) == IF ep = 4 THEN {2, 6, 8} ELSE {0, 4, 8}
Heading(dir) == CASE dir \in {2, 4} -> 1 [] dir \in {0, 6} -> -1 [] OTHER -> 0

Afoot == {"start", "wave", "wave4", "walk"}
Standing == [act |-> "start", clipped |-> TRUE, type |-> "player"]
Changed(s, t) == [f \in DOMAIN s |-> IF f \in DOMAIN t THEN t[f] ELSE s[f]]

\* The fences of a level that is done are gone.
Solid(s, pos) == LET t == TileAt(s, pos) IN t.kind = "wall" \/ (t.kind = "fence" /\ t.to \notin s.done)
Moved(s, by) ==
    LET to == s.pos + by
    IN  [s EXCEPT !.pos = IF by > 0 /\ Solid(s, to + 15) THEN 16 * ((to + 15) \div 16) - 16
                          ELSE IF by < 0 /\ Solid(s, to) THEN 16 * (to \div 16) + 16
                          ELSE to]

\* ck_nextX = -deltaPosX
PushedBack(s) == [s EXCEPT !.pos = s.last, !.heading = 0]

(***************************************************************************)
(* Thinks of map Keen.                                                     *)
(***************************************************************************)
\* The first level in reach, locked or not, ends the search.
CK_ScanForLevelEntry(s) ==
    LET near == SelectSeq(<<TileAt(s, s.pos), TileAt(s, s.pos + 15)>>, LAMBDA u : u.kind = "level")
    IN  IF near = <<>> \/ near[1].to \in LockedLevels THEN s
        ELSE [s EXCEPT !.mapPos = s.pos, !.level = near[1].to]

CK_MapKeenWalk(s, dir, press) ==
    LET free == [s EXCEPT !.heading = Heading(dir)]
        t == IF press THEN CK_ScanForLevelEntry(free) ELSE free
    IN  IF s.user3 > 0 THEN [s EXCEPT !.user3 = IF @ > 4 THEN @ - 4 ELSE 0]
        ELSE IF dir = 8 THEN [t EXCEPT !.act = "start"]
        ELSE [t EXCEPT !.user1 = dir]

CK_MapKeenStill(s, dir, press) ==
    LET t == IF dir = 8 THEN s ELSE CK_MapKeenWalk([s EXCEPT !.act = "walk"], dir, press)
    IN  IF press THEN CK_ScanForLevelEntry(t) ELSE t

CK4_MapKeenSwim(s, dir) ==
    IF s.user3 > 0 THEN [s EXCEPT !.user3 = IF @ > 6 THEN @ - 6 ELSE 0]
    ELSE [s EXCEPT !.heading = Heading(dir), !.user1 = IF dir = 8 THEN @ ELSE dir]

\* `left` is user1: what is flown past the time is taken back, so he lands on the spot.
CK4_MapKeenFoot(s) ==
    IF s.left > 1 THEN [s EXCEPT !.left = @ - 1]
    ELSE [Changed(s, Standing) EXCEPT !.left = 0, !.user1 = 6, !.user3 = 0, !.heading = 0,
                                      !.pos = 16 * s.bound]

\* Out of the elevator he walks down a tile from behind its door.
CK5_MapKeenElevator(s) ==
    IF s.left > 1 THEN [s EXCEPT !.left = @ - 1]
    ELSE [Changed(s, Standing) EXCEPT !.left = 0, !.user1 = 4, !.user3 = 0, !.heading = 0,
                                      !.pos = 16 * s.bound]

CK6_MapKeenThrowRope(s) == [s EXCEPT !.ropes = @ + 1, !.type = "player", !.act = "start"]

CK6_MapKeenClimb(s) ==
    IF s.user4 > 1 THEN [s EXCEPT !.user4 = @ - 1]
    ELSE [Changed(s, Standing) EXCEPT !.user4 = 0, !.pos = @ + 3 * s.heading]

(***************************************************************************)
(* What the tile below him does.                                           *)
(***************************************************************************)
CK_AnimateMapTeleporter(s, tile) ==
    {[s EXCEPT !.pos = 16 * tile.to + (3 * tics) \div 16, !.heading = 0, !.user1 = 4] : tics \in {90, 94}}

\* He comes out into the elevator, not below it.
ElevatorKeepsKeen(s, tile) ==
    [s EXCEPT !.act = "elevator", !.clipped = FALSE, !.left = FlightTime, !.bound = tile.to, !.user1 = 8]

CK5_AnimateMapElevator(s, tile) ==
    [s EXCEPT !.act = "elevator", !.clipped = FALSE, !.left = FlightTime, !.bound = tile.to + 1, !.user1 = 8]

\* The direction into the water, and for who swims out of it.
ShoreAlwaysIn(s, kind) == IF kind = "shoreE" THEN 2 ELSE 6
ShoreDirection(s, kind) == IF (kind = "shoreE") = (s.act # "swim") THEN 2 ELSE 6

Shore(s, kind) ==
    LET dir == ShoreDirection(s, kind)
    IN  IF ~s.wetsuit THEN PushedBack(s)
        ELSE [s EXCEPT !.user1 = dir, !.heading = Heading(dir), !.user3 = 18,
                       !.act = IF @ = "swim" THEN "start" ELSE "swim"]

MapMiscFlagsCheck(s) ==
    LET flies == s.left > 0 \/ s.act = "hang"
        below == IF flies THEN Under ELSE {TileAt(s, Mid(s))}
    IN  IF s.user3 > 0 THEN {s}
        ELSE UNION {CASE t.kind \in {"shoreE", "shoreW"} -> {Shore(s, t.kind)}
                      [] t.kind = "teleporter" -> CK_AnimateMapTeleporter(s, t)
                      [] t.kind = "elevator" -> {CK5_AnimateMapElevator(s, t)}
                      [] OTHER -> {s} : t \in below}

(***************************************************************************)
(* The objects of Keen 6's map. Objects are found by the kind of a tile.   *)
(***************************************************************************)
CK6_GrabbiterCol(s) ==
    IF s.fed \/ ~\E i \in TilesOf(s, "grabbiter") : Near(s, i) THEN s
    ELSE IF s.sandwich = 0 THEN PushedBack(s)
    ELSE [s EXCEPT !.sandwich = @ + 1, !.fed = TRUE]

RocketStop(s) == CHOOSE i \in TilesOf(s, "rocket") : Strip(s)[i].to = s.inRocket

CK6_RocketCol(s) ==
    IF TilesOf(s, "rocket") = {} \/ s.act = "rocket" \/ ~Near(s, RocketStop(s)) THEN s
    ELSE IF s.passcard = 0 THEN PushedBack(s)
    ELSE [s EXCEPT !.act = "rocket", !.clipped = FALSE, !.left = FlightTime, !.pos = 16 * RocketStop(s) + 16]

\* The rocket follows the arrows of the info plane to the other stop.
CK6_RocketFly(s) ==
    IF s.left > 1 THEN [s EXCEPT !.left = @ - 1]
    ELSE LET t == [Changed(s, Standing) EXCEPT !.left = 0, !.inRocket = 1 - @] IN [t EXCEPT !.pos = 16 * RocketStop(t) + 16]

\* A cliff is a line at its foot (`to` is 0) or at its top.
CliffLine(s, i) == IF Strip(s)[i].to = 0 THEN 16 * i ELSE 16 * i + 15
CK6_MapCliffCol(s) ==
    LET hit == {i \in TilesOf(s, "cliff") : CliffLine(s, i) - s.pos \in 0..15}
        up == \E i \in hit : Strip(s)[i].to = 0
        way == IF up THEN -1 ELSE 1
    IN  IF hit = {} \/ s.type # "player" THEN s
        ELSE CASE s.rope = 0 -> PushedBack(s)
               [] s.rope = 1 -> [s EXCEPT !.rope = 2, !.act = "throw", !.type = "friendly"]
               [] OTHER -> [s EXCEPT !.pos = @ + 4 * way, !.user4 = 6, !.heading = way,
                                     !.act = "climb", !.type = "friendly"]

\* The stations the satellite touches now are the low byte of its user3, those of the frame
\* before the high one; user4 is the station it was at last.
CK6_Satellite(s) ==
    LET low == s.sat.user3 % 256
        high == s.sat.user3 \div 256
    IN  {[s EXCEPT !.sat.user4 = IF low = 0 /\ high # 0 THEN high ELSE @,
                   !.sat.user3 = low * 256, !.sat.at = at]
         : at \in {s.sat.at, (s.sat.at + 1) % 4}}

\* Stations are at 1 and 3 of the satellite's round, named 1 and 2 in user1.
StationAt(at) == CASE at = 1 -> 1 [] at = 3 -> 2 [] OTHER -> 0
StationTile(s, n) == CHOOSE i \in TilesOf(s, "station") : Strip(s)[i].to = n

\* Keen is before the stations in the list of objects: he sees the frame before.
CK6_SatelliteCol(s) ==
    LET n == s.sat.user3 \div 256
        here == StationAt(s.sat.at)
        meets == \/ s.act = "hang"
                 \/ s.type = "player" /\ here # 0 /\ Near(s, StationTile(s, here))
        t == IF ~meets \/ n = 0 \/ s.sat.user4 = n THEN s
             ELSE LET u == [s EXCEPT !.sat.user4 = n]
                  IN  IF s.act = "hang" THEN [Changed(u, Standing) EXCEPT !.pos = 16 * StationTile(s, n)]
                      ELSE [u EXCEPT !.clipped = FALSE, !.act = "hang"]
    IN  IF here = 0 THEN t ELSE [t EXCEPT !.sat.user3 = 256 * (@ \div 256) + here]

(***************************************************************************)
(* Flags.                                                                  *)
(***************************************************************************)
NoFlag == [act |-> "none", user3 |-> 0, level |-> 0]

\* ck_flagPoints has thirty points; the flight of Keen 4 is clamped at tic 50, of Keen 6 at 58.
CK_MapFlagFall(s) ==
    LET t == IF s.flag.act = "falls" THEN [s EXCEPT !.flag.user3 = @ + FlagSync] ELSE s
        clamp == IF s.ep = 4 THEN 50 ELSE 58
    IN  IF t.flag.user3 > clamp THEN [t EXCEPT !.flag.user3 = clamp] ELSE t

\* Keen 6 changes the tile that the flag was thrown at, as a static variable has it.
CK_MapFlagLand(s) ==
    [s EXCEPT !.flags = @ \cup {s.flag.level}, !.flag = NoFlag,
              !.holders = IF s.ep = 6 THEN @ \cup {s.flagSpot} ELSE @]

(***************************************************************************)
(* The map is loaded: a new game, after a level, or over again.            *)
(***************************************************************************)
CK_SpawnMapKeen(s, foot) ==
    IF foot
    THEN [s EXCEPT !.act = "foot", !.clipped = FALSE, !.type = "player", !.user1 = 8, !.user3 = 0,
                   !.left = FlightTime, !.bound = TileAt(s, s.mapPos + 8).foot, !.pos = s.mapPos]
    ELSE [Changed(s, Standing) EXCEPT !.user1 = 6, !.user3 = 0, !.heading = 0, !.left = 0,
                                      !.pos = IF s.mapPos = 0 THEN 16 * MapOf[s.map].start ELSE s.mapPos]

\* Each level that is done has its flag, thrown if it is the one just finished.
CK_MapLevelMarkAsDone(s, last) ==
    LET throws == s.ep # 5 /\ last \in s.done
        standing == IF throws THEN s.done \ {last} ELSE s.done
    IN  [s EXCEPT !.flags = standing, !.holders = IF s.ep = 6 THEN standing ELSE {},
                  !.flag = IF throws THEN [act |-> "thrown", user3 |-> 0, level |-> last] ELSE NoFlag,
                  !.flagSpot = IF throws /\ s.ep = 6 THEN last ELSE @]

\* mapPos is not read again before the next level is entered.
SpawnMap(s, last, foot) ==
    [CK_SpawnMapKeen(CK_MapLevelMarkAsDone([s EXCEPT !.level = 0, !.user4 = 0, !.fed = s.sandwich = 2,
                                                    !.ropes = IF s.rope = 2 THEN 1 ELSE 0,
                                                    !.sat = [user3 |-> 0, user4 |-> 2, at |-> 0]], last), foot)
        EXCEPT !.mapPos = 0]

WmNew(map) ==
    SpawnMap([map |-> map, ep |-> MapOf[map].ep, pos |-> 0, last |-> 0, act |-> "start", clipped |-> TRUE, type |-> "player",
              heading |-> 0, user1 |-> 6, user3 |-> 0, user4 |-> 0,
              left |-> 0,           \* of a flight, in frames
              bound |-> 0,          \* the tile it goes to
              mapPos |-> 0, level |-> 0, done |-> {}, wetsuit |-> FALSE,
              sandwich |-> 0, rope |-> 0, passcard |-> 0, inRocket |-> 0,
              fed |-> FALSE, ropes |-> 0, sat |-> [user3 |-> 0, user4 |-> 2, at |-> 0],
              flags |-> {}, holders |-> {}, flag |-> NoFlag, flagSpot |-> 0], 0, FALSE)

WmInits == {WmNew(map) : map \in DOMAIN MapOf}

(***************************************************************************)
(* A frame of the play loop on the map.                                    *)
(***************************************************************************)
ThinkKeen(s, dir, press) ==
    CASE s.act \in {"start", "wave"} -> CK_MapKeenStill(s, dir, press)
      [] s.act \in {"wave4", "walk"} -> CK_MapKeenWalk(s, dir, press)
      [] s.act = "swim" -> CK4_MapKeenSwim(s, dir)
      [] s.act = "foot" -> CK4_MapKeenFoot(s)
      [] s.act = "elevator" -> CK5_MapKeenElevator(s)
      [] s.act = "rocket" -> CK6_RocketFly(s)
      [] s.act = "throw" -> CK6_MapKeenThrowRope(s)
      [] s.act = "climb" -> CK6_MapKeenClimb(s)
      [] OTHER -> s

MovesKeen(s) ==
    CASE s.act \in {"walk", "swim"} -> Moved(s, 6 * s.heading)
      [] s.act = "climb" -> [s EXCEPT !.pos = @ + 8 * s.heading]    \* both actions of the climb
      [] OTHER -> s

MapCollisions(s) == CK6_SatelliteCol(CK6_MapCliffCol(CK6_RocketCol(CK6_GrabbiterCol(s))))

MapFrame ==
    /\ wm.level = 0
    /\ \E dir \in Directions(wm.ep), press \in BOOLEAN :
         LET s == ThinkKeen(MovesKeen([wm EXCEPT !.last = wm.pos]), dir, press)
             moved == IF TilesOf(s, "station") # {} THEN CK6_Satellite(s) ELSE {s}
             ends == UNION {MapMiscFlagsCheck(CK_MapFlagFall(MapCollisions(t))) : t \in moved}
         IN  wm' \in {[t EXCEPT !.last = 0] : t \in ends}

\* Standing for long he yawns and waves.
Waves ==
    /\ wm.level = 0 /\ wm.act \in {"start", "wave", "wave4"} /\ (wm.user3 = 0 \/ WaitsAshore)
    /\ wm' = [wm EXCEPT !.act = CASE @ = "start" -> "wave" [] @ = "wave" -> "wave4" [] OTHER -> "start"]

CK_MapFlagThrown == wm.level = 0 /\ wm.flag.act = "thrown" /\ wm' = [wm EXCEPT !.flag.act = "falls"]
FlagLands ==
    /\ wm.level = 0 /\ wm.flag.act = "falls" /\ wm.flag.user3 >= (IF wm.ep = 4 THEN 50 ELSE 58)
    /\ wm' = CK_MapFlagLand(wm)

ReceivesWetsuit == wm.ep = 4 /\ ~wm.wetsuit /\ wm' = [wm EXCEPT !.wetsuit = TRUE]

\* Back from the level: done, dead or left, with the foot, or with one of the things of Keen 6.
LevelLeft == wm.level # 0 /\ wm' = SpawnMap(wm, 0, FALSE)
LevelDone ==
    /\ wm.level # 0
    /\ LET done == [wm EXCEPT !.done = @ \cup {wm.level}]
       IN  \/ wm' = SpawnMap(done, wm.level, FALSE)
           \/ wm.level \notin wm.done
              /\ \E thing \in MapOf[wm.map].things : wm' = SpawnMap([done EXCEPT ![thing] = 1], wm.level, FALSE)
LevelFoot ==
    /\ wm.level # 0 /\ TileAt(wm, wm.mapPos + 8).foot # 0
    /\ wm' = SpawnMap([wm EXCEPT !.done = @ \cup {wm.level}], wm.level, TRUE)

\* Ctrl+R on the map: to the tile of a new game.
AbortOnMap == wm.level = 0 /\ wm' = SpawnMap([wm EXCEPT !.mapPos = 0], 0, FALSE)

\* The game is saved, the program left, and the game loaded: static variables are lost.
Relaunched == wm.level = 0 /\ wm.flagSpot # 0 /\ wm' = [wm EXCEPT !.flagSpot = 0]

WmNext ==
    \/ MapFrame \/ Waves \/ CK_MapFlagThrown \/ FlagLands \/ ReceivesWetsuit
    \/ LevelLeft \/ LevelDone \/ LevelFoot \/ AbortOnMap \/ Relaunched

WmSpec == wm \in WmInits /\ [][WmNext]_wm

(***************************************************************************)
(* Properties                                                              *)
(***************************************************************************)
\* Each ride gives back what it has taken from Keen.
GivenBack ==
    /\ wm.clipped <=> wm.act \in Afoot \cup {"swim", "throw", "climb"}
    /\ wm.type = "friendly" <=> wm.act \in {"throw", "climb"}
    /\ wm.left > 0 <=> wm.act \in {"foot", "elevator", "rocket"}
    /\ wm.act \in Afoot \cup {"swim"} => wm.user1 \in 0..7

\* Who swims is on the water, and who walks is not; on a shore he is on his way across it.
SwimsInWater ==
    LET below == TileAt(wm, Mid(wm)).kind
    IN  wm.level = 0 =>
          /\ wm.act = "swim" => below \in {"water", "shoreE", "shoreW"} /\ wm.wetsuit
          /\ wm.act \in Afoot => below # "water"
          /\ below \in {"shoreE", "shoreW"} => wm.user3 > 0

\* The time he swims or walks by himself takes him over the shore, and the teleporter off
\* its tile.
LeavesTile ==
    /\ wm.act \in {"swim", "walk"} /\ wm.user3 > 0 =>
         LET in == Mid(wm) % 16
             left == IF TileAt(wm, Mid(wm)).kind \notin {"shoreE", "shoreW"} THEN 0
                     ELSE IF wm.heading = 1 THEN 16 - in ELSE in + 1
         IN  left <= 6 * (IF wm.act = "swim" THEN (wm.user3 + 5) \div 6 ELSE (wm.user3 + 3) \div 4)
    /\ wm.act \in Afoot /\ wm.level = 0 => TileAt(wm, Mid(wm)).kind \notin {"teleporter", "elevator"}

\* Only levels that were sent are entered.
EntersOpen == wm.level # 0 => wm.level \in LevelsOf(wm) \ LockedLevels

\* A level that is done has one flag, standing or in the air, whose flight stays in its table.
OneFlagEach ==
    /\ wm.level = 0 => wm.flags = wm.done \ (IF wm.flag.act = "none" THEN {} ELSE {wm.flag.level})
    /\ wm.flag.user3 \div 2 <= 29

\* The satellite carries Keen away from the station where he took it; the rope is there once.
ThingsOfKeen6 ==
    /\ wm.act = "hang" => wm.sat.at \in (IF wm.sat.user4 = 1 THEN {1, 2, 3} ELSE {3, 0, 1})
    /\ wm.ropes = (IF wm.rope = 2 /\ wm.act # "throw" THEN 1 ELSE 0)
    /\ wm.sandwich \in 0..2 /\ (wm.level = 0 => (wm.fed <=> wm.sandwich = 2))

\* Whatever took Keen across the map in whatever order, he is left whole, where the ride goes
\* and where it does not start over, and the map shows what is done (ck_map.c 286-740,
\* ck4_map.c 37-149, ck5_map.c 39-344, ck6_obj1.c 42-502).
WorldMapSound == GivenBack /\ SwimsInWater /\ LeavesTile /\ EntersOpen /\ OneFlagEach /\ ThingsOfKeen6

\* A ride that ends leaves Keen afoot, not on what would take him at once again, and the
\* satellite leaves him at the other station (ck5_map.c 179, ck6_obj1.c 250, 339, 476).
RidesEnd ==
    [][/\ wm.left = 1 /\ wm'.left # 1 => wm'.act \in Afoot
       /\ wm.act = "climb" /\ wm.user4 = 1 /\ wm'.user4 # 1 => wm'.act \in Afoot
       /\ wm.act = "hang" /\ wm'.act \in Afoot => wm'.sat.user4 # wm.sat.user4 \/ wm'.pos = 16 * MapOf[wm.map].start]_wm

\* Not so for a game saved while the flag is in the air and loaded by another process: Keen 6
\* then changes the tile at (0, 0) (ck_map.c 604, 730).
FlagsInHolders == wm.ep = 6 /\ wm.level = 0 => wm.holders = wm.flags

\* Nor for Keen out of the water who waits on its shore: waving runs the time down that keeps
\* him from falling in again (ck_map.c 411).
StaysAshore == [][wm.act \in {"start", "wave", "wave4"} => wm'.act # "swim"]_wm
====
