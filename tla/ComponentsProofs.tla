---- MODULE ComponentsProofs ----
(***************************************************************************)
(* Proofs about two of the components that MCComponents runs side by side: *)
(* TileItems in the first part, ObjList in the second.                     *)
(***************************************************************************)
EXTENDS TileItems, ObjList, Induction, FiniteSetTheorems, SequenceTheorems

(***************************************************************************)
(* Proofs about TileItems for all maps, levels and sizes of the tables     *)
(* that fit the strides: the location of an item does not depend on what   *)
(* was loaded before, no two items share one, and none is missed while     *)
(* the tables have room.                                                   *)
(*                                                                         *)
(* The scans are recursive functions.  What they compute is shown by       *)
(* induction over the items scanned, which rests on the least element of   *)
(* a set of naturals.                                                      *)
(***************************************************************************)

(***************************************************************************)
(* The numbering of locations, for every level and instance and not only   *)
(* for the ones a run enumerates.                                          *)
(***************************************************************************)
\* Levels are numbered below twenty: the pointsanity episode stride leaves
\* room for twenty level strides, and so does the common one.
LevelRange    == 0..19
InstanceRange == 0..(PointLevelStride - 1)

\* The decoding of ap_defs.h:51-55 undoes LOC_POINTSANITY for every class,
\* episode, level and instance the hook of ap_hooks.c lets through.
THEOREM PointsanityDecodes ==
    ASSUME NEW cls \in PointClasses, NEW ep \in Episodes,
           NEW lvl \in LevelRange, NEW inst \in InstanceRange
    PROVE  LET loc == LOC_POINTSANITY(cls, ep, lvl, inst) IN
           /\ DecodeClass(loc) = cls
           /\ DecodeEpisode(loc) = ep
           /\ DecodeLevel(loc) = lvl
           /\ DecodeInstance(loc) = inst
<1> DEFINE off == cls * 100000 + ep * 20000 + lvl * 1000 + inst
<1>1. /\ cls \in 0..5 /\ ep \in 1..2 /\ lvl \in 0..19 /\ inst \in 0..999
  BY DEF PointClasses, Episodes, EP_CK4, EP_CK5, LevelRange, InstanceRange, PointLevelStride
<1>2. LOC_POINTSANITY(cls, ep, lvl, inst) - PointsanityBase = off
  BY <1>1 DEF LOC_POINTSANITY, PointsanityBase, PointClassStride, PointEpisodeStride, PointLevelStride
<1>3. off \div 100000 = cls
  BY <1>1
<1>4. off % 100000 = ep * 20000 + lvl * 1000 + inst
  BY <1>1
<1>5. (ep * 20000 + lvl * 1000 + inst) \div 20000 = ep
  BY <1>1
<1>6. off % 20000 = lvl * 1000 + inst
  BY <1>1
<1>7. (lvl * 1000 + inst) \div 1000 = lvl
  BY <1>1
<1>8. off % 1000 = inst
  BY <1>1
<1> HIDE DEF off
<1> QED
  BY <1>2, <1>3, <1>4, <1>5, <1>6, <1>7, <1>8
  DEF DecodeClass, DecodeEpisode, DecodeLevel, DecodeInstance,
      PointClassStride, PointEpisodeStride, PointLevelStride

\* Below the pointsanity range an address determines its base, episode, level
\* and index, so two hooks of ap_hooks.c never emit one location for different
\* things: a base is a multiple of ten thousand, and episodes, levels and
\* indices below the strides stay within it.
Bases == {LevelCompleteBase, KeygemBase, KeycardBase, KegBase, FlaskBase}
IndexRange == 0..(LevelStride - 1)

THEOREM AddressesAreUnique ==
    ASSUME NEW b1 \in Bases, NEW ep1 \in Episodes, NEW lvl1 \in LevelRange, NEW i1 \in IndexRange,
           NEW b2 \in Bases, NEW ep2 \in Episodes, NEW lvl2 \in LevelRange, NEW i2 \in IndexRange,
           LocAt(b1, ep1, lvl1) + i1 = LocAt(b2, ep2, lvl2) + i2
    PROVE  b1 = b2 /\ ep1 = ep2 /\ lvl1 = lvl2 /\ i1 = i2
<1> USE DEF Bases, Episodes, EP_CK4, EP_CK5, LevelRange, IndexRange, LevelStride,
            LevelCompleteBase, KeygemBase, KeycardBase, KegBase, FlaskBase
<1>1. /\ b1 \in {10000, 20000, 30000, 50000, 60000} /\ ep1 \in 1..2
      /\ lvl1 \in 0..19 /\ i1 \in 0..99
  OBVIOUS
<1>2. /\ b2 \in {10000, 20000, 30000, 50000, 60000} /\ ep2 \in 1..2
      /\ lvl2 \in 0..19 /\ i2 \in 0..99
  OBVIOUS
<1>3. b1 + ep1 * 2000 + lvl1 * 100 + i1 = b2 + ep2 * 2000 + lvl2 * 100 + i2
  BY DEF LocAt, EpisodeStride
<1>4. b1 = b2
  BY <1>1, <1>2, <1>3
<1>5. ep1 = ep2
  BY <1>1, <1>2, <1>3, <1>4
<1>6. lvl1 = lvl2
  BY <1>1, <1>2, <1>3, <1>4, <1>5
<1> QED
  BY <1>1, <1>2, <1>3, <1>4, <1>5, <1>6

\* Pointsanity locations lie above all the others.
THEOREM PointsanityApart ==
    ASSUME NEW b \in Bases, NEW ep \in Episodes, NEW lvl \in LevelRange, NEW i \in IndexRange,
           NEW cls \in PointClasses, NEW ep2 \in Episodes, NEW lvl2 \in LevelRange,
           NEW inst \in InstanceRange
    PROVE  LocAt(b, ep, lvl) + i < LOC_POINTSANITY(cls, ep2, lvl2, inst)
<1>1. LocAt(b, ep, lvl) + i < PointsanityBase
  BY DEF Bases, Episodes, EP_CK4, EP_CK5, LevelRange, IndexRange, LevelStride, EpisodeStride,
         LevelCompleteBase, KeygemBase, KeycardBase, KegBase, FlaskBase, LocAt, PointsanityBase
<1>2. LocAt(b, ep, lvl) + i \in Int
  BY DEF Bases, Episodes, EP_CK4, EP_CK5, LevelRange, IndexRange, LevelStride, EpisodeStride,
         LevelCompleteBase, KeygemBase, KeycardBase, KegBase, FlaskBase, LocAt
<1>3. /\ LOC_POINTSANITY(cls, ep2, lvl2, inst) \in Int
      /\ PointsanityBase <= LOC_POINTSANITY(cls, ep2, lvl2, inst)
  BY DEF LOC_POINTSANITY, PointClasses, Episodes, EP_CK4, EP_CK5, LevelRange, InstanceRange,
         PointsanityBase, PointClassStride, PointEpisodeStride, PointLevelStride
<1> QED
  BY <1>1, <1>2, <1>3 DEF PointsanityBase

(***************************************************************************)
(* Tables.                                                                 *)
(***************************************************************************)
Placings == UNION {PlacesOf(l) : l \in Levels}
Its == {p[2] : p \in Placings}
Positions == {it.pos : it \in Its}
Life == [pos : Positions, index : Nat]
Point == [pos : Positions, cls : PointClasses, index : Nat]
Tables == [lives : Seq(Life), nLives : Nat, points : Seq(Point), nPoints : [PointClasses -> Nat]]

\* What the planes of a level are.
LEMMA PlaneItems ==
    ASSUME NEW l \in Levels, NEW plane \in {InfoPlane, ForePlane}
    PROVE  /\ Len(plane[l]) \in Nat /\ DOMAIN plane[l] = 1..Len(plane[l])
           /\ \A k \in 1..Len(plane[l]) :
                /\ plane[l][k] \in Its /\ plane[l][k].item \in Items
                /\ \A j \in 1..Len(plane[l]) : plane[l][j] = plane[l][k] => j = k
<1>1. /\ plane[l] \in Seq(Placed(plane, l))
      /\ \A it \in Placed(plane, l) : it.item \in Items
      /\ \A j, k \in DOMAIN plane[l] : plane[l][j] = plane[l][k] => j = k
  BY MapsAreSane
<1>2. Len(plane[l]) \in Nat /\ DOMAIN plane[l] = 1..Len(plane[l])
  BY <1>1, LenProperties
<1>3. ASSUME NEW k \in 1..Len(plane[l])
      PROVE  plane[l][k] \in Its /\ plane[l][k].item \in Items
  <2>1. plane[l][k] \in Placed(plane, l)
    BY <1>2 DEF Placed
  <2>2. <<"info", plane[l][k]>> \in PlacesOf(l) \/ <<"fore", plane[l][k]>> \in PlacesOf(l)
    BY <2>1 DEF PlacesOf
  <2>3. \A p \in PlacesOf(l) : p[2] \in Its
    BY DEF Its, Placings
  <2> QED  BY <1>1, <2>1, <2>2, <2>3
<1> QED  BY <1>1, <1>2, <1>3

\* Adding an item to a table gives a table.
LEMMA LivesAreTables ==
    ASSUME NEW t \in Tables, NEW it \in Its
    PROVE  AddExtraLife(t, it) \in Tables
<1> DEFINE e == [pos |-> it.pos, index |-> t.nLives]
<1>1. t.lives \in Seq(Life) /\ t.nLives \in Nat /\ t.nLives + 1 \in Nat
  BY DEF Tables
<1>2. e \in Life
  BY <1>1 DEF Life, Positions
<1>3. AddExtraLife(t, it) =
        [t EXCEPT !.nLives = t.nLives + 1,
                  !.lives = IF Len(t.lives) < EXTRALIFE_MAX THEN Append(t.lives, e) ELSE t.lives]
  BY Zenon DEF AddExtraLife
<1> HIDE DEF e
<1>4. (IF Len(t.lives) < EXTRALIFE_MAX THEN Append(t.lives, e) ELSE t.lives) \in Seq(Life)
  BY <1>1, <1>2, AppendProperties
<1> QED  BY <1>1, <1>3, <1>4 DEF Tables

LEMMA PointsAreTables ==
    ASSUME NEW t \in Tables, NEW it \in Its, IsPoint(it.item)
    PROVE  AddPointItem(t, it) \in Tables /\ ClassOf(it.item) \in PointClasses
<1> DEFINE c == ClassOf(it.item)
<1>1. t.points \in Seq(Point) /\ t.nPoints \in [PointClasses -> Nat] /\ c \in PointClasses
  BY DEF Tables, IsPoint, ClassOf, PointClasses
<1>2. [pos |-> it.pos, cls |-> c, index |-> t.nPoints[c]] \in Point
  BY <1>1 DEF Point, Positions
<1>3. Append(t.points, [pos |-> it.pos, cls |-> c, index |-> t.nPoints[c]]) \in Seq(Point)
  BY <1>1, <1>2, AppendProperties
<1>4. [t.nPoints EXCEPT ![c] = t.nPoints[c] + 1] \in [PointClasses -> Nat]
  BY <1>1
<1> HIDE DEF c
<1>5. AddPointItem(t, it) =
        [t EXCEPT !.nPoints = [t.nPoints EXCEPT ![c] = t.nPoints[c] + 1],
                  !.points = IF Len(t.points) < POINTITEM_MAX
                             THEN Append(t.points, [pos |-> it.pos, cls |-> c, index |-> t.nPoints[c]])
                             ELSE t.points]
  BY Zenon DEF AddPointItem, c
<1> QED  BY <1>1, <1>3, <1>4, <1>5 DEF Tables, c

LEMMA AddsAreTables ==
    ASSUME NEW t \in Tables, NEW it \in Its
    PROVE  /\ CK_SpawnItem(t, it) \in Tables
           /\ TileExtraLife(t, it) \in Tables
           /\ TilePointItem(t, it) \in Tables
BY LivesAreTables, PointsAreTables DEF CK_SpawnItem, TileExtraLife, TilePointItem

(***************************************************************************)
(* The scans.  What holds of a table before a scan and is kept by each     *)
(* item holds of the table after it; J relates the number of items that    *)
(* were looked at to the table.                                            *)
(***************************************************************************)
\* The objects of the info plane.
LEMMA InfoScan ==
    ASSUME NEW l \in Levels, NEW t \in Tables, NEW J, <<0, t>> \in J,
           \A k \in 1..Len(InfoPlane[l]), x \in Tables :
             <<k - 1, x>> \in J => <<k, CK_SpawnItem(x, InfoPlane[l][k])>> \in J
    PROVE  /\ scanInfoLayer(t, l) \in Tables
           /\ <<Len(InfoPlane[l]), scanInfoLayer(t, l)>> \in J
<1> DEFINE n == Len(InfoPlane[l])
           g == [x \in Tables \X (1..n) |-> CK_SpawnItem(x[1], InfoPlane[l][x[2]])]
           after == CHOOSE f : f = [k \in 0..n |-> IF k = 0 THEN t ELSE CK_SpawnItem(f[k - 1], InfoPlane[l][k])]
<1>1. /\ n \in Nat /\ \A k \in 1..n : InfoPlane[l][k] \in Its
  BY PlaneItems
<1>2. StepsIn(g, n, Tables)
  <2>1. ASSUME NEW x \in Tables \X (1..n) PROVE CK_SpawnItem(x[1], InfoPlane[l][x[2]]) \in Tables
    BY <1>1, AddsAreTables
  <2> QED  BY <2>1 DEF StepsIn
<1>3. \A x \in Tables, k \in 1..n : g[<<x, k>>] = CK_SpawnItem(x, InfoPlane[l][k])
  OBVIOUS
<1> HIDE DEF g, n
<1>4. PICK f \in [0..n -> Tables] : Follows(f, n, t, g)
  BY <1>1, <1>2, RecursionUpTo
<1>5. \A k \in 1..n : k - 1 \in 0..n /\ f[k - 1] \in Tables
  BY <1>1
<1>6. \A k \in 1..n : f[k] = CK_SpawnItem(f[k - 1], InfoPlane[l][k])
  BY <1>3, <1>4, <1>5 DEF Follows
<1>7. f = [k \in 0..n |-> IF k = 0 THEN t ELSE CK_SpawnItem(f[k - 1], InfoPlane[l][k])]
  <2>1. \A k \in 0..n : k # 0 => k \in 1..n
    BY <1>1
  <2> QED  BY <1>4, <1>6, <2>1 DEF Follows
<1>8. after = [k \in 0..n |-> IF k = 0 THEN t ELSE CK_SpawnItem(after[k - 1], InfoPlane[l][k])]
  BY <1>7, Zenon
<1>9. scanInfoLayer(t, l) = after[n]
  BY DEF scanInfoLayer, Scan, n
<1> HIDE DEF after
<1>10. \A k \in 0..n : after[k] = IF k = 0 THEN t ELSE CK_SpawnItem(after[k - 1], InfoPlane[l][k])
  BY <1>8
<1>11. after[0] = t /\ \A k \in 1..n : after[k] = CK_SpawnItem(after[k - 1], InfoPlane[l][k])
  BY <1>1, <1>10
<1> DEFINE K == {p \in J : p[2] \in Tables}
<1>12. <<0, after[0]>> \in K
  BY <1>11
<1>13. ASSUME NEW k \in 1..n, <<k - 1, after[k - 1]>> \in K PROVE <<k, after[k]>> \in K
  <2>1. <<k - 1, after[k - 1]>> \in J /\ after[k - 1] \in Tables
    BY <1>13
  <2>2. after[k] \in Tables
    BY <2>1, <1>1, <1>11, AddsAreTables
  <2>3. <<k, after[k]>> \in J
    BY <2>1, <1>11 DEF n
  <2> QED  BY <2>2, <2>3
<1> HIDE DEF K
<1>14. <<n, after[n]>> \in K
  BY <1>1, <1>12, <1>13, AlongTheWay
<1> QED  BY <1>9, <1>14 DEF K, n

\* The extra lives of the foreground plane.
LEMMA LifeScan ==
    ASSUME NEW l \in Levels, NEW t \in Tables, NEW J, <<0, t>> \in J,
           \A k \in 1..Len(ForePlane[l]), x \in Tables :
             <<k - 1, x>> \in J => <<k, TileExtraLife(x, ForePlane[l][k])>> \in J
    PROVE  /\ ap_scan_tile_extralives(t, l) \in Tables
           /\ <<Len(ForePlane[l]), ap_scan_tile_extralives(t, l)>> \in J
<1> DEFINE n == Len(ForePlane[l])
           g == [x \in Tables \X (1..n) |-> TileExtraLife(x[1], ForePlane[l][x[2]])]
           after == CHOOSE f : f = [k \in 0..n |-> IF k = 0 THEN t ELSE TileExtraLife(f[k - 1], ForePlane[l][k])]
<1>1. /\ n \in Nat /\ \A k \in 1..n : ForePlane[l][k] \in Its
  BY PlaneItems
<1>2. StepsIn(g, n, Tables)
  <2>1. ASSUME NEW x \in Tables \X (1..n) PROVE TileExtraLife(x[1], ForePlane[l][x[2]]) \in Tables
    BY <1>1, AddsAreTables
  <2> QED  BY <2>1 DEF StepsIn
<1>3. \A x \in Tables, k \in 1..n : g[<<x, k>>] = TileExtraLife(x, ForePlane[l][k])
  OBVIOUS
<1> HIDE DEF g, n
<1>4. PICK f \in [0..n -> Tables] : Follows(f, n, t, g)
  BY <1>1, <1>2, RecursionUpTo
<1>5. \A k \in 1..n : k - 1 \in 0..n /\ f[k - 1] \in Tables
  BY <1>1
<1>6. \A k \in 1..n : f[k] = TileExtraLife(f[k - 1], ForePlane[l][k])
  BY <1>3, <1>4, <1>5 DEF Follows
<1>7. f = [k \in 0..n |-> IF k = 0 THEN t ELSE TileExtraLife(f[k - 1], ForePlane[l][k])]
  <2>1. \A k \in 0..n : k # 0 => k \in 1..n
    BY <1>1
  <2> QED  BY <1>4, <1>6, <2>1 DEF Follows
<1>8. after = [k \in 0..n |-> IF k = 0 THEN t ELSE TileExtraLife(after[k - 1], ForePlane[l][k])]
  BY <1>7, Zenon
<1>9. ap_scan_tile_extralives(t, l) = after[n]
  BY DEF ap_scan_tile_extralives, Scan, n
<1> HIDE DEF after
<1>10. \A k \in 0..n : after[k] = IF k = 0 THEN t ELSE TileExtraLife(after[k - 1], ForePlane[l][k])
  BY <1>8
<1>11. after[0] = t /\ \A k \in 1..n : after[k] = TileExtraLife(after[k - 1], ForePlane[l][k])
  BY <1>1, <1>10
<1> DEFINE K == {p \in J : p[2] \in Tables}
<1>12. <<0, after[0]>> \in K
  BY <1>11
<1>13. ASSUME NEW k \in 1..n, <<k - 1, after[k - 1]>> \in K PROVE <<k, after[k]>> \in K
  <2>1. <<k - 1, after[k - 1]>> \in J /\ after[k - 1] \in Tables
    BY <1>13
  <2>2. after[k] \in Tables
    BY <2>1, <1>1, <1>11, AddsAreTables
  <2>3. <<k, after[k]>> \in J
    BY <2>1, <1>11 DEF n
  <2> QED  BY <2>2, <2>3
<1> HIDE DEF K
<1>14. <<n, after[n]>> \in K
  BY <1>1, <1>12, <1>13, AlongTheWay
<1> QED  BY <1>9, <1>14 DEF K, n

\* The point items of the foreground plane.
LEMMA PointScan ==
    ASSUME NEW l \in Levels, NEW t \in Tables, NEW J, <<0, t>> \in J,
           \A k \in 1..Len(ForePlane[l]), x \in Tables :
             <<k - 1, x>> \in J => <<k, TilePointItem(x, ForePlane[l][k])>> \in J
    PROVE  /\ ap_scan_tile_pointitems(t, l) \in Tables
           /\ <<Len(ForePlane[l]), ap_scan_tile_pointitems(t, l)>> \in J
<1> DEFINE n == Len(ForePlane[l])
           g == [x \in Tables \X (1..n) |-> TilePointItem(x[1], ForePlane[l][x[2]])]
           after == CHOOSE f : f = [k \in 0..n |-> IF k = 0 THEN t ELSE TilePointItem(f[k - 1], ForePlane[l][k])]
<1>1. /\ n \in Nat /\ \A k \in 1..n : ForePlane[l][k] \in Its
  BY PlaneItems
<1>2. StepsIn(g, n, Tables)
  <2>1. ASSUME NEW x \in Tables \X (1..n) PROVE TilePointItem(x[1], ForePlane[l][x[2]]) \in Tables
    BY <1>1, AddsAreTables
  <2> QED  BY <2>1 DEF StepsIn
<1>3. \A x \in Tables, k \in 1..n : g[<<x, k>>] = TilePointItem(x, ForePlane[l][k])
  OBVIOUS
<1> HIDE DEF g, n
<1>4. PICK f \in [0..n -> Tables] : Follows(f, n, t, g)
  BY <1>1, <1>2, RecursionUpTo
<1>5. \A k \in 1..n : k - 1 \in 0..n /\ f[k - 1] \in Tables
  BY <1>1
<1>6. \A k \in 1..n : f[k] = TilePointItem(f[k - 1], ForePlane[l][k])
  BY <1>3, <1>4, <1>5 DEF Follows
<1>7. f = [k \in 0..n |-> IF k = 0 THEN t ELSE TilePointItem(f[k - 1], ForePlane[l][k])]
  <2>1. \A k \in 0..n : k # 0 => k \in 1..n
    BY <1>1
  <2> QED  BY <1>4, <1>6, <2>1 DEF Follows
<1>8. after = [k \in 0..n |-> IF k = 0 THEN t ELSE TilePointItem(after[k - 1], ForePlane[l][k])]
  BY <1>7, Zenon
<1>9. ap_scan_tile_pointitems(t, l) = after[n]
  BY DEF ap_scan_tile_pointitems, Scan, n
<1> HIDE DEF after
<1>10. \A k \in 0..n : after[k] = IF k = 0 THEN t ELSE TilePointItem(after[k - 1], ForePlane[l][k])
  BY <1>8
<1>11. after[0] = t /\ \A k \in 1..n : after[k] = TilePointItem(after[k - 1], ForePlane[l][k])
  BY <1>1, <1>10
<1> DEFINE K == {p \in J : p[2] \in Tables}
<1>12. <<0, after[0]>> \in K
  BY <1>11
<1>13. ASSUME NEW k \in 1..n, <<k - 1, after[k - 1]>> \in K PROVE <<k, after[k]>> \in K
  <2>1. <<k - 1, after[k - 1]>> \in J /\ after[k - 1] \in Tables
    BY <1>13
  <2>2. after[k] \in Tables
    BY <2>1, <1>1, <1>11, AddsAreTables
  <2>3. <<k, after[k]>> \in J
    BY <2>1, <1>11 DEF n
  <2> QED  BY <2>2, <2>3
<1> HIDE DEF K
<1>14. <<n, after[n]>> \in K
  BY <1>1, <1>12, <1>13, AlongTheWay
<1> QED  BY <1>9, <1>14 DEF K, n

(***************************************************************************)
(* What a table says of the places that were looked at.                    *)
(***************************************************************************)
Holds(P, pos, cls) == \E p \in P : p[2].pos = pos /\ ClassOf(p[2].item) = cls
Lists(table, pos) == \E k \in 1..Len(table) : table[k].pos = pos

\* A table with an entry more at its end lists that and what it has listed.
LEMMA ListsMore ==
    ASSUME NEW E, NEW table \in Seq(E), NEW e \in E
    PROVE  LET more == Append(table, e) IN
           /\ Len(table) \in Nat /\ Len(more) = Len(table) + 1
           /\ more[Len(table) + 1] = e /\ \A k \in 1..Len(table) : more[k] = table[k]
           /\ Lists(more, e.pos) /\ \A pos : Lists(table, pos) => Lists(more, pos)
<1> DEFINE more == Append(table, e)
<1>1. /\ Len(table) \in Nat /\ Len(more) = Len(table) + 1
      /\ more[Len(table) + 1] = e /\ \A k \in 1..Len(table) : more[k] = table[k]
  BY AppendProperties, LenProperties
<1> HIDE DEF more
<1>2. Len(table) + 1 \in 1..Len(more) /\ \A k \in 1..Len(table) : k \in 1..Len(more)
  BY <1>1
<1>3. Lists(more, e.pos)
  BY <1>1, <1>2, Zenon DEF Lists
<1>4. ASSUME NEW pos, Lists(table, pos) PROVE Lists(more, pos)
  <2>1. PICK k \in 1..Len(table) : table[k].pos = pos
    BY <1>4 DEF Lists
  <2>2. k \in 1..Len(more) /\ more[k].pos = pos
    BY <1>1, <1>2, <2>1
  <2> QED  BY <2>2, Zenon DEF Lists
<1> QED  BY <1>1, <1>3, <1>4, Zenon DEF more

\* The extra lives of the set P are numbered from 0 in the order of the table, and as long as
\* there is room each place of P has its entry.
LivesOK(t, P) ==
    /\ Len(t.lives) <= EXTRALIFE_MAX
    /\ Len(t.lives) < EXTRALIFE_MAX => t.nLives = Len(t.lives)
    /\ \A k \in 1..Len(t.lives) : t.lives[k].index = k - 1
    /\ IsFiniteSet(P)
    /\ Cardinality(P) <= EXTRALIFE_MAX =>
         Len(t.lives) = Cardinality(P) /\ \A p \in P : Lists(t.lives, p[2].pos)

\* The point items of the set P are numbered within their classes, below the size of the table,
\* and each entry is for a place of P.
PointsOK(t, P) ==
    /\ Len(t.points) <= POINTITEM_MAX
    /\ Len(t.points) < POINTITEM_MAX => \A c \in PointClasses : t.nPoints[c] <= Len(t.points)
    /\ \A k \in 1..Len(t.points) :
         /\ t.points[k].index < k /\ t.points[k].index < t.nPoints[t.points[k].cls]
         /\ Holds(P, t.points[k].pos, t.points[k].cls)
    /\ \A j, k \in 1..Len(t.points) :
         t.points[j].cls = t.points[k].cls /\ t.points[j].index = t.points[k].index => j = k
    /\ IsFiniteSet(P)
    /\ Cardinality(P) <= POINTITEM_MAX =>
         Len(t.points) = Cardinality(P) /\ \A p \in P : Lists(t.points, p[2].pos)

\* The set of places with one more.
LEMMA OneMore ==
    ASSUME NEW P, NEW p, p \notin P, IsFiniteSet(P)
    PROVE  /\ IsFiniteSet(P \cup {p}) /\ Cardinality(P) \in Nat
           /\ Cardinality(P \cup {p}) = Cardinality(P) + 1
           /\ \A pos, cls : Holds(P, pos, cls) => Holds(P \cup {p}, pos, cls)
           /\ Holds(P \cup {p}, p[2].pos, ClassOf(p[2].item))
BY FS_AddElement, FS_CardinalityType DEF Holds

\* Adding an extra life.
LEMMA LifeAdded ==
    ASSUME NEW t \in Tables, NEW P, NEW p, p \notin P, p[2] \in Its, LivesOK(t, P)
    PROVE  LivesOK(AddExtraLife(t, p[2]), P \cup {p})
<1> DEFINE n == Len(t.lives)
           e == [pos |-> p[2].pos, index |-> t.nLives]
           u == AddExtraLife(t, p[2])
           more == Append(t.lives, e)
<1>1. /\ t.lives \in Seq(Life) /\ t.nLives \in Nat /\ EXTRALIFE_MAX \in Nat
  BY MapsAreSane DEF Tables, LevelStride
<1>2. /\ u.nLives = t.nLives + 1
      /\ u.lives = IF n < EXTRALIFE_MAX THEN more ELSE t.lives
  BY DEF AddExtraLife, Tables
<1>3. e \in Life /\ e.pos = p[2].pos /\ e.index = t.nLives
  BY <1>1 DEF Life, Positions
<1> HIDE DEF e
<1>4. /\ n \in Nat /\ Len(more) = n + 1
      /\ more[n + 1] = e /\ \A k \in 1..n : more[k] = t.lives[k]
      /\ Lists(more, e.pos) /\ \A pos : Lists(t.lives, pos) => Lists(more, pos)
  BY <1>1, <1>3, ListsMore
<1> HIDE DEF more, u
<1>5. IsFiniteSet(P \cup {p}) /\ Cardinality(P) \in Nat /\ Cardinality(P \cup {p}) = Cardinality(P) + 1
  BY OneMore DEF LivesOK
<1>6. ASSUME n < EXTRALIFE_MAX PROVE LivesOK(u, P \cup {p})
  <2>1. u.lives = more /\ t.nLives = n /\ Len(u.lives) = n + 1 /\ u.nLives = n + 1
    BY <1>2, <1>4, <1>6 DEF LivesOK
  <2>2. ASSUME NEW k \in 1..(n + 1) PROVE u.lives[k].index = k - 1
    <3>1. CASE k = n + 1
      <4>1. u.lives[k] = e
        BY <1>4, <2>1, <3>1
      <4> QED  BY <1>1, <1>3, <1>4, <2>1, <3>1, <4>1
    <3>2. CASE k # n + 1
      <4>1. k \in 1..n /\ u.lives[k] = t.lives[k]
        BY <1>4, <2>1, <3>2
      <4> QED  BY <4>1 DEF LivesOK
    <3> QED  BY <3>1, <3>2
  <2>3. ASSUME Cardinality(P \cup {p}) <= EXTRALIFE_MAX
        PROVE  n = Cardinality(P) /\ \A q \in P \cup {p} : Lists(more, q[2].pos)
    <3>1. n = Cardinality(P) /\ \A r \in P : Lists(t.lives, r[2].pos)
      BY <1>1, <1>5, <2>3 DEF LivesOK
    <3> QED  BY <1>3, <1>4, <3>1
  <2> QED  BY <1>1, <1>4, <1>5, <1>6, <2>1, <2>2, <2>3 DEF LivesOK
<1>7. ASSUME ~(n < EXTRALIFE_MAX) PROVE LivesOK(u, P \cup {p})
  <2>1. u.lives = t.lives /\ ~(Cardinality(P \cup {p}) <= EXTRALIFE_MAX)
    BY <1>1, <1>2, <1>4, <1>5, <1>7 DEF LivesOK
  <2> QED  BY <1>1, <1>4, <1>5, <1>7, <2>1 DEF LivesOK
<1> QED  BY <1>6, <1>7 DEF u

\* Adding a point item.
LEMMA PointAdded ==
    ASSUME NEW t \in Tables, NEW P, NEW p, p \notin P, p[2] \in Its, IsPoint(p[2].item),
           PointsOK(t, P)
    PROVE  PointsOK(AddPointItem(t, p[2]), P \cup {p})
<1> DEFINE n == Len(t.points)
           c == ClassOf(p[2].item)
           e == [pos |-> p[2].pos, cls |-> c, index |-> t.nPoints[c]]
           u == AddPointItem(t, p[2])
           more == Append(t.points, e)
<1>1. /\ t.points \in Seq(Point) /\ t.nPoints \in [PointClasses -> Nat] /\ POINTITEM_MAX \in Nat
      /\ c \in PointClasses
  BY MapsAreSane, PointsAreTables DEF Tables, PointLevelStride
<1>2. /\ u.nPoints = [t.nPoints EXCEPT ![c] = t.nPoints[c] + 1]
      /\ u.points = IF n < POINTITEM_MAX THEN more ELSE t.points
  <2>1. u = [t EXCEPT !.nPoints = [t.nPoints EXCEPT ![c] = t.nPoints[c] + 1],
                      !.points = IF n < POINTITEM_MAX THEN more ELSE t.points]
    BY Zenon DEF AddPointItem
  <2> HIDE DEF u, c, more
  <2> QED  BY <2>1 DEF Tables
<1>3. e \in Point /\ e.pos = p[2].pos /\ e.cls = c /\ e.index = t.nPoints[c]
  BY <1>1 DEF Point, Positions
<1> HIDE DEF e
<1>4. /\ n \in Nat /\ Len(more) = n + 1
      /\ more[n + 1] = e /\ \A k \in 1..n : more[k] = t.points[k]
      /\ Lists(more, e.pos) /\ \A pos : Lists(t.points, pos) => Lists(more, pos)
  BY <1>1, <1>3, ListsMore
<1>5. /\ \A k \in 1..n : t.points[k].cls \in PointClasses /\ t.points[k].index \in Nat
      /\ \A d \in PointClasses : t.nPoints[d] \in Nat /\ u.nPoints[d] \in Nat
      /\ \A d \in PointClasses : u.nPoints[d] = IF d = c THEN t.nPoints[d] + 1 ELSE t.nPoints[d]
  <2>1. \A k \in 1..n : t.points[k] \in Point
    BY <1>1, ElementOfSeq
  <2> HIDE DEF u, c
  <2> QED  BY <1>1, <1>2, <2>1 DEF Point
<1>6. ASSUME NEW k \in 1..n, t.points[k].index < t.nPoints[t.points[k].cls]
      PROVE  t.points[k].index < u.nPoints[t.points[k].cls]
  <2> DEFINE d == t.points[k].cls
             i == t.points[k].index
  <2>1. d \in PointClasses /\ i \in Nat /\ i < t.nPoints[d]
    BY <1>5, <1>6
  <2> HIDE DEF d, i
  <2>2. i < u.nPoints[d]
    BY <1>5, <2>1
  <2> QED  BY <2>2 DEF d, i
<1>7. /\ IsFiniteSet(P \cup {p}) /\ Cardinality(P) \in Nat /\ Cardinality(P \cup {p}) = Cardinality(P) + 1
      /\ \A pos, cls : Holds(P, pos, cls) => Holds(P \cup {p}, pos, cls)
      /\ Holds(P \cup {p}, p[2].pos, c)
  BY OneMore DEF PointsOK
<1> HIDE DEF more, u, c
<1>8. ASSUME n < POINTITEM_MAX PROVE PointsOK(u, P \cup {p})
  <2>1. u.points = more /\ Len(u.points) = n + 1
    BY <1>2, <1>4, <1>8
  <2>2. \A d \in PointClasses : t.nPoints[d] <= n
    BY <1>8 DEF PointsOK
  <2>3. /\ u.points[n + 1] = e /\ \A k \in 1..n : u.points[k] = t.points[k]
    BY <1>4, <2>1
  <2>4. ASSUME NEW k \in 1..(n + 1)
        PROVE  /\ u.points[k].index < k /\ u.points[k].index < u.nPoints[u.points[k].cls]
               /\ Holds(P \cup {p}, u.points[k].pos, u.points[k].cls)
    <3>1. CASE k = n + 1
      <4>1. u.points[k] = e
        BY <2>3, <3>1
      <4>2. /\ u.points[k].index = t.nPoints[c] /\ u.points[k].cls = c
            /\ u.points[k].pos = p[2].pos
        BY <1>3, <4>1
      <4> QED  BY <1>1, <1>4, <1>5, <1>7, <2>2, <3>1, <4>2
    <3>2. CASE k # n + 1
      <4>1. k \in 1..n /\ u.points[k] = t.points[k]
        BY <1>4, <2>3, <3>2
      <4>2. /\ t.points[k].index < k /\ t.points[k].index < t.nPoints[t.points[k].cls]
            /\ Holds(P, t.points[k].pos, t.points[k].cls)
        BY <4>1 DEF PointsOK
      <4>3. t.points[k].index < u.nPoints[t.points[k].cls]
        BY <1>6, <4>1, <4>2
      <4>4. Holds(P \cup {p}, t.points[k].pos, t.points[k].cls)
        BY <1>7, <4>2
      <4> QED  BY <4>1, <4>2, <4>3, <4>4
    <3> QED  BY <3>1, <3>2
  <2>5. ASSUME NEW j \in 1..(n + 1), NEW k \in 1..(n + 1), j < k,
               u.points[j].cls = u.points[k].cls, u.points[j].index = u.points[k].index
        PROVE  FALSE
    <3>1. j \in 1..n /\ u.points[j] = t.points[j]
      BY <1>4, <2>3, <2>5
    <3>2. CASE k = n + 1
      <4>1. u.points[k].index = t.nPoints[c] /\ u.points[k].cls = c
        BY <1>3, <2>3, <3>2
      <4>2. t.points[j].index < t.nPoints[t.points[j].cls]
        BY <3>1 DEF PointsOK
      <4> QED  BY <1>1, <1>5, <2>5, <3>1, <4>1, <4>2
    <3>3. CASE k # n + 1
      <4>1. k \in 1..n /\ u.points[k] = t.points[k]
        BY <1>4, <2>3, <3>3
      <4>2. j = k
        BY <2>5, <3>1, <4>1 DEF PointsOK
      <4> QED  BY <2>5, <3>1, <4>2
    <3> QED  BY <3>2, <3>3
  <2>6. \A j, k \in 1..(n + 1) :
          u.points[j].cls = u.points[k].cls /\ u.points[j].index = u.points[k].index => j = k
    <3>1. \A j, k \in 1..(n + 1) : j < k \/ k < j \/ j = k
      BY <1>4
    <3> QED  BY <2>5, <3>1
  <2>7. ASSUME Cardinality(P \cup {p}) <= POINTITEM_MAX
        PROVE  n = Cardinality(P) /\ \A q \in P \cup {p} : Lists(more, q[2].pos)
    <3>1. n = Cardinality(P) /\ \A r \in P : Lists(t.points, r[2].pos)
      BY <1>1, <1>7, <2>7 DEF PointsOK
    <3> QED  BY <1>3, <1>4, <3>1
  <2>8. n + 1 < POINTITEM_MAX => \A d \in PointClasses : u.nPoints[d] <= n + 1
    BY <1>4, <1>5, <2>2
  <2>9. Len(u.points) <= POINTITEM_MAX
    BY <1>1, <1>4, <1>8, <2>1
  <2>10. Cardinality(P \cup {p}) <= POINTITEM_MAX =>
           Len(u.points) = Cardinality(P \cup {p}) /\ \A q \in P \cup {p} : Lists(u.points, q[2].pos)
    BY <1>7, <2>1, <2>7
  <2> QED  BY <1>7, <2>1, <2>4, <2>6, <2>8, <2>9, <2>10, Zenon DEF PointsOK
<1>9. ASSUME ~(n < POINTITEM_MAX) PROVE PointsOK(u, P \cup {p})
  <2>1. u.points = t.points /\ ~(Cardinality(P \cup {p}) <= POINTITEM_MAX)
    BY <1>1, <1>2, <1>4, <1>7, <1>9 DEF PointsOK
  <2>2. ASSUME NEW k \in 1..n PROVE t.points[k].index < u.nPoints[t.points[k].cls]
    <3>1. t.points[k].index < t.nPoints[t.points[k].cls]
      BY DEF PointsOK
    <3> QED  BY <1>6, <3>1
  <2> QED  BY <1>1, <1>4, <1>7, <1>9, <2>1, <2>2 DEF PointsOK
<1> QED  BY <1>8, <1>9 DEF u

(***************************************************************************)
(* The tables of a level.                                                  *)
(***************************************************************************)
InfoPlaces(l, k) == {<<"info", InfoPlane[l][j]>> : j \in 1..k}
ForePlaces(l, k) == {<<"fore", ForePlane[l][j]>> : j \in 1..k}
LivesIn(P)  == {p \in P : IsExtraLife(p[2].item)}
PointsIn(P) == {p \in P : IsPoint(p[2].item)}

\* One more place of a plane has been looked at.
LEMMA NextInfoPlace ==
    ASSUME NEW l \in Levels, NEW k \in 1..Len(InfoPlane[l])
    PROVE  LET p == <<"info", InfoPlane[l][k]>> IN
           /\ InfoPlaces(l, k) = InfoPlaces(l, k - 1) \cup {p}
           /\ p \notin InfoPlaces(l, k - 1)
           /\ p[2] = InfoPlane[l][k] /\ p[2] \in Its
<1>1. /\ Len(InfoPlane[l]) \in Nat /\ InfoPlane[l][k] \in Its
      /\ \A j \in 1..Len(InfoPlane[l]) : InfoPlane[l][j] = InfoPlane[l][k] => j = k
  BY PlaneItems
<1>2. 1..k = (1..(k - 1)) \cup {k} /\ k \notin 1..(k - 1) /\ 1..(k - 1) \subseteq 1..Len(InfoPlane[l])
  BY <1>1
<1>3. InfoPlaces(l, k) = InfoPlaces(l, k - 1) \cup {<<"info", InfoPlane[l][k]>>}
  BY <1>2 DEF InfoPlaces
<1>4. <<"info", InfoPlane[l][k]>> \notin InfoPlaces(l, k - 1)
  BY <1>1, <1>2 DEF InfoPlaces
<1> QED  BY <1>1, <1>3, <1>4

LEMMA NextForePlace ==
    ASSUME NEW l \in Levels, NEW k \in 1..Len(ForePlane[l])
    PROVE  LET p == <<"fore", ForePlane[l][k]>> IN
           /\ ForePlaces(l, k) = ForePlaces(l, k - 1) \cup {p}
           /\ p \notin ForePlaces(l, k - 1)
           /\ p[2] = ForePlane[l][k] /\ p[2] \in Its
<1>1. /\ Len(ForePlane[l]) \in Nat /\ ForePlane[l][k] \in Its
      /\ \A j \in 1..Len(ForePlane[l]) : ForePlane[l][j] = ForePlane[l][k] => j = k
  BY PlaneItems
<1>2. 1..k = (1..(k - 1)) \cup {k} /\ k \notin 1..(k - 1) /\ 1..(k - 1) \subseteq 1..Len(ForePlane[l])
  BY <1>1
<1>3. ForePlaces(l, k) = ForePlaces(l, k - 1) \cup {<<"fore", ForePlane[l][k]>>}
  BY <1>2 DEF ForePlaces
<1>4. <<"fore", ForePlane[l][k]>> \notin ForePlaces(l, k - 1)
  BY <1>1, <1>2 DEF ForePlaces
<1> QED  BY <1>1, <1>3, <1>4

\* What each kind of scan does with the place it looks at.
LEMMA PlaceLookedAt ==
    ASSUME NEW t \in Tables, NEW P, NEW Q, NEW p, p[2] \in Its,
           LivesOK(t, LivesIn(P)), PointsOK(t, PointsIn(Q))
    PROVE  /\ PointsOK(TileExtraLife(t, p[2]), PointsIn(Q))
           /\ LivesOK(TilePointItem(t, p[2]), LivesIn(P))
           /\ p \notin P => /\ LivesOK(TileExtraLife(t, p[2]), LivesIn(P \cup {p}))
                           /\ LivesOK(CK_SpawnItem(t, p[2]), LivesIn(P \cup {p}))
           /\ p \notin Q => /\ PointsOK(TilePointItem(t, p[2]), PointsIn(Q \cup {p}))
                           /\ PointsOK(CK_SpawnItem(t, p[2]), PointsIn(Q \cup {p}))
<1> DEFINE it == p[2]
<1>1. IsExtraLife(it.item) => ~IsPoint(it.item)
  BY DEF IsExtraLife, IsPoint
<1>2. /\ AddExtraLife(t, it).points = t.points /\ AddExtraLife(t, it).nPoints = t.nPoints
  BY DEF AddExtraLife, Tables
<1>3. /\ AddPointItem(t, it).lives = t.lives /\ AddPointItem(t, it).nLives = t.nLives
  BY DEF AddPointItem, Tables
<1>4. PointsOK(AddExtraLife(t, it), PointsIn(Q))
  BY <1>2 DEF PointsOK
<1>5. LivesOK(AddPointItem(t, it), LivesIn(P))
  BY <1>3 DEF LivesOK
<1>6. /\ IsExtraLife(it.item) => LivesIn(P \cup {p}) = LivesIn(P) \cup {p}
      /\ ~IsExtraLife(it.item) => LivesIn(P \cup {p}) = LivesIn(P)
      /\ p \notin P => p \notin LivesIn(P)
  BY DEF LivesIn
<1>7. /\ IsPoint(it.item) => PointsIn(Q \cup {p}) = PointsIn(Q) \cup {p}
      /\ ~IsPoint(it.item) => PointsIn(Q \cup {p}) = PointsIn(Q)
      /\ p \notin Q => p \notin PointsIn(Q)
  BY DEF PointsIn
<1>8. p \notin P /\ IsExtraLife(it.item) => LivesOK(AddExtraLife(t, it), LivesIn(P \cup {p}))
  <2>1. \A R : p \notin R /\ LivesOK(t, R) => LivesOK(AddExtraLife(t, it), R \cup {p})
    BY LifeAdded
  <2> QED  BY <1>6, <2>1
<1>9. p \notin Q /\ IsPoint(it.item) => PointsOK(AddPointItem(t, it), PointsIn(Q \cup {p}))
  <2>1. \A R : IsPoint(it.item) /\ p \notin R /\ PointsOK(t, R) => PointsOK(AddPointItem(t, it), R \cup {p})
    BY PointAdded
  <2> QED  BY <1>7, <2>1
<1> HIDE DEF it
<1>10. CASE IsExtraLife(it.item)
  <2>1. /\ TileExtraLife(t, it) = AddExtraLife(t, it) /\ TilePointItem(t, it) = t
        /\ CK_SpawnItem(t, it) = AddExtraLife(t, it)
    BY <1>1, <1>10 DEF TileExtraLife, TilePointItem, CK_SpawnItem
  <2> QED  BY <1>1, <1>4, <1>7, <1>8, <1>10, <2>1 DEF it
<1>11. CASE IsPoint(it.item)
  <2>1. /\ TileExtraLife(t, it) = t /\ TilePointItem(t, it) = AddPointItem(t, it)
        /\ CK_SpawnItem(t, it) = AddPointItem(t, it)
    BY <1>1, <1>11 DEF TileExtraLife, TilePointItem, CK_SpawnItem
  <2> QED  BY <1>1, <1>5, <1>6, <1>9, <1>11, <2>1 DEF it
<1>12. CASE ~IsExtraLife(it.item) /\ ~IsPoint(it.item)
  <2>1. TileExtraLife(t, it) = t /\ TilePointItem(t, it) = t /\ CK_SpawnItem(t, it) = t
    BY <1>12 DEF TileExtraLife, TilePointItem, CK_SpawnItem
  <2> QED  BY <1>6, <1>7, <1>12, <2>1 DEF it
<1> QED  BY <1>10, <1>11, <1>12

TableOf(l) == ap_scan_tile_pointitems(ap_scan_tile_extralives(scanInfoLayer(EmptyTable, l), l), l)

LEMMA EmptyTableOK ==
    EmptyTable \in Tables /\ LivesOK(EmptyTable, {}) /\ PointsOK(EmptyTable, {})
<1>1. EXTRALIFE_MAX \in Nat /\ POINTITEM_MAX \in Nat
  BY MapsAreSane DEF LevelStride, PointLevelStride
<1>2. /\ EmptyTable.lives = <<>> /\ EmptyTable.nLives = 0 /\ EmptyTable.points = <<>>
      /\ \A c \in PointClasses : EmptyTable.nPoints[c] = 0
  BY DEF EmptyTable
<1>3. EmptyTable \in Tables
  BY DEF EmptyTable, Tables
<1>4. Len(EmptyTable.lives) = 0 /\ Len(EmptyTable.points) = 0
  BY <1>2
<1>5. IsFiniteSet({}) /\ Cardinality({}) = 0
  BY FS_EmptySet
<1>6. LivesOK(EmptyTable, {})
  BY <1>1, <1>2, <1>4, <1>5 DEF LivesOK
<1>7. PointsOK(EmptyTable, {})
  BY <1>1, <1>2, <1>4, <1>5 DEF PointsOK
<1> QED  BY <1>3, <1>6, <1>7

\* The tables that CK_LoadLevel builds number the level's extra lives and point items.
LEMMA TablesOfLevel ==
    ASSUME NEW l \in Levels
    PROVE  /\ TableOf(l) \in Tables
           /\ LivesOK(TableOf(l), LivesIn(PlacesOf(l)))
           /\ PointsOK(TableOf(l), PointsIn(PlacesOf(l)))
<1> DEFINE m == Len(InfoPlane[l])
           n == Len(ForePlane[l])
           t1 == scanInfoLayer(EmptyTable, l)
           t2 == ap_scan_tile_extralives(t1, l)
           A == InfoPlaces(l, m)
           B(k) == ForePlaces(l, k)
           OK(x, P, Q) == LivesOK(x, LivesIn(P)) /\ PointsOK(x, PointsIn(Q))
           J1 == {z \in Nat \X Tables : OK(z[2], InfoPlaces(l, z[1]), InfoPlaces(l, z[1]))}
           J2 == {z \in Nat \X Tables : OK(z[2], A \cup B(z[1]), A)}
           J3 == {z \in Nat \X Tables : OK(z[2], A \cup B(n), A \cup B(z[1]))}
<1>1. m \in Nat /\ n \in Nat
  BY PlaneItems
<1>2. InfoPlaces(l, 0) = {} /\ B(0) = {} /\ LivesIn({}) = {} /\ PointsIn({}) = {}
  BY DEF InfoPlaces, ForePlaces, LivesIn, PointsIn
<1>3. PlacesOf(l) = A \cup B(n)
  <2>1. \A plane \in {InfoPlane, ForePlane} : Placed(plane, l) = {plane[l][j] : j \in 1..Len(plane[l])}
    BY PlaneItems DEF Placed
  <2> QED  BY <2>1 DEF PlacesOf, InfoPlaces, ForePlaces
<1>4. t1 \in Tables /\ OK(t1, A, A)
  <2>1. <<0, EmptyTable>> \in J1
    BY EmptyTableOK, <1>2
  <2>2. ASSUME NEW k \in 1..m, NEW x \in Tables, <<k - 1, x>> \in J1
        PROVE  <<k, CK_SpawnItem(x, InfoPlane[l][k])>> \in J1
    <3> DEFINE p == <<"info", InfoPlane[l][k]>>
    <3>1. OK(x, InfoPlaces(l, k - 1), InfoPlaces(l, k - 1))
      BY <2>2
    <3>2. /\ InfoPlaces(l, k) = InfoPlaces(l, k - 1) \cup {p} /\ p \notin InfoPlaces(l, k - 1)
          /\ p[2] = InfoPlane[l][k] /\ p[2] \in Its
      BY NextInfoPlace
    <3> HIDE DEF p
    <3>3. OK(CK_SpawnItem(x, p[2]), InfoPlaces(l, k), InfoPlaces(l, k))
      BY <3>1, <3>2, PlaceLookedAt
    <3>4. CK_SpawnItem(x, p[2]) \in Tables /\ k \in Nat
      BY <3>2, AddsAreTables
    <3> DEFINE y == CK_SpawnItem(x, p[2])
    <3> HIDE DEF y
    <3>5. <<k, y>> \in J1
      BY <3>3, <3>4 DEF y
    <3> HIDE DEF J1
    <3> QED  BY <3>2, <3>5 DEF y
  <2>3. <<m, t1>> \in J1 /\ t1 \in Tables
    <3> HIDE DEF J1
    <3> QED  BY <2>1, <2>2, EmptyTableOK, InfoScan
  <2> QED  BY <2>3
<1> HIDE DEF t1
<1>5. ASSUME NEW k \in 1..n
      PROVE  LET p == <<"fore", ForePlane[l][k]>> IN
             /\ B(k) = B(k - 1) \cup {p} /\ p \notin A \cup B(k - 1)
             /\ A \cup B(k) = (A \cup B(k - 1)) \cup {p}
             /\ p[2] = ForePlane[l][k] /\ p[2] \in Its
  <2> DEFINE p == <<"fore", ForePlane[l][k]>>
  <2>1. /\ B(k) = B(k - 1) \cup {p} /\ p \notin B(k - 1)
        /\ p[2] = ForePlane[l][k] /\ p[2] \in Its
    BY NextForePlace
  <2>2. p \notin A
    BY DEF InfoPlaces
  <2> HIDE DEF p
  <2>3. A \cup B(k) = (A \cup B(k - 1)) \cup {p}
    BY <2>1
  <2> QED  BY <2>1, <2>2, <2>3 DEF p
<1>6. t2 \in Tables /\ OK(t2, A \cup B(n), A)
  <2>1. <<0, t1>> \in J2
    BY <1>2, <1>4
  <2>2. ASSUME NEW k \in 1..n, NEW x \in Tables, <<k - 1, x>> \in J2
        PROVE  <<k, TileExtraLife(x, ForePlane[l][k])>> \in J2
    <3> DEFINE p == <<"fore", ForePlane[l][k]>>
    <3>1. OK(x, A \cup B(k - 1), A)
      BY <2>2
    <3>2. /\ p \notin A \cup B(k - 1) /\ p \notin A
          /\ A \cup B(k) = (A \cup B(k - 1)) \cup {p}
          /\ p[2] = ForePlane[l][k] /\ p[2] \in Its
      BY <1>5
    <3> HIDE DEF p
    <3>3. OK(TileExtraLife(x, p[2]), A \cup B(k), A)
      BY <3>1, <3>2, PlaceLookedAt
    <3>4. TileExtraLife(x, p[2]) \in Tables /\ k \in Nat
      BY <3>2, AddsAreTables
    <3> DEFINE y == TileExtraLife(x, p[2])
    <3> HIDE DEF y
    <3>5. <<k, y>> \in J2
      BY <3>3, <3>4 DEF y
    <3> HIDE DEF J2
    <3> QED  BY <3>2, <3>5 DEF y
  <2>3. <<n, t2>> \in J2 /\ t2 \in Tables
    <3> HIDE DEF J2
    <3> QED  BY <1>4, <2>1, <2>2, LifeScan
  <2> QED  BY <2>3
<1> HIDE DEF t2
<1>7. TableOf(l) \in Tables /\ OK(TableOf(l), A \cup B(n), A \cup B(n))
  <2>1. <<0, t2>> \in J3
    BY <1>2, <1>6
  <2>2. ASSUME NEW k \in 1..n, NEW x \in Tables, <<k - 1, x>> \in J3
        PROVE  <<k, TilePointItem(x, ForePlane[l][k])>> \in J3
    <3> DEFINE p == <<"fore", ForePlane[l][k]>>
    <3>1. OK(x, A \cup B(n), A \cup B(k - 1))
      BY <2>2
    <3>2. /\ p \notin A \cup B(k - 1)
          /\ A \cup B(k) = (A \cup B(k - 1)) \cup {p}
          /\ p[2] = ForePlane[l][k] /\ p[2] \in Its
      BY <1>5
    <3> HIDE DEF p
    <3>3. OK(TilePointItem(x, p[2]), A \cup B(n), A \cup B(k))
      BY <3>1, <3>2, PlaceLookedAt
    <3>4. TilePointItem(x, p[2]) \in Tables /\ k \in Nat
      BY <3>2, AddsAreTables
    <3> DEFINE y == TilePointItem(x, p[2])
    <3> HIDE DEF y
    <3>5. <<k, y>> \in J3
      BY <3>3, <3>4 DEF y
    <3> HIDE DEF J3
    <3> QED  BY <3>2, <3>5 DEF y
  <2>3. <<n, ap_scan_tile_pointitems(t2, l)>> \in J3 /\ ap_scan_tile_pointitems(t2, l) \in Tables
    <3> HIDE DEF J3
    <3> QED  BY <1>6, <2>1, <2>2, PointScan
  <2> QED  BY <2>3 DEF TableOf, t2, t1
<1> QED  BY <1>3, <1>7

(***************************************************************************)
(* Lookups and locations.                                                  *)
(***************************************************************************)
\* The lookup finds an entry of the position, and finds one where there is one.
LEMMA FirstEntry ==
    ASSUME NEW E, NEW table \in Seq(E), NEW pos
    PROVE  /\ \A e \in FirstAt(table, pos) :
                \E k \in 1..Len(table) : e = table[k] /\ table[k].pos = pos
           /\ Lists(table, pos) => \E e : e \in FirstAt(table, pos)
<1> DEFINE ks == {k \in DOMAIN table : table[k].pos = pos}
<1>1. DOMAIN table = 1..Len(table) /\ Len(table) \in Nat
  BY LenProperties
<1>2. ks \in SUBSET Nat
  BY <1>1
<1>3. FirstAt(table, pos) = {table[k] : k \in {j \in ks : \A i \in ks : j <= i}}
  BY DEF FirstAt
<1>4. \A k \in ks : k \in 1..Len(table) /\ table[k].pos = pos
  BY <1>1
<1>5. Lists(table, pos) => ks # {}
  BY <1>1 DEF Lists
<1> HIDE DEF ks
<1>6. ASSUME Lists(table, pos) PROVE \E e : e \in FirstAt(table, pos)
  <2>1. PICK m \in ks : \A i \in ks : m <= i
    BY <1>2, <1>5, <1>6, LeastElement
  <2>2. table[m] \in FirstAt(table, pos)
    BY <1>3, <2>1
  <2> QED  BY <2>2
<1>7. ASSUME NEW e \in FirstAt(table, pos)
      PROVE  \E k \in 1..Len(table) : e = table[k] /\ table[k].pos = pos
  <2>1. PICK k \in ks : e = table[k]
    BY <1>3, <1>7
  <2> QED  BY <1>4, <2>1
<1> QED  BY <1>6, <1>7

\* The locations of a place of a level.
LocsOf(l, p) ==
    LET it == p[2] IN
    IF p[1] = "info" /\ IsGem(it.item) THEN ap_on_keygem_get(Episode, l, it.item)
    ELSE IF IsPoint(it.item)
    THEN UNION {ap_on_pointitem_get(Episode, l, e.cls, e.index) : e \in FirstAt(TableOf(l).points, it.pos)}
    ELSE IF IsExtraLife(it.item)
    THEN UNION {ap_on_extralife_get(Episode, l, e.index) : e \in FirstAt(TableOf(l).lives, it.pos)}
    ELSE {}

LifeBase == IF Episode = EP_CK4 THEN FlaskBase ELSE KegBase

GemLoc(l, p, loc) == IsGem(p[2].item) /\ loc = LocAt(KeygemBase, Episode, l) + p[2].item
LifeLoc(l, p, loc, k) ==
    /\ k \in 1..Len(TableOf(l).lives) /\ TableOf(l).lives[k].pos = p[2].pos
    /\ k - 1 \in IndexRange /\ loc = LocAt(LifeBase, Episode, l) + (k - 1)
PointLoc(l, p, loc, k) ==
    LET e == TableOf(l).points[k] IN
    /\ k \in 1..Len(TableOf(l).points) /\ e.pos = p[2].pos
    /\ e.cls \in PointClasses /\ e.index \in InstanceRange
    /\ loc = LOC_POINTSANITY(e.cls, Episode, l, e.index)

\* A location is that of a gem or of an entry for the item's position, and its number is
\* within the strides.
LEMMA KindsOfLocs ==
    ASSUME NEW l \in Levels, NEW p \in PlacesOf(l), NEW loc \in LocsOf(l, p)
    PROVE  GemLoc(l, p, loc) \/ (\E k : LifeLoc(l, p, loc, k)) \/ (\E k : PointLoc(l, p, loc, k))
<1> DEFINE it == p[2]
           T == TableOf(l)
<1>1. /\ T \in Tables /\ LivesOK(T, LivesIn(PlacesOf(l))) /\ PointsOK(T, PointsIn(PlacesOf(l)))
  BY TablesOfLevel
<1>2. /\ T.lives \in Seq(Life) /\ T.points \in Seq(Point)
      /\ Len(T.lives) \in Nat /\ Len(T.points) \in Nat
  BY <1>1, LenProperties DEF Tables
<1>3. EXTRALIFE_MAX \in 0..LevelStride /\ POINTITEM_MAX \in 0..PointLevelStride /\ Episode \in Episodes
  BY MapsAreSane
<1> HIDE DEF T
<1>4. CASE p[1] = "info" /\ IsGem(it.item)
  <2>1. loc \in ap_on_keygem_get(Episode, l, it.item)
    BY <1>4 DEF LocsOf
  <2> QED  BY <1>4, <2>1 DEF GemLoc, ap_on_keygem_get, LOC_KEYGEM
<1>5. CASE ~(p[1] = "info" /\ IsGem(it.item)) /\ IsPoint(it.item)
  <2>1. PICK e \in FirstAt(T.points, it.pos) : loc \in ap_on_pointitem_get(Episode, l, e.cls, e.index)
    BY <1>5 DEF LocsOf, T
  <2>2. PICK k \in 1..Len(T.points) : e = T.points[k] /\ T.points[k].pos = it.pos
    BY <1>2, <2>1, FirstEntry
  <2>3. T.points[k] \in Point
    BY <1>2, ElementOfSeq
  <2>4. e.cls \in PointClasses /\ e.index \in Nat
    BY <2>2, <2>3 DEF Point
  <2>5. loc = LOC_POINTSANITY(e.cls, Episode, l, e.index) /\ e.index < PointLevelStride
    <3>1. loc \in {LOC_POINTSANITY(e.cls, Episode, l, e.index)} /\ e.index < PointLevelStride
      BY <2>1, Zenon DEF ap_on_pointitem_get
    <3> QED  BY <3>1
  <2>6. e.index \in InstanceRange
    <3>1. e.index \in Nat /\ e.index < 1000
      BY <2>4, <2>5 DEF PointLevelStride
    <3>2. \A i \in Nat : i < 1000 => i \in InstanceRange
      BY DEF InstanceRange, PointLevelStride
    <3> QED  BY <3>1, <3>2
  <2>7. /\ T.points[k].cls \in PointClasses /\ T.points[k].index \in InstanceRange
        /\ loc = LOC_POINTSANITY(T.points[k].cls, Episode, l, T.points[k].index)
    BY <2>2, <2>4, <2>5, <2>6
  <2>8. PointLoc(l, p, loc, k)
    BY <2>2, <2>7 DEF PointLoc, T
  <2> QED  BY <2>8
<1>6. CASE ~(p[1] = "info" /\ IsGem(it.item)) /\ ~IsPoint(it.item)
  <2>1. IsExtraLife(it.item) /\ loc \in UNION {ap_on_extralife_get(Episode, l, e.index) : e \in FirstAt(T.lives, it.pos)}
    BY <1>6 DEF LocsOf, T
  <2>2. PICK e \in FirstAt(T.lives, it.pos) : loc \in ap_on_extralife_get(Episode, l, e.index)
    BY <2>1
  <2>3. PICK k \in 1..Len(T.lives) : e = T.lives[k] /\ T.lives[k].pos = it.pos
    BY <1>2, <2>2, FirstEntry
  <2>4. e.index = k - 1 /\ Len(T.lives) <= EXTRALIFE_MAX
    BY <1>1, <2>3 DEF LivesOK
  <2>5. k - 1 \in IndexRange
    BY <1>2, <1>3, <2>3, <2>4 DEF IndexRange, LevelStride
  <2>6. loc = LocAt(LifeBase, Episode, l) + (k - 1)
    BY <1>3, <2>2, <2>4 DEF ap_on_extralife_get, LOC_FLASK, LOC_KEG, LifeBase, Episodes
  <2>7. LifeLoc(l, p, loc, k)
    BY <2>3, <2>5, <2>6 DEF LifeLoc, T
  <2> QED  BY <2>7
<1> QED  BY <1>4, <1>5, <1>6

\* Two places of which one is no gem share a location only if they are the same.
LEMMA LocsApart ==
    ASSUME NEW l1 \in Levels, NEW p \in PlacesOf(l1), NEW l2 \in Levels, NEW q \in PlacesOf(l2),
           NEW loc, loc \in LocsOf(l1, p), loc \in LocsOf(l2, q), ~IsGem(p[2].item)
    PROVE  l1 = l2 /\ p = q
<1>1. l1 \in LevelRange /\ l2 \in LevelRange /\ Episode \in Episodes
  BY MapsAreSane DEF LevelRange
<1>2. KeygemBase \in Bases /\ LifeBase \in Bases /\ LifeBase # KeygemBase
  BY DEF LifeBase, Bases, KeygemBase, FlaskBase, KegBase
<1>3. (\E k : LifeLoc(l1, p, loc, k)) \/ (\E k : PointLoc(l1, p, loc, k))
  BY KindsOfLocs DEF GemLoc
<1>4. GemLoc(l2, q, loc) \/ (\E k : LifeLoc(l2, q, loc, k)) \/ (\E k : PointLoc(l2, q, loc, k))
  BY KindsOfLocs
<1>5. l1 = l2 /\ p[2].pos = q[2].pos => p = q
  BY MapsAreSane
<1>6. /\ \A i \in 0..3 : i \in IndexRange
      /\ \A i : IsGem(i) => i \in 0..3
  BY DEF IndexRange, LevelStride, IsGem
<1>7. \A k : LifeLoc(l1, p, loc, k) => loc = LocAt(LifeBase, Episode, l1) + (k - 1) /\ k - 1 \in IndexRange
  BY DEF LifeLoc
<1>8. \A k : LifeLoc(l2, q, loc, k) => loc = LocAt(LifeBase, Episode, l2) + (k - 1) /\ k - 1 \in IndexRange
  BY DEF LifeLoc
<1>9. GemLoc(l2, q, loc) => /\ loc = LocAt(KeygemBase, Episode, l2) + q[2].item /\ q[2].item \in IndexRange
  BY <1>6 DEF GemLoc
<1>10. ASSUME NEW l \in {l1, l2}, NEW r, NEW k, PointLoc(l, r, loc, k)
       PROVE  \E c \in PointClasses, i \in InstanceRange : loc = LOC_POINTSANITY(c, Episode, l, i)
  BY <1>10 DEF PointLoc
<1>11. ASSUME NEW b1 \in Bases, NEW l \in {l1, l2}, NEW i1 \in IndexRange, loc = LocAt(b1, Episode, l) + i1,
              NEW m \in {l1, l2}, NEW r, NEW k, PointLoc(m, r, loc, k)
       PROVE  FALSE
  <2>1. PICK c \in PointClasses, i \in InstanceRange : loc = LOC_POINTSANITY(c, Episode, m, i)
    BY <1>10, <1>11
  <2>2. LocAt(b1, Episode, l) + i1 < LOC_POINTSANITY(c, Episode, m, i)
    BY <1>1, PointsanityApart
  <2>3. LOC_POINTSANITY(c, Episode, m, i) \in Int
    BY <1>1 DEF LOC_POINTSANITY, PointClasses, Episodes, EP_CK4, EP_CK5, LevelRange, InstanceRange,
                PointsanityBase, PointClassStride, PointEpisodeStride, PointLevelStride
  <2> QED  BY <1>11, <2>1, <2>2, <2>3
<1>12. CASE \E k : LifeLoc(l1, p, loc, k)
  <2>1. PICK k : LifeLoc(l1, p, loc, k)
    BY <1>12
  <2>2. CASE GemLoc(l2, q, loc)
    BY <1>1, <1>2, <1>7, <1>9, <2>1, <2>2, AddressesAreUnique
  <2>3. CASE \E j : LifeLoc(l2, q, loc, j)
    <3>1. PICK j : LifeLoc(l2, q, loc, j)
      BY <2>3
    <3>2. l1 = l2 /\ k - 1 = j - 1
      BY <1>1, <1>2, <1>7, <1>8, <2>1, <3>1, AddressesAreUnique
    <3>3. Len(TableOf(l1).lives) \in Nat
      BY TablesOfLevel, LenProperties DEF Tables
    <3>4. k = j
      BY <2>1, <3>1, <3>2, <3>3 DEF LifeLoc
    <3>5. p[2].pos = q[2].pos
      BY <2>1, <3>1, <3>2, <3>4 DEF LifeLoc
    <3> QED  BY <1>5, <3>2, <3>5
  <2>4. CASE \E j : PointLoc(l2, q, loc, j)
    BY <1>2, <1>7, <1>11, <2>1, <2>4
  <2> QED  BY <1>4, <2>2, <2>3, <2>4
<1>13. CASE \E k : PointLoc(l1, p, loc, k)
  <2>1. PICK k : PointLoc(l1, p, loc, k)
    BY <1>13
  <2>2. CASE GemLoc(l2, q, loc)
    BY <1>2, <1>9, <1>11, <2>1, <2>2
  <2>3. CASE \E j : LifeLoc(l2, q, loc, j)
    BY <1>2, <1>8, <1>11, <2>1, <2>3
  <2>4. CASE \E j : PointLoc(l2, q, loc, j)
    <3>1. PICK j : PointLoc(l2, q, loc, j)
      BY <2>4
    <3> DEFINE d == TableOf(l1).points[k]
               e == TableOf(l2).points[j]
    <3>2. /\ d.cls \in PointClasses /\ d.index \in InstanceRange /\ d.pos = p[2].pos
          /\ loc = LOC_POINTSANITY(d.cls, Episode, l1, d.index) /\ k \in 1..Len(TableOf(l1).points)
      BY <2>1 DEF PointLoc
    <3>3. /\ e.cls \in PointClasses /\ e.index \in InstanceRange /\ e.pos = q[2].pos
          /\ loc = LOC_POINTSANITY(e.cls, Episode, l2, e.index) /\ j \in 1..Len(TableOf(l2).points)
      BY <3>1 DEF PointLoc
    <3> HIDE DEF d, e
    <3>4. DecodeClass(loc) = d.cls /\ DecodeLevel(loc) = l1 /\ DecodeInstance(loc) = d.index
      BY <1>1, <3>2, PointsanityDecodes
    <3>5. DecodeClass(loc) = e.cls /\ DecodeLevel(loc) = l2 /\ DecodeInstance(loc) = e.index
      BY <1>1, <3>3, PointsanityDecodes
    <3>6. l1 = l2 /\ d.cls = e.cls /\ d.index = e.index
      BY <3>4, <3>5
    <3>7. k = j
      BY <3>2, <3>3, <3>6, TablesOfLevel DEF PointsOK, d, e
    <3>8. p[2].pos = q[2].pos
      BY <3>2, <3>3, <3>6, <3>7 DEF d, e
    <3> QED  BY <1>5, <3>6, <3>8
  <2> QED  BY <1>4, <2>2, <2>3, <2>4
<1> QED  BY <1>3, <1>12, <1>13

\* While a table has room for its level, each of its extra lives and of its items of an enabled
\* class has a location.
LEMMA LocsThere ==
    ASSUME NEW l \in Levels, NEW p \in PlacesOf(l), LevelFits(l),
           IsExtraLife(p[2].item) \/ (IsPoint(p[2].item) /\ ClassOf(p[2].item) \in EnabledClasses)
    PROVE  LocsOf(l, p) # {}
<1> DEFINE it == p[2]
           T == TableOf(l)
<1>1. /\ T \in Tables /\ LivesOK(T, LivesIn(PlacesOf(l))) /\ PointsOK(T, PointsIn(PlacesOf(l)))
  BY TablesOfLevel
<1>2. /\ T.lives \in Seq(Life) /\ T.points \in Seq(Point)
      /\ Len(T.lives) \in Nat /\ Len(T.points) \in Nat
  BY <1>1, LenProperties DEF Tables
<1>3. POINTITEM_MAX \in 0..PointLevelStride /\ Episode \in Episodes
  BY MapsAreSane
<1>4. /\ Cardinality(LivesIn(PlacesOf(l))) <= EXTRALIFE_MAX
      /\ Cardinality(PointsIn(PlacesOf(l))) <= POINTITEM_MAX
  BY DEF LevelFits, LivesIn, PointsIn
<1>5. /\ IsExtraLife(it.item) => ~IsGem(it.item) /\ ~IsPoint(it.item)
      /\ IsPoint(it.item) => ~IsGem(it.item)
  BY DEF IsExtraLife, IsPoint, IsGem
<1> HIDE DEF T
<1>6. CASE IsExtraLife(it.item)
  <2>1. p \in LivesIn(PlacesOf(l))
    BY <1>6 DEF LivesIn
  <2>2. Lists(T.lives, it.pos)
    BY <1>1, <1>4, <2>1 DEF LivesOK
  <2>3. PICK e : e \in FirstAt(T.lives, it.pos)
    BY <1>2, <2>2, FirstEntry
  <2>4. ap_on_extralife_get(Episode, l, e.index) # {}
    BY <1>3 DEF ap_on_extralife_get, Episodes
  <2>5. LocsOf(l, p) = UNION {ap_on_extralife_get(Episode, l, f.index) : f \in FirstAt(T.lives, it.pos)}
    BY <1>5, <1>6 DEF LocsOf, T
  <2> QED  BY <2>3, <2>4, <2>5
<1>7. CASE IsPoint(it.item) /\ ClassOf(it.item) \in EnabledClasses
  <2>1. p \in PointsIn(PlacesOf(l))
    BY <1>7 DEF PointsIn
  <2>2. Lists(T.points, it.pos)
    BY <1>1, <1>4, <2>1 DEF PointsOK
  <2>3. PICK e : e \in FirstAt(T.points, it.pos)
    BY <1>2, <2>2, FirstEntry
  <2>4. PICK k \in 1..Len(T.points) : e = T.points[k] /\ T.points[k].pos = it.pos
    BY <1>2, <2>3, FirstEntry
  <2>5. /\ e.index < k /\ Holds(PointsIn(PlacesOf(l)), it.pos, e.cls)
        /\ Len(T.points) <= POINTITEM_MAX
    BY <1>1, <2>4 DEF PointsOK
  <2>6. PICK q \in PointsIn(PlacesOf(l)) : q[2].pos = it.pos /\ ClassOf(q[2].item) = e.cls
    BY <2>5 DEF Holds
  <2>7. q = p
    BY <2>6, MapsAreSane DEF PointsIn
  <2>8. e.cls \in EnabledClasses /\ e.cls \in PointClasses
    BY <1>7, <2>6, <2>7 DEF EnabledClasses, PointClasses
  <2>9. e.index \in Nat /\ e.index < PointLevelStride
    <3>1. e \in Point
      BY <1>2, <2>4, ElementOfSeq
    <3>2. e.index \in Nat
      BY <3>1 DEF Point
    <3>3. k \in Nat /\ k <= Len(T.points)
      BY <1>2, <2>4
    <3>4. Len(T.points) <= 1000
      <4>1. POINTITEM_MAX \in Nat /\ POINTITEM_MAX <= 1000
        BY <1>3 DEF PointLevelStride
      <4>2. Len(T.points) <= POINTITEM_MAX
        BY <2>5
      <4>3. Len(T.points) \in Nat
        BY <1>2
      <4> HIDE DEF it
      <4> QED  BY ONLY <4>1, <4>2, <4>3
    <3>5. e.index < k
      BY <2>5
    <3> QED  BY <1>2, <3>2, <3>3, <3>4, <3>5 DEF PointLevelStride
  <2>10. ap_on_pointitem_get(Episode, l, e.cls, e.index) # {}
    BY <1>3, <2>8, <2>9 DEF ap_on_pointitem_get
  <2>11. LocsOf(l, p) = UNION {ap_on_pointitem_get(Episode, l, f.cls, f.index) : f \in FirstAt(T.points, it.pos)}
    BY <1>5, <1>7 DEF LocsOf, T
  <2> QED  BY <2>3, <2>10, <2>11
<1> QED  BY <1>6, <1>7

(***************************************************************************)
(* The invariant: what was loaded last, and what every pickup emitted.     *)
(***************************************************************************)
Loaded ==
    present # {} =>
      /\ level \in Levels /\ present \subseteq PlacesOf(level)
      /\ extralives = TableOf(level).lives /\ pointitems = TableOf(level).points

Recorded ==
    \A a \in emitted :
      a.level \in Levels /\ a.place \in PlacesOf(a.level) /\ a.locs = LocsOf(a.level, a.place)

LEMMA InitRecorded == Init => Loaded /\ Recorded
BY DEF Init, Loaded, Recorded

\* What a pickup emits depends on its level and place alone.
LEMMA EmitsRecorded ==
    ASSUME Loaded, Recorded, NEW place \in present, Emit(place, LocsOf(level, place))
    PROVE  Loaded' /\ Recorded'
<1>1. /\ present' = present \ {place}
      /\ emitted' = emitted \cup {[level |-> level, place |-> place, locs |-> LocsOf(level, place)]}
      /\ level' = level /\ extralives' = extralives /\ pointitems' = pointitems
  BY DEF Emit
<1>2. level \in Levels /\ place \in PlacesOf(level)
  BY DEF Loaded
<1>3. Loaded'
  BY <1>1 DEF Loaded
<1>4. ASSUME NEW a \in emitted'
      PROVE  a.level \in Levels /\ a.place \in PlacesOf(a.level) /\ a.locs = LocsOf(a.level, a.place)
  <2>1. CASE a \in emitted
    BY <2>1 DEF Recorded
  <2>2. CASE a = [level |-> level, place |-> place, locs |-> LocsOf(level, place)]
    BY <1>2, <2>2
  <2> QED  BY <1>1, <2>1, <2>2
<1> QED  BY <1>3, <1>4 DEF Recorded

LEMMA StepRecorded == Loaded /\ Recorded /\ [Next]_vars => Loaded' /\ Recorded'
<1> SUFFICES ASSUME Loaded, Recorded, [Next]_vars PROVE Loaded' /\ Recorded'
  OBVIOUS
<1>1. ASSUME NEW l \in Levels, CK_LoadLevel(l) PROVE Loaded' /\ Recorded'
  <2>1. /\ level' = l /\ present' = PlacesOf(l) /\ emitted' = emitted
        /\ extralives' = TableOf(l).lives /\ pointitems' = TableOf(l).points
    BY <1>1 DEF CK_LoadLevel, TableOf, ResetTable
  <2> QED  BY <2>1 DEF Loaded, Recorded
<1>2. ASSUME NEW q \in present, CK_KeenColFunc(q[2]) PROVE Loaded' /\ Recorded'
  <2> DEFINE it == q[2]
             place == <<"info", it>>
  <2>1. place \in present /\ level \in Levels
    BY <1>2 DEF CK_KeenColFunc, Loaded
  <2>2. place[1] = "info" /\ place[2] = it
    OBVIOUS
  <2>3. IndexedLocs(it) = IF IsPoint(it.item)
          THEN UNION {ap_on_pointitem_get(Episode, level, e.cls, e.index) :
                        e \in FirstAt(TableOf(level).points, it.pos)}
          ELSE IF IsExtraLife(it.item)
          THEN UNION {ap_on_extralife_get(Episode, level, e.index) :
                        e \in FirstAt(TableOf(level).lives, it.pos)}
          ELSE {}
    BY <2>1 DEF IndexedLocs, ap_lookup_tile_pointitem, ap_lookup_tile_extralife, Loaded
  <2>4. LocsOf(level, place) = IF IsGem(it.item) THEN ap_on_keygem_get(Episode, level, it.item) ELSE IndexedLocs(it)
    BY <2>2, <2>3, Zenon DEF LocsOf
  <2>5. Emit(place, LocsOf(level, place))
    BY <1>2, <2>4 DEF CK_KeenColFunc
  <2> QED  BY <2>1, <2>5, EmitsRecorded
<1>3. ASSUME NEW q \in present, CK_KeenGetTileItem(q[2]) PROVE Loaded' /\ Recorded'
  <2> DEFINE it == q[2]
             place == <<"fore", it>>
  <2>1. place \in present /\ level \in Levels
    BY <1>3 DEF CK_KeenGetTileItem, Loaded
  <2>2. place[1] # "info" /\ place[2] = it
    OBVIOUS
  <2>3. IndexedLocs(it) = IF IsPoint(it.item)
          THEN UNION {ap_on_pointitem_get(Episode, level, e.cls, e.index) :
                        e \in FirstAt(TableOf(level).points, it.pos)}
          ELSE IF IsExtraLife(it.item)
          THEN UNION {ap_on_extralife_get(Episode, level, e.index) :
                        e \in FirstAt(TableOf(level).lives, it.pos)}
          ELSE {}
    BY <2>1 DEF IndexedLocs, ap_lookup_tile_pointitem, ap_lookup_tile_extralife, Loaded
  <2>4. LocsOf(level, place) = IndexedLocs(it)
    BY <2>2, <2>3, Zenon DEF LocsOf
  <2>5. Emit(place, LocsOf(level, place))
    BY <1>3, <2>4 DEF CK_KeenGetTileItem
  <2> QED  BY <2>1, <2>5, EmitsRecorded
<1>4. CASE UNCHANGED vars
  BY <1>4 DEF vars, Loaded, Recorded
<1> QED  BY <1>1, <1>2, <1>3, <1>4 DEF Next

LEMMA RecordedAlways == Spec => [](Loaded /\ Recorded)
<1>1. Init => Loaded /\ Recorded
  BY InitRecorded
<1>2. Loaded /\ Recorded /\ [Next]_vars => (Loaded /\ Recorded)'
  BY StepRecorded
<1> QED  BY <1>1, <1>2, PTL DEF Spec

\* An item emits the same location whenever it is picked up, whatever levels were loaded, and in
\* whatever order, before its own (the lifecycle resets of CK_LoadLevel).
THEOREM LocationsAreStable == Spec => []StableLocations
<1>1. Recorded => StableLocations
  BY DEF Recorded, StableLocations
<1> QED  BY <1>1, RecordedAlways, PTL

\* Different items never emit the same location, for any maps and sizes of tables within the
\* strides (ap_scan_tile_extralives, ap_scan_tile_pointitems, ap_defs.h).
THEOREM LocationsAreDistinct == Spec => []DistinctItemsDistinctLocations
<1>1. ASSUME Recorded PROVE DistinctItemsDistinctLocations
  <2>1. SUFFICES ASSUME NEW a \in emitted, NEW b \in emitted, a.locs \cap b.locs # {},
                        ~IsGem(a.place[2].item)
                 PROVE  a.level = b.level /\ a.place = b.place
    BY DEF DistinctItemsDistinctLocations
  <2>2. PICK loc : loc \in a.locs /\ loc \in b.locs
    BY <2>1
  <2>3. /\ a.level \in Levels /\ a.place \in PlacesOf(a.level) /\ loc \in LocsOf(a.level, a.place)
        /\ b.level \in Levels /\ b.place \in PlacesOf(b.level) /\ loc \in LocsOf(b.level, b.place)
    BY <1>1, <2>2 DEF Recorded
  <2> QED  BY <2>1, <2>3, LocsApart
<1> QED  BY <1>1, RecordedAlways, PTL

\* No extra life and no item of an enabled class is picked up without its check, in any level
\* that fits the tables (AP_TILE_EXTRALIFE_MAX, AP_TILE_POINTITEM_MAX).
THEOREM LocationsAreNotMissed == Spec => []NoMissedLocation
<1>1. ASSUME Recorded PROVE NoMissedLocation
  <2>1. SUFFICES ASSUME NEW a \in emitted, LevelFits(a.level),
                        \/ IsExtraLife(a.place[2].item)
                        \/ IsPoint(a.place[2].item) /\ ClassOf(a.place[2].item) \in EnabledClasses
                 PROVE  a.locs # {}
    BY DEF NoMissedLocation
  <2>2. a.level \in Levels /\ a.place \in PlacesOf(a.level) /\ a.locs = LocsOf(a.level, a.place)
    BY <1>1 DEF Recorded
  <2> QED  BY <2>1, <2>2, LocsThere
<1> QED  BY <1>1, RecordedAlways, PTL

(***************************************************************************)
(* Proofs about ObjList for any number of slots: whatever the functions of *)
(* the objects do, the links account for every slot, the walks go through  *)
(* every object that was there when the frame began and through no other,  *)
(* and the sprites are those of the objects.                               *)
(*                                                                         *)
(* The invariant names the list: a sequence of the objects and one of the  *)
(* free slots that the links follow, and where in the first the walk is.   *)
(***************************************************************************)

N == CK_MAX_OBJECTS

LEMMA SlotsAre == N \in Nat /\ N >= 2 /\ Slots = 1..N
BY ObjListAssumption DEF N, Slots

(***************************************************************************)
(* The list and the free slots.                                            *)
(***************************************************************************)
Paths(n) == {p \in [1..n -> Slots] : \A i, j \in 1..n : p[i] = p[j] => i = j}

\* The links of the objects lead along list, forward and back.
LinksList(o, n, list) ==
    /\ o.num = n /\ o.last = list[n] /\ list[1] = 1 /\ list[2] = 2
    /\ \A i \in 1..n : o.next[list[i]] = IF i = n THEN 0 ELSE list[i + 1]
    /\ \A i \in 2..n : o.prev[list[i]] = list[i - 1]
    /\ \A s \in Slots : s \in o.live <=> \E i \in 1..n : list[i] = s

\* Those of the other slots lead along free.
LinksFree(o, m, free) ==
    /\ o.free = IF m = 0 THEN 0 ELSE free[1]
    /\ \A i \in 1..m : o.prev[free[i]] = IF i = m THEN 0 ELSE free[i + 1]
    /\ \A s \in Slots : s \notin o.live <=> \E i \in 1..m : free[i] = s

Linked(o, n, list, free) ==
    /\ n \in 2..N /\ list \in Paths(n) /\ free \in Paths(N - n)
    /\ LinksList(o, n, list) /\ LinksFree(o, N - n, free)

(***************************************************************************)
(* The records.                                                            *)
(***************************************************************************)
Actives == {"no", "yes", "onscreen", "always"}
Links == [Slots -> 0..N]
ObjRecs ==
    [prev : Links, next : Links, free : 0..N, last : 0..N, num : Nat, active : [Slots -> Actives],
     visible : SUBSET Slots, stunned : SUBSET Slots, sde : SUBSET Slots, star : SUBSET Slots,
     sprites : SUBSET (Slots \X {"self", "stars"}), temp : BOOLEAN, quit : BOOLEAN,
     walk : {"think", "collide", "draw"}, cur : 0..N, other : 0..N,
     live : SUBSET Slots, due : SUBSET Slots, deadThinks : BOOLEAN]

\* Each sprite is that of an object that points to it; only the stunned have stars; Keen and the
\* score box are always active.
Shown(o) ==
    /\ \A s \in Slots : <<s, "self">> \in o.sprites <=> s \in o.sde /\ s \in o.live
    /\ \A s \in Slots : <<s, "stars">> \in o.sprites <=> s \in o.star /\ s \in o.live
    /\ \A s \in Slots : s \in o.star /\ s \in o.live => s \in o.stunned
    /\ o.active[1] = "always" /\ o.active[2] = "always"

(***************************************************************************)
(* A new object is put at the end of the list.                             *)
(***************************************************************************)
Extended(list, n, s) == [i \in 1..(n + 1) |-> IF i = n + 1 THEN s ELSE list[i]]
Rest(free, m) == [i \in 1..(m - 1) |-> free[i + 1]]

LEMMA Appends ==
    ASSUME NEW o \in ObjRecs, NEW n, NEW list, NEW free, Linked(o, n, list, free), n # N,
           NEW q, NEW s, s = free[1],
           q.free = o.prev[s], q.prev = [o.prev EXCEPT ![s] = o.last],
           q.next = [x \in Slots |-> IF x = o.last THEN s ELSE IF x = s THEN 0 ELSE o.next[x]],
           q.last = s, q.num = o.num + 1, q.live = o.live \cup {s}
    PROVE  Linked(q, n + 1, Extended(list, n, s), Rest(free, N - n))
<1> DEFINE m == N - n
           l2 == Extended(list, n, s)
           f2 == Rest(free, m)
<1>0. /\ N \in Nat /\ N >= 2 /\ n \in 2..N /\ m \in 1..N /\ n + 1 \in 2..N /\ m - 1 \in 0..N
      /\ N - (n + 1) = m - 1
  BY SlotsAre DEF Linked
<1>1. /\ list \in [1..n -> Slots] /\ \A i, j \in 1..n : list[i] = list[j] => i = j
      /\ free \in [1..m -> Slots] /\ \A i, j \in 1..m : free[i] = free[j] => i = j
  BY DEF Linked, Paths
<1>2. LinksList(o, n, list) /\ LinksFree(o, m, free)
  BY DEF Linked
<1>3. s \in Slots /\ s \notin o.live
  <2>1. 1 \in 1..m
    BY <1>0
  <2> HIDE DEF m
  <2>2. s \in Slots
    BY <1>1, <2>1
  <2> QED  BY <1>2, <2>1, <2>2 DEF LinksFree
<1>4. /\ o.prev \in [Slots -> 0..N] /\ o.next \in [Slots -> 0..N] /\ o.live \in SUBSET Slots
  BY DEF ObjRecs, Links
<1>5. \A i \in 1..n : list[i] \in o.live /\ list[i] # s
  BY <1>1, <1>2, <1>3 DEF LinksList
<1> HIDE DEF m
<1>6. l2 \in Paths(n + 1)
  <2>1. l2 \in [1..(n + 1) -> Slots]
    BY <1>0, <1>1, <1>3 DEF Extended
  <2>2. ASSUME NEW i \in 1..(n + 1), NEW j \in 1..(n + 1), l2[i] = l2[j] PROVE i = j
    BY <2>2, <1>0, <1>1, <1>5 DEF Extended
  <2> QED  BY <2>1, <2>2 DEF Paths
<1>7. f2 \in Paths(m - 1)
  <2>1. f2 \in [1..(m - 1) -> Slots]
    BY <1>0, <1>1 DEF Rest
  <2>2. ASSUME NEW i \in 1..(m - 1), NEW j \in 1..(m - 1), f2[i] = f2[j] PROVE i = j
    BY <2>2, <1>0, <1>1 DEF Rest
  <2> QED  BY <2>1, <2>2 DEF Paths
<1>8. LinksList(q, n + 1, l2)
  <2>1. /\ q.num = n + 1 /\ q.last = l2[n + 1] /\ l2[1] = 1 /\ l2[2] = 2
    BY <1>0, <1>2 DEF LinksList, Extended
  <2>2. ASSUME NEW i \in 1..(n + 1) PROVE q.next[l2[i]] = IF i = n + 1 THEN 0 ELSE l2[i + 1]
    <3>1. CASE i = n + 1
      <4>1. l2[i] = s /\ s # o.last
        BY <3>1, <1>0, <1>2, <1>5 DEF Extended, LinksList
      <4> HIDE DEF l2
      <4> QED  BY <3>1, <4>1, <1>3
    <3>2. CASE i = n
      <4>1. l2[i] = o.last /\ l2[i] \in Slots /\ l2[i + 1] = s
        BY <3>2, <1>0, <1>1, <1>2 DEF Extended, LinksList
      <4> HIDE DEF l2
      <4> QED  BY <3>2, <4>1, <1>0
    <3>3. CASE i < n
      <4>1. /\ l2[i] = list[i] /\ l2[i] \in Slots /\ l2[i] # s /\ l2[i + 1] = list[i + 1]
            /\ l2[i] # o.last /\ o.next[list[i]] = list[i + 1]
        BY <3>3, <1>0, <1>1, <1>2, <1>5 DEF Extended, LinksList
      <4> HIDE DEF l2
      <4> QED  BY <3>3, <4>1, <1>0
    <3> QED  BY <3>1, <3>2, <3>3, <1>0
  <2>3. ASSUME NEW i \in 2..(n + 1) PROVE q.prev[l2[i]] = l2[i - 1]
    <3>1. CASE i = n + 1
      BY <3>1, <1>0, <1>2, <1>3, <1>4 DEF Extended, LinksList
    <3>2. CASE i \in 2..n
      <4>1. l2[i] = list[i] /\ l2[i - 1] = list[i - 1] /\ list[i] # s /\ list[i] \in Slots
        BY <3>2, <1>0, <1>1, <1>5 DEF Extended
      <4> HIDE DEF l2
      <4> QED  BY <3>2, <4>1, <1>2, <1>4 DEF LinksList
    <3> QED  BY <3>1, <3>2, <1>0
  <2>4. ASSUME NEW x \in Slots PROVE x \in q.live <=> \E i \in 1..(n + 1) : l2[i] = x
    <3>1. x \in o.live <=> \E i \in 1..n : list[i] = x
      BY <1>2 DEF LinksList
    <3>2. \A i \in 1..(n + 1) : l2[i] = IF i = n + 1 THEN s ELSE list[i]
      BY DEF Extended
    <3> HIDE DEF l2
    <3> QED  BY <3>1, <3>2, <1>0
  <2> HIDE DEF l2
  <2> QED  BY <2>1, <2>2, <2>3, <2>4 DEF LinksList
<1>9. LinksFree(q, m - 1, f2)
  <2>1. q.free = IF m - 1 = 0 THEN 0 ELSE f2[1]
    BY <1>0, <1>2 DEF LinksFree, Rest
  <2>2. ASSUME NEW i \in 1..(m - 1) PROVE q.prev[f2[i]] = IF i = m - 1 THEN 0 ELSE f2[i + 1]
    <3>1. f2[i] = free[i + 1] /\ f2[i] # s /\ f2[i] \in Slots /\ (i # m - 1 => f2[i + 1] = free[i + 2])
      BY <1>0, <1>1 DEF Rest
    <3>2. o.prev[free[i + 1]] = IF i + 1 = m THEN 0 ELSE free[i + 2]
      BY <1>0, <1>2 DEF LinksFree
    <3> HIDE DEF f2
    <3> QED  BY <3>1, <3>2, <1>0, <1>4
  <2>3. ASSUME NEW x \in Slots PROVE x \notin q.live <=> \E i \in 1..(m - 1) : f2[i] = x
    <3>1. x \notin o.live <=> \E i \in 1..m : free[i] = x
      BY <1>2 DEF LinksFree
    <3>2. \A i \in 1..(m - 1) : f2[i] = free[i + 1] /\ f2[i] # s
      BY <1>0, <1>1 DEF Rest
    <3> HIDE DEF f2
    <3>3. ASSUME x \notin q.live PROVE \E i \in 1..(m - 1) : f2[i] = x
      <4>1. PICK i \in 1..m : free[i] = x
        BY <3>1, <3>3
      <4>2. i # 1
        BY <3>3, <4>1
      <4>3. i - 1 \in 1..(m - 1) /\ f2[i - 1] = free[i]
        BY <1>0, <3>2, <4>2
      <4> QED  BY <4>1, <4>3
    <3>4. ASSUME NEW i \in 1..(m - 1), f2[i] = x PROVE x \notin q.live
      <4>1. i + 1 \in 1..m /\ free[i + 1] = x /\ x # s
        BY <1>0, <3>2, <3>4
      <4> QED  BY <4>1, <3>1
    <3> QED  BY <3>3, <3>4
  <2> HIDE DEF f2
  <2> QED  BY <2>1, <2>2, <2>3 DEF LinksFree
<1> HIDE DEF l2, f2
<1>10. Linked(q, n + 1, l2, f2)
  BY <1>0, <1>6, <1>7, <1>8, <1>9 DEF Linked
<1> QED  BY <1>10 DEF l2, f2, m

(***************************************************************************)
(* An object is taken out, and its slot put before the free ones.          *)
(***************************************************************************)
Without(list, n, k) == [i \in 1..(n - 1) |-> IF i < k THEN list[i] ELSE list[i + 1]]
Pushed(s, free, m) == [i \in 1..(m + 1) |-> IF i = 1 THEN s ELSE free[i - 1]]

LEMMA TakesOut ==
    ASSUME NEW o \in ObjRecs, NEW n, NEW list, NEW free, Linked(o, n, list, free),
           NEW k \in 3..n, NEW s, s = list[k], NEW q,
           q.free = s, q.last = IF o.last = s THEN o.prev[s] ELSE o.last,
           \A x \in Slots : q.prev[x] = IF x = s THEN o.free ELSE IF x = o.next[s] THEN o.prev[s] ELSE o.prev[x],
           \A x \in Slots : q.next[x] = IF x = o.prev[s] THEN o.next[s] ELSE o.next[x],
           q.num = o.num - 1, q.live = o.live \ {s}
    PROVE  /\ Linked(q, n - 1, Without(list, n, k), Pushed(s, free, N - n))
           /\ q.next[s] = o.next[s]
<1> DEFINE m == N - n
           l2 == Without(list, n, k)
           f2 == Pushed(s, free, m)
           p == o.prev[s]
           z == o.next[s]
<1>0. /\ N \in Nat /\ N >= 2 /\ n \in 3..N /\ m \in 0..N /\ n - 1 \in 2..N /\ m + 1 \in 1..N
      /\ N - (n - 1) = m + 1
  BY SlotsAre DEF Linked
<1>1. /\ list \in [1..n -> Slots] /\ \A i, j \in 1..n : list[i] = list[j] => i = j
      /\ free \in [1..m -> Slots] /\ \A i, j \in 1..m : free[i] = free[j] => i = j
  BY DEF Linked, Paths
<1>2. LinksList(o, n, list) /\ LinksFree(o, m, free)
  BY DEF Linked
<1>3. /\ o.prev \in [Slots -> 0..N] /\ o.next \in [Slots -> 0..N] /\ o.live \in SUBSET Slots
  BY DEF ObjRecs, Links
<1>4. s \in Slots /\ s \in o.live /\ p = list[k - 1] /\ p # s /\ p \in Slots
  <2>1. k \in 1..n /\ k \in 2..n /\ k - 1 \in 1..n /\ k - 1 # k
    BY <1>0
  <2>2. s \in Slots /\ list[k - 1] \in Slots /\ list[k - 1] # s
    BY <2>1, <1>1
  <2>3. p = list[k - 1]
    BY <2>1, <1>2 DEF LinksList
  <2>4. s \in o.live
    BY <2>1, <2>2, <1>2 DEF LinksList
  <2> HIDE DEF p
  <2> QED  BY <2>2, <2>3, <2>4
<1>5. /\ \A i \in 1..n : /\ list[i] \in Slots
                         /\ list[i] = s <=> i = k
                         /\ list[i] = p <=> i = k - 1
                         /\ list[i] = z <=> i = k + 1
      /\ z = IF k = n THEN 0 ELSE list[k + 1]
      /\ 0 \notin Slots
  <2>1. k \in 1..n /\ k - 1 \in 1..n /\ (k # n => k + 1 \in 1..n)
    BY <1>0
  <2>2. z = IF k = n THEN 0 ELSE list[k + 1]
    BY <2>1, <1>2 DEF LinksList
  <2>3. 0 \notin Slots
    BY SlotsAre
  <2> HIDE DEF p, z
  <2>4. ASSUME NEW i \in 1..n
        PROVE  /\ list[i] \in Slots
               /\ list[i] = s <=> i = k
               /\ list[i] = p <=> i = k - 1
               /\ list[i] = z <=> i = k + 1
    <3>1. list[i] \in Slots /\ (list[i] = s <=> i = k)
      BY <2>1, <1>1
    <3>2. list[i] = p <=> i = k - 1
      BY <2>1, <1>1, <1>4
    <3>3. list[i] = z <=> i = k + 1
      <4>1. CASE k = n
        BY <4>1, <3>1, <2>2, <2>3, <1>0
      <4>2. CASE k # n
        BY <4>2, <2>1, <2>2, <1>1
      <4> QED  BY <4>1, <4>2
    <3> QED  BY <3>1, <3>2, <3>3
  <2> QED  BY <2>2, <2>3, <2>4
<1>6. \A i \in 1..n : list[i] \in o.live
  BY <1>1, <1>2 DEF LinksList
<1>7. \A i \in 1..m : free[i] \notin o.live /\ free[i] # s /\ free[i] # p /\ free[i] # z /\ free[i] \in Slots
  <2>1. z # 0 => z \in o.live
    BY <1>0, <1>5, <1>6
  <2>2. p \in o.live
    BY <1>0, <1>4, <1>6
  <2> HIDE DEF p, z, m
  <2> QED  BY <2>1, <2>2, <1>0, <1>1, <1>2, <1>4, <1>5 DEF LinksFree
<1> HIDE DEF m, p, z
<1>8. /\ q.last = IF o.last = s THEN p ELSE o.last
      /\ \A x \in Slots : q.prev[x] = IF x = s THEN o.free ELSE IF x = z THEN p ELSE o.prev[x]
      /\ \A x \in Slots : q.next[x] = IF x = p THEN z ELSE o.next[x]
  BY <1>3 DEF p, z
<1>9. l2 \in Paths(n - 1)
  <2>1. l2 \in [1..(n - 1) -> Slots]
    BY <1>0, <1>1 DEF Without
  <2>2. ASSUME NEW i \in 1..(n - 1), NEW j \in 1..(n - 1), l2[i] = l2[j] PROVE i = j
    BY <2>2, <1>0, <1>1 DEF Without
  <2> QED  BY <2>1, <2>2 DEF Paths
<1>10. f2 \in Paths(m + 1)
  <2>1. f2 \in [1..(m + 1) -> Slots]
    BY <1>0, <1>1, <1>4 DEF Pushed
  <2>2. ASSUME NEW i \in 1..(m + 1), NEW j \in 1..(m + 1), f2[i] = f2[j] PROVE i = j
    BY <2>2, <1>0, <1>1, <1>7 DEF Pushed
  <2> QED  BY <2>1, <2>2 DEF Paths
<1>11. LinksList(q, n - 1, l2)
  <2>1. q.num = n - 1 /\ l2[1] = 1 /\ l2[2] = 2
    BY <1>0, <1>2 DEF LinksList, Without
  <2>2. q.last = l2[n - 1]
    <3>1. o.last = list[n] /\ (o.last = s <=> k = n)
      BY <1>0, <1>2, <1>5 DEF LinksList
    <3>2. l2[n - 1] = IF k = n THEN list[n - 1] ELSE list[n]
      <4>1. n - 1 \in 1..(n - 1) /\ (n - 1 < k <=> k = n) /\ (n - 1) + 1 = n
        BY <1>0
      <4>2. l2[n - 1] = IF n - 1 < k THEN list[n - 1] ELSE list[(n - 1) + 1]
        BY <4>1 DEF Without
      <4> HIDE DEF l2
      <4> QED  BY <4>1, <4>2
    <3> HIDE DEF l2
    <3> QED  BY <3>1, <3>2, <1>0, <1>4, <1>8
  <2>3. \A i \in 1..(n - 1) : l2[i] = IF i < k THEN list[i] ELSE list[i + 1]
    BY DEF Without
  <2> HIDE DEF l2
  <2>4. ASSUME NEW i \in 1..(n - 1) PROVE q.next[l2[i]] = IF i = n - 1 THEN 0 ELSE l2[i + 1]
    <3>1. CASE i < k - 1
      <4>1. /\ l2[i] = list[i] /\ l2[i + 1] = list[i + 1] /\ i \in 1..n /\ i # n - 1 /\ i # n
            /\ list[i] # p /\ list[i] \in Slots
        BY <3>1, <2>3, <1>0, <1>5
      <4>2. o.next[list[i]] = list[i + 1]
        BY <4>1, <1>2 DEF LinksList
      <4> QED  BY <4>1, <4>2, <1>8
    <3>2. CASE i = k - 1
      <4>1. l2[i] = p /\ (i # n - 1 => l2[i + 1] = list[k + 1]) /\ (i = n - 1 <=> k = n)
        BY <3>2, <2>3, <1>0, <1>4
      <4> QED  BY <4>1, <1>4, <1>5, <1>8
    <3>3. CASE i >= k
      <4>1. /\ l2[i] = list[i + 1] /\ i + 1 \in 1..n /\ (i # n - 1 => l2[i + 1] = list[i + 2])
            /\ list[i + 1] # p /\ list[i + 1] \in Slots
        BY <3>3, <2>3, <1>0, <1>5
      <4>2. o.next[list[i + 1]] = IF i + 1 = n THEN 0 ELSE list[i + 2]
        BY <4>1, <1>2 DEF LinksList
      <4> QED  BY <4>1, <4>2, <1>0, <1>8
    <3> QED  BY <3>1, <3>2, <3>3, <1>0
  <2>5. ASSUME NEW i \in 2..(n - 1) PROVE q.prev[l2[i]] = l2[i - 1]
    <3>1. CASE i < k
      <4>0. i \in 1..n /\ i \in 2..n /\ i # k /\ i # k + 1 /\ i - 1 < k /\ i \in 1..(n - 1) /\ i - 1 \in 1..(n - 1)
        BY <3>1, <1>0
      <4>1. /\ l2[i] = list[i] /\ l2[i - 1] = list[i - 1]
            /\ list[i] # s /\ list[i] # z /\ list[i] \in Slots
        BY <3>1, <4>0, <2>3, <1>5
      <4>2. o.prev[list[i]] = list[i - 1]
        BY <4>0, <1>2 DEF LinksList
      <4> QED  BY <4>1, <4>2, <1>8
    <3>2. CASE i = k
      <4>1. l2[i] = z /\ l2[i - 1] = p /\ z # s /\ z \in Slots
        BY <3>2, <2>3, <1>0, <1>4, <1>5
      <4> QED  BY <4>1, <1>8
    <3>3. CASE i > k
      <4>0. /\ i + 1 \in 1..n /\ i + 1 \in 2..n /\ i + 1 # k /\ i + 1 # k + 1 /\ (i + 1) - 1 = i
            /\ i \in 1..(n - 1) /\ i - 1 \in 1..(n - 1) /\ ~(i < k) /\ ~(i - 1 < k) /\ (i - 1) + 1 = i
        BY <3>3, <1>0
      <4>1. /\ l2[i] = list[i + 1] /\ l2[i - 1] = list[i]
            /\ list[i + 1] # s /\ list[i + 1] # z /\ list[i + 1] \in Slots
        BY <4>0, <2>3, <1>5
      <4>2. o.prev[list[i + 1]] = list[i]
        BY <4>0, <1>2 DEF LinksList
      <4> QED  BY <4>1, <4>2, <1>8
    <3> QED  BY <3>1, <3>2, <3>3, <1>0
  <2>6. ASSUME NEW x \in Slots PROVE x \in q.live <=> \E i \in 1..(n - 1) : l2[i] = x
    <3>1. x \in o.live <=> \E i \in 1..n : list[i] = x
      BY <1>2 DEF LinksList
    <3>2. ASSUME x \in q.live PROVE \E i \in 1..(n - 1) : l2[i] = x
      <4>1. PICK i \in 1..n : list[i] = x /\ i # k
        BY <3>1, <3>2, <1>5
      <4>2. CASE i < k
        BY <4>1, <4>2, <2>3, <1>0
      <4>3. CASE i > k
        <5>1. i - 1 \in 1..(n - 1) /\ l2[i - 1] = list[i]
          BY <4>3, <2>3, <1>0
        <5> QED  BY <4>1, <5>1
      <4> QED  BY <4>1, <4>2, <4>3, <1>0
    <3>3. ASSUME NEW i \in 1..(n - 1), l2[i] = x PROVE x \in q.live
      BY <3>1, <3>3, <2>3, <1>0, <1>5
    <3> QED  BY <3>2, <3>3
  <2> QED  BY <2>1, <2>2, <2>4, <2>5, <2>6 DEF LinksList
<1>12. LinksFree(q, m + 1, f2)
  <2>1. \A i \in 1..(m + 1) : f2[i] = IF i = 1 THEN s ELSE free[i - 1]
    BY DEF Pushed
  <2> HIDE DEF f2
  <2>2. q.free = IF m + 1 = 0 THEN 0 ELSE f2[1]
    BY <2>1, <1>0
  <2>3. ASSUME NEW i \in 1..(m + 1) PROVE q.prev[f2[i]] = IF i = m + 1 THEN 0 ELSE f2[i + 1]
    <3>1. CASE i = 1
      <4>1. f2[i] = s /\ (i # m + 1 => f2[i + 1] = free[1] /\ m # 0) /\ (i = m + 1 <=> m = 0)
        BY <3>1, <2>1, <1>0
      <4>2. q.prev[s] = o.free
        BY <1>4, <1>8
      <4> QED  BY <4>1, <4>2, <1>2 DEF LinksFree
    <3>2. CASE i # 1
      <4>1. f2[i] = free[i - 1] /\ i - 1 \in 1..m /\ (i # m + 1 => f2[i + 1] = free[i])
        BY <3>2, <2>1, <1>0
      <4>2. o.prev[free[i - 1]] = IF i - 1 = m THEN 0 ELSE free[i]
        BY <4>1, <1>0, <1>2 DEF LinksFree
      <4>3. q.prev[free[i - 1]] = o.prev[free[i - 1]]
        BY <4>1, <1>7, <1>8
      <4> QED  BY <4>1, <4>2, <4>3, <1>0
    <3> QED  BY <3>1, <3>2
  <2>4. ASSUME NEW x \in Slots PROVE x \notin q.live <=> \E i \in 1..(m + 1) : f2[i] = x
    <3>1. x \notin o.live <=> \E i \in 1..m : free[i] = x
      BY <1>2 DEF LinksFree
    <3>2. ASSUME x \notin q.live PROVE \E i \in 1..(m + 1) : f2[i] = x
      <4>1. CASE x = s
        BY <4>1, <2>1, <1>0
      <4>2. CASE x # s
        <5>1. PICK i \in 1..m : free[i] = x
          BY <3>1, <3>2, <4>2
        <5>2. i + 1 \in 1..(m + 1) /\ f2[i + 1] = free[i]
          BY <2>1, <1>0
        <5> QED  BY <5>1, <5>2
      <4> QED  BY <4>1, <4>2
    <3>3. ASSUME NEW i \in 1..(m + 1), f2[i] = x PROVE x \notin q.live
      <4>1. i # 1 => i - 1 \in 1..m /\ f2[i] = free[i - 1]
        BY <2>1, <1>0
      <4> QED  BY <3>3, <4>1, <2>1, <1>7, <1>0
    <3> QED  BY <3>2, <3>3
  <2> QED  BY <2>2, <2>3, <2>4 DEF LinksFree
<1> HIDE DEF l2, f2
<1>13. Linked(q, n - 1, l2, f2)
  BY <1>0, <1>9, <1>10, <1>11, <1>12 DEF Linked
<1>14. q.next[s] = o.next[s]
  BY <1>4, <1>8
<1> QED  BY <1>13, <1>14 DEF l2, f2, m

(***************************************************************************)
(* Where a walk is: with s before it has called it, and D those it has yet *)
(* to go to; past s once it has.                                           *)
(***************************************************************************)
At(n, list, s, D) ==
    \E i \in 1..n : list[i] = s /\ \A d \in D : \E j \in (i + 1)..n : list[j] = d

Ahead(n, list, x, D) ==
    IF x = 0 THEN D = {}
    ELSE \E i \in 1..n : list[i] = x /\ \A d \in D : \E j \in i..n : list[j] = d

\* What every operation keeps.
Whole(o) == o \in ObjRecs /\ Shown(o) /\ \E n, list, free : Linked(o, n, list, free)
MetAt(o, s, D) ==
    /\ o \in ObjRecs /\ Shown(o)
    /\ \E n, list, free : Linked(o, n, list, free) /\ At(n, list, s, D)
Passed(o, s, D) ==
    /\ o \in ObjRecs /\ Shown(o)
    /\ \E n, list, free : Linked(o, n, list, free) /\ Ahead(n, list, o.next[s], D)

SameLinks(q, o) ==
    q.prev = o.prev /\ q.next = o.next /\ q.free = o.free /\ q.last = o.last /\ q.num = o.num /\ q.live = o.live
SameWalk(q, o) ==
    q.walk = o.walk /\ q.cur = o.cur /\ q.other = o.other /\ q.due = o.due /\ q.deadThinks = o.deadThinks

LEMMA LinksAlone ==
    ASSUME NEW o, NEW q, SameLinks(q, o), NEW n, NEW list, NEW free, Linked(o, n, list, free)
    PROVE  Linked(q, n, list, free)
BY DEF SameLinks, Linked, LinksList, LinksFree

LEMMA MetAlone ==
    ASSUME NEW o, NEW q, NEW s, NEW D, SameLinks(q, o), q \in ObjRecs, Shown(q)
    PROVE  /\ MetAt(o, s, D) => MetAt(q, s, D)
           /\ Whole(o) => Whole(q)
<1>1. ASSUME MetAt(o, s, D) PROVE MetAt(q, s, D)
  <2>1. PICK n, list, free : Linked(o, n, list, free) /\ At(n, list, s, D)
    BY <1>1 DEF MetAt
  <2>2. Linked(q, n, list, free)
    BY <2>1, LinksAlone
  <2> QED  BY <2>1, <2>2 DEF MetAt
<1>2. ASSUME Whole(o) PROVE Whole(q)
  BY <1>2, LinksAlone DEF Whole
<1> QED  BY <1>1, <1>2

\* An object is somewhere in the list.
LEMMA ObjectsAreMet ==
    ASSUME NEW o, Whole(o), NEW s \in o.live
    PROVE  MetAt(o, s, {}) /\ s \in Slots
<1>1. s \in Slots /\ o \in ObjRecs /\ Shown(o)
  BY DEF Whole, ObjRecs
<1>2. PICK n, list, free : Linked(o, n, list, free)
  BY DEF Whole
<1>3. At(n, list, s, {})
  BY <1>1, <1>2 DEF Linked, LinksList, At
<1> QED  BY <1>1, <1>2, <1>3 DEF MetAt

LEMMA MetIsWhole ==
    ASSUME NEW o, NEW s, NEW D, MetAt(o, s, D)
    PROVE  Whole(o) /\ s \in Slots /\ s \in o.live /\ D \subseteq o.live /\ s \notin D
<1>1. PICK n, list, free : Linked(o, n, list, free) /\ At(n, list, s, D)
  BY DEF MetAt
<1>2. PICK i \in 1..n : list[i] = s /\ \A d \in D : \E j \in (i + 1)..n : list[j] = d
  BY <1>1 DEF At
<1>3. n \in Nat /\ \A j \in 1..n : /\ list[j] \in Slots /\ list[j] \in o.live
                                   /\ list[j] = s <=> j = i
  BY <1>1, <1>2, SlotsAre, SMTT(30) DEF Linked, Paths, LinksList
<1>4. ASSUME NEW d \in D PROVE d \in o.live /\ d # s
  <2>1. PICK j \in (i + 1)..n : list[j] = d
    BY <1>2
  <2> QED  BY <2>1, <1>3
<1> QED  BY <1>1, <1>2, <1>3, <1>4 DEF MetAt, Whole

\* The walk goes on to the next of the list.
LEMMA GoesOn ==
    ASSUME NEW o, NEW s, NEW D, MetAt(o, s, D)
    PROVE  Passed(o, s, D)
<1>1. PICK n, list, free : Linked(o, n, list, free) /\ At(n, list, s, D)
  BY DEF MetAt
<1>2. PICK i \in 1..n : list[i] = s /\ \A d \in D : \E j \in (i + 1)..n : list[j] = d
  BY <1>1 DEF At
<1>3. o.next[s] = IF i = n THEN 0 ELSE list[i + 1]
  BY <1>1, <1>2 DEF Linked, LinksList
<1>4. n \in Nat /\ \A j \in 1..n : list[j] # 0
  BY <1>1, SlotsAre DEF Linked, Paths
<1>5. Ahead(n, list, o.next[s], D)
  <2>1. CASE i = n
    BY <2>1, <1>2, <1>3, <1>4 DEF Ahead
  <2>2. CASE i # n
    <3>1. i + 1 \in 1..n
      BY <2>2, <1>4
    <3> QED  BY <2>2, <3>1, <1>2, <1>3, <1>4 DEF Ahead
  <2> QED  BY <2>1, <2>2
<1> QED  BY <1>1, <1>5 DEF MetAt, Passed

(***************************************************************************)
(* The sprites of a slot are taken off the screen.                         *)
(***************************************************************************)
Unshown(o, s) == RemoveStars(RF_RemoveSpriteDraw(o, s), s)

LEMMA TakesSprites ==
    ASSUME NEW o \in ObjRecs, Shown(o), NEW s \in Slots, s \in o.live, NEW q, q = Unshown(o, s)
    PROVE  /\ q \in ObjRecs /\ Shown(q) /\ s \notin q.sde /\ s \notin q.star
           /\ SameLinks(q, o) /\ SameWalk(q, o)
           /\ q.active = o.active /\ q.visible = o.visible /\ q.stunned = o.stunned
           /\ q.temp = o.temp /\ q.quit = o.quit
<1> DEFINE p == RF_RemoveSpriteDraw(o, s)
<1>1. /\ p \in ObjRecs /\ p.sde = o.sde \ {s} /\ p.star = o.star
      /\ \A x \in Slots : <<x, "self">> \in p.sprites <=> <<x, "self">> \in o.sprites /\ x # s
      /\ \A x \in Slots : <<x, "stars">> \in p.sprites <=> <<x, "stars">> \in o.sprites
      /\ SameLinks(p, o) /\ SameWalk(p, o)
      /\ p.active = o.active /\ p.visible = o.visible /\ p.stunned = o.stunned
      /\ p.temp = o.temp /\ p.quit = o.quit
  <2>1. CASE s \in o.sde
    <3>1. p = [o EXCEPT !.sde = @ \ {s}, !.sprites = @ \ {<<s, "self">>}]
      BY <2>1 DEF RF_RemoveSpriteDraw
    <3> HIDE DEF p
    <3> QED  BY <3>1 DEF ObjRecs, SameLinks, SameWalk
  <2>2. CASE s \notin o.sde
    <3>1. p = o
      BY <2>2 DEF RF_RemoveSpriteDraw
    <3> HIDE DEF p
    <3> QED  BY <3>1, <2>2 DEF Shown, SameLinks, SameWalk, ObjRecs
  <2> QED  BY <2>1, <2>2
<1>2. q = RemoveStars(p, s)
  BY DEF Unshown
<1> HIDE DEF p
<1>3. /\ q \in ObjRecs /\ q.sde = p.sde /\ q.star = p.star \ {s}
      /\ \A x \in Slots : <<x, "self">> \in q.sprites <=> <<x, "self">> \in p.sprites
      /\ \A x \in Slots : <<x, "stars">> \in q.sprites <=> <<x, "stars">> \in p.sprites /\ x # s
      /\ SameLinks(q, p) /\ SameWalk(q, p)
      /\ q.active = p.active /\ q.visible = p.visible /\ q.stunned = p.stunned
      /\ q.temp = p.temp /\ q.quit = p.quit
  <2>1. CASE s \in p.stunned \cap p.star
    <3>1. q = [p EXCEPT !.star = @ \ {s}, !.sprites = @ \ {<<s, "stars">>}]
      BY <1>2, <2>1 DEF RemoveStars
    <3>2. p \in ObjRecs
      BY <1>1
    <3>3. /\ q.star = p.star \ {s} /\ q.sde = p.sde /\ q.sprites = p.sprites \ {<<s, "stars">>}
          /\ q.active = p.active /\ q.visible = p.visible /\ q.stunned = p.stunned
          /\ q.temp = p.temp /\ q.quit = p.quit
      BY <3>1, <3>2 DEF ObjRecs
    <3>4. SameLinks(q, p) /\ SameWalk(q, p)
      BY <3>1, <3>2 DEF ObjRecs, SameLinks, SameWalk
    <3>5. q \in ObjRecs
      <4> DEFINE star == p.star \ {s}
                 sprites == p.sprites \ {<<s, "stars">>}
      <4>1. q = [p EXCEPT !.star = star, !.sprites = sprites]
        BY <3>1
      <4>2. star \in SUBSET Slots /\ sprites \in SUBSET (Slots \X {"self", "stars"})
        BY <3>2 DEF ObjRecs
      <4> HIDE DEF star, sprites
      <4> QED  BY <3>2, <4>1, <4>2, ZenonT(60) DEF ObjRecs
    <3> QED  BY <3>3, <3>4, <3>5
  <2>2. CASE s \notin p.stunned \cap p.star
    <3>1. q = p
      BY <1>2, <2>2 DEF RemoveStars
    <3>2. s \notin p.star
      BY <2>2, <1>1 DEF Shown
    <3> QED  BY <3>1, <3>2, <1>1 DEF Shown, SameLinks, SameWalk, ObjRecs
  <2> QED  BY <2>1, <2>2
<1>4. SameLinks(q, o) /\ SameWalk(q, o)
  BY <1>1, <1>3 DEF SameLinks, SameWalk
<1>5. Shown(q)
  BY <1>1, <1>3, <1>4 DEF Shown, SameLinks
<1> QED  BY <1>1, <1>3, <1>4, <1>5

(***************************************************************************)
(* The operations on the list.                                             *)
(***************************************************************************)
\* A free slot is taken.
Nexts(o) == [x \in Slots |-> IF x = o.last THEN o.free ELSE IF x = o.free THEN 0 ELSE o.next[x]]

Taken(q, o, s) ==
    /\ s \in Slots
    /\ q.free = o.prev[s] /\ q.prev = [o.prev EXCEPT ![s] = o.last] /\ q.next = Nexts(o)
    /\ q.last = s /\ q.num = o.num + 1 /\ q.live = o.live \cup {s} /\ q.temp = FALSE
    /\ q.sde = o.sde \ {s} /\ q.star = o.star \ {s} /\ q.stunned = o.stunned \ {s}
    /\ q.sprites = o.sprites /\ q.active = [o.active EXCEPT ![s] = "yes"]

LEMMA SlotTaken ==
    ASSUME NEW o \in ObjRecs, o.free # 0, NEW c \in BOOLEAN, NEW q, q = CK_GetNewObj(o, c)
    PROVE  q \in ObjRecs /\ SameWalk(q, o) /\ Taken(q, o, o.free)
<1>0. N \in Nat /\ N >= 2 /\ Slots = 1..N
  BY SlotsAre
<1> DEFINE next == Nexts(o)
           s == o.free
<1>1. q = [o EXCEPT !.free = o.prev[s], !.prev[s] = o.last, !.next = next,
                    !.active[s] = "yes", !.visible = @ \ {s}, !.stunned = @ \ {s},
                    !.sde = @ \ {s}, !.star = @ \ {s},
                    !.last = s, !.num = @ + 1, !.live = @ \cup {s}, !.temp = FALSE]
  BY DEF CK_GetNewObj, Nexts
<1>2. s \in Slots /\ o.prev[s] \in 0..N /\ next \in [Slots -> 0..N] /\ o.last \in 0..N
  BY <1>0 DEF ObjRecs, Links, Nexts
<1> HIDE DEF next, s
<1>3. /\ q.free = o.prev[s] /\ q.prev = [o.prev EXCEPT ![s] = o.last] /\ q.next = next
      /\ q.last = s /\ q.num = o.num + 1 /\ q.live = o.live \cup {s} /\ q.temp = FALSE
      /\ q.sde = o.sde \ {s} /\ q.star = o.star \ {s} /\ q.stunned = o.stunned \ {s}
      /\ q.sprites = o.sprites /\ q.active = [o.active EXCEPT ![s] = "yes"]
      /\ SameWalk(q, o)
  BY <1>1 DEF ObjRecs, SameWalk
<1>4. q \in ObjRecs
  <2>1. [o.prev EXCEPT ![s] = o.last] \in Links /\ next \in Links
    BY <1>2 DEF ObjRecs, Links
  <2>2. [o.active EXCEPT ![s] = "yes"] \in [Slots -> Actives]
    BY <1>0 DEF ObjRecs, Actives
  <2>3. o.num + 1 \in Nat /\ s \in 0..N
    BY <1>0, <1>2 DEF ObjRecs
  <2>4. /\ o.visible \ {s} \in SUBSET Slots /\ o.stunned \ {s} \in SUBSET Slots
        /\ o.sde \ {s} \in SUBSET Slots /\ o.star \ {s} \in SUBSET Slots
        /\ o.live \cup {s} \in SUBSET Slots
    BY <1>0, <1>2 DEF ObjRecs
  <2> DEFINE prev == [o.prev EXCEPT ![s] = o.last]
             active == [o.active EXCEPT ![s] = "yes"]
             visible == o.visible \ {s}
             stunned == o.stunned \ {s}
             sde == o.sde \ {s}
             star == o.star \ {s}
             live == o.live \cup {s}
             num == o.num + 1
  <2>5. q = [o EXCEPT !.free = o.prev[s], !.prev = prev, !.next = next,
                      !.active = active, !.visible = visible, !.stunned = stunned,
                      !.sde = sde, !.star = star,
                      !.last = s, !.num = num, !.live = live, !.temp = FALSE]
    BY <1>1
  <2> HIDE DEF prev, active, visible, stunned, sde, star, live, num
  <2>6. /\ prev \in Links /\ active \in [Slots -> Actives] /\ visible \in SUBSET Slots
        /\ stunned \in SUBSET Slots /\ sde \in SUBSET Slots /\ star \in SUBSET Slots
        /\ live \in SUBSET Slots /\ num \in Nat
    BY <2>1, <2>2, <2>3, <2>4 DEF prev, active, visible, stunned, sde, star, live, num
  <2> DEFINE p == [o EXCEPT !.free = o.prev[s], !.prev = prev, !.next = next,
                            !.active = active, !.visible = visible, !.stunned = stunned]
  <2>7. p \in ObjRecs
    BY <1>0, <1>2, <2>1, <2>6, ZenonT(60) DEF ObjRecs
  <2> DEFINE r == [p EXCEPT !.sde = sde, !.star = star, !.last = s, !.num = num]
  <2>8. q = [r EXCEPT !.live = live, !.temp = FALSE]
    BY <2>5, Zenon
  <2> HIDE DEF p
  <2>9. r \in ObjRecs
    BY <2>3, <2>6, <2>7 DEF ObjRecs
  <2> HIDE DEF r
  <2> QED  BY <2>6, <2>8, <2>9, ZenonT(60) DEF ObjRecs
<1> QED  BY <1>2, <1>3, <1>4 DEF next, s, Taken

\* There is none.
LEMMA NoSlot ==
    ASSUME NEW o \in ObjRecs, o.free = 0, NEW c \in BOOLEAN, NEW q, q = CK_GetNewObj(o, c)
    PROVE  /\ q \in ObjRecs /\ SameLinks(q, o) /\ SameWalk(q, o) /\ q.temp
           /\ Shown(o) => Shown(q)
<1> DEFINE b == o.quit \/ ~c
<1>1. q = [o EXCEPT !.temp = TRUE, !.quit = b]
  BY DEF CK_GetNewObj
<1> b \in BOOLEAN
  OBVIOUS
<1> HIDE DEF b
<1>2. q \in ObjRecs /\ SameLinks(q, o) /\ SameWalk(q, o) /\ q.temp
  BY <1>1, ZenonT(60) DEF ObjRecs, SameLinks, SameWalk
<1>3. Shown(o) => Shown(q)
  BY <1>1 DEF Shown, ObjRecs
<1> QED  BY <1>2, <1>3

\* Getting an object leaves the walk where it is. The new one is no other's slot.
LEMMA Gets ==
    ASSUME NEW o, Whole(o), NEW c \in BOOLEAN, NEW q, q = CK_GetNewObj(o, c)
    PROVE  /\ Whole(q) /\ SameWalk(q, o)
           /\ \A s, D : MetAt(o, s, D) => MetAt(q, s, IF q.temp THEN D ELSE D \cup {q.last})
           /\ q.live = IF q.temp THEN o.live ELSE o.live \cup {q.last}
           /\ q.num = IF q.temp THEN o.num ELSE o.num + 1
           /\ ~q.temp => q.last \in q.live /\ q.last \notin o.live
           /\ q.temp <=> o.num = N
           /\ \A n, list, free : Linked(o, n, list, free) /\ ~q.temp =>
                Linked(q, n + 1, Extended(list, n, free[1]), Rest(free, N - n))
<1>0. o \in ObjRecs /\ Shown(o) /\ N \in Nat /\ N >= 2 /\ Slots = 1..N
  BY SlotsAre DEF Whole
<1>1. CASE o.free = 0
  <2>2. q \in ObjRecs /\ SameLinks(q, o) /\ SameWalk(q, o) /\ q.temp /\ Shown(q)
    BY <1>0, <1>1, NoSlot
  <2>4. PICK n, list, free : Linked(o, n, list, free)
    BY DEF Whole
  <2>5. o.num = N
    <3>1. n \in 2..N /\ o.num = n /\ free \in [1..(N - n) -> Slots] /\ (n # N => o.free = free[1])
      BY <1>0, <2>4 DEF Linked, LinksList, LinksFree, Paths
    <3>2. CASE n # N
      <4>1. 1 \in 1..(N - n)
        BY <1>0, <3>1, <3>2
      <4> QED  BY <1>0, <1>1, <3>1, <3>2, <4>1
    <3> QED  BY <3>1, <3>2
  <2>6. q.num = o.num /\ q.live = o.live
    BY <2>2 DEF SameLinks
  <2> QED  BY <2>2, <2>5, <2>6, MetAlone
<1>2. CASE o.free # 0
  <2> DEFINE s == o.free
  <2>1. s = o.free /\ s # 0 /\ o \in ObjRecs
    BY <1>0, <1>2
  <2> HIDE DEF s
  <2>3. /\ q \in ObjRecs /\ SameWalk(q, o) /\ s \in Slots
        /\ q.free = o.prev[s] /\ q.prev = [o.prev EXCEPT ![s] = o.last] /\ q.next = Nexts(o)
        /\ q.last = s /\ q.num = o.num + 1 /\ q.live = o.live \cup {s} /\ q.temp = FALSE
        /\ q.sde = o.sde \ {s} /\ q.star = o.star \ {s} /\ q.stunned = o.stunned \ {s}
        /\ q.sprites = o.sprites /\ q.active = [o.active EXCEPT ![s] = "yes"]
    <3>1. q \in ObjRecs /\ SameWalk(q, o) /\ Taken(q, o, s)
      BY <2>1, SlotTaken
    <3> QED  BY <3>1 DEF Taken
  <2>4. q.next = [x \in Slots |-> IF x = o.last THEN s ELSE IF x = s THEN 0 ELSE o.next[x]]
    BY <2>1, <2>3 DEF Nexts
  <2>5. ASSUME NEW n, NEW list, NEW free, Linked(o, n, list, free)
        PROVE  /\ Linked(q, n + 1, Extended(list, n, s), Rest(free, N - n))
               /\ s \notin o.live /\ s = free[1] /\ o.num = n /\ n \in Nat /\ n # N
               /\ list[1] = 1 /\ list[2] = 2 /\ 1 \in o.live /\ 2 \in o.live
    <3>1. n # N /\ s = free[1] /\ o.num = n /\ n \in 2..N
      BY <2>5, <1>0, <1>2 DEF Linked, LinksFree, LinksList, s
    <3>2. s \notin o.live
      <4>1. 1 \in 1..(N - n)
        BY <1>0, <3>1
      <4> QED  BY <2>3, <2>5, <3>1, <4>1 DEF Linked, LinksFree
    <3>3. list[1] = 1 /\ list[2] = 2 /\ 1 \in o.live /\ 2 \in o.live
      <4>1. 1 \in Slots /\ 2 \in Slots /\ 1 \in 1..n /\ 2 \in 1..n
        BY <1>0, <3>1
      <4> QED  BY <2>5, <4>1 DEF Linked, LinksList
    <3>4. Linked(q, n + 1, Extended(list, n, s), Rest(free, N - n))
      BY <2>3, <2>4, <2>5, <3>1, <1>0, Appends
    <3> QED  BY <1>0, <3>1, <3>2, <3>3, <3>4
  <2>6. PICK n, list, free : Linked(o, n, list, free)
    BY DEF Whole
  <2>7. s \notin o.live /\ s # 1 /\ s # 2 /\ o.num # N
    BY <2>5, <2>6
  <2>8. Shown(q)
    <3>1. \A x \in Slots : x # s => q.active[x] = o.active[x]
      BY <1>0, <2>3 DEF ObjRecs
    <3> QED  BY <1>0, <2>3, <2>7, <3>1 DEF Shown
  <2>9. Whole(q)
    BY <2>3, <2>5, <2>6, <2>8 DEF Whole
  <2>10. ASSUME NEW t, NEW D, MetAt(o, t, D) PROVE MetAt(q, t, D \cup {s})
    <3>1. PICK m, path, rest : Linked(o, m, path, rest) /\ At(m, path, t, D)
      BY <2>10 DEF MetAt
    <3>2. /\ Linked(q, m + 1, Extended(path, m, s), Rest(rest, N - m)) /\ m \in Nat
      BY <3>1, <2>5
    <3> DEFINE l2 == Extended(path, m, s)
    <3>3. \A i \in 1..m : l2[i] = path[i]
      BY <3>2 DEF Extended
    <3> HIDE DEF l2
    <3>4. PICK i \in 1..m : path[i] = t /\ \A d \in D : \E j \in (i + 1)..m : path[j] = d
      BY <3>1 DEF At
    <3>5. ASSUME NEW d \in D \cup {s} PROVE \E j \in (i + 1)..(m + 1) : l2[j] = d
      <4>1. l2[m + 1] = s
        BY <3>2 DEF l2, Extended
      <4>2. CASE d = s
        <5>1. m + 1 \in (i + 1)..(m + 1)
          BY <3>2
        <5> QED  BY <4>1, <4>2, <5>1
      <4>3. CASE d # s
        <5>1. PICK j \in (i + 1)..m : path[j] = d
          BY <3>4, <3>5, <4>3
        <5> QED  BY <3>2, <3>3, <5>1
      <4> QED  BY <4>2, <4>3
    <3>6. At(m + 1, l2, t, D \cup {s})
      BY <3>2, <3>3, <3>4, <3>5 DEF At
    <3> QED  BY <2>3, <2>8, <3>2, <3>6 DEF MetAt, l2
  <2> QED  BY <2>3, <2>5, <2>7, <2>9, <2>10
<1> QED  BY <1>1, <1>2

\* What removing an object leaves.
LEMMA Removes ==
    ASSUME NEW o \in ObjRecs, Shown(o), NEW n, NEW list, NEW free, Linked(o, n, list, free),
           NEW k \in 3..n, NEW s, s = list[k], NEW q, q = CK_RemoveObj(o, s)
    PROVE  /\ q \in ObjRecs /\ Shown(q) /\ SameWalk(q, o)
           /\ Linked(q, n - 1, Without(list, n, k), Pushed(s, free, N - n))
           /\ q.next[s] = o.next[s] /\ q.live = o.live \ {s} /\ q.num = o.num - 1
           /\ q.active = o.active /\ q.temp = o.temp /\ q.quit = o.quit
<1>0. /\ N \in Nat /\ N >= 2 /\ Slots = 1..N /\ n \in 3..N /\ 1 \in 1..n /\ 2 \in 1..n /\ k - 1 \in 1..n
      /\ k \in 2..n
  BY SlotsAre DEF Linked
<1>1. /\ s \in Slots /\ s \in o.live /\ s # 1 /\ s # 2 /\ o.num = n /\ o.prev[s] = list[k - 1]
      /\ list[k - 1] \in Slots
  BY <1>0, SMTT(30) DEF Linked, Paths, LinksList
<1> DEFINE p == Unshown(o, s)
<1>2. /\ p \in ObjRecs /\ Shown(p) /\ s \notin p.sde /\ s \notin p.star /\ SameLinks(p, o) /\ SameWalk(p, o)
      /\ p.active = o.active /\ p.temp = o.temp /\ p.quit = o.quit
  BY <1>1, TakesSprites
<1> DEFINE last == IF p.last = s THEN o.prev[s] ELSE p.last
           prev == [x \in Slots |-> CASE x = s -> o.free
                                     [] x # s /\ x = o.next[s] -> o.prev[s]
                                     [] OTHER -> o.prev[x]]
           next == [p.next EXCEPT ![o.prev[s]] = o.next[s]]
           num == p.num - 1
           live == p.live \ {s}
<1>3. q = [p EXCEPT !.last = last, !.prev = prev, !.next = next, !.free = s, !.num = num, !.live = live]
  BY <1>1 DEF CK_RemoveObj, Unshown, Keen
<1>4. /\ last \in 0..N /\ prev \in Links /\ next \in Links /\ s \in 0..N /\ num \in Nat /\ live \in SUBSET Slots
  <2>1. p.last \in 0..N /\ p.next \in Links /\ p.live \in SUBSET Slots /\ o.prev \in Links /\ o.next \in Links
        /\ o.free \in 0..N
    BY <1>2 DEF ObjRecs
  <2>2. p.num = n
    BY <1>1, <1>2 DEF SameLinks
  <2>3. last \in 0..N /\ s \in 0..N /\ num \in Nat /\ live \in SUBSET Slots
    BY <1>0, <1>1, <2>1, <2>2
  <2>4. next \in Links
    BY <1>1, <2>1 DEF Links
  <2>5. ASSUME NEW x \in Slots
        PROVE  (CASE x = s -> o.free
                  [] x # s /\ x = o.next[s] -> o.prev[s]
                  [] OTHER -> o.prev[x]) \in 0..N
    BY <1>1, <2>1 DEF Links
  <2>6. prev \in Links
    BY <2>5, Zenon DEF Links
  <2> QED  BY <2>3, <2>4, <2>6
<1> HIDE DEF p
<1>5. /\ q.last = last /\ q.prev = prev /\ q.next = next /\ q.free = s /\ q.num = num /\ q.live = live
      /\ q.active = p.active /\ q.temp = p.temp /\ q.quit = p.quit
      /\ q.sde = p.sde /\ q.star = p.star /\ q.stunned = p.stunned /\ q.sprites = p.sprites
      /\ SameWalk(q, p)
  <2> HIDE DEF last, prev, next, num, live
  <2> QED  BY <1>2, <1>3 DEF ObjRecs, SameWalk
<1>6. q \in ObjRecs
  <2> HIDE DEF last, prev, next, num, live
  <2> DEFINE r == [p EXCEPT !.last = last, !.prev = prev, !.next = next]
  <2>1. r \in ObjRecs
    BY <1>2, <1>4 DEF ObjRecs
  <2>2. q = [r EXCEPT !.free = s, !.num = num, !.live = live]
    BY <1>3
  <2> HIDE DEF r
  <2> QED  BY <1>4, <2>1, <2>2, ZenonT(60) DEF ObjRecs
<1>7. /\ q.free = s
      /\ \A x \in Slots : q.prev[x] = IF x = s THEN o.free ELSE IF x = o.next[s] THEN o.prev[s] ELSE o.prev[x]
      /\ \A x \in Slots : q.next[x] = IF x = o.prev[s] THEN o.next[s] ELSE o.next[x]
      /\ q.last = IF o.last = s THEN o.prev[s] ELSE o.last
      /\ q.num = o.num - 1 /\ q.live = o.live \ {s} /\ SameWalk(q, o)
  <2>1. \A x \in Slots : q.prev[x] = IF x = s THEN o.free ELSE IF x = o.next[s] THEN o.prev[s] ELSE o.prev[x]
    BY <1>5
  <2>2. p.next = o.next /\ o.next \in Links
    BY <1>2 DEF SameLinks, ObjRecs
  <2>3. \A x \in Slots : q.next[x] = IF x = o.prev[s] THEN o.next[s] ELSE o.next[x]
    BY <1>5, <2>2 DEF Links
  <2> QED  BY <1>2, <1>5, <2>1, <2>3 DEF SameLinks, SameWalk
<1>8. Linked(q, n - 1, Without(list, n, k), Pushed(s, free, N - n)) /\ q.next[s] = o.next[s]
  BY <1>7, TakesOut
<1>9. Shown(q)
  <2>1. q.live = p.live \ {s}
    BY <1>2, <1>7 DEF SameLinks
  <2> QED  BY <1>2, <1>5, <2>1 DEF Shown
<1> QED  BY <1>2, <1>5, <1>6, <1>7, <1>8, <1>9

\* The place of a removable object.
LEMMA RemovableAt ==
    ASSUME NEW o, NEW n, NEW list, NEW free, Linked(o, n, list, free), NEW x \in Slots, x \in o.live, x \notin Permanent
    PROVE  \E k \in 3..n : list[k] = x
<1>1. PICK k \in 1..n : list[k] = x
  BY DEF Linked, LinksList
<1>2. k # 1 /\ k # 2
  BY <1>1 DEF Linked, LinksList, Permanent
<1>3. n \in Nat
  BY SlotsAre DEF Linked
<1>4. k \in 3..n
  BY <1>2, <1>3
<1> QED  BY <1>1, <1>4

LEMMA RemovesAny ==
    ASSUME NEW o, Whole(o), NEW x, x \in o.live, x \notin Permanent, NEW q, q = CK_RemoveObj(o, x)
    PROVE  Whole(q) /\ SameWalk(q, o) /\ q.live = o.live \ {x}
<1>1. o \in ObjRecs /\ Shown(o) /\ x \in Slots
  BY DEF Whole, ObjRecs
<1>2. PICK n, list, free : Linked(o, n, list, free)
  BY DEF Whole
<1>3. PICK k \in 3..n : list[k] = x
  BY <1>1, <1>2, RemovableAt
<1> QED  BY <1>1, <1>2, <1>3, Removes DEF Whole

\* Removing an object that the walk is not at keeps the walk where it is.
LEMMA RemovesOther ==
    ASSUME NEW o, NEW s, NEW D, MetAt(o, s, D), NEW x, x \in o.live, x # s, x \notin Permanent,
           NEW q, q = CK_RemoveObj(o, x)
    PROVE  MetAt(q, s, D \ {x})
<1>1. o \in ObjRecs /\ Shown(o) /\ x \in Slots
  BY DEF MetAt, ObjRecs
<1>2. PICK n, list, free : Linked(o, n, list, free) /\ At(n, list, s, D)
  BY DEF MetAt
<1>3. PICK k \in 3..n : list[k] = x
  BY <1>1, <1>2, RemovableAt
<1> DEFINE l2 == Without(list, n, k)
<1>4. /\ q \in ObjRecs /\ Shown(q) /\ \E f2 : Linked(q, n - 1, l2, f2)
  BY <1>1, <1>2, <1>3, Removes
<1>5. PICK i \in 1..n : list[i] = s /\ \A d \in D : \E j \in (i + 1)..n : list[j] = d
  BY <1>2 DEF At
<1>6. n \in Nat /\ \A j \in 1..(n - 1) : l2[j] = IF j < k THEN list[j] ELSE list[j + 1]
  BY <1>2, SlotsAre DEF Linked, Without
<1>7. i # k
  BY <1>3, <1>5
<1> HIDE DEF l2
<1> DEFINE i2 == IF i < k THEN i ELSE i - 1
<1>8. i2 \in 1..(n - 1) /\ l2[i2] = s
  BY <1>5, <1>6, <1>7
<1>9. ASSUME NEW d \in D \ {x} PROVE \E j \in (i2 + 1)..(n - 1) : l2[j] = d
  <2>1. PICK j \in (i + 1)..n : list[j] = d
    BY <1>5
  <2>2. j # k
    BY <1>3, <2>1
  <2>3. CASE j < k
    <3>1. j \in (i2 + 1)..(n - 1) /\ l2[j] = list[j]
      BY <2>3, <1>6
    <3> QED  BY <2>1, <3>1
  <2>4. CASE j > k
    <3>1. j - 1 \in (i2 + 1)..(n - 1) /\ l2[j - 1] = list[j]
      BY <2>4, <1>6, <1>7
    <3> QED  BY <2>1, <3>1
  <2> QED  BY <2>2, <2>3, <2>4, <1>6
<1> HIDE DEF i2
<1>10. At(n - 1, l2, s, D \ {x})
  BY <1>8, <1>9 DEF At
<1> QED  BY <1>4, <1>10 DEF MetAt

\* Removing the object the walk is at leaves its link to the next.
LEMMA RemovesIt ==
    ASSUME NEW o, NEW s, NEW D, MetAt(o, s, D), s \notin Permanent, NEW q, q = CK_RemoveObj(o, s)
    PROVE  Passed(q, s, D)
<1>1. o \in ObjRecs /\ Shown(o) /\ s \in Slots /\ s \in o.live
  BY MetIsWhole DEF MetAt
<1>2. PICK n, list, free : Linked(o, n, list, free) /\ At(n, list, s, D)
  BY DEF MetAt
<1>3. PICK k \in 1..n : list[k] = s /\ \A d \in D : \E j \in (k + 1)..n : list[j] = d
  BY <1>2 DEF At
<1>4. k \in 3..n
  <2>1. PICK i \in 3..n : list[i] = s
    BY <1>1, <1>2, RemovableAt
  <2>2. n \in Nat /\ \A a, b \in 1..n : list[a] = list[b] => a = b
    BY <1>2, SlotsAre DEF Linked, Paths
  <2>3. i \in 1..n
    BY <2>2
  <2> QED  BY <1>3, <2>1, <2>2, <2>3
<1> DEFINE l2 == Without(list, n, k)
<1>5. /\ q \in ObjRecs /\ Shown(q) /\ q.next[s] = o.next[s] /\ \E f2 : Linked(q, n - 1, l2, f2)
  BY <1>1, <1>2, <1>3, <1>4, Removes
<1>6. n \in Nat /\ \A j \in 1..(n - 1) : l2[j] = IF j < k THEN list[j] ELSE list[j + 1]
  BY <1>2, SlotsAre DEF Linked, Without
<1>7. o.next[s] = (IF k = n THEN 0 ELSE list[k + 1]) /\ \A j \in 1..n : list[j] # 0
  <2>1. o.next[s] = IF k = n THEN 0 ELSE list[k + 1]
    BY <1>2, <1>3 DEF Linked, LinksList
  <2>2. \A j \in 1..n : list[j] # 0
    BY <1>2, SlotsAre DEF Linked, Paths
  <2> QED  BY <2>1, <2>2
<1> HIDE DEF l2
<1>8. Ahead(n - 1, l2, q.next[s], D)
  <2>1. CASE k = n
    <3>1. D = {}
      BY <2>1, <1>3, <1>6
    <3> QED  BY <2>1, <3>1, <1>5, <1>7 DEF Ahead
  <2>2. CASE k # n
    <3>1. k \in 1..(n - 1) /\ l2[k] = list[k + 1] /\ k + 1 \in 1..n
      BY <2>2, <1>6
    <3>2. ASSUME NEW d \in D PROVE \E j \in k..(n - 1) : l2[j] = d
      <4>1. PICK j \in (k + 1)..n : list[j] = d
        BY <1>3
      <4>2. j - 1 \in k..(n - 1) /\ l2[j - 1] = list[j]
        BY <1>6
      <4> QED  BY <4>1, <4>2
    <3> QED  BY <2>2, <3>1, <3>2, <1>5, <1>7 DEF Ahead
  <2> QED  BY <2>1, <2>2
<1> QED  BY <1>5, <1>8 DEF Passed

(***************************************************************************)
(* What the functions do.                                                  *)
(***************************************************************************)
\* In a call for s, D being due after it: those of D that are objects are yet to come; after it
\* they may be next.
Near(q, o, s, D) == MetAt(q, s, D \cap q.live) /\ SameWalk(q, o)
Past(q, o, s, D) == Passed(q, s, D \cap q.live) /\ SameWalk(q, o)

LEMMA NearIsPast ==
    ASSUME NEW o, NEW q, NEW s, NEW D, Near(q, o, s, D)
    PROVE  Past(q, o, s, D)
BY GoesOn DEF Near, Past

LEMMA PastIsWhole ==
    ASSUME NEW o, NEW q, NEW s, NEW D, Past(q, o, s, D)
    PROVE  Whole(q) /\ SameWalk(q, o)
BY DEF Past, Passed, Whole

LEMMA FewerAreMet ==
    ASSUME NEW o, NEW s, NEW D, NEW E, MetAt(o, s, D), E \subseteq D
    PROVE  MetAt(o, s, E)
<1>1. PICK n, list, free : Linked(o, n, list, free) /\ At(n, list, s, D)
  BY DEF MetAt
<1>2. At(n, list, s, E)
  BY <1>1 DEF At
<1> QED  BY <1>1, <1>2 DEF MetAt

\* An object that is not Keen or the score box is set active or not.
LEMMA SetsActive ==
    ASSUME NEW o \in ObjRecs, Shown(o), NEW s \in Slots \ Permanent, NEW a \in Actives,
           NEW q, q = [o EXCEPT !.active[s] = a]
    PROVE  q \in ObjRecs /\ Shown(q) /\ SameLinks(q, o) /\ SameWalk(q, o)
<1> DEFINE active == [o.active EXCEPT ![s] = a]
<1>1. q = [o EXCEPT !.active = active]
  OBVIOUS
<1>2. active \in [Slots -> Actives]
  BY DEF ObjRecs
<1>3. active[1] = o.active[1] /\ active[2] = o.active[2]
  BY DEF Permanent, ObjRecs
<1> HIDE DEF active
<1>4. q \in ObjRecs /\ SameLinks(q, o) /\ SameWalk(q, o)
  BY <1>1, <1>2 DEF ObjRecs, SameLinks, SameWalk
<1>5. Shown(q)
  BY <1>1, <1>3 DEF ObjRecs, Shown
<1> QED  BY <1>4, <1>5

LEMMA SetsVisible ==
    ASSUME NEW o \in ObjRecs, Shown(o), NEW v \in SUBSET Slots, NEW q, q = [o EXCEPT !.visible = v]
    PROVE  q \in ObjRecs /\ Shown(q) /\ SameLinks(q, o) /\ SameWalk(q, o) /\ q.active = o.active
BY DEF ObjRecs, Shown, SameLinks, SameWalk

LEMMA StunsWell ==
    ASSUME NEW o \in ObjRecs, Shown(o), NEW s \in Slots, s \in o.live, NEW q \in Stuns(o, s)
    PROVE  q \in ObjRecs /\ Shown(q) /\ SameLinks(q, o) /\ SameWalk(q, o)
<1> DEFINE stunned == o.stunned \cup {s}
           star == o.star \cup {s}
           sprites == o.sprites \cup {<<s, "stars">>}
<1>1. q = [o EXCEPT !.stunned = stunned, !.star = star, !.sprites = sprites]
  BY DEF Stuns
<1>2. stunned \in SUBSET Slots /\ star \in SUBSET Slots /\ sprites \in SUBSET (Slots \X {"self", "stars"})
  BY DEF ObjRecs
<1>3. /\ \A x \in Slots : <<x, "self">> \in sprites <=> <<x, "self">> \in o.sprites
      /\ \A x \in Slots : <<x, "stars">> \in sprites <=> <<x, "stars">> \in o.sprites \/ x = s
      /\ \A x \in Slots : x \in star <=> x \in o.star \/ x = s
      /\ \A x \in Slots : x \in stunned <=> x \in o.stunned \/ x = s
  OBVIOUS
<1> HIDE DEF stunned, star, sprites
<1>4. q \in ObjRecs /\ SameLinks(q, o) /\ SameWalk(q, o)
  BY <1>1, <1>2 DEF ObjRecs, SameLinks, SameWalk
<1>5. /\ q.stunned = stunned /\ q.star = star /\ q.sprites = sprites /\ q.sde = o.sde /\ q.live = o.live
      /\ q.active = o.active
  BY <1>1 DEF ObjRecs
<1>6. Shown(q)
  BY <1>3, <1>5 DEF Shown
<1> QED  BY <1>4, <1>6

\* A sprite is drawn for an object.
LEMMA DrawsWell ==
    ASSUME NEW o \in ObjRecs, Shown(o), NEW s \in Slots, s \in o.live,
           NEW q, q = [o EXCEPT !.visible = @ \ {s}, !.sde = @ \cup {s}, !.sprites = @ \cup {<<s, "self">>}]
    PROVE  q \in ObjRecs /\ Shown(q) /\ SameLinks(q, o) /\ SameWalk(q, o)
<1> DEFINE visible == o.visible \ {s}
           sde == o.sde \cup {s}
           sprites == o.sprites \cup {<<s, "self">>}
<1>1. q = [o EXCEPT !.visible = visible, !.sde = sde, !.sprites = sprites]
  OBVIOUS
<1>2. visible \in SUBSET Slots /\ sde \in SUBSET Slots /\ sprites \in SUBSET (Slots \X {"self", "stars"})
  BY DEF ObjRecs
<1>3. /\ \A x \in Slots : <<x, "self">> \in sprites <=> <<x, "self">> \in o.sprites \/ x = s
      /\ \A x \in Slots : <<x, "stars">> \in sprites <=> <<x, "stars">> \in o.sprites
      /\ \A x \in Slots : x \in sde <=> x \in o.sde \/ x = s
  OBVIOUS
<1> HIDE DEF visible, sde, sprites
<1>4. q \in ObjRecs /\ SameLinks(q, o) /\ SameWalk(q, o)
  BY <1>1, <1>2, ZenonT(60) DEF ObjRecs, SameLinks, SameWalk
<1>5. /\ q.sde = sde /\ q.sprites = sprites /\ q.stunned = o.stunned /\ q.star = o.star /\ q.live = o.live
      /\ q.active = o.active
  BY <1>1 DEF ObjRecs
<1>6. Shown(q)
  BY <1>3, <1>5 DEF Shown
<1> QED  BY <1>4, <1>6

\* A new object, or a shot that is or is not to be.
LEMMA GetsNear ==
    ASSUME NEW o, NEW b, NEW s, NEW D, Near(o, b, s, D), NEW c \in BOOLEAN, NEW q, q = CK_GetNewObj(o, c)
    PROVE  Near(q, b, s, D)
<1>1. MetAt(o, s, D \cap o.live) /\ SameWalk(o, b) /\ Whole(o)
  BY MetIsWhole DEF Near
<1> DEFINE E == IF q.temp THEN D \cap o.live ELSE (D \cap o.live) \cup {q.last}
<1>2. MetAt(q, s, E) /\ SameWalk(q, o) /\ q.live = IF q.temp THEN o.live ELSE o.live \cup {q.last}
  BY <1>1, Gets, SMTT(30)
<1>3. D \cap q.live \subseteq E
  BY <1>2
<1>4. SameWalk(q, b)
  BY <1>1, <1>2 DEF SameWalk
<1> HIDE DEF E
<1> QED  BY <1>2, <1>3, <1>4, FewerAreMet DEF Near

LEMMA RemovesNear ==
    ASSUME NEW o, NEW b, NEW s, NEW D, Near(o, b, s, D), NEW x, x \in o.live, x # s, x \notin Permanent,
           NEW q, q = CK_RemoveObj(o, x)
    PROVE  Near(q, b, s, D)
<1>1. MetAt(o, s, D \cap o.live) /\ SameWalk(o, b) /\ Whole(o)
  BY MetIsWhole DEF Near
<1>2. MetAt(q, s, (D \cap o.live) \ {x})
  BY <1>1, RemovesOther
<1>3. SameWalk(q, o) /\ q.live = o.live \ {x}
  BY <1>1, RemovesAny
<1>4. D \cap q.live = (D \cap o.live) \ {x}
  BY <1>3
<1>5. SameWalk(q, b)
  BY <1>1, <1>3 DEF SameWalk
<1> QED  BY <1>2, <1>4, <1>5 DEF Near

\* What touches no link.
LEMMA NearAlone ==
    ASSUME NEW o, NEW b, NEW s, NEW D, Near(o, b, s, D), NEW q \in ObjRecs, Shown(q), SameLinks(q, o), SameWalk(q, o)
    PROVE  Near(q, b, s, D)
<1>1. SameWalk(q, b) /\ q.live = o.live
  BY DEF Near, SameWalk, SameLinks
<1>2. MetAt(o, s, D \cap q.live)
  BY <1>1 DEF Near
<1> QED  BY <1>1, <1>2, MetAlone DEF Near

LEMMA SpawnsWell ==
    ASSUME NEW o, NEW b, NEW s, NEW D, Near(o, b, s, D), NEW q \in Spawned(o)
    PROVE  Near(q, b, s, D)
<1>1. Whole(o) /\ s \in o.live
  BY MetIsWhole DEF Near
<1>2. CASE q = CK_GetNewObj(o, FALSE)
  BY <1>2, GetsNear
<1>3. CASE q \in SpawnEnemyShot(o)
  <2> DEFINE p == CK_GetNewObj(o, TRUE)
             shot == p.last
  <2>1. /\ Near(p, b, s, D) /\ Whole(p)
        /\ ~p.temp => shot \in p.live /\ shot \notin o.live
    BY <1>1, Gets, GetsNear
  <2>2. \/ p.temp /\ q = p
        \/ ~p.temp /\ (q = [p EXCEPT !.active[shot] = "onscreen"] \/ q = CK_RemoveObj(p, shot))
    BY <1>3 DEF SpawnEnemyShot
  <2> HIDE DEF p
  <2>3. p \in ObjRecs /\ Shown(p)
    BY <2>1 DEF Whole
  <2>4. ASSUME ~p.temp PROVE shot \in p.live /\ shot \in Slots /\ shot \notin Permanent /\ shot # s
    <3>1. 1 \in o.live /\ 2 \in o.live
      <4>1. PICK n, list, free : Linked(o, n, list, free)
        BY <1>1 DEF Whole
      <4>2. 1 \in 1..n /\ 2 \in 1..n /\ 1 \in Slots /\ 2 \in Slots
        BY <4>1, SlotsAre DEF Linked
      <4> QED  BY <4>1, <4>2 DEF Linked, LinksList
    <3>2. shot \in Slots
      BY <2>1, <2>3, <2>4 DEF ObjRecs
    <3> QED  BY <1>1, <2>1, <2>4, <3>1, <3>2 DEF Permanent
  <2>5. CASE p.temp /\ q = p
    BY <2>1, <2>5
  <2>6. CASE ~p.temp /\ q = [p EXCEPT !.active[shot] = "onscreen"]
    <3>1. "onscreen" \in Actives
      BY DEF Actives
    <3>2. q \in ObjRecs /\ Shown(q) /\ SameLinks(q, p) /\ SameWalk(q, p)
      BY <2>3, <2>4, <2>6, <3>1, SetsActive
    <3> QED  BY <2>1, <3>2, NearAlone
  <2>7. CASE ~p.temp /\ q = CK_RemoveObj(p, shot)
    BY <2>1, <2>4, <2>7, RemovesNear
  <2> QED  BY <2>2, <2>5, <2>6, <2>7
<1> QED  BY <1>2, <1>3 DEF Spawned

LEMMA DeedsWell ==
    ASSUME NEW o, NEW b, NEW s, NEW D, Near(o, b, s, D), NEW q \in Deeds(o, s)
    PROVE  Near(q, b, s, D)
<1>1. o \in ObjRecs /\ Shown(o) /\ s \in Slots /\ s \in o.live
  BY MetIsWhole DEF Near, Whole
<1>2. CASE q \in Stuns(o, s)
  BY <1>1, <1>2, StunsWell, NearAlone
<1>3. CASE q \in Spawned(o)
  BY <1>3, SpawnsWell
<1>4. CASE \E x \in o.live \ ({s} \cup Permanent) : q = CK_RemoveObj(o, x)
  BY <1>4, RemovesNear
<1> QED  BY <1>2, <1>3, <1>4 DEF Deeds, Can

\* By induction over the deeds of a call.
LEMMA DidWell ==
    ASSUME NEW o, NEW s, NEW D, MetAt(o, s, D \cap o.live), NEW q \in Did(o, s)
    PROVE  Near(q, o, s, D)
<1> DEFINE R == {p \in ObjRecs : Near(p, o, s, D)}
           More(ps) == ps \cup UNION {Deeds(p, s) : p \in ps}
           g == [x \in (SUBSET R) \X (1..MaxDeeds) |-> More(x[1])]
           after == CHOOSE f : f = [k \in 0..MaxDeeds |-> IF k = 0 THEN {o} ELSE More(f[k - 1])]
<1>1. MaxDeeds \in Nat /\ {o} \in SUBSET R
  BY ObjListAssumption DEF Near, MetAt, SameWalk
<1>2. \A ps \in SUBSET R : More(ps) \in SUBSET R
  <2>1. ASSUME NEW p \in R, NEW x \in Deeds(p, s) PROVE x \in R
    <3>1. Near(x, o, s, D)
      BY <2>1, DeedsWell
    <3> QED  BY <3>1 DEF Near, MetAt
  <2> QED  BY <2>1
<1> HIDE DEF R, More
<1>3. StepsIn(g, MaxDeeds, SUBSET R)
  BY <1>2 DEF StepsIn
<1>4. \A ps \in SUBSET R, k \in 1..MaxDeeds : g[<<ps, k>>] = More(ps)
  OBVIOUS
<1> HIDE DEF g
<1>5. PICK f \in [0..MaxDeeds -> SUBSET R] : Follows(f, MaxDeeds, {o}, g)
  BY <1>1, <1>3, RecursionUpTo
<1>6. \A k \in 1..MaxDeeds : f[k] = More(f[k - 1])
  <2>1. \A k \in 1..MaxDeeds : k - 1 \in 0..MaxDeeds /\ f[k - 1] \in SUBSET R
    BY <1>1
  <2> QED  BY <1>4, <1>5, <2>1 DEF Follows
<1>7. f = [k \in 0..MaxDeeds |-> IF k = 0 THEN {o} ELSE More(f[k - 1])]
  <2>1. \A k \in 0..MaxDeeds : k # 0 => k \in 1..MaxDeeds
    BY <1>1
  <2> QED  BY <1>5, <1>6, <2>1 DEF Follows
<1>8. after = [k \in 0..MaxDeeds |-> IF k = 0 THEN {o} ELSE More(after[k - 1])]
  BY <1>7, Zenon
<1>9. Did(o, s) = after[MaxDeeds]
  BY DEF Did, More
<1> HIDE DEF after
<1>a. \A k \in 0..MaxDeeds : after[k] = IF k = 0 THEN {o} ELSE More(after[k - 1])
  BY <1>8
<1> DEFINE T == {k \in 0..MaxDeeds : after[k] \in SUBSET R}
<1>10. 0 \in T
  BY <1>1, <1>a
<1>11. ASSUME NEW k \in 1..MaxDeeds, k - 1 \in T PROVE k \in T
  <2>1. after[k] = More(after[k - 1])
    BY <1>1, <1>a
  <2> QED  BY <1>2, <1>11, <2>1
<1> HIDE DEF T
<1>12. MaxDeeds \in T
  <2>1. \A k \in 1..MaxDeeds : k - 1 \in T => k \in T
    BY <1>11
  <2>2. \A k \in 0..MaxDeeds : k \in T
    BY <1>1, <1>10, <2>1, UpTo
  <2> QED  BY <1>1, <2>2
<1> QED  BY <1>9, <1>12 DEF T, R

\* The functions of the code do not go on when they have removed their own object, and are not
\* called to remove what has been removed.
NoTraps == Callbacks \cap {"again", "selfThenSpawn", "selfAndNext"} = {}

LEMMA CallsWell ==
    ASSUME NoTraps, NEW o, NEW s, NEW D, MetAt(o, s, D \cap o.live), NEW q \in Called(o, s)
    PROVE  Past(q, o, s, D)
<1>1. s \in o.live
  BY MetIsWhole
<1>2. q \in Did(o, s) \/ \E p \in Did(o, s) : s \notin Permanent /\ q = CK_RemoveObj(p, s)
  BY <1>1 DEF Called, Can, NoTraps
<1>3. CASE q \in Did(o, s)
  BY <1>3, DidWell, NearIsPast
<1>4. CASE \E p \in Did(o, s) : s \notin Permanent /\ q = CK_RemoveObj(p, s)
  <2>1. PICK p \in Did(o, s) : s \notin Permanent /\ q = CK_RemoveObj(p, s)
    BY <1>4
  <2>2. MetAt(p, s, D \cap p.live) /\ SameWalk(p, o)
    BY DidWell DEF Near
  <2>3. Passed(q, s, D \cap p.live)
    BY <2>1, <2>2, RemovesIt
  <2>4. Whole(p) /\ s \in p.live /\ s \notin D \cap p.live
    BY <2>2, MetIsWhole
  <2>5. SameWalk(q, p) /\ q.live = p.live \ {s}
    BY <2>1, <2>4, RemovesAny
  <2>6. D \cap q.live = D \cap p.live
    BY <2>4, <2>5
  <2>7. SameWalk(q, o)
    BY <2>2, <2>5 DEF SameWalk
  <2> QED  BY <2>3, <2>6, <2>7 DEF Past
<1> QED  BY <1>2, <1>3, <1>4

(***************************************************************************)
(* What is done with an object in each walk.                               *)
(***************************************************************************)
LEMMA PastAlone ==
    ASSUME NEW o, NEW b, NEW s, NEW D, Past(o, b, s, D), NEW q \in ObjRecs, Shown(q), SameLinks(q, o), SameWalk(q, o)
    PROVE  Past(q, b, s, D)
<1>1. SameWalk(q, b) /\ q.live = o.live /\ q.next = o.next
  BY DEF Past, SameWalk, SameLinks
<1>2. PICK n, list, free : Linked(o, n, list, free) /\ Ahead(n, list, o.next[s], D \cap o.live)
  BY DEF Past, Passed
<1>3. Linked(q, n, list, free)
  BY <1>2, LinksAlone
<1> QED  BY <1>1, <1>2, <1>3 DEF Past, Passed

LEMMA ActivatesWell ==
    ASSUME NEW o, NEW s, NEW D, Near(o, o, s, D), NEW q \in Activated(o, s)
    PROVE  Near(q, o, s, D)
<1>1. o \in ObjRecs /\ Shown(o) /\ s \in Slots
  BY MetIsWhole DEF Near, Whole
<1>2. CASE q = o
  BY <1>2
<1>3. CASE o.active[s] = "no" /\ q = [o EXCEPT !.active[s] = "yes", !.visible = @ \cup {s}]
  <2> DEFINE p == [o EXCEPT !.active[s] = "yes"]
  <2>1. s \notin Permanent /\ "yes" \in Actives
    BY <1>1, <1>3 DEF Shown, Permanent, Actives
  <2>2. p \in ObjRecs /\ Shown(p) /\ SameLinks(p, o) /\ SameWalk(p, o)
    BY <1>1, <2>1, SetsActive
  <2>3. q = [p EXCEPT !.visible = p.visible \cup {s}]
    BY <1>1, <1>3 DEF ObjRecs
  <2> HIDE DEF p
  <2>4. p.visible \cup {s} \in SUBSET Slots
    BY <1>1, <2>2 DEF ObjRecs
  <2>5. q \in ObjRecs /\ Shown(q) /\ SameLinks(q, p) /\ SameWalk(q, p)
    BY <2>2, <2>3, <2>4, SetsVisible
  <2> QED  BY <2>2, <2>5, NearAlone
<1> QED  BY <1>2, <1>3 DEF Activated

\* One who leaves the active area is removed or set aside.
LEMMA LeavesWell ==
    ASSUME NEW o, NEW b, NEW s, NEW D, Near(o, b, s, D), NEW q \in Leaves(o, s)
    PROVE  Past(q, b, s, D)
<1>1. o \in ObjRecs /\ Shown(o) /\ s \in Slots /\ s \in o.live /\ Whole(o) /\ s \notin D \cap o.live
  BY MetIsWhole DEF Near, Whole
<1>2. CASE o.active[s] = "onscreen"
  <2>1. q = CK_RemoveObj(o, s) /\ s \notin Permanent
    BY <1>1, <1>2 DEF Leaves, Shown, Permanent
  <2>2. Passed(q, s, D \cap o.live)
    BY <2>1, RemovesIt DEF Near
  <2>3. SameWalk(q, o) /\ q.live = o.live \ {s}
    BY <1>1, <2>1, RemovesAny
  <2>4. D \cap q.live = D \cap o.live
    BY <1>1, <2>3
  <2>5. SameWalk(q, b)
    BY <2>3 DEF Near, SameWalk
  <2> QED  BY <2>2, <2>4, <2>5 DEF Past
<1>3. CASE o.active[s] = "yes"
  <2> DEFINE p == Unshown(o, s)
  <2>1. q = [p EXCEPT !.active[s] = "no"] /\ s \in Slots \ Permanent /\ "no" \in Actives
    BY <1>1, <1>3 DEF Leaves, Shown, Permanent, Unshown, Actives
  <2>2. p \in ObjRecs /\ Shown(p) /\ SameLinks(p, o) /\ SameWalk(p, o)
    BY <1>1, TakesSprites
  <2> HIDE DEF p
  <2>3. q \in ObjRecs /\ Shown(q) /\ SameLinks(q, p) /\ SameWalk(q, p)
    BY <2>1, <2>2, SetsActive
  <2>4. Near(q, b, s, D)
    BY <2>2, <2>3, NearAlone
  <2> QED  BY <2>4, NearIsPast
<1>4. o.active[s] = "onscreen" \/ o.active[s] = "yes"
  BY DEF Leaves
<1> QED  BY <1>2, <1>3, <1>4

LEMMA CallsFrom ==
    ASSUME NoTraps, NEW o, NEW b, NEW s, NEW D, Near(o, b, s, D), NEW q \in Called(o, s)
    PROVE  Past(q, b, s, D)
<1>1. MetAt(o, s, D \cap o.live)
  BY DEF Near
<1>2. Past(q, o, s, D)
  BY <1>1, CallsWell
<1> QED  BY <1>2 DEF Past, Near, SameWalk

LEMMA ThinksWell ==
    ASSUME NoTraps, NEW o, NEW s, NEW D, Near(o, o, s, D), NEW q \in Thinks(o, s)
    PROVE  Past(q, o, s, D)
<1>1. PICK p \in Activated(o, s) : q \in IF p.active[s] = "no" THEN {p} ELSE Leaves(p, s) \cup CK_RunAction(p, s)
  BY DEF Thinks
<1>2. Near(p, o, s, D)
  BY ActivatesWell
<1>3. CASE q = p
  BY <1>2, <1>3, NearIsPast
<1>4. CASE q \in Leaves(p, s)
  BY <1>2, <1>4, LeavesWell
<1>5. CASE q \in CK_RunAction(p, s)
  <2>1. PICK r \in Called(p, s) : q = [r EXCEPT !.visible = @ \cup {s}]
    BY <1>5 DEF CK_RunAction
  <2>2. Past(r, o, s, D)
    BY <1>2, CallsFrom
  <2>3. r \in ObjRecs /\ Shown(r)
    BY <2>2 DEF Past, Passed
  <2>4. s \in Slots
    BY MetIsWhole DEF Near
  <2>5. r.visible \cup {s} \in SUBSET Slots /\ q = [r EXCEPT !.visible = r.visible \cup {s}]
    BY <2>1, <2>3, <2>4 DEF ObjRecs
  <2>6. q \in ObjRecs /\ Shown(q) /\ SameLinks(q, r) /\ SameWalk(q, r)
    BY <2>3, <2>5, SetsVisible
  <2> QED  BY <2>2, <2>6, PastAlone
<1> QED  BY <1>1, <1>3, <1>4, <1>5

LEMMA DrawsPast ==
    ASSUME NoTraps, NEW o, NEW s, NEW D, Near(o, o, s, D), NEW q \in Draws(o, s)
    PROVE  Past(q, o, s, D)
<1>1. o \in ObjRecs /\ Shown(o) /\ s \in Slots /\ s \in o.live /\ Whole(o) /\ s \notin D \cap o.live
  BY MetIsWhole DEF Near, Whole
<1> DEFINE p == [o EXCEPT !.visible = @ \ {s}, !.sde = @ \cup {s}, !.sprites = @ \cup {<<s, "self">>}]
<1>2. q = o \/ (s \notin Permanent /\ q = CK_RemoveObj(o, s)) \/ q \in Called(p, s)
  BY DEF Draws
<1>3. CASE q = o
  BY <1>3, NearIsPast
<1>4. CASE s \notin Permanent /\ q = CK_RemoveObj(o, s)
  <2>1. Passed(q, s, D \cap o.live)
    BY <1>4, RemovesIt DEF Near
  <2>2. SameWalk(q, o) /\ q.live = o.live \ {s}
    BY <1>1, <1>4, RemovesAny
  <2>3. D \cap q.live = D \cap o.live
    BY <1>1, <2>2
  <2> QED  BY <2>1, <2>2, <2>3 DEF Past
<1>5. CASE q \in Called(p, s)
  <2>1. p \in ObjRecs /\ Shown(p) /\ SameLinks(p, o) /\ SameWalk(p, o)
    BY <1>1, DrawsWell
  <2> HIDE DEF p
  <2>2. Near(p, o, s, D)
    BY <2>1, NearAlone
  <2> QED  BY <1>5, <2>2, CallsFrom
<1> QED  BY <1>2, <1>3, <1>4, <1>5

\* The collide function of an object that was removed in this walk may be called too.
LEMMA CallsWhole ==
    ASSUME NoTraps, NEW o, Whole(o), NEW s, NEW q \in Called(o, s)
    PROVE  Whole(q) /\ SameWalk(q, o)
<1>1. CASE s \in o.live
  <2>1. MetAt(o, s, {})
    BY <1>1, ObjectsAreMet
  <2>2. {} \cap o.live = {}
    OBVIOUS
  <2>3. Past(q, o, s, {})
    BY <2>1, <2>2, CallsWell
  <2> QED  BY <2>3, PastIsWhole
<1>2. CASE s \notin o.live
  <2>1. q = o
    BY <1>2 DEF Called, Can, NoTraps
  <2> QED  BY <2>1 DEF SameWalk
<1> QED  BY <1>1, <1>2

LEMMA CollidesWell ==
    ASSUME NoTraps, NEW o, Whole(o), NEW s, NEW t, NEW q \in Collides(o, s, t)
    PROVE  Whole(q) /\ SameWalk(q, o)
<1>1. q = o \/ \E p \in Called(o, s) : q \in Called(p, t)
  BY DEF Collides
<1>2. ASSUME NEW p \in Called(o, s), q \in Called(p, t) PROVE Whole(q) /\ SameWalk(q, o)
  <2>1. Whole(p) /\ SameWalk(p, o)
    BY CallsWhole
  <2>2. Whole(q) /\ SameWalk(q, p)
    BY <1>2, <2>1, CallsWhole
  <2> QED  BY <2>1, <2>2 DEF SameWalk
<1> QED  BY <1>1, <1>2 DEF SameWalk

(***************************************************************************)
(* What following the links finds.                                         *)
(***************************************************************************)
LEMMA ChainIs ==
    ASSUME NEW link, NEW n \in 0..N, NEW path \in [1..n -> Slots], NEW s,
           s = IF n = 0 THEN 0 ELSE path[1],
           \A i \in 1..n : link[path[i]] = IF i = n THEN 0 ELSE path[i + 1]
    PROVE  Chain(link, s) = path
<1> DEFINE at == CHOOSE f : f = [i \in Slots |-> IF i = 1 THEN s ELSE IF f[i - 1] = 0 THEN 0 ELSE link[f[i - 1]]]
           g == [i \in Slots |-> IF i <= n THEN path[i] ELSE 0]
<1>0. N \in Nat /\ N >= 2 /\ Slots = 1..N /\ n \in Nat /\ n <= N
  BY SlotsAre
<1>1. \A i \in 1..n : path[i] \in Slots /\ path[i] # 0
  BY <1>0
<1>2. \A i \in Slots : g[i] = IF i <= n THEN path[i] ELSE 0
  OBVIOUS
<1>3. ASSUME NEW i \in Slots
      PROVE  g[i] = IF i = 1 THEN s ELSE IF g[i - 1] = 0 THEN 0 ELSE link[g[i - 1]]
  <2> HIDE DEF g
  <2>1. CASE i = 1
    BY <2>1, <1>0, <1>2
  <2>2. CASE i # 1 /\ i - 1 <= n
    <3>1. i - 1 \in 1..n /\ i - 1 \in Slots /\ (i - 1) + 1 = i
      BY <2>2, <1>0
    <3>2. g[i - 1] = path[i - 1] /\ g[i - 1] # 0
      BY <3>1, <1>1, <1>2, <2>2
    <3>3. link[path[i - 1]] = IF i - 1 = n THEN 0 ELSE path[i]
      BY <3>1
    <3> QED  BY <2>2, <3>1, <3>2, <3>3, <1>0, <1>2
  <2>3. CASE i # 1 /\ i - 1 > n
    <3>1. i - 1 \in Slots /\ ~(i - 1 <= n) /\ ~(i <= n)
      BY <2>3, <1>0
    <3> QED  BY <2>3, <3>1, <1>2
  <2> QED  BY <2>1, <2>2, <2>3, <1>0
<1>4. g = [i \in Slots |-> IF i = 1 THEN s ELSE IF g[i - 1] = 0 THEN 0 ELSE link[g[i - 1]]]
  BY <1>3
<1> HIDE DEF g
<1>5. at = [i \in Slots |-> IF i = 1 THEN s ELSE IF at[i - 1] = 0 THEN 0 ELSE link[at[i - 1]]]
  BY <1>4, Zenon
<1> HIDE DEF at
<1>6. \A i \in Slots : at[i] = IF i = 1 THEN s ELSE IF at[i - 1] = 0 THEN 0 ELSE link[at[i - 1]]
  BY <1>5
<1> DEFINE T == {k \in 0..N : k = 0 \/ at[k] = g[k]}
<1>7. ASSUME NEW k \in 1..N, k - 1 \in T PROVE k \in T
  <2>1. k \in Slots /\ (k # 1 => k - 1 # 0)
    BY <1>0
  <2>2. k # 1 => at[k - 1] = g[k - 1]
    BY <1>7, <2>1
  <2>3. at[k] = g[k]
    BY <1>3, <1>6, <2>1, <2>2
  <2> QED  BY <2>1, <2>3
<1>8. 0 \in T
  BY <1>0
<1> HIDE DEF T
<1>9. \A k \in 0..N : k \in T
  BY <1>0, <1>7, <1>8, UpTo
<1>10. \A i \in Slots : at[i] = IF i <= n THEN path[i] ELSE 0
  BY <1>0, <1>2, <1>9 DEF T
<1>11. {j \in Slots : at[j] # 0} = 1..n
  BY <1>0, <1>1, <1>10
<1>12. Cardinality(1..n) = n
  BY <1>0, FS_Interval
<1>13. Chain(link, s) = [i \in 1..Cardinality({j \in Slots : at[j] # 0}) |-> at[i]]
  BY DEF Chain, at
<1>14. Chain(link, s) = [i \in 1..n |-> at[i]]
  BY <1>11, <1>12, <1>13
<1>15. \A i \in 1..n : at[i] = path[i]
  BY <1>0, <1>10
<1> QED  BY <1>14, <1>15

\* As many objects as the list has places.
LEMMA CountOf ==
    ASSUME NEW n \in Nat, NEW S, NEW p \in [1..n -> S], \A i, j \in 1..n : p[i] = p[j] => i = j,
           \A x \in S : \E i \in 1..n : p[i] = x
    PROVE  Cardinality(S) = n /\ IsFiniteSet(S)
<1>1. IsFiniteSet(1..n) /\ Cardinality(1..n) = n
  BY FS_Interval
<1>2. p \in Bijection(1..n, S)
  BY DEF Bijection, Injection, Surjection, IsInjective
<1>3. ExistsBijection(1..n, S)
  BY <1>2 DEF ExistsBijection
<1> QED  BY <1>1, <1>3, FS_Bijection

LEMMA ListIs ==
    ASSUME NEW o \in ObjRecs, NEW n, NEW list, NEW free, Linked(o, n, list, free)
    PROVE  /\ List(o) = list /\ Len(list) = n /\ DOMAIN list = 1..n /\ n \in 2..N
           /\ Chain(o.prev, o.free) = free /\ Len(free) = N - n /\ DOMAIN free = 1..(N - n)
           /\ Cardinality(o.live) = n
<1>0. N \in Nat /\ N >= 2 /\ n \in 2..N /\ n \in 0..N /\ N - n \in 0..N /\ N - n \in Nat
  BY SlotsAre DEF Linked
<1>1. /\ list \in [1..n -> Slots] /\ \A i, j \in 1..n : list[i] = list[j] => i = j
      /\ free \in [1..(N - n) -> Slots]
  BY DEF Linked, Paths
<1>2. List(o) = list
  <2>1. Keen = (IF n = 0 THEN 0 ELSE list[1]) /\ \A i \in 1..n : o.next[list[i]] = IF i = n THEN 0 ELSE list[i + 1]
    BY <1>0 DEF Linked, LinksList, Keen
  <2>2. list \in [1..n -> Slots] /\ n \in 0..N
    BY <1>0, <1>1
  <2> DEFINE link == o.next
             s == Keen
  <2>3. Chain(link, s) = List(o)
    BY DEF List
  <2>4. s = (IF n = 0 THEN 0 ELSE list[1]) /\ \A i \in 1..n : link[list[i]] = IF i = n THEN 0 ELSE list[i + 1]
    BY <2>1
  <2> HIDE DEF link, s
  <2> QED  BY <2>2, <2>3, <2>4, ChainIs, SMTT(30)
<1>3. Chain(o.prev, o.free) = free
  <2>1. /\ o.free = IF N - n = 0 THEN 0 ELSE free[1]
        /\ \A i \in 1..(N - n) : o.prev[free[i]] = IF i = N - n THEN 0 ELSE free[i + 1]
    BY DEF Linked, LinksFree
  <2>2. free \in [1..(N - n) -> Slots] /\ N - n \in 0..N
    BY <1>0, <1>1
  <2> DEFINE link == o.prev
             s == o.free
             m == N - n
  <2>3. s = (IF m = 0 THEN 0 ELSE free[1]) /\ \A i \in 1..m : link[free[i]] = IF i = m THEN 0 ELSE free[i + 1]
    BY <2>1
  <2>4. free \in [1..m -> Slots] /\ m \in 0..N
    BY <2>2
  <2> HIDE DEF link, s, m
  <2>5. Chain(link, s) = free
    BY <2>3, <2>4, ChainIs, SMTT(60)
  <2> QED  BY <2>5 DEF link, s
<1>4. Len(list) = n /\ Len(free) = N - n /\ DOMAIN list = 1..n /\ DOMAIN free = 1..(N - n)
  BY <1>0, <1>1
<1>5. Cardinality(o.live) = n
  <2>1. o.live \subseteq Slots
    BY DEF ObjRecs
  <2>2. \A s \in Slots : s \in o.live <=> \E i \in 1..n : list[i] = s
    BY DEF Linked, LinksList
  <2>3. list \in [1..n -> o.live]
    BY <1>1, <2>2
  <2>4. \A x \in o.live : \E i \in 1..n : list[i] = x
    BY <2>1, <2>2
  <2>5. n \in Nat /\ \A i, j \in 1..n : list[i] = list[j] => i = j
    BY <1>0, <1>1
  <2> QED  BY <2>3, <2>4, <2>5, CountOf
<1> QED  BY <1>0, <1>2, <1>3, <1>4, <1>5

(***************************************************************************)
(* A new list, and one that is loaded.                                     *)
(***************************************************************************)
\* The first k slots in order; the others.
FirstSlots(k) == [i \in 1..k |-> i]
OtherSlots(k) == [i \in 1..(N - k) |-> k + i]

LEMMA ObjectsOK == Objects \in ObjRecs
<1>1. N \in Nat /\ N >= 2 /\ Slots = 1..N /\ CK_MAX_OBJECTS = N
  BY SlotsAre DEF N
<1>2. [s \in Slots |-> IF s = CK_MAX_OBJECTS THEN 0 ELSE s + 1] \in Links
  BY <1>1 DEF Links
<1>3. [s \in Slots |-> 0] \in Links /\ [s \in Slots |-> "no"] \in [Slots -> Actives]
  BY <1>1 DEF Links, Actives
<1> DEFINE prev == [s \in Slots |-> IF s = CK_MAX_OBJECTS THEN 0 ELSE s + 1]
           next == [s \in Slots |-> 0]
           active == [s \in Slots |-> "no"]
<1>4. Objects = [prev |-> prev, next |-> next, free |-> 1, last |-> 0, num |-> 0, active |-> active,
                 visible |-> {}, stunned |-> {}, sde |-> {}, star |-> {}, sprites |-> {}, temp |-> FALSE, quit |-> FALSE,
                 walk |-> "think", cur |-> Keen, other |-> 0, live |-> {}, due |-> {}, deadThinks |-> FALSE]
  BY DEF Objects
<1>5. prev \in Links /\ next \in Links /\ active \in [Slots -> Actives] /\ Keen \in 0..N /\ 0 \in 0..N /\ 1 \in 0..N
  BY <1>1, <1>2, <1>3 DEF Keen
<1> HIDE DEF prev, next, active
<1> QED  BY <1>4, <1>5 DEF ObjRecs

\* Keen and the score box are put in the first two slots.
LEMMA SetUp ==
    ASSUME NEW o, o = CK_SetupObjArray
    PROVE  /\ o \in ObjRecs /\ SameWalk(o, Objects) /\ Linked(o, 2, FirstSlots(2), OtherSlots(2))
           /\ o.sde = {} /\ o.star = {} /\ o.stunned = {} /\ o.sprites = {}
<1> DEFINE p == CK_GetNewObj(Objects, FALSE)
<1>0. N \in Nat /\ N >= 2 /\ Slots = 1..N /\ CK_MAX_OBJECTS = N
  BY SlotsAre DEF N
<1>1. /\ Objects.prev = [s \in Slots |-> IF s = N THEN 0 ELSE s + 1] /\ Objects.next = [s \in Slots |-> 0]
      /\ Objects.free = 1 /\ Objects.last = 0 /\ Objects.num = 0 /\ Objects.live = {}
      /\ Objects.sde = {} /\ Objects.star = {} /\ Objects.stunned = {} /\ Objects.sprites = {}
  BY <1>0 DEF Objects
<1>2. p \in ObjRecs /\ SameWalk(p, Objects) /\ Taken(p, Objects, 1)
  <2>1. Objects.free # 0
    BY <1>1
  <2>2. p \in ObjRecs /\ SameWalk(p, Objects) /\ Taken(p, Objects, Objects.free)
    BY <2>1, ObjectsOK, SlotTaken
  <2> QED  BY <1>1, <2>2
<1>3. o = CK_GetNewObj(p, FALSE)
  BY DEF CK_SetupObjArray
<1> HIDE DEF p
<1>4. /\ p.free = 2 /\ p.last = 1 /\ p.num = 1 /\ p.live = {1}
      /\ p.prev = [s \in Slots |-> IF s = 1 THEN 0 ELSE IF s = N THEN 0 ELSE s + 1]
      /\ p.next = [s \in Slots |-> 0]
      /\ p.sde = {} /\ p.star = {} /\ p.stunned = {} /\ p.sprites = {}
  <2>1. 1 \in Slots /\ 1 # N /\ 1 + 1 = 2 /\ 0 + 1 = 1
    BY <1>0
  <2>2. Objects.prev[1] = 2
    BY <1>1, <2>1
  <2>3. p.free = 2 /\ p.last = 1 /\ p.num = 1 /\ p.live = {1}
    BY <1>1, <1>2, <2>1, <2>2 DEF Taken
  <2>4. p.sde = {} /\ p.star = {} /\ p.stunned = {} /\ p.sprites = {}
    BY <1>1, <1>2 DEF Taken
  <2>5. p.prev = [s \in Slots |-> IF s = 1 THEN 0 ELSE IF s = N THEN 0 ELSE s + 1]
    BY <1>1, <1>2, <2>1 DEF Taken
  <2>6. p.next = [s \in Slots |-> 0]
    <3>1. p.next = Nexts(Objects)
      BY <1>2 DEF Taken
    <3>2. \A s \in Slots : s # 0
      BY <1>0
    <3> QED  BY <1>1, <3>1, <3>2 DEF Nexts
  <2> QED  BY <2>3, <2>4, <2>5, <2>6
<1>5. o \in ObjRecs /\ SameWalk(o, p) /\ Taken(o, p, 2)
  <2>1. p.free # 0 /\ p.free = 2
    BY <1>4
  <2>2. o \in ObjRecs /\ SameWalk(o, p) /\ Taken(o, p, p.free)
    BY <1>2, <1>3, <2>1, SlotTaken
  <2> QED  BY <2>1, <2>2
<1>6. /\ o.free = (IF N = 2 THEN 0 ELSE 3) /\ o.last = 2 /\ o.num = 2 /\ o.live = {1, 2}
      /\ \A s \in Slots : o.prev[s] = IF s = 1 THEN 0 ELSE IF s = 2 THEN 1 ELSE IF s = N THEN 0 ELSE s + 1
      /\ \A s \in Slots : o.next[s] = IF s = 1 THEN 2 ELSE 0
      /\ o.sde = {} /\ o.star = {} /\ o.stunned = {} /\ o.sprites = {}
  BY <1>0, <1>4, <1>5 DEF Taken, Nexts
<1>7. FirstSlots(2) \in Paths(2) /\ OtherSlots(2) \in Paths(N - 2)
  BY <1>0 DEF FirstSlots, OtherSlots, Paths
<1>8. LinksList(o, 2, FirstSlots(2))
  BY <1>0, <1>6 DEF LinksList, FirstSlots
<1>9. LinksFree(o, N - 2, OtherSlots(2))
  <2>1. \A i \in 1..(N - 2) : OtherSlots(2)[i] = 2 + i
    BY DEF OtherSlots
  <2>2. o.free = IF N - 2 = 0 THEN 0 ELSE OtherSlots(2)[1]
    BY <1>0, <1>6, <2>1
  <2>3. ASSUME NEW i \in 1..(N - 2)
        PROVE  o.prev[OtherSlots(2)[i]] = IF i = N - 2 THEN 0 ELSE OtherSlots(2)[i + 1]
    <3>1. 2 + i \in Slots /\ 2 + i # 1 /\ 2 + i # 2 /\ (2 + i = N <=> i = N - 2)
      BY <1>0
    <3>2. i # N - 2 => i + 1 \in 1..(N - 2) /\ 2 + (i + 1) = (2 + i) + 1
      BY <1>0
    <3> QED  BY <1>6, <2>1, <3>1, <3>2
  <2>4. ASSUME NEW s \in Slots PROVE s \notin o.live <=> \E i \in 1..(N - 2) : OtherSlots(2)[i] = s
    <3>1. s \notin o.live <=> s - 2 \in 1..(N - 2)
      BY <1>0, <1>6
    <3>2. s = 2 + (s - 2) /\ \A i \in 1..(N - 2) : 2 + i = s => i = s - 2
      BY <1>0
    <3> QED  BY <2>1, <3>1, <3>2
  <2> QED  BY <2>2, <2>3, <2>4 DEF LinksFree
<1>10. Linked(o, 2, FirstSlots(2), OtherSlots(2))
  BY <1>0, <1>7, <1>8, <1>9 DEF Linked
<1>11. SameWalk(o, Objects)
  BY <1>2, <1>5 DEF SameWalk
<1> QED  BY <1>5, <1>6, <1>10, <1>11

SavedObjs == [active : Actives, stunned : BOOLEAN]

LEMMA LoadsObject ==
    ASSUME NEW o \in ObjRecs, NEW s \in Slots, NEW saved \in SavedObjs, NEW q, q = CK_LoadObject(o, s, saved)
    PROVE  /\ q \in ObjRecs /\ SameLinks(q, o) /\ SameWalk(q, o)
           /\ q.active = [o.active EXCEPT ![s] = saved.active]
           /\ q.sde = o.sde /\ q.star = o.star /\ q.sprites = o.sprites /\ o.stunned \subseteq q.stunned
<1> DEFINE active == [o.active EXCEPT ![s] = saved.active]
           visible == o.visible \cup {s}
           stunned == IF saved.stunned THEN o.stunned \cup {s} ELSE o.stunned
<1>1. q = [o EXCEPT !.active = active, !.visible = visible, !.stunned = stunned]
  BY DEF CK_LoadObject
<1>2. /\ active \in [Slots -> Actives] /\ visible \in SUBSET Slots /\ stunned \in SUBSET Slots
      /\ o.stunned \subseteq stunned
  BY DEF ObjRecs, SavedObjs
<1> HIDE DEF visible, stunned
<1>3. /\ q.active = active /\ q.sde = o.sde /\ q.star = o.star /\ q.sprites = o.sprites /\ q.stunned = stunned
  BY <1>1 DEF ObjRecs
<1> HIDE DEF active
<1>4. q \in ObjRecs /\ SameLinks(q, o) /\ SameWalk(q, o)
  BY <1>1, <1>2, ZenonT(60) DEF ObjRecs, SameLinks, SameWalk
<1> QED  BY <1>2, <1>3, <1>4 DEF active

\* What is loaded when i objects of the file have been.
LoadedTo(o, i) ==
    /\ Whole(o) /\ SameWalk(o, Objects)
    /\ Linked(o, i, FirstSlots(i), OtherSlots(i))

LEMMA LoadsWell ==
    ASSUME NEW n \in 2..N, NEW file \in [1..n -> SavedObjs], file[1].active = "always", file[2].active = "always",
           NEW o, o = LoadFrom(file)
    PROVE  LoadedTo(o, n)
<1>0. N \in Nat /\ N >= 2 /\ Slots = 1..N /\ n \in Nat /\ n >= 2 /\ n <= N /\ Len(file) = n
  BY SlotsAre
<1> DEFINE Restored(p, i) == CK_LoadObject(IF i <= 2 THEN p ELSE CK_GetNewObj(p, FALSE), i, file[i])
           g == [x \in ObjRecs \X (1..n) |-> Restored(x[1], x[2])]
           loaded == CHOOSE f : f = [i \in 0..n |-> IF i = 0 THEN CK_SetupObjArray ELSE Restored(f[i - 1], i)]
<1>1. CK_SetupObjArray \in ObjRecs
  BY SetUp
<1>2. ASSUME NEW p \in ObjRecs, NEW i \in 1..n PROVE Restored(p, i) \in ObjRecs
  <2>1. CK_GetNewObj(p, FALSE) \in ObjRecs
    BY SlotTaken, NoSlot
  <2>2. i \in Slots /\ file[i] \in SavedObjs
    BY <1>0
  <2> DEFINE r == IF i <= 2 THEN p ELSE CK_GetNewObj(p, FALSE)
  <2>3. r \in ObjRecs
    BY <2>1
  <2> HIDE DEF r
  <2>4. CK_LoadObject(r, i, file[i]) \in ObjRecs
    BY <2>2, <2>3, LoadsObject
  <2> QED  BY <2>4 DEF r
<1> HIDE DEF Restored
<1>3. StepsIn(g, n, ObjRecs)
  BY <1>2 DEF StepsIn
<1>4. \A p \in ObjRecs, i \in 1..n : g[<<p, i>>] = Restored(p, i)
  OBVIOUS
<1> HIDE DEF g
<1>5. PICK f \in [0..n -> ObjRecs] : Follows(f, n, CK_SetupObjArray, g)
  BY <1>0, <1>1, <1>3, RecursionUpTo
<1>6. \A k \in 1..n : f[k] = Restored(f[k - 1], k)
  <2>1. \A k \in 1..n : k - 1 \in 0..n /\ f[k - 1] \in ObjRecs
    BY <1>0
  <2> QED  BY <1>4, <1>5, <2>1 DEF Follows
<1>7. f = [k \in 0..n |-> IF k = 0 THEN CK_SetupObjArray ELSE Restored(f[k - 1], k)]
  <2>1. \A k \in 0..n : k # 0 => k \in 1..n
    BY <1>0
  <2> QED  BY <1>5, <1>6, <2>1 DEF Follows
<1>8. loaded = [k \in 0..n |-> IF k = 0 THEN CK_SetupObjArray ELSE Restored(loaded[k - 1], k)]
  BY <1>7, Zenon
<1>9. o = loaded[n]
  BY <1>0 DEF LoadFrom, Restored
<1> HIDE DEF loaded
<1>10. \A k \in 0..n : loaded[k] = IF k = 0 THEN CK_SetupObjArray ELSE Restored(loaded[k - 1], k)
  BY <1>8
<1>11. LoadedTo(loaded[2], 2)
  <2> DEFINE a == loaded[0]
             b == loaded[1]
             c == loaded[2]
  <2>1. a = CK_SetupObjArray /\ b = CK_LoadObject(a, 1, file[1]) /\ c = CK_LoadObject(b, 2, file[2])
    <3>1. 0 \in 0..n /\ 1 \in 0..n /\ 2 \in 0..n /\ 1 - 1 = 0 /\ 2 - 1 = 1
      BY <1>0
    <3>2. a = CK_SetupObjArray /\ b = Restored(a, 1) /\ c = Restored(b, 2)
      BY <1>10, <3>1
    <3> QED  BY <3>2 DEF Restored
  <2> HIDE DEF a, b, c
  <2>2. /\ a \in ObjRecs /\ SameWalk(a, Objects) /\ Linked(a, 2, FirstSlots(2), OtherSlots(2))
        /\ a.sde = {} /\ a.star = {} /\ a.stunned = {} /\ a.sprites = {}
    BY <2>1, SetUp
  <2>3. /\ 1 \in Slots /\ 2 \in Slots /\ file[1] \in SavedObjs /\ file[2] \in SavedObjs
    BY <1>0
  <2>4. /\ b \in ObjRecs /\ SameLinks(b, a) /\ SameWalk(b, a) /\ b.active = [a.active EXCEPT ![1] = file[1].active]
        /\ b.sde = {} /\ b.star = {} /\ b.sprites = {}
    BY <2>1, <2>2, <2>3, LoadsObject
  <2>5. /\ c \in ObjRecs /\ SameLinks(c, b) /\ SameWalk(c, b) /\ c.active = [b.active EXCEPT ![2] = file[2].active]
        /\ c.sde = {} /\ c.star = {} /\ c.sprites = {}
    <3>1. c = CK_LoadObject(b, 2, file[2])
      BY <2>1
    <3>2. b \in ObjRecs /\ 2 \in Slots /\ file[2] \in SavedObjs
      BY <2>3, <2>4
    <3>3. /\ c \in ObjRecs /\ SameLinks(c, b) /\ SameWalk(c, b) /\ c.active = [b.active EXCEPT ![2] = file[2].active]
          /\ c.sde = b.sde /\ c.star = b.star /\ c.sprites = b.sprites
      BY <3>1, <3>2, LoadsObject
    <3> QED  BY <3>3, <2>4
  <2>6. c.active[1] = "always" /\ c.active[2] = "always"
    <3>1. a.active \in [Slots -> Actives]
      BY <2>2 DEF ObjRecs
    <3> QED  BY <2>3, <2>4, <2>5, <3>1
  <2>7. Shown(c)
    BY <2>5, <2>6 DEF Shown
  <2>8. Linked(c, 2, FirstSlots(2), OtherSlots(2))
    BY <2>2, <2>4, <2>5, LinksAlone
  <2>9. SameWalk(c, Objects)
    BY <2>2, <2>4, <2>5 DEF SameWalk
  <2> QED  BY <2>5, <2>7, <2>8, <2>9 DEF LoadedTo, Whole, c
<1>12. ASSUME NEW i \in 3..n, LoadedTo(loaded[i - 1], i - 1) PROVE LoadedTo(loaded[i], i)
  <2> DEFINE p == loaded[i - 1]
             m == i - 1
             r == CK_GetNewObj(p, FALSE)
             q == loaded[i]
  <2>1. m \in Nat /\ m + 1 = i /\ m # N /\ m \in 2..N /\ i \in Slots /\ i # 1 /\ i # 2 /\ file[i] \in SavedObjs /\ ~(i <= 2)
    BY <1>0
  <2>2. q = CK_LoadObject(r, i, file[i])
    <3>1. i \in 0..n /\ i # 0 /\ ~(i <= 2)
      BY <1>0
    <3>2. q = Restored(p, i)
      BY <1>10, <3>1
    <3> QED  BY <3>1, <3>2 DEF Restored
  <2>3. Whole(p) /\ SameWalk(p, Objects) /\ Linked(p, m, FirstSlots(m), OtherSlots(m))
    BY <1>12 DEF LoadedTo
  <2> HIDE DEF p, q, m
  <2>4. p.num = m
    BY <2>3 DEF Linked, LinksList
  <2>5. /\ Whole(r) /\ SameWalk(r, p)
        /\ Linked(r, m + 1, Extended(FirstSlots(m), m, OtherSlots(m)[1]), Rest(OtherSlots(m), N - m))
    BY <2>1, <2>3, <2>4, Gets
  <2>6. Extended(FirstSlots(m), m, OtherSlots(m)[1]) = FirstSlots(i)
    <3>1. OtherSlots(m)[1] = m + 1
      BY <1>0, <2>1 DEF OtherSlots
    <3>2. \A j \in 1..i : j = m + 1 \/ j \in 1..m
      BY <2>1
    <3> QED  BY <2>1, <3>1, <3>2 DEF Extended, FirstSlots
  <2>7. Rest(OtherSlots(m), N - m) = OtherSlots(i)
    <3>1. (N - m) - 1 = N - i
      BY <1>0, <2>1
    <3>2. \A j \in 1..(N - i) : j + 1 \in 1..(N - m) /\ m + (j + 1) = i + j
      BY <1>0, <2>1
    <3> QED  BY <3>1, <3>2 DEF Rest, OtherSlots
  <2>8. r \in ObjRecs /\ Shown(r) /\ Linked(r, i, FirstSlots(i), OtherSlots(i))
    BY <2>1, <2>5, <2>6, <2>7 DEF Whole
  <2> HIDE DEF r
  <2>9. /\ q \in ObjRecs /\ SameLinks(q, r) /\ SameWalk(q, r) /\ q.active = [r.active EXCEPT ![i] = file[i].active]
        /\ q.sde = r.sde /\ q.star = r.star /\ q.sprites = r.sprites /\ r.stunned \subseteq q.stunned
    BY <2>1, <2>2, <2>8, LoadsObject
  <2>10. q.active[1] = r.active[1] /\ q.active[2] = r.active[2]
    BY <1>0, <2>1, <2>8, <2>9 DEF ObjRecs
  <2>11. Shown(q)
    BY <2>8, <2>9, <2>10 DEF Shown, SameLinks
  <2>12. Linked(q, i, FirstSlots(i), OtherSlots(i))
    BY <2>8, <2>9, LinksAlone
  <2>13. SameWalk(q, Objects)
    BY <2>3, <2>5, <2>9 DEF SameWalk
  <2> QED  BY <2>9, <2>11, <2>12, <2>13 DEF LoadedTo, Whole, q
<1> DEFINE T == {k \in 0..n : k >= 2 => LoadedTo(loaded[k], k)}
<1>13. ASSUME NEW k \in 1..n, k - 1 \in T PROVE k \in T
  <2>1. CASE k < 2
    BY <2>1, <1>0
  <2>2. CASE k = 2
    BY <2>2, <1>0, <1>11
  <2>3. CASE k > 2
    BY <2>3, <1>0, <1>12, <1>13
  <2> QED  BY <2>1, <2>2, <2>3, <1>0
<1>14. 0 \in T
  BY <1>0
<1> HIDE DEF T
<1>15. n \in T
  <2>1. \A k \in 1..n : k - 1 \in T => k \in T
    BY <1>13
  <2>2. \A k \in 0..n : k \in T
    BY <1>0, <1>14, <2>1, UpTo
  <2> QED  BY <1>0, <2>2
<1> QED  BY <1>0, <1>9, <1>15 DEF T

(***************************************************************************)
(* The walks.  While the objects think, those that are due are where the   *)
(* walk is or beyond; while they are drawn, the walk is at an object.      *)
(***************************************************************************)
WalksWell(o) ==
    \E n, list, free :
        /\ Linked(o, n, list, free)
        /\ o.walk = "think" => Ahead(n, list, o.cur, o.due)
        /\ o.walk = "draw" => Ahead(n, list, o.cur, {})

Ind(o) == o \in ObjRecs /\ Shown(o) /\ ~o.deadThinks /\ WalksWell(o)

LEMMA IndIsWhole ==
    ASSUME NEW o, Ind(o)
    PROVE  Whole(o)
BY DEF Ind, WalksWell, Whole

\* The walk is at an object, and the others that are due come after it.
LEMMA AheadIsMet ==
    ASSUME NEW o \in ObjRecs, Shown(o), NEW n, NEW list, NEW free, Linked(o, n, list, free),
           NEW s, s # 0, NEW D, Ahead(n, list, s, D)
    PROVE  Near(o, o, s, D \ {s}) /\ s \in o.live /\ s \in Slots
<1>1. n \in Nat
  BY SlotsAre DEF Linked
<1>2. PICK i \in 1..n : list[i] = s /\ \A d \in D : \E j \in i..n : list[j] = d
  BY DEF Ahead
<1>3. ASSUME NEW d \in D, d # s PROVE \E j \in (i + 1)..n : list[j] = d
  <2>1. PICK j \in i..n : list[j] = d
    BY <1>2
  <2>2. j # i
    BY <1>2, <1>3, <2>1
  <2> QED  BY <1>1, <2>1, <2>2
<1>4. At(n, list, s, (D \ {s}) \cap o.live)
  BY <1>2, <1>3 DEF At
<1>5. MetAt(o, s, (D \ {s}) \cap o.live)
  BY <1>4 DEF MetAt
<1>6. SameWalk(o, o)
  BY DEF SameWalk
<1> QED  BY <1>5, <1>6, MetIsWhole DEF Near

LEMMA StepsWell ==
    ASSUME NEW p, NEW s \in Slots, NEW D, Passed(p, s, D), ~p.deadThinks, s \in ol.live,
           p.walk = "think" => D = (p.due \ {s}) \cap p.live, p.walk = "draw" => D = {},
           NEW q, q = Step(p, s)
    PROVE  Ind(q)
<1> DEFINE cur == p.next[s]
           due == (p.due \ {s}) \cap p.live
           dead == p.deadThinks \/ s \notin ol.live
<1>1. p \in ObjRecs /\ Shown(p)
  BY DEF Passed
<1>2. PICK n, list, free : Linked(p, n, list, free) /\ Ahead(n, list, cur, D)
  BY DEF Passed
<1>3. cur \in 0..N /\ due \in SUBSET Slots /\ dead \in BOOLEAN /\ ~dead
  BY <1>1 DEF ObjRecs, Links
<1>4. q = [p EXCEPT !.cur = cur, !.due = due, !.deadThinks = dead]
  BY DEF Step
<1>5. p.walk = "think" => D = due
  OBVIOUS
<1> HIDE DEF cur, due, dead
<1>6. q \in ObjRecs
  BY <1>1, <1>3, <1>4, ZenonT(60) DEF ObjRecs
<1>7. SameLinks(q, p) /\ Shown(q) /\ ~q.deadThinks /\ q.walk = p.walk /\ q.cur = cur /\ q.due = due
  BY <1>1, <1>3, <1>4 DEF ObjRecs, SameLinks, Shown
<1>8. Linked(q, n, list, free)
  BY <1>2, <1>7, LinksAlone
<1>9. WalksWell(q)
  BY <1>2, <1>5, <1>7, <1>8 DEF WalksWell
<1> QED  BY <1>6, <1>7, <1>9 DEF Ind

LEMMA ThinkKeeps ==
    ASSUME NoTraps, Ind(ol), Think
    PROVE  Ind(ol')
<1> DEFINE s == ol.cur
           D == ol.due \ {s}
<1>1. ol \in ObjRecs /\ Shown(ol) /\ ~ol.deadThinks /\ ol.walk = "think" /\ s # 0
  BY DEF Ind, Think
<1>2. PICK n, list, free : Linked(ol, n, list, free) /\ Ahead(n, list, s, ol.due)
  BY <1>1 DEF Ind, WalksWell
<1>3. Near(ol, ol, s, D) /\ s \in ol.live /\ s \in Slots
  BY <1>1, <1>2, AheadIsMet
<1>4. PICK p \in Thinks(ol, s) : ol' = Step(p, s)
  BY DEF Think
<1> HIDE DEF s
<1>5. Past(p, ol, s, D)
  BY <1>3, ThinksWell
<1>6. /\ Passed(p, s, D \cap p.live) /\ ~p.deadThinks /\ p.walk = "think"
      /\ D \cap p.live = (p.due \ {s}) \cap p.live
  BY <1>1, <1>5 DEF Past, SameWalk
<1> HIDE DEF D
<1> DEFINE q == ol'
           E == D \cap p.live
<1>7. p.walk # "draw" /\ E = (p.due \ {s}) \cap p.live /\ Passed(p, s, E) /\ q = Step(p, s)
  BY <1>4, <1>6
<1> HIDE DEF q, E
<1>8. Ind(q)
  BY <1>3, <1>6, <1>7, StepsWell
<1> QED  BY <1>8 DEF q

LEMMA DrawKeeps ==
    ASSUME NoTraps, Ind(ol), Draw
    PROVE  Ind(ol')
<1> DEFINE s == ol.cur
           D == {} \ {s}
<1>1. ol \in ObjRecs /\ Shown(ol) /\ ~ol.deadThinks /\ ol.walk = "draw" /\ s # 0
  BY DEF Ind, Draw
<1>2. PICK n, list, free : Linked(ol, n, list, free) /\ Ahead(n, list, s, {})
  BY <1>1 DEF Ind, WalksWell
<1>3. Near(ol, ol, s, D) /\ s \in ol.live /\ s \in Slots
  BY <1>1, <1>2, AheadIsMet
<1>4. PICK p \in Draws(ol, s) : ol' = Step(p, s)
  BY DEF Draw
<1>5. D = {}
  OBVIOUS
<1> HIDE DEF s, D
<1>6. Past(p, ol, s, D)
  BY <1>3, DrawsPast
<1>7. Passed(p, s, {}) /\ ~p.deadThinks /\ p.walk = "draw"
  <2>1. D \cap p.live = {}
    BY <1>5
  <2> QED  BY <1>1, <1>6, <2>1 DEF Past, SameWalk
<1> DEFINE q == ol'
           E == {}
<1>8. p.walk # "think" /\ E = {} /\ Passed(p, s, E) /\ q = Step(p, s)
  BY <1>4, <1>7
<1> HIDE DEF q, E
<1>9. Ind(q)
  BY <1>3, <1>7, <1>8, StepsWell
<1> QED  BY <1>9 DEF q

\* The other steps leave the list alone.
LEMMA WalkKeeps ==
    ASSUME Ind(ol), ThinkEnds \/ CollideNext \/ DrawEnds
    PROVE  Ind(ol')
<1>0. N \in Nat /\ N >= 2 /\ Slots = 1..N
  BY SlotsAre
<1>1. ol \in ObjRecs /\ Shown(ol) /\ ~ol.deadThinks
  BY DEF Ind
<1>2. PICK n, list, free : Linked(ol, n, list, free)
  BY DEF Ind, WalksWell
<1>3. /\ n \in 2..N /\ list[1] = 1 /\ \A x \in Slots : x \in ol.live => \E i \in 1..n : list[i] = x
      /\ list \in [1..n -> Slots]
  BY <1>2 DEF Linked, LinksList, Paths
<1>4. ol.next \in [Slots -> 0..N] /\ ol.cur \in 0..N /\ Keen = 1 /\ 1 \in Slots
  BY <1>0, <1>1 DEF ObjRecs, Links, Keen
<1> DEFINE q == ol'
<1>5. CASE ThinkEnds
  <2> DEFINE other == ol.next[Keen]
             walk == "collide"
  <2>1. other \in 0..N /\ Keen \in 0..N /\ walk \in {"think", "collide", "draw"}
    BY <1>0, <1>4
  <2>2. q = [ol EXCEPT !.walk = walk, !.cur = Keen, !.other = other]
    BY <1>5 DEF ThinkEnds
  <2> HIDE DEF q, other, walk
  <2>3. q \in ObjRecs
    BY <1>1, <2>1, <2>2 DEF ObjRecs
  <2>4. SameLinks(q, ol) /\ Shown(q) /\ ~q.deadThinks /\ q.walk = "collide"
    BY <1>1, <2>2 DEF ObjRecs, SameLinks, Shown, walk
  <2>5. WalksWell(q)
    BY <1>2, <2>4, LinksAlone DEF WalksWell
  <2> QED  BY <2>3, <2>4, <2>5 DEF Ind, q
<1>6. CASE CollideNext
  <2> DEFINE s == ol.next[ol.cur]
             other == ol.next[s]
             walk == "draw"
  <2>1. ol.cur \in Slots
    BY <1>0, <1>4, <1>6 DEF CollideNext
  <2>2. s \in 0..N
    BY <1>4, <2>1
  <2>3. q = IF s = 0 THEN [ol EXCEPT !.walk = walk, !.cur = Keen] ELSE [ol EXCEPT !.cur = s, !.other = other]
    BY <1>6 DEF CollideNext
  <2>4. s # 0 => other \in 0..N
    BY <1>0, <1>4, <2>2
  <2>5. ol.walk = "collide"
    BY <1>6 DEF CollideNext
  <2>10. Keen \in 0..N /\ walk \in {"think", "collide", "draw"}
    BY <1>0, <1>4
  <2> HIDE DEF q, s, other, walk
  <2>6. q \in ObjRecs
    <3>1. CASE s = 0
      BY <1>1, <2>3, <2>10, <3>1 DEF ObjRecs
    <3>2. CASE s # 0
      BY <1>1, <2>2, <2>3, <2>4, <3>2 DEF ObjRecs
    <3> QED  BY <3>1, <3>2
  <2>7. SameLinks(q, ol) /\ Shown(q) /\ ~q.deadThinks /\ q.walk # "think" /\ (q.walk = "draw" => q.cur = 1)
    BY <1>1, <1>4, <2>3, <2>5 DEF ObjRecs, SameLinks, Shown, walk
  <2>8. Ahead(n, list, 1, {})
    BY <1>0, <1>3 DEF Ahead
  <2>9. WalksWell(q)
    BY <1>2, <2>7, <2>8, LinksAlone DEF WalksWell
  <2> QED  BY <2>6, <2>7, <2>9 DEF Ind, q
<1>7. CASE DrawEnds
  <2> DEFINE live == ol.live
             walk == "think"
             none == 0
  <2>1. q = [ol EXCEPT !.walk = walk, !.cur = Keen, !.other = none, !.due = live]
    BY <1>7 DEF DrawEnds
  <2>2. live \in SUBSET Slots /\ walk \in {"think", "collide", "draw"} /\ none \in 0..N /\ Keen \in 0..N
    BY <1>0, <1>1, <1>4 DEF ObjRecs
  <2> HIDE DEF q, live, walk, none
  <2>3. q \in ObjRecs
    BY <1>1, <2>1, <2>2 DEF ObjRecs
  <2>4. SameLinks(q, ol) /\ Shown(q) /\ ~q.deadThinks /\ q.walk = "think" /\ q.cur = 1 /\ q.due = live
    BY <1>1, <1>4, <2>1 DEF ObjRecs, SameLinks, Shown, walk
  <2>5. Ahead(n, list, 1, live)
    BY <1>0, <1>3, <2>2 DEF Ahead, live
  <2>6. WalksWell(q)
    BY <1>2, <2>4, <2>5, LinksAlone DEF WalksWell
  <2> QED  BY <2>3, <2>4, <2>6 DEF Ind, q
<1> QED  BY <1>5, <1>6, <1>7

LEMMA CollideKeeps ==
    ASSUME NoTraps, Ind(ol), Collide
    PROVE  Ind(ol')
<1>0. N \in Nat /\ N >= 2 /\ Slots = 1..N
  BY SlotsAre
<1>1. ol \in ObjRecs /\ ~ol.deadThinks /\ Whole(ol) /\ ol.walk = "collide" /\ ol.other # 0
  BY IndIsWhole DEF Ind, Collide
<1>2. PICK p \in Collides(ol, ol.cur, ol.other) : ol' = [p EXCEPT !.other = p.next[ol.other]]
  BY DEF Collide
<1>3. Whole(p) /\ SameWalk(p, ol)
  BY <1>1, <1>2, CollidesWell
<1> DEFINE q == ol'
           other == p.next[ol.other]
<1>4. p \in ObjRecs /\ Shown(p) /\ ~p.deadThinks /\ p.walk = "collide"
  BY <1>1, <1>3 DEF Whole, SameWalk
<1>5. other \in 0..N
  <2>1. ol.other \in Slots
    BY <1>0, <1>1 DEF ObjRecs
  <2> QED  BY <1>4, <2>1 DEF ObjRecs, Links
<1>6. q = [p EXCEPT !.other = other]
  BY <1>2
<1> HIDE DEF q, other
<1>7. q \in ObjRecs
  BY <1>4, <1>5, <1>6 DEF ObjRecs
<1>8. SameLinks(q, p) /\ Shown(q) /\ ~q.deadThinks /\ q.walk = "collide"
  BY <1>4, <1>6 DEF ObjRecs, SameLinks, Shown
<1>9. PICK n, list, free : Linked(p, n, list, free)
  BY <1>3 DEF Whole
<1>10. WalksWell(q)
  BY <1>8, <1>9, LinksAlone DEF WalksWell
<1> QED  BY <1>7, <1>8, <1>10 DEF Ind, q

\* What a list of slots and the walk of a new one make of it.
LEMMA NewListWell ==
    ASSUME NEW n \in 2..N, NEW o, LoadedTo(o, n), NEW D \in SUBSET o.live, NEW q, q = [o EXCEPT !.due = D]
    PROVE  Ind(q)
<1>0. N \in Nat /\ N >= 2 /\ Slots = 1..N
  BY SlotsAre
<1>1. o \in ObjRecs /\ Shown(o) /\ SameWalk(o, Objects) /\ Linked(o, n, FirstSlots(n), OtherSlots(n))
  BY DEF LoadedTo, Whole
<1>2. o.walk = "think" /\ o.cur = 1 /\ ~o.deadThinks
  BY <1>1 DEF SameWalk, Objects, Keen
<1>3. D \in SUBSET Slots
  BY <1>1 DEF ObjRecs
<1>4. q \in ObjRecs
  BY <1>1, <1>3 DEF ObjRecs
<1>5. SameLinks(q, o) /\ Shown(q) /\ ~q.deadThinks /\ q.walk = "think" /\ q.cur = 1 /\ q.due = D
  BY <1>1, <1>2 DEF ObjRecs, SameLinks, Shown
<1>6. Linked(q, n, FirstSlots(n), OtherSlots(n))
  BY <1>1, <1>5, LinksAlone
<1>7. Ahead(n, FirstSlots(n), 1, D)
  <2>1. \A d \in D : \E j \in 1..n : FirstSlots(n)[j] = d
    BY <1>1, <1>3 DEF Linked, LinksList
  <2>2. 1 \in 1..n /\ FirstSlots(n)[1] = 1
    BY <1>0 DEF FirstSlots
  <2> QED  BY <2>1, <2>2 DEF Ahead
<1>8. WalksWell(q)
  BY <1>5, <1>6, <1>7 DEF WalksWell
<1> QED  BY <1>4, <1>5, <1>8 DEF Ind

LEMMA LoadKeeps ==
    ASSUME Ind(ol), CK_LoadGame
    PROVE  Ind(ol')
<1>0. N \in Nat /\ N >= 2 /\ Slots = 1..N
  BY SlotsAre
<1>1. ol \in ObjRecs /\ Shown(ol)
  BY DEF Ind
<1>2. PICK n, list, free : Linked(ol, n, list, free)
  BY DEF Ind, WalksWell
<1>3. List(ol) = list /\ DOMAIN list = 1..n /\ n \in 2..N
  BY <1>1, <1>2, ListIs
<1>4. list \in [1..n -> Slots] /\ list[1] = 1 /\ list[2] = 2
  BY <1>2 DEF Linked, LinksList, Paths
<1> DEFINE file == Saved(ol)
           o == LoadFrom(file)
           live == o.live
           q == ol'
<1>5. file = [i \in 1..n |-> [active |-> ol.active[list[i]], stunned |-> list[i] \in ol.stunned]]
  BY <1>3 DEF Saved
<1>6. file \in [1..n -> SavedObjs]
  <2>1. ol.active \in [Slots -> Actives]
    BY <1>1 DEF ObjRecs
  <2>2. \A i \in 1..n : list[i] \in Slots /\ ol.active[list[i]] \in Actives /\ (list[i] \in ol.stunned) \in BOOLEAN
    BY <1>4, <2>1
  <2>3. \A i \in 1..n : [active |-> ol.active[list[i]], stunned |-> list[i] \in ol.stunned] \in SavedObjs
    BY <2>2 DEF SavedObjs
  <2> QED  BY <1>5, <2>3
<1>7. file[1].active = "always" /\ file[2].active = "always"
  <2>1. 1 \in 1..n /\ 2 \in 1..n
    BY <1>0, <1>3
  <2>2. file[1].active = ol.active[1] /\ file[2].active = ol.active[2]
    BY <1>4, <1>5, <2>1
  <2> QED  BY <1>1, <2>2 DEF Shown
<1>8. q = [o EXCEPT !.due = live]
  BY DEF CK_LoadGame
<1> HIDE DEF file
<1>9. LoadedTo(o, n)
  BY <1>3, <1>6, <1>7, LoadsWell
<1>10. live \in SUBSET o.live
  OBVIOUS
<1> HIDE DEF o, live, q
<1>11. Ind(q)
  BY <1>3, <1>8, <1>9, <1>10, NewListWell
<1> QED  BY <1>11 DEF q

(***************************************************************************)
(* From the first frame.                                                   *)
(***************************************************************************)
LEMMA BeginsWell ==
    ASSUME ol \in OlInits
    PROVE  Ind(ol)
<1>0. N \in Nat /\ N >= 2 /\ Slots = 1..N /\ 1 \in Slots /\ 2 \in Slots
  BY SlotsAre
<1> DEFINE o == CK_SetupObjArray
           active == [o.active EXCEPT ![1] = "always", ![2] = "always"]
           p == [o EXCEPT !.active = active]
           D == {}
<1>1. /\ o \in ObjRecs /\ SameWalk(o, Objects) /\ Linked(o, 2, FirstSlots(2), OtherSlots(2))
      /\ o.sde = {} /\ o.star = {} /\ o.stunned = {} /\ o.sprites = {}
  BY SetUp
<1>2. ol = p
  BY DEF OlInits, Keen
<1>3. o.due = {}
  BY <1>1 DEF SameWalk, Objects
<1> HIDE DEF o
<1>4. active \in [Slots -> Actives] /\ active[1] = "always" /\ active[2] = "always"
  BY <1>0, <1>1 DEF ObjRecs, Actives
<1> HIDE DEF active
<1>5. p \in ObjRecs
  BY <1>1, <1>4 DEF ObjRecs
<1>6. /\ SameLinks(p, o) /\ SameWalk(p, o) /\ p.sde = {} /\ p.star = {} /\ p.stunned = {} /\ p.sprites = {}
      /\ p.active = active /\ p.due = D
  BY <1>1, <1>3 DEF ObjRecs, SameLinks, SameWalk
<1>7. p = [p EXCEPT !.due = D]
  BY <1>5, <1>6 DEF ObjRecs
<1> HIDE DEF p
<1>8. Shown(p)
  BY <1>4, <1>6 DEF Shown
<1>9. Linked(p, 2, FirstSlots(2), OtherSlots(2))
  BY <1>1, <1>6, LinksAlone
<1>10. LoadedTo(p, 2)
  BY <1>1, <1>5, <1>6, <1>8, <1>9 DEF LoadedTo, Whole, SameWalk
<1>11. 2 \in 2..N /\ D \in SUBSET p.live
  BY <1>0
<1> HIDE DEF D
<1>12. Ind(p)
  BY <1>7, <1>10, <1>11, NewListWell
<1> QED  BY <1>2, <1>12

LEMMA IndIsSound ==
    ASSUME Ind(ol)
    PROVE  ObjectListSound
<1>0. N \in Nat /\ N >= 2 /\ Slots = 1..N /\ N = CK_MAX_OBJECTS
  BY SlotsAre DEF N
<1>1. ol \in ObjRecs /\ Shown(ol) /\ ~ol.deadThinks
  BY DEF Ind
<1>2. PICK n, list, free : /\ Linked(ol, n, list, free)
                           /\ ol.walk = "think" => Ahead(n, list, ol.cur, ol.due)
  BY DEF Ind, WalksWell
<1>3. /\ List(ol) = list /\ Len(list) = n /\ DOMAIN list = 1..n /\ n \in 2..N
      /\ Chain(ol.prev, ol.free) = free /\ Len(free) = N - n /\ DOMAIN free = 1..(N - n)
      /\ Cardinality(ol.live) = n
  BY <1>1, <1>2, ListIs
<1>4. /\ list \in [1..n -> Slots] /\ free \in [1..(N - n) -> Slots]
      /\ LinksList(ol, n, list) /\ LinksFree(ol, N - n, free)
  BY <1>2 DEF Linked, Paths
<1>5. ol.live \in SUBSET Slots
  BY <1>1 DEF ObjRecs
<1>6. Elements(list) = ol.live
  <2>1. \A i \in 1..n : list[i] \in ol.live
    BY <1>4 DEF LinksList
  <2>2. \A x \in ol.live : \E i \in 1..n : list[i] = x
    BY <1>4, <1>5 DEF LinksList
  <2> QED  BY <1>3, <2>1, <2>2 DEF Elements
<1>7. Elements(free) = Slots \ ol.live
  BY <1>3, <1>4, <1>5 DEF Elements, LinksFree
<1>8. ListSound
  BY <1>0, <1>3, <1>4, <1>6, <1>7 DEF ListSound, LinksList
<1>9. OnlyObjectsThink
  BY <1>1 DEF OnlyObjectsThink
<1>10. AllThink
  BY <1>2 DEF AllThink, Ahead
<1>11. SpritesOwned
  <2>1. ol.sprites \in SUBSET (Slots \X {"self", "stars"})
    BY <1>1 DEF ObjRecs
  <2> DEFINE owned == {<<s, "self">> : s \in ol.sde \cap ol.live} \cup {<<s, "stars">> : s \in ol.star \cap ol.live}
  <2>2. ASSUME NEW x \in ol.sprites PROVE x \in owned
    <3>1. PICK s \in Slots, of \in {"self", "stars"} : x = <<s, of>>
      BY <2>1
    <3> QED  BY <1>1, <3>1 DEF Shown
  <2>3. ASSUME NEW x \in owned PROVE x \in ol.sprites
    <3>1. PICK s \in ol.live : (x = <<s, "self">> /\ s \in ol.sde) \/ (x = <<s, "stars">> /\ s \in ol.star)
      OBVIOUS
    <3> QED  BY <1>1, <1>5, <3>1 DEF Shown
  <2>4. ol.sprites = owned
    BY <2>2, <2>3
  <2> QED  BY <2>4 DEF SpritesOwned
<1> QED  BY <1>8, <1>9, <1>10, <1>11 DEF ObjectListSound

\* Whatever the functions of the objects spawn, stun and remove while a walk is at them, as long
\* as none goes on after it has removed its own object: the links account for every slot, only
\* objects think and are drawn, all that were there when the frame began think, and no sprite
\* outlives its object (CK_GetNewObj, CK_RemoveObj and the loops of CK_PlayLoop).
THEOREM ObjectsAreSound ==
    ASSUME NoTraps
    PROVE  OlSpec => []ObjectListSound
<1>1. ol \in OlInits => Ind(ol)
  BY BeginsWell
<1>2. Ind(ol) /\ [OlNext]_ol => Ind(ol)'
  <2> SUFFICES ASSUME Ind(ol), [OlNext]_ol PROVE Ind(ol')
    BY DEF Ind, WalksWell, Linked, LinksList, LinksFree, Shown, Ahead
  <2>1. CASE UNCHANGED ol
    BY <2>1
  <2>2. CASE OlNext
    BY <2>2, ThinkKeeps, DrawKeeps, WalkKeeps, CollideKeeps, LoadKeeps DEF OlNext
  <2> QED  BY <2>1, <2>2
<1>3. Ind(ol) => ObjectListSound
  BY IndIsSound
<1> QED  BY <1>1, <1>2, <1>3, PTL DEF OlSpec
====
