---- MODULE TileItems ----
(***************************************************************************)
(* The index tables that give every extra life and point item of a level   *)
(* its location (ck_obj.c), from the loading of the level to the pickup    *)
(* that emits the check (ck_keen.c).                                       *)
(*                                                                         *)
(* An item is found on one of two map planes: the info plane, whose items  *)
(* CK_SpawnItem turns into objects, and the foreground plane, whose items  *)
(* stay tiles.  Both are indexed by one table keyed by the tile position,  *)
(* the info plane first.  A map is given by the two planes in scan order.  *)
(***************************************************************************)
EXTENDS APLocations, FiniteSets, Sequences

CONSTANTS
    Episode,            \* ck_currentEpisode->ep: one of Episodes
    Levels,             \* the levels that can be loaded
    InfoPlane,          \* [Levels -> Seq([pos, item])]: items 57..68 of the info plane
    ForePlane,          \* [Levels -> Seq([pos, item])]: items of the foreground plane
    EXTRALIFE_MAX,      \* AP_TILE_EXTRALIFE_MAX
    POINTITEM_MAX       \* AP_TILE_POINTITEM_MAX

\* Items are numbered as in the code: 0..3 gems, 4..9 points, 10 extra life, 11 ammo.
Items == 0..11
IsGem(i)       == i \in 0..3
IsPoint(i)     == i \in 4..9
IsExtraLife(i) == i = 10
ClassOf(i)     == i - 4

Placed(plane, l) == {plane[l][k] : k \in DOMAIN plane[l]}
PlacesOf(l) == {<<"info", it>> : it \in Placed(InfoPlane, l)}
               \cup {<<"fore", it>> : it \in Placed(ForePlane, l)}

\* What the maps guarantee: a scan meets each tile once, and an indexed item has its tile to
\* itself; and the levels and the arrays are small enough for the strides of the locations.
ASSUME MapsAreSane ==
    /\ Episode \in Episodes /\ Levels \subseteq 0..19
    /\ EXTRALIFE_MAX \in 0..LevelStride /\ POINTITEM_MAX \in 0..PointLevelStride
    /\ \A l \in Levels :
         /\ \A plane \in {InfoPlane, ForePlane} :
              /\ plane[l] \in Seq(Placed(plane, l))
              /\ \A it \in Placed(plane, l) : it.item \in Items
              /\ \A j, k \in DOMAIN plane[l] : plane[l][j] = plane[l][k] => j = k
         /\ \A p, q \in PlacesOf(l) : p[2].pos = q[2].pos => p = q

VARIABLES
    level,          \* ap_current_level
    extralifeCount, \* ap_extralife_count_in_level
    extralives,     \* ap_tile_extralives[0 .. ap_tile_extralife_count - 1]
    pointCount,     \* ap_pointitem_count_in_level[6]
    pointitems,     \* ap_tile_pointitems[0 .. ap_tile_pointitem_count - 1]
    present,        \* the places of the loaded level whose item is still there
    emitted         \* history: [level, place, locs] of each pickup

vars == <<level, extralifeCount, extralives, pointCount, pointitems, present, emitted>>

(***************************************************************************)
(* Indexing.  A table is [lives, nLives, points, nPoints]; adding an item  *)
(* counts it always and records it while there is room.                    *)
(***************************************************************************)
EmptyTable == [lives |-> <<>>, nLives |-> 0,
               points |-> <<>>, nPoints |-> [c \in PointClasses |-> 0]]

AddExtraLife(t, it) ==
    [t EXCEPT !.nLives = @ + 1,
              !.lives = IF Len(@) < EXTRALIFE_MAX
                        THEN Append(@, [pos |-> it.pos, index |-> t.nLives]) ELSE @]

\* A table that takes one entry less than the array holds.
AddPointItemOffByOne(t, it) ==
    LET c == ClassOf(it.item) IN
    [t EXCEPT !.nPoints[c] = @ + 1,
              !.points = IF Len(@) < POINTITEM_MAX - 1
                         THEN Append(@, [pos |-> it.pos, cls |-> c, index |-> t.nPoints[c]]) ELSE @]

AddPointItem(t, it) ==
    LET c == ClassOf(it.item) IN
    [t EXCEPT !.nPoints[c] = @ + 1,
              !.points = IF Len(@) < POINTITEM_MAX
                         THEN Append(@, [pos |-> it.pos, cls |-> c, index |-> t.nPoints[c]]) ELSE @]

\* CK_SpawnItem: an info-plane item is an object, and is indexed if it is an
\* extra life or worth points.
CK_SpawnItem(t, it) ==
    IF IsExtraLife(it.item) THEN AddExtraLife(t, it)
    ELSE IF IsPoint(it.item) THEN AddPointItem(t, it)
    ELSE t

\* The table when each item has been looked at, in scan order.
Scan(Add(_, _), t, items) ==
    LET after[k \in 0..Len(items)] == IF k = 0 THEN t ELSE Add(after[k - 1], items[k])
    IN  after[Len(items)]

scanInfoLayer(t, l) == Scan(CK_SpawnItem, t, InfoPlane[l])

TileExtraLife(t, it) == IF IsExtraLife(it.item) THEN AddExtraLife(t, it) ELSE t
TilePointItem(t, it) == IF IsPoint(it.item) THEN AddPointItem(t, it) ELSE t

ap_scan_tile_extralives(t, l) == Scan(TileExtraLife, t, ForePlane[l])

\* A tile scan that restarts the counters the info plane advanced.
ap_scan_tile_pointitems_restarting(t, l) ==
    Scan(TilePointItem, [t EXCEPT !.nPoints = [c \in PointClasses |-> 0]], ForePlane[l])

ap_scan_tile_pointitems(t, l) == Scan(TilePointItem, t, ForePlane[l])

\* The first entry at the position, as a set of at most one.
FirstAt(table, pos) ==
    LET ks == {k \in DOMAIN table : table[k].pos = pos}
    IN  {table[k] : k \in {j \in ks : \A i \in ks : j <= i}}

ap_lookup_tile_extralife(pos) == FirstAt(extralives, pos)
ap_lookup_tile_pointitem(pos) == FirstAt(pointitems, pos)

(***************************************************************************)
(* Actions                                                                 *)
(***************************************************************************)
Init ==
    /\ level = 0
    /\ extralifeCount = 0 /\ extralives = <<>>
    /\ pointCount = [c \in PointClasses |-> 0] /\ pointitems = <<>>
    /\ present = {}
    /\ emitted = {}

\* The two lifecycle resets at the head of CK_LoadLevel's scan.
ResetTableOnly(t) == [t EXCEPT !.lives = <<>>, !.points = <<>>]
ResetTable(t) == EmptyTable

CurrentTable == [lives |-> extralives, nLives |-> extralifeCount,
                 points |-> pointitems, nPoints |-> pointCount]

\* CK_LoadLevel: reset the counters, spawn the info plane, then scan the
\* foreground plane for extra lives and for point items.
CK_LoadLevel(l) ==
    LET t == ap_scan_tile_pointitems(
               ap_scan_tile_extralives(scanInfoLayer(ResetTable(CurrentTable), l), l), l)
    IN  /\ level' = l
        /\ extralives' = t.lives /\ extralifeCount' = t.nLives
        /\ pointitems' = t.points /\ pointCount' = t.nPoints
        /\ present' = PlacesOf(l)
        /\ UNCHANGED emitted

\* The locations the pickup of an indexed item emits.
IndexedLocs(it) ==
    IF IsPoint(it.item)
    THEN UNION {ap_on_pointitem_get(Episode, level, e.cls, e.index) :
                    e \in ap_lookup_tile_pointitem(it.pos)}
    ELSE IF IsExtraLife(it.item)
    THEN UNION {ap_on_extralife_get(Episode, level, e.index) :
                    e \in ap_lookup_tile_extralife(it.pos)}
    ELSE {}

Emit(place, locs) ==
    /\ present' = present \ {place}
    /\ emitted' = emitted \cup {[level |-> level, place |-> place, locs |-> locs]}
    /\ UNCHANGED <<level, extralifeCount, extralives, pointCount, pointitems>>

\* Keen touches an item object (CK_KeenColFunc; CK4_KeenSwimColFunc is alike).
CK_KeenColFunc(it) ==
    /\ <<"info", it>> \in present
    /\ Emit(<<"info", it>>,
            IF IsGem(it.item) THEN ap_on_keygem_get(Episode, level, it.item)
                              ELSE IndexedLocs(it))

\* Keen touches an item tile.  A gem tile grants the gem and emits nothing.
CK_KeenGetTileItem(it) ==
    /\ <<"fore", it>> \in present
    /\ Emit(<<"fore", it>>, IndexedLocs(it))

Next ==
    \/ \E l \in Levels : CK_LoadLevel(l)
    \/ \E p \in present : CK_KeenColFunc(p[2])
    \/ \E p \in present : CK_KeenGetTileItem(p[2])

Spec == Init /\ [][Next]_vars

(***************************************************************************)
(* Properties                                                              *)
(***************************************************************************)
\* The tables never outgrow their arrays and their entries carry the counters'
\* values (static arrays of ck_obj.c).
TypeOK ==
    /\ level \in Levels \cup {0}
    /\ extralifeCount \in Nat /\ Len(extralives) <= EXTRALIFE_MAX
    /\ pointCount \in [PointClasses -> Nat] /\ Len(pointitems) <= POINTITEM_MAX
    /\ \A k \in DOMAIN extralives : extralives[k].index \in 0..(extralifeCount - 1)
    /\ \A k \in DOMAIN pointitems : pointitems[k].index \in 0..(pointCount[pointitems[k].cls] - 1)

\* Two different items that are not gems never emit the same location, in one
\* level, across levels, or across planes: the server would record one of them
\* for the other (the counters continued from plane to plane, the strides).
DistinctItemsDistinctLocations ==
    \A a, b \in emitted :
        (a.locs \cap b.locs # {} /\ ~IsGem(a.place[2].item))
            => a.level = b.level /\ a.place = b.place

\* Picking the same item up again after the level was loaded again, in whatever
\* order, emits the same location (the lifecycle resets of CK_LoadLevel).
StableLocations ==
    \A a, b \in emitted :
        (a.level = b.level /\ a.place = b.place) => a.locs = b.locs

\* Every extra life and every item of an enabled point class emits its check as
\* long as the tables have room for the level (AP_TILE_*_MAX).
LevelFits(l) ==
    /\ Cardinality({p \in PlacesOf(l) : IsExtraLife(p[2].item)}) <= EXTRALIFE_MAX
    /\ Cardinality({p \in PlacesOf(l) : IsPoint(p[2].item)}) <= POINTITEM_MAX

NoMissedLocation ==
    \A a \in emitted :
        /\ LevelFits(a.level)
        /\ IsExtraLife(a.place[2].item) \/
             (IsPoint(a.place[2].item) /\ ClassOf(a.place[2].item) \in EnabledClasses)
        => a.locs # {}
====
