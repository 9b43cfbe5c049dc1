---- MODULE MCComponents ----
(***************************************************************************)
(* Parts of the engine that share no state, checked in one run: `part`     *)
(* says which of them moves.                                               *)
(***************************************************************************)
EXTENDS TileItems, ObjList, Cache, WorldMap, Refresh, Physics

VARIABLE part

Parts == {"tiles", "objects", "cache", "map", "refresh", "physics"}

\* Two levels with items on both planes: level 1 fills both tables, level 2 overflows the
\* extra-life table.
PutAt(p, i) == [pos |-> p, item |-> i]

MCInfoPlane == 1 :> <<PutAt(1, 9), PutAt(2, 10), PutAt(3, 0)>>
            @@ 2 :> <<PutAt(1, 10), PutAt(2, 9)>>
MCForePlane == 1 :> <<PutAt(5, 10), PutAt(6, 4), PutAt(7, 9)>>
            @@ 2 :> <<PutAt(3, 9), PutAt(4, 10), PutAt(5, 10)>>

MCAudioModes == {<<"pc", FALSE>>, <<"adlib", TRUE>>}

\* The maps. In Keen 4 a lake lies between two levels, and the foot carries Keen behind a
\* fence; in Keen 5 elevators and teleporters are the only ways on; in Keen 6 there are a
\* cliff, the grabbiter before two stops of the rocket, and two stations of the satellite.
Tile(kind, to) == [kind |-> kind, to |-> to, foot |-> 0]
Land == Tile("land", 0)
Wall == Tile("wall", 0)
MapWith(ep, start, things, strip) == [ep |-> ep, start |-> start, things |-> things, strip |-> strip]

MCMapOf ==
    "4" :> MapWith(4, 2, {},
        <<Wall, Land, Tile("level", 1), Tile("level", 3), Land, Land, Tile("shoreE", 0), Tile("water", 0),
          Tile("shoreW", 0), Land, [Tile("level", 2) EXCEPT !.foot = 14], Land, Tile("fence", 2), Land, Wall>>)
 @@ "5" :> MapWith(5, 2, {},
        <<Wall, Land, Tile("elevator", 7), Land, Tile("teleporter", 9), Land, Tile("elevator", 3), Land,
          Tile("teleporter", 5), Land, Tile("level", 2), Land, Wall>>)
 @@ "6 cliff" :> MapWith(6, 9, {"rope"},
        <<Wall, Land, Land, Tile("cliff", 1), Land, Tile("cliff", 0), Land, Tile("level", 1), Land, Wall>>)
 @@ "6 rocket" :> MapWith(6, 9, {"sandwich", "passcard"},
        <<Wall, Tile("rocket", 1), Land, Land, Wall, Tile("rocket", 0), Land, Tile("grabbiter", 0), Land,
          Land, Tile("level", 1), Wall>>)
 @@ "6 satellite" :> MapWith(6, 4, {},
        <<Wall, Tile("station", 2), Land, Land, Land, Tile("station", 1), Wall>>)
MCUnder == {Land}

\* The screens: two sprites that change layers about a foreground tile; one buffer; the view
\* over a sprite and an animated tile; tiles in two phases, replaced; a map of two rooms; messages
\* and windows.
Plain(w, h) == [p \in (2 .. w - 2) \X (2 .. h - 2) |-> "plain"]      \* the part the buffer can hold
Screen == [buffers |-> 2, map |-> Plain(7, 6), width |-> 7, height |-> 6, blocksX |-> <<1, 5>>, blocksY |-> <<1, 4>>,
           pace |-> 1, starts |-> {<<4, 4>>}, draws |-> {}, replaced |-> {}, scrolls |-> {<<0, 0>>},
           messages |-> FALSE, windows |-> FALSE, loads |-> FALSE, keeps |-> {}]
Sprite(who, at, layer) == [who |-> who, at |-> at, layer |-> layer]
Everywhere == {-1, 0, 1} \X {-1, 0, 1}
Around == {<<1, 0>>, <<0, 1>>, <<-1, 1>>, <<-1, -1>>}      \* half a tile: the tiles stay every other frame

MCRfScenes ==
    "sprites" :> [Screen EXCEPT !.map[<<3, 2>>] = "front",
                    !.draws = {Sprite("keen", <<2, 2>>, 0), Sprite("keen", <<3, 2>>, 1),
                               Sprite("shot", <<3, 2>>, 0)}]
 @@ "one buffer" :> [Screen EXCEPT !.buffers = 1, !.map[<<3, 2>>] = "front", !.scrolls = {<<-1, 0>>, <<1, 0>>},
                    !.draws = {Sprite("keen", <<2, 2>>, 0), Sprite("keen", <<3, 2>>, 1)}, !.windows = TRUE]
 @@ "view" :> [Screen EXCEPT !.map[<<4, 2>>] = "a1", !.scrolls = Around,
                    !.draws = {Sprite("keen", <<2, 2>>, 0), Sprite("keen", <<4, 3>>, 0)}]
 @@ "tiles" :> [Screen EXCEPT !.map[<<4, 2>>] = "a1", !.map[<<2, 3>>] = "a2", !.map[<<4, 3>>] = "a1", !.pace = 2,
                    !.scrolls = {<<1, 1>>, <<-1, 0>>, <<0, -1>>}, !.loads = TRUE,
                    !.replaced = {[at |-> <<2, 2>>, tile |-> "a2", timer |-> "a2"],
                                  [at |-> <<2, 2>>, tile |-> "plain", timer |-> "none"]}]
 @@ "rooms" :> [Screen EXCEPT !.map = Plain(12, 6), !.width = 12, !.blocksX = <<1, 10, 6>>,
                    !.starts = (0 .. 22) \X {0, 5, 9},
                    !.scrolls = Everywhere \cup {<<-4, 0>>, <<4, 0>>}]
 @@ "messages" :> [Screen EXCEPT !.draws = {Sprite("keen", <<3, 3>>, 0)}, !.scrolls = {<<-1, 0>>, <<1, 0>>},
                    !.messages = TRUE, !.windows = TRUE]

\* Rooms: slopes in both directions; a drop; and one room for each kind of platform. The player
\* changes his input once or twice.
Ground(top, right, bottom, left) == [top |-> top, right |-> right, bottom |-> bottom, left |-> left]
Rock == Ground(1, 1, 1, 1)
Slope(top) == Ground(top, 0, 0, 0)
Press(x, y, jump) == [x |-> x, y |-> y, jump |-> jump]
Idle == Press(0, 0, FALSE)
Walks == {Idle, Press(1, 0, FALSE), Press(-1, 0, FALSE)}
Down == {Press(0, 1, FALSE), Press(0, 1, TRUE)}
Blocks(a, b) == a :> BlockTile @@ b :> BlockTile

Box(top, bottom) == [p \in {2, 13} \X (top .. bottom) |-> Rock] @@ [p \in (2 .. 13) \X {bottom} |-> Rock]
Hills == Box(3, 12)
      @@ [p \in (3 .. 10) \X {11} |-> Slope(<<1, 4, 6, 5, 2, 3, 7, 1>>[p[1] - 2])]
      @@ <<11, 8>> :> Ground(0, 0, 4, 0) @@ <<12, 8>> :> Rock
Room == [ep |-> 6, map |-> Box(3, 12), info |-> <<>>, kind |-> "none", at |-> <<1536, 2560>>, act |-> "none",
         dir |-> <<0, 0>>, user1 |-> 0, starts |-> {<<1600, 2032>>}, syncs |-> {2, 3}, inputs |-> Walks, changes |-> 1,
         low |-> <<512, 0>>, high |-> <<512, 0>>, strokes |-> {}, size |-> <<640, 384>>]

Rooms ==
    "hills 4" :> [Room EXCEPT !.ep = 4, !.map = Hills, !.starts = {<<1600, 2340>>}, !.changes = 2, !.syncs = {3},
                    !.inputs = Walks \cup {Press(0, 0, TRUE), Press(1, 0, TRUE)}]
 @@ "hills 6" :> [Room EXCEPT !.map = Hills, !.starts = {<<1600, 2340>>}, !.changes = 2, !.syncs = {2},
                    !.inputs = Walks \cup {Press(0, 0, TRUE), Press(1, 0, TRUE)}]
 @@ "tower" :> [Room EXCEPT !.map = Box(0, 24) @@ [p \in (3 .. 8) \X {10} |-> Slope(1)], !.high = <<512, 5120>>,
                    !.inputs = {Idle, Press(1, 0, FALSE)} \cup Down, !.changes = 2, !.syncs = {3}]
 @@ "axis" :> [Room EXCEPT !.kind = "axis", !.dir = <<1, 0>>, !.map = Box(3, 12) @@ <<12, 9>> :> Rock,
                    !.info = Blocks(<<4, 10>>, <<13, 10>>)]
 @@ "lift" :> [Room EXCEPT !.kind = "axis", !.dir = <<0, -1>>, !.map = Box(3, 12) @@ <<7, 8>> :> Rock,
                    !.info = Blocks(<<6, 7>>, <<6, 11>>), !.inputs = {Idle} \cup Down, !.changes = 2, !.syncs = {3}]
 @@ "go" :> [Room EXCEPT !.kind = "go", !.user1 = 4,
                    !.info = <<6, 10>> :> 95 @@ <<7, 9>> :> 92 @@ <<8, 9>> :> 96
                          @@ [p \in {7, 8, 9} \X {10} |-> 94]]
 @@ "fall" :> [Room EXCEPT !.kind = "fall", !.act = "sit", !.user1 = 2560, !.map = Box(3, 20), !.high = <<512, 2048>>,
                    !.info = <<6, 18>> :> BlockTile, !.inputs = {Idle, Press(1, 0, FALSE), Press(0, 0, TRUE)}]
 @@ "sneak" :> [Room EXCEPT !.kind = "sneak", !.act = "wait", !.at = <<2048, 2560>>,
                    !.map = Box(3, 12) @@ <<5, 10>> :> Rock, !.starts = {<<1280, 2032>>}, !.changes = 2,
                    !.inputs = {Idle, Press(1, 0, FALSE), Press(1, 0, TRUE)}]
 @@ "swim" :> [Room EXCEPT !.kind = "swim", !.map = Box(3, 12) @@ [p \in (3 .. 12) \X {3} |-> Rock] @@ <<7, 7>> :> Rock,
                    !.strokes = {-192, 0, 192}, !.starts = {<<1024, 1100>>}, !.syncs = {2}]

\* A function that TLC builds once.
MCPhScenes == [name \in DOMAIN Rooms |-> Rooms[name]]

\* A part that does not move has one of its initial states.
Starts(name, inits) == IF part = name THEN inits ELSE {CHOOSE s \in inits : TRUE}

ComponentsInit ==
    /\ part \in Parts
    /\ Init
    /\ ol \in Starts("objects", OlInits)
    /\ ca \in Starts("cache", CaInits)
    /\ wm \in Starts("map", WmInits)
    /\ rf \in Starts("refresh", RfInits)
    /\ ph \in Starts("physics", PhInits)

ComponentsNext ==
    \/ part = "tiles" /\ Next /\ UNCHANGED <<part, ol, ca, wm, rf, ph>>
    \/ part = "objects" /\ OlNext /\ UNCHANGED <<part, vars, ca, wm, rf, ph>>
    \/ part = "cache" /\ CaNext /\ UNCHANGED <<part, vars, ol, wm, rf, ph>>
    \/ part = "map" /\ WmNext /\ UNCHANGED <<part, vars, ol, ca, rf, ph>>
    \/ part = "refresh" /\ RfNext /\ UNCHANGED <<part, vars, ol, ca, wm, ph>>
    \/ part = "physics" /\ PhNext /\ UNCHANGED <<part, vars, ol, ca, wm, rf>>

ComponentsSpec == ComponentsInit /\ [][ComponentsNext]_<<part, vars, ol, ca, wm, rf, ph>>

(***************************************************************************)
(* What each part promises, looked at while it moves: the state of a part  *)
(* at rest is an initial state of the same part moving.                    *)
(***************************************************************************)

\* What is locked stays, what is counted is there, nothing is left in the buffers (id_ca.c, id_mm.c).
CacheHolds == part = "cache" => CacheSound

\* Keen on the map is left whole, where the ride goes, and the map shows what is done (ck_map.c).
MapHolds == part = "map" => WorldMapSound

\* The screen shows the level, and the tables behind it add up (id_rf.c, ap_hooks.c).
RefreshHolds == part = "refresh" => RefreshSound

\* Keen stands, rides, falls and swims where he should, and the view follows (ck_phys.c, ck_obj.c).
PhysicsHolds == part = "physics" => PhysicsSound
====
