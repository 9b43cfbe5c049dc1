------------------------------ MODULE Refresh ------------------------------
(***************************************************************************)
(* The refresh manager (id_rf.c) and the messages drawn over it            *)
(* (ap_hooks.c). A buffer of tiles a little larger than the screen follows *)
(* the view over the map; one or two pages hold what was last drawn on     *)
(* each, and a frame draws on the active page only what it believes        *)
(* changed: dirty blocks, places sprites have left, sprites that moved or  *)
(* touch either. Animated tiles of the buffer are in a list of their own.  *)
(*                                                                         *)
(* Sprites and messages cover whole tiles. A picture of a tile is the tile *)
(* and what was drawn over it since, in order; of something drawn twice    *)
(* only the last counts. Scrolling counts half tiles. The two planes of a  *)
(* tile are one here.                                                      *)
(***************************************************************************)
EXTENDS Integers, Sequences, FiniteSets, SequencesExt

CONSTANTS
    RfScenes,               \* the scenes: see RfStart for their fields
    RF_MAX_SPRITETABLEENTRIES,
    RF_MAX_ONSCREENANIMTILES,
    WideToasts              \* a message is as wide as the screen, and the view between two tiles

ScreenW == 2
ScreenH == 1
BufferW == ScreenW + 1      \* RF_BUFFER_WIDTH_TILES
BufferH == ScreenH + 1
BufferSize == BufferW * BufferH
TOAST_MAX == 2              \* AP_TOAST_MAX
TOAST_TTL == 2
Tops == 1                   \* the layer above the foreground tiles

VARIABLE rf

Cells == (0 .. BufferW - 1) \X (0 .. BufferH - 1)
EntriesOf == 1 .. RF_MAX_SPRITETABLEENTRIES

\* The tiles: "a1" and "a2" are each other's next frame, "front" hides sprites below Tops.
RfTiles == {"plain", "front", "a1", "a2"}
AnimTile(t) == IF t = "a1" THEN "a2" ELSE "a1"
Animates(t) == t \in {"a1", "a2"}

At(s, c) == <<s.scroll[1] \div 2 + c[1], s.scroll[2] \div 2 + c[2]>>
CellOf(s, p) == <<p[1] - s.scroll[1] \div 2, p[2] - s.scroll[2] \div 2>>
PagesOf(s) == 0 .. RfScenes[s.scene].buffers - 1
LastPage(s, n) == (s.page - n + RfScenes[s.scene].buffers) % RfScenes[s.scene].buffers

\* A picture: the tile below, and over it the entries of the sprite table, or the tile's own
\* foreground, in the order they were drawn.
ForeTile == 0
TileOnly(t) == [tile |-> t, over |-> <<>>]
Over(picture, thing) == [picture EXCEPT !.over = Append(SelectSeq(@, LAMBDA x : x # thing), thing)]

\* A foreground over nothing but its own tile shows nothing new.
Settled(picture) ==
    IF picture.over # <<>> /\ Head(picture.over) = ForeTile THEN [picture EXCEPT !.over = Tail(@)] ELSE picture

-----------------------------------------------------------------------------
(* Dirty blocks: a ring that turns when the view scrolls. *)

Block(s, c) == (c[2] * BufferW + c[1] + s.offset) % BufferSize
RFL_IsBlockDirty(s, c, page) == s.dirty[page][Block(s, c)]
RFL_MarkBlockDirty(s, cells, val, pages) ==
    LET blocks == {Block(s, c) : c \in cells \cap Cells}
    IN  [s EXCEPT !.dirty = [p \in pages |-> [b \in blocks |-> val] @@ s.dirty[p]] @@ @]

(* The list of animated tiles on the screen: the n-th entry of a place is <<place, n>>. *)

RFL_CheckForAnimTile(s, places) ==
    LET new == {<<p, 1 + Cardinality({x \in s.onscreen : x[1] = p})>> : p \in {p \in places : Animates(s.map[p])}}
        added(t) == Cardinality({x \in new : s.timerAt[x[1]] = t})
    IN  IF new = {} THEN s
        ELSE IF Cardinality(s.onscreen \cup new) > RF_MAX_ONSCREENANIMTILES
             THEN [s EXCEPT !.quit = "No free spots in tilearray"]
        ELSE [s EXCEPT !.onscreen = @ \cup new, !.timers = [t \in DOMAIN @ |-> [@[t] EXCEPT !.onscreen = @ + added(t)]]]

RFL_RemoveAnim(s, places) ==
    LET old == {x \in s.onscreen : x[1] \in places}
        gone(t) == Cardinality({x \in old : s.timerAt[x[1]] = t})
    IN  IF old = {} THEN s
        ELSE [s EXCEPT !.onscreen = @ \ old, !.timers = [t \in DOMAIN @ |-> [@[t] EXCEPT !.onscreen = @ - gone(t)]]]

RFL_SetupOnscreenAnimList(s) ==
    [s EXCEPT !.onscreen = {}, !.timers = [t \in DOMAIN @ |-> [@[t] EXCEPT !.onscreen = 0]]]

Rendered(s, cells) == [s EXCEPT !.tiles = [c \in cells |-> s.map[At(s, c)]] @@ @]

\* Timers advance; the places in the list whose timer shows another tile change. They must be
\* in the buffer, or one beyond it.
RFL_AnimateTiles(s) ==
    LET tick(t) == IF t.time > 1 THEN [t EXCEPT !.time = @ - 1]
                   ELSE [t EXCEPT !.time = RfScenes[s.scene].pace, !.tile = AnimTile(@)]
        timers == [t \in DOMAIN s.timers |-> tick(s.timers[t])]
        turned == {p \in {x[1] : x \in s.onscreen} : timers[s.timerAt[p]].tile # s.map[p]}
        s1 == [s EXCEPT !.timers = timers,
                        !.map = [p \in turned |-> timers[s.timerAt[p]].tile] @@ @]
        turning == {CellOf(s, p) : p \in turned}
        cells == turning \cap Cells
    IN  IF turning \subseteq (0 .. BufferW) \X (0 .. BufferH)
        THEN RFL_MarkBlockDirty(Rendered(s1, cells), cells, 1, PagesOf(s))
        ELSE [s1 EXCEPT !.quit = "Out of bounds"]

\* One tile changes on the map; its timer, if it has one, comes with it (RF_ReplaceTileBlock).
RF_ReplaceTiles(s, p, tile, timer) ==
    LET s1 == RFL_RemoveAnim(s, {p})
        s2 == [s1 EXCEPT !.map[p] = tile, !.timerAt[p] = timer]
        c == CellOf(s, p)
    IN  IF c \notin Cells THEN s2
        ELSE RFL_CheckForAnimTile(IF s.map[p] = tile THEN s2
                                  ELSE RFL_MarkBlockDirty(Rendered(s2, {c}), {c}, 1, PagesOf(s)), {p})

-----------------------------------------------------------------------------
(* The view. *)

ScrollLimit(from, delta, blocks, screen) ==
    LET to == from + delta
    IN  IF delta > 0 /\ to \div 2 + screen \in Range(blocks) THEN 2 * (to \div 2)
        ELSE IF delta < 0 /\ to \div 2 \in Range(blocks) THEN 2 * (to \div 2) + 2
        ELSE to

RepositionLimit(to, blocks, screen, size) ==
    LET inside == IF to > 2 * (size - screen - 2) THEN 2 * (size - screen - 2) ELSE IF to < 4 THEN 4 ELSE to
        t == inside \div 2
        near == SelectSeq(blocks, LAMBDA b : t <= b /\ b <= t + screen)
    IN  IF near = <<>> THEN inside
        ELSE IF near[1] <= t + screen \div 2 THEN 2 * (near[1] + 1)
        ELSE 2 * (near[1] - screen)

RF_Reposition(s, x, y) ==
    LET s1 == [s EXCEPT !.scroll = <<RepositionLimit(x, RfScenes[s.scene].blocksX, ScreenW, RfScenes[s.scene].width),
                                     RepositionLimit(y, RfScenes[s.scene].blocksY, ScreenH, RfScenes[s.scene].height)>>]
        s2 == RFL_CheckForAnimTile(RFL_SetupOnscreenAnimList(s1), {At(s1, c) : c \in Cells})
    IN  RFL_MarkBlockDirty(Rendered(s2, Cells), Cells, 1, PagesOf(s))

\* What has moved out at one side leaves its tiles there until they are drawn again.
Shifted(f, dx, dy) == [c \in Cells |-> LET d == <<c[1] + dx, c[2] + dy>> IN IF d \in Cells THEN f[d] ELSE f[c]]

NewRow(s, cells) ==
    RFL_MarkBlockDirty(Rendered(RFL_CheckForAnimTile(s, {At(s, c) : c \in cells}), cells), cells, 1, PagesOf(s))
MapColumn(s, i) == {p \in DOMAIN s.map : p[1] = s.scroll[1] \div 2 + i}
MapRow(s, i) == {p \in DOMAIN s.map : p[2] = s.scroll[2] \div 2 + i}

NewRowVert(s, d) ==
    IF d = 0 THEN s
    ELSE RFL_RemoveAnim(NewRow(s, {c \in Cells : c[1] = IF d > 0 THEN BufferW - 1 ELSE 0}),
                        MapColumn(s, IF d > 0 THEN -1 ELSE BufferW))
NewRowHorz(s, d) ==
    IF d = 0 THEN s
    ELSE RFL_RemoveAnim(NewRow(s, {c \in Cells : c[2] = IF d > 0 THEN BufferH - 1 ELSE 0}),
                        MapRow(s, IF d > 0 THEN -1 ELSE BufferH))

RF_SmoothScroll(s, x, y) ==
    LET to == <<ScrollLimit(s.scroll[1], x, RfScenes[s.scene].blocksX, ScreenW), ScrollLimit(s.scroll[2], y, RfScenes[s.scene].blocksY, ScreenH)>>
        dx == to[1] \div 2 - s.scroll[1] \div 2
        dy == to[2] \div 2 - s.scroll[2] \div 2
        s1 == [s EXCEPT !.scroll = to,
                        !.tiles = Shifted(@, dx, dy),
                        !.shown = [p \in PagesOf(s) |-> Shifted(@[p], dx, dy)],
                        !.offset = (@ + dx + dy * BufferW + BufferSize) % BufferSize]
    IN  IF dx = 0 /\ dy = 0 THEN [s EXCEPT !.scroll = to]
        ELSE IF {dx, dy} \subseteq -1 .. 1 THEN NewRowHorz(NewRowVert(s1, dx), dy)
        ELSE RF_Reposition([s EXCEPT !.scroll = to], to[1], to[2])

-----------------------------------------------------------------------------
(* Sprites: an entry of the table is in the list of its layer or free; what draws a sprite
   holds a pointer to its entry. *)

RF_PlaceEraser(s, place, page) ==
    IF Len(s.erasers[page]) = RF_MAX_SPRITETABLEENTRIES THEN [s EXCEPT !.quit = "Too many sprite erasers"]
    ELSE [s EXCEPT !.erasers[page] = Append(@, place)]

\* Mutant: only the page drawn last.
ErasedOnce(s, e) ==
    IF s.table[e].updateCount < RfScenes[s.scene].buffers THEN RF_PlaceEraser(s, s.table[e].at, LastPage(s, 1)) ELSE s

\* Where an entry may have been drawn: on both pages, or on the one drawn last.
Erased(s, e) ==
    LET updates == s.table[e].updateCount
        s1 == IF updates = 0 THEN RF_PlaceEraser(s, s.table[e].at, LastPage(s, 0)) ELSE s
    IN  IF updates < RfScenes[s.scene].buffers THEN RF_PlaceEraser(s1, s.table[e].at, LastPage(s, 1)) ELSE s

\* The entry leaves its list, for the front of that of layer z if there is one.
Linked(s, e, z) ==
    [s EXCEPT !.layers = [l \in 0 .. Tops |->
        (IF l = z THEN <<e>> ELSE <<>>) \o SelectSeq(s.layers[l], LAMBDA x : x # e)]]

RemoveSpriteDraw(s, o) ==
    LET e == s.sde[o]
    IN  IF e = 0 THEN s
        ELSE [Linked(Erased(s, e), e, -1) EXCEPT !.free = <<e>> \o @, !.sde[o] = 0]

RF_AddSpriteDraw(s, o, place, z) ==
    LET new == s.sde[o] = 0
        e == IF new THEN s.free[1] ELSE s.sde[o]
        s1 == IF new THEN [s EXCEPT !.free = Tail(@)] ELSE Erased(s, e)
        s2 == IF ~new /\ s.table[e].zLayer = z THEN s1
              ELSE Linked(s1, e, z)
    IN  IF new /\ s.free = <<>> THEN [s EXCEPT !.quit = "No free spots in spritearray"]
        ELSE [s2 EXCEPT !.table[e] = [at |-> place, zLayer |-> z, updateCount |-> RfScenes[s.scene].buffers], !.sde[o] = e]

-----------------------------------------------------------------------------
(* Drawing a frame on the active page. *)

Painted(s, cells, picture(_)) ==
    [s EXCEPT !.shown[s.page] = [c \in cells |-> picture(c)] @@ @]

RFL_UpdateTiles(s) ==
    Painted(s, {c \in Cells : RFL_IsBlockDirty(s, c, s.page) = 1}, LAMBDA c : TileOnly(s.tiles[c]))

RFL_ProcessSpriteErasers(s) ==
    LET cells == {CellOf(s, p) : p \in Range(s.erasers[s.page])} \cap Cells
        s1 == RFL_MarkBlockDirty(Painted(s, cells, LAMBDA c : TileOnly(s.tiles[c])), cells, 2, {s.page})
    IN  [s1 EXCEPT !.erasers[s.page] = <<>>]

\* A sprite that ends where a tile begins counts as touching that tile.
DrawSprite(s, e) ==
    LET c == CellOf(s, s.table[e].at)
        touched == ({c[1], c[1] + 1} \X {c[2], c[2] + 1}) \cap Cells
        disturbed == \E d \in touched : RFL_IsBlockDirty(s, d, s.page) # 0
        updates == IF s.table[e].updateCount = 0 /\ disturbed THEN 1 ELSE s.table[e].updateCount
        s1 == RFL_MarkBlockDirty(Painted(s, {c} \cap Cells, LAMBDA d : Over(s.shown[s.page][d], e)),
                                 touched, 3, {s.page})
    IN  IF touched = {} \/ updates = 0 THEN s ELSE [s1 EXCEPT !.table[e].updateCount = updates - 1]

RFL_RenderForeTiles(s) ==
    Painted(s, {c \in Cells : s.map[At(s, c)] = "front" /\ RFL_IsBlockDirty(s, c, s.page) = 3},
            LAMBDA c : Settled(Over(s.shown[s.page][c], ForeTile)))

DrawLayer(s, list) ==
    LET drawn[n \in 0 .. Len(list)] == IF n = 0 THEN s ELSE DrawSprite(drawn[n - 1], list[n]) IN drawn[Len(list)]
RFL_DrawSpriteList(s) == DrawLayer(RFL_RenderForeTiles(DrawLayer(s, s.layers[0])), s.layers[Tops])

\* Messages stack upward from the bottom row, the newest first; what they cover is dirty on
\* every page, but never the last column (VH_MarkUpdateBlock).
Live(s) == SelectSeq(s.toasts, LAMBDA ttl : ttl > 0)
ToastCells(s) ==
    {c \in Cells : BufferH - 1 - c[2] < Len(Live(s)) /\ c[1] < IF WideToasts THEN BufferW ELSE BufferW - 1}
ap_toast_draw(s) ==
    RFL_MarkBlockDirty(Painted(s, ToastCells(s), LAMBDA c : TileOnly("message")),
                       {c \in ToastCells(s) : c[1] <= BufferW - 2}, 1, PagesOf(s))

ap_toast_push(s) == [s EXCEPT !.toasts = <<TOAST_TTL>> \o SubSeq(@, 1, TOAST_MAX - 1)]
ap_toast_tick(s) == [s EXCEPT !.toasts = [i \in DOMAIN @ |-> IF @[i] > 0 THEN @[i] - 1 ELSE 0]]

\* The page that was drawn is presented, and the other becomes active.
RF_Refresh(s) ==
    LET s1 == RFL_DrawSpriteList(RFL_ProcessSpriteErasers(RFL_UpdateTiles(RFL_AnimateTiles(s))))
        s2 == ap_toast_draw(RFL_MarkBlockDirty(s1, Cells, 0, {s.page}))
    IN  [s2 EXCEPT !.page = (@ + 1) % RfScenes[s.scene].buffers]

-----------------------------------------------------------------------------
(* What the player should see: the tile the timer stands at, the sprites that lie on it,
   layer by layer and in the order of their lists, and the messages on top. *)

Picture(s, c, messages) ==
    LET p == At(s, c)
        tile == IF Animates(s.map[p]) THEN s.timers[s.timerAt[p]].tile ELSE s.map[p]
        on(z) == SelectSeq(s.layers[z], LAMBDA e : s.table[e].at = p)
        front == IF tile = "front" /\ on(0) # <<>> THEN <<ForeTile>> ELSE <<>>
    IN  IF c \in messages THEN TileOnly("message") ELSE [tile |-> tile, over |-> on(0) \o front \o on(Tops)]

AsItIs(s) ==
    LET messages == ToastCells(s)
    IN  \A c \in Cells : Settled(s.shown[LastPage(s, 1)][c]) = Picture(s, c, messages)

-----------------------------------------------------------------------------
(* A scene: the buffers of the renderer; the map, its size, its scroll blocks and the time of its
   animated tiles; the places and layers sprites are drawn at; the tiles that are replaced; how
   the camera moves; whether messages and windows come and games are loaded; and the sprites
   whose pointers a saved game keeps. *)

RfTimers(scene) ==
    [t \in {scene.map[p] : p \in DOMAIN scene.map} \cap {"a1", "a2"} |->
        [tile |-> t, time |-> scene.pace, onscreen |-> 0]]

\* RF_NewMap, RF_MarkTileGraphics and the camera of the play loop.
RfStart(name, x, y) ==
    LET scene == RfScenes[name] IN
    RF_Reposition(
        [scene |-> name, map |-> scene.map,
         timerAt |-> [p \in DOMAIN scene.map |-> IF Animates(scene.map[p]) THEN scene.map[p] ELSE "none"],
         timers |-> RfTimers(scene), onscreen |-> {}, scroll |-> <<4, 4>>, offset |-> 0,
         dirty |-> [p \in 0 .. scene.buffers - 1 |-> [b \in 0 .. BufferSize - 1 |-> 0]],
         tiles |-> [c \in Cells |-> "plain"], shown |-> [p \in 0 .. scene.buffers - 1 |-> [c \in Cells |-> TileOnly("black")]],
         page |-> 0, erasers |-> [p \in 0 .. scene.buffers - 1 |-> <<>>],
         table |-> [e \in EntriesOf |-> [at |-> <<0, 0>>, zLayer |-> 0, updateCount |-> 0]],
         layers |-> [z \in 0 .. Tops |-> <<>>], free |-> [e \in EntriesOf |-> e],
         sde |-> [o \in {d.who : d \in scene.draws} |-> 0], toasts |-> [i \in 1 .. TOAST_MAX |-> 0], asItIs |-> TRUE, quit |-> "no"],
        x, y)

RfInits == UNION {{RfStart(name, at[1], at[2]) : at \in RfScenes[name].starts} : name \in DOMAIN RfScenes}

Playing == rf.quit = "no"

\* An object draws its sprite, somewhere else or in another layer.
DrawsSprite == \E d \in RfScenes[rf.scene].draws : rf' = RF_AddSpriteDraw(rf, d.who, d.at, d.layer)
HidesSprite == \E o \in DOMAIN rf.sde : rf.sde[o] # 0 /\ rf' = RemoveSpriteDraw(rf, o)

Replaces == \E r \in RfScenes[rf.scene].replaced : rf' = RF_ReplaceTiles(rf, r.at, r.tile, r.timer)
Tells == RfScenes[rf.scene].messages /\ rf' = ap_toast_push(rf)

\* The end of a frame of the play loop: the camera, the messages' time, the refresh.
Presented(s) == [s EXCEPT !.asItIs = AsItIs(s)]
Frame ==
    \E d \in RfScenes[rf.scene].scrolls : rf' = Presented(RF_Refresh(ap_toast_tick(RF_SmoothScroll(rf, d[1], d[2]))))

\* A window was drawn over the page; the caller then shows the level again.
RF_ForceRefresh ==
    /\ RfScenes[rf.scene].windows
    /\ LET over == [rf EXCEPT !.shown[rf.page] = [c \in Cells |-> TileOnly("window")]]
       IN  rf' = Presented(RF_Refresh(RF_Refresh(RF_Reposition(over, rf.scroll[1], rf.scroll[2]))))

\* A saved game is loaded: the level is set up anew, then the planes are those that were saved,
\* and the objects forget their pointers, but for the types CK_LoadGame does not name.
ReloadsLevel ==
    /\ RfScenes[rf.scene].loads
    /\ LET new == [RfStart(rf.scene, rf.scroll[1], rf.scroll[2]) EXCEPT
                     !.map = rf.map, !.timerAt = rf.timerAt, !.shown = rf.shown, !.page = rf.page, !.toasts = rf.toasts,
                     !.sde = [o \in DOMAIN rf.sde |-> IF o \in RfScenes[rf.scene].keeps THEN rf.sde[o] ELSE 0]]
       IN  rf' = RF_Reposition(new, rf.scroll[1], rf.scroll[2])

RfNext ==
    /\ Playing
    /\ \/ DrawsSprite
       \/ HidesSprite
       \/ Replaces
       \/ Tells
       \/ Frame
       \/ RF_ForceRefresh
       \/ ReloadsLevel

-----------------------------------------------------------------------------
(* What the parts of a frame presented show is what the level is: no sprite stays where it was, none
   is missing or behind what it should hide, no message outlives its time. *)
ShowsTheLevel == rf.asItIs

(* The animated tiles of the buffer are those in the list, so every one of them moves and none
   outside it does; each timer counts the tiles of its own on the screen (id_rf.c:570, a sound
   is played for it). *)
AnimatesWhatIsSeen ==
    LET seen == {p \in {At(rf, c) : c \in Cells} : Animates(rf.map[p])}
    IN  /\ {x[1] : x \in rf.onscreen} = seen
        /\ \A p \in seen : rf.timerAt[p] \in DOMAIN rf.timers
        /\ \A t \in DOMAIN rf.timers : (rf.timers[t].onscreen > 0) = (\E p \in seen : rf.timerAt[p] = t)

(* Every entry of the table is free or in one list, and held by one sprite if it is in one. *)
EntriesAccounted ==
    LET listed == rf.layers[0] \o rf.layers[Tops]
    IN  /\ IsInjective(rf.free \o listed) /\ Range(rf.free \o listed) = EntriesOf
        /\ \A o \in DOMAIN rf.sde : rf.sde[o] # 0 => rf.sde[o] \in Range(listed)
        /\ \A o, u \in DOMAIN rf.sde : o # u /\ rf.sde[o] # 0 => rf.sde[o] # rf.sde[u]

(* However sprites move, come and go, the erasers of a page suffice; and however the view scrolls,
   the list of animated tiles does, and all of it is in the buffer (RFL_AnimateTiles quits). *)
TablesSuffice == rf.quit \in {"no", "No free spots in spritearray"}

(* No scroll block is ever within the screen. *)
BlocksUnseen ==
    LET hidden(b, at, screen) == b < at \div 2 \/ b >= (at + 1) \div 2 + screen
    IN  /\ \A i \in DOMAIN RfScenes[rf.scene].blocksX : hidden(RfScenes[rf.scene].blocksX[i], rf.scroll[1], ScreenW)
        /\ \A i \in DOMAIN RfScenes[rf.scene].blocksY : hidden(RfScenes[rf.scene].blocksY[i], rf.scroll[2], ScreenH)

(* A tile is in the list once. *)
OnceInTheList == \A x \in rf.onscreen : x[2] = 1

RefreshSound ==
    /\ ShowsTheLevel
    /\ AnimatesWhatIsSeen
    /\ EntriesAccounted
    /\ TablesSuffice
    /\ BlocksUnseen
=============================================================================
