# Specifications of Omnispeak AP

Omnispeak reimplements the Commander Keen 4–6 engine in C; this fork joins it to an Archipelago (AP)
multiworld: picking items up and finishing levels sends *checks* to a server, and the gems, abilities, level
unlocks and extra lives of the game arrive as *items* from it. Paths below are under `src/src/`, line numbers
are those of `PROJECT.json`'s `map`, which names for every definition the code it stands for.

The specifications cover what the fork adds (the session with the server, the numbering of locations, deaths
that travel between games, what items, saved games and menus do to one running game) and the engine below it:
Keen, the creatures, the world maps, the object list, physics, memory and the screen.

| module | what it is |
|---|---|
| `APLocations` | the arithmetic of location ids and the pickup hooks |
| `TileItems` | the tables that give each extra life and point item its location |
| `ItemFeed` | abstract: what the client promises about received items |
| `APSession`, `MCSession`, `APSessionProofs` | the AP client, the link and the server; it implements `ItemFeed` |
| `DeathLink`, `MCDeathLink`, `DeathLinkProofs` | deaths in and out of the game, frame by frame |
| `GameSession`, `MCGameSession`, `GameSessionProofs` | demo loop, menu, game loop, saved games and the effect of items |
| `KeenActions`, `Keen`, `MCKeen`, `KeenProofs` | Keen's actions, and a frame of the play loop from his side |
| `ActionTables`, `Creatures` | the action tables; the machine all creatures share |
| `Creatures4`, `Creatures5`, `Creatures6`, `Fixtures` | the creatures of each episode; doors, turrets, platforms |
| `CreatureLevel`, `MCCreatures` | composes them: Keen, his shots and the creatures of a scene |
| `CreatureProofs`, `CreatureLevelProofs` | theorems about `CreatureLevel`: what the episodes share; their functions and a level |
| `ObjList` | the object list and the walks along it |
| `ComponentsProofs` | theorems about `APLocations`, `TileItems` and `ObjList` |
| `Induction` | lemmas on induction and recursion up to n, for the proofs |
| `Cache` | the memory manager under the cache manager under the screens of the game |
| `WorldMap` | Keen on the maps of the three episodes and all that carries him |
| `Refresh` | the pages, sprites, animated tiles and scrolling, with the AP toasts on top |
| `Physics` | slopes, walls, gravity, platforms and their rider, the camera |
| `MCComponents` | instances of `TileItems` and the last five, side by side |

To check a configuration: `tlc -config MCSessionItems.cfg MCSession` (the module before the cfg's suffix);
to check the proofs: `tlapm APSessionProofs.tla`.

## 1. The system and its components

The program is one thread (the sound timer aside). `main` (`ck_main.c`) reads the connection form, starts the
AP client and runs the demo loop; a menu started from there begins or loads a game; `CK_GameLoop`
(`ck_game.c`) plays levels by `CK_PlayLoop` (`ck_play.c`) until the lives are gone. Every frame starts with
`ap_client_poll`, inside which alone the network's message handlers run.

**AP location numbering and pickup hooks** (`ap_defs.h`, `ap_hooks.c`). *State:* none but counters of points.
*Operations:* the `LOC_*` macros, `ap_on_keygem_get`, `ap_on_security_card_get`, `ap_on_extralife_get`,
`ap_on_pointitem_get`, `ap_on_level_complete`. *Called by* the player's collision code. *Hard:* strides of
class, episode, level and instance must not overlap. *Correct when* an id determines what it was made from.

**Item index tables** (`ck_obj.c`). *State:* two static arrays of (position, class, index) and the counters of
the level. *Operations:* reset, append by `CK_SpawnItem` during the info plane's scan, append by the scan of the
foreground plane, lookup at a pickup. *Interacts with* `CK_LoadLevel`, which fixes the order, and with the
hooks. *Hard:* two passes share counters; the arrays are finite; every load counts anew. *Correct when* an
item has a location of its own, the same after every load.

**AP client session** (`ap_client.cpp`, of `third_party/apclientpp` the calls it uses). *State:* connection
state, `_checkQueue`, `_checkedLocations`, the high-water mark `ap_last_item_index`, `ap_items`, the local boss
flags; on the server the checked locations, the item list, the DataStorage and the goal. *Operations:*
connect, close, `LocationChecks`, the handlers of each message, boss completion and goal. *Hard:* the link
fails silently or half way, the server replays its whole list at each connect, launches alternate between
episodes. *Correct when* each item has its effect once, no earned check is lost except by a lost message, and
the goal is announced for real victories only, but then for certain.

**DeathLink and the play loop** (`ap_hooks.c`, `ap_client.cpp`, `ck_play.c`, `ck_keen.c`, `ck_misc.c`,
`ck4_obj3.c`). *State:* `ap_pending_death`, `ap_suppress_death_send`, the invincibility timer, Keen's action and
type, lives, `ap_force_abort`. *Operations:* the phases of a frame and the end of a life. *Hard:* three code paths report a
death, one flag swallows the report of a kill that came from outside, and reporting polls the network in the
middle of a frame. *Correct when* own deaths are reported, others' are applied once and not reported back, and
only deaths cost lives.

**Game loop and level session** (`ck_main.c`, `ck_game.c`, `ck_map.c`, `ck_us_2.c`, `ck_inter.c`, `id_us_2.c`).
*State:* `ck_gameState`, the cached map and its objects, `ca_mapOn`, the flags `ck_startingDifficulty`,
`ck_startingSavedGame` and `load_game_error`, the saved games. *Operations:* demos, new, load, save, quick save and load, end, every ending of a
level, try again, the next level. *Hard:* the flags are set in a menu and read in four other places; keys are
looked at after a frame that may have ended the level; a load overwrites the game part by part. *Correct when* the game that
starts is the one asked for, and a game after a load, a death or a demo is consistent.

**AP level access and item effects** (`ap_client.cpp`, `ap_hooks.c`). *State:* `ap_items`, `ap_has_pogo`, the keys and
the wetsuit in the game state. *Operations:* `ap_client_give_item`, `ap_apply_level_items`,
`ap_resync_items`, `ap_has_level`. *Correct when* the player has what his items give, no more and no less.

**Player** (`ck_keen.c`). *State:* his action with its timer, the jump and pogo timers, pressed buttons, what he
carries. *Operations:* about seventy actions, each with think, collide and draw functions. *Hard:* a frame is
several steps (controls, thinks, movement, touches, special tiles, draw), time left over by an action goes to
the next one with the same input, and every step may change the action that the next one reads. *Correct when* a
press counts once, clipping goes with the action, gems are neither lost nor doubled, and the dead stay dead.

**Creatures** (`ck_misc.c`, `ck_obj.c`, `ck4_obj?.c`, `ck5_obj?.c`, `ck6_obj?.c`) **and action tables**
(`data/keen*/ACTION.CK*`). *State:* action, four user fields, type and clipping of every object. *Operations:* the
functions that the tables name. *Hard:* several functions write one user field for different ends; counters
are compared with `=`; the Dopefish, inchworms, Nospikes and shots change other objects. *Correct when* what
one function leaves is what the next expects.

**Object list** (`ck_play.c`). *State:* an array of objects in a used and a free list. *Operations:* allocate,
remove, activate, save, load; the three walks of the play loop. *Hard:* functions remove and spawn while the
loop walks; the pool runs out. *Correct when* each object thinks once a frame and no freed slot does.

**World maps** (`ck_map.c`, `ck4_map.c`, `ck5_map.c`, the map part of `ck6_obj1.c`). *State:* Keen's position, the
flags, what carries him. *Hard:* rides borrow Keen's type, clipping and action. *Correct when* all of it is
given back and the ride does not begin anew.

**Physics** (`ck_phys.c`, platforms of `ck_obj.c`, camera of `ck_play.c`). *State:* rectangles, speeds, the carried
pointer. *Hard:* a rider, a push and a slope may move a body in the same frame. *Correct when* who stands has
ground below him, a rider keeps with his platform and the view with Keen.

**Memory and cache manager** (`id_mm.c`, `id_ca.c`). *State:* blocks with owner pointers, locks, purge levels; level
bits and marks of the chunks. *Hard:* a purge clears an owner whose pointer somebody holds; screens nest.
*Correct when* pointers in use stay, and a level finds its graphics after any screen over it.

**Refresh manager** (`id_rf.c`) **and AP toasts** (`ap_hooks.c`). *State:* per page dirty blocks, erasers, sprite
entries; the list of animated tiles; the ring of messages. *Hard:* every change has to reach every page, lists
have limits, scrolling moves all of them. *Correct when* the screen shows the level.

Not modelled:

| component | state and operations | why not |
|---|---|---|
| Sound manager (`id_sd.c`) | current sound, priority, timer thread | the one other thread; it shares only counters of tics with the rest |
| Input manager (`id_in.c`) | key state, demo buffer as run-length code | planned, section 6 |
| Menus beyond what `GameSession` has (`id_us_1.c`, `id_us_2.c`, `ck_us_2.c`) | stack of cards, options, controls | planned, section 6 |
| Connection picker (`ap_picker.c`) | a form before the game starts | input and output |
| Video (`id_vl*.c`), files, strings, configuration (`id_fs.c`, `id_str.c`, `id_cfg.c`) | drawing, parsers | input and output |
| Text and intermissions (`ck_text.c`, `ck_inter.c`) | pages and scrolling | presentation; their caching is in `Cache`, their place in the demo loop in `GameSession` |

`PROJECT.json` lists all components with their status, and under `hazards` what in this code a test would
hardly reach, with the property that would catch it.

## 2. The models

### APLocations and TileItems

`LocAt` and `LOC_POINTSANITY` are the macros; the hooks return the set of locations they check. `TileItems`
has the static tables and counters as one record per kind, the two planes of a level as sequences in scan
order, and three actions: `CK_LoadLevel` (reset, both scans, in the code's order), a touched item object
(`CK_KeenColFunc`) and a touched item tile (`CK_KeenGetTileItem`). `Scan` is a recursive function over the
positions of a plane: counters and tables after that many. `emitted` is the history of pickups and the
locations each sent.

### ItemFeed and APSession

`ItemFeed` has the list the multiworld has sent and the prefix that the running game has applied; a launch
starts from nothing. `APSession` refines it by `sent <- srvItems, applied <- ap_last_item_index + 1, owned <-
ap_items`.

Each call of the client and each handler is one action, since nothing interrupts the thread. The link is
`none`, `open`, `cut` (the network is gone and sends vanish) or `closing` (the socket has left OPEN, a send
throws and `ap_guard` swallows the exception); `onclose` is the dispatch of the close event. Messages in both
directions are sequences; a dropped link drops what is in them. A ReceivedItems message is a range of the
server's list. The server is modelled as the client uses it and is marked external. `Collect` is any pickup
hook, `ap_on_level_complete` adds the boss flag and the goal; `ap_client_init` is a launch, on either episode,
with everything in memory gone. Histories: `collected` (this launch's locations), `lost` (those whose message
was dropped), `beaten`.

### DeathLink

`phase` walks through a frame in the order of `CK_PlayLoop`: poll, apply the pending death, Keen's think,
creatures, special tiles, the fall through the bottom, camera, keys. What Keen meets is chosen freely;
geometry is reduced to rows (a level, a screen that scrolls, Keen's row), which is what decides whether he
leaves the screen before the bottom. `CK_KillKeen` and `ap_on_death` are operators that take the flags as
their caller leaves them, because `ap_on_death` polls and a handler may run in its middle. `cause`, `owed` and
`sent` are the history of the current life. `CK_KillKeen` refuses in a third case that `ap_apply_pending_death` does not
test, `CK_ACT_keenNot` (`ck_keen.c:1765`); no source sets that action and no row of the four action tables leads to it, so
it is left out. A door makes Keen invincible for longer than a kill does; both refuse both kinds of kill. Saved games and the level editor's test mode are left out.

### GameSession

`pc` says where the program waits: title, demo, the start of a game, and in a frame the poll, the events of
the frame, the keys, CTRL+R after them; the menu, the try again menu, game over. The labels of `CK_GameLoop`
are actions (`ResetDifficultyAndLevel`, `LoadLevel`, `ReplayLevel`), so are the cases of its switch. Abstractions:

- keys are the gems and the security card; the gems that lie in a level are left out, since picking one up
  only sends a check; a key is in hand, being placed, or its door is open;
- the map planes and objects are one record: the level they belong to, doors open, fuses left, the QED, the
  `LevelEnd` object; `ca_mapOn` also stands for `ap_current_level`, which the same call sets;
- one saved game slot; a save is cut after any of seven parts by a crash (`CrashWhileSaving`), and a load reads
  the parts that are there into the running game, as the code does; errno after a short read is free;
- scores, ammunition, map positions, extra lives found in levels, the polls inside `ap_send_death` (see
  `DeathLink`), the store demo and the cheat keys are left out, as is the eighth council member: the line that
  counts them is commented out in `ck4_misc.c`;
- `asked`, `games` and the game's `extra` lives are histories.

`KeysAccounted`, `EffectsMatchItems`, `FusesCounted` and `DoneIsChecked` are stated while a level runs; between
levels the game loop holds the state half changed.

### KeenActions and Keen

`Rows` has Keen's rows of the three action files. A frame is a sequence of phases: `Think` reads the controls
and runs the action, `ThinkOn` runs it again while tics are left (`CK_RunAction`), `Move` places Keen, `Touch` lets
what is near collide, and `Draw` does the special tiles, the fall out of the level and his draw function.
Geometry is chosen freely: after a movement Keen stands on any kind of ground, and before him is any of what
the level has, except that he keeps still while an action keeps him in place: `CK_PhysUpdateNormalObj` returns
early for a body that does not move, so the ground, deadly or with a fuse, is still that of the step before
(`Still`). Switches, holders, doors and exits
are places of the level, and `start` says what it has and what Keen owns. `extraShot`, `extraUse`, `opened` and `lostGems`
are histories. The teleporters' secret doors and the score box are left out.

### ActionTables, Creatures and CreatureLevel

A row of `ActionTables` is a row of an action file, with frames that share their functions merged into the
first of them. `Creatures` has the pool of objects and what all share: `CK_RunAction` (an action thinks, or its
timer runs out and the next one follows), stunning, shots, killing, items. A module per episode has its
functions under their names; `Thinks`, `Touches` and `Draws` make an operator fire where the table names it.
Positions, velocities and times are free: any two objects may touch, any may meet a wall or an edge, in any order,
so that the properties cannot rest on geometry. Pauses of tables and counters (`NumJumps`, `TeleCycle`,
...) are scaled to 1 or 2 by constants. `killer`, `stuns`, `fired` and `hit` are histories.

### ObjList

The array with its `prev` and `next` links as in the code, slots that keep their contents when freed, and the
walks of a frame (`walk`, `cur`) one object per step. What an object's function does is chosen from
`Callbacks`, the patterns that the sources show: stars, a spawn, the removal of another object, up to `MaxDeeds` of
these in one call (the inchworms become a foot, spawn four clouds and remove all others, `ck4_obj2.c:392-425`),
and then the removal of itself. The list is also saved and loaded, in the order of the links (`Chain`). `live`, `due` and `deadThinks` are histories.

### Cache

Functions map a state to the set of states they may end in, since the block that a purge takes depends on
array order. A block is named for its owner; sizes are abstracted to a limit of `MM_MAXBLOCKS` blocks. The screens
(title, level, menu, message, help, demo, ending) push and pop what the code caches, in the order of `CA_UpLevel`,
`CA_ClearMarks`, `CA_MarkGrChunk`, `CA_CacheMarks` and `CA_DownLevel`.

### WorldMap

The map is a strip of tiles of 16 units on which the code's conditions can be met in all combinations (a shore
beside a level, an elevator beside a teleporter). Walking and swimming are one think of six units. Foot, elevator,
teleporter, Grabbiter, rocket, rope, satellite and flags are actions each, with their table of what they lend from
Keen. The game can be left and relaunched, levels can be locked.

### Refresh

The screen is two tiles by one and the buffer three by two; a cell's picture is its tile and what was drawn
over it, in order. A frame repositions, animates, erases, draws sprites and toasts and presents, in the order
of `RF_Refresh`; windows, reloads and forced refreshes come between. `asItIs` is the comparison of what was
presented with the level. Scenes choose the map, the sprites, one or two pages and where the view may go. The four
limits at which the program quits (sprite entries, erasers, animated tiles in the list, a listed tile outside the
buffer) are in `quit`; the view jumps two tiles in `rooms`, where the program repositions instead of scrolling.

### Physics

Units are the program's (256 a tile, 16 a pixel), and so are the formulas; one step is one frame of `sync` tics:
Keen's think, his movement with `CK_PhysUpdateNormalObj`, the platform's think and movement, the carrying, the
draw function, the camera. The player holds an input for as many frames as he likes and changes it `changes` times. A
scene is a room with one kind of platform (axis, go, fall, sneak), a slope in each direction, a tower, a
swimmer. `slip` sums what `posX |= plat.posX & 0x1F` shifts a rider by and `aboard` says that he was carried at the
end of the last frame; both are histories. Pushing blocks (`CK_PhysPushX`, `CK_PhysPushXY`),
`CK_PreviewClipRects`, `CK_PhysGravityLow`, `CK_PhysAccelVert1`, the sides a swimmer touches and the camera's
`/NOPAN` are left out.

### MCComponents

The item tables and the five parts above share no state, so their product says nothing that each does not; `part`
chooses which of them moves, and the properties of all are checked along it.

## 3. What the runs check

| run | bounds | shows |
|---|---|---|
| `session_items` | 3 items from others, 2 own, 2 drops, 1 relaunch, 1 unread message | `ItemsExactlyOnce` through replays; `FeedSpec` (the refinement); `ItemsDelivered` |
| `session_checks` | 2 boss locations, goal of two episodes, 3 drops, 2 relaunches, 2 unread messages | `SuppressedIsKnown`, `ChecksAccountedFor`, `NoFalseVictory`, `QueuedChecksDelivered`, `VictoryAnnounced` |
| `session_resync`, `session_boss` | small | counterexamples to two comments, section 5 |
| `deathlink` | level of 6 rows, screen of 3, 2 rows a frame, 3 tics of invincibility, 2 lives; map, land, water | `OwnDeathAnnounced`, `AppliedInSilence`, `ALostLifeIsADeath`, `PendingResolved` |
| `deathlink_removed` | the same with 1 row a frame, no deadly tiles | counterexample, section 5 |
| `game_keys` | Keen 5: the QED, which is locked and has a gem door, and a level of two fuses; 3 items, 1 extra Keen, 1 life | `KeysAccounted`, `EffectsMatchItems`, `StartsWhatWasAsked`, `FusesCounted` |
| `game_cut` | Keen 4, saves cut after 0, 3, 4, 5 or 6 parts, 2 lives, 2 launches | `KeysAccounted`, `EffectsMatchItems`, `DoneIsChecked` after failed loads |
| `creatures` | each creature with Keen, and those that meet others together; 3 objects besides Keen, 2 shots, every counter and health 2 | `ObjectsUnderstood`, `ShotsAreSpent`, `ActsAgree`, `EatenKeenDies` |
| `creatures_smirky` | Smirky and an item | counterexample, section 5 |
| `keen` | five levels: with and without stunner and pogo, a door and an exit, a security door, two gems and a switch; frames of 1 and 2 tics | `PressesCountOnce`, `ClippedAsActs`, `GemsAccounted`, `DeadStayDead`, `BusyEnds` |
| `components`, tables | two levels on both planes, extra-life table of 2, point table of 3 | both tables full and overflowing, in any order of loads and pickups: `DistinctItemsDistinctLocations`, `StableLocations`, `NoMissedLocation` |
| `components`, objects | 4 slots, 2 of which are Keen and the score box, one deed a call before it removes itself | `ObjectListSound` |
| `components`, cache | 10 blocks, two sound modes, one game won | `CacheHolds` |
| `components`, map | five strips of 6 to 15 tiles, flights of 2 frames, one locked level | `MapHolds`, `RidesEnd` |
| `components`, refresh | six scenes on a screen of 2 by 1 tiles, 2 entries, 2 toasts | `RefreshHolds` |
| `components`, physics | nine rooms, one or two changes of input, frames of 2 or 3 tics | `PhysicsHolds` |

Type invariants run where they say more than types (`session_items`, `creatures`: every action is in the table;
`keen`: what items allow).

*Why the bounds are enough.* Table overflow needs one item more than the table, and a shared counter needs
items of one class on both planes of one level and the same in another. A wrong replay needs a mark in the middle of
the list, a reconnect and one item after it; a wrong merge of checked locations needs a lost message, a
reconnect and another check; a forgotten boss needs one more launch than there are bosses. In `DeathLink`
the screen has two positions, Keen crosses it in two frames and his invincibility ends before he has fallen
out, so every order of those events occurs; the second life exists to see what one life leaves to the next.
In `GameSession` one door shows a key in each of its places; two launches show a cut save; the last life and the one
before differ between the two runs; the two cuts that `game_cut` leaves out (after 1 and 2 parts) differ from their neighbours only in
the wetsuit and the fuses, which a load recomputes; a level's state is forgotten when it is left. A creature meets Keen, a shot and, where
the code has it touch another creature, that one; the pool of three makes its debris compete for slots; a counter of
2 has a first, a last and an overshoot. In `Keen` a tic shorter and a tic longer than a timer are the two cases
of `CK_RunAction`, and each place occurs alone because Keen uses one at a time. Two free slots let an object remove
itself, be replaced and leave a stale link. Ten blocks are fewer than what the screens want together, more
than a level needs, so that purges happen and both endings of a failed allocation do. The strips put
every two things whose conditions overlap side by side. On a screen of two tiles sprites share cells, and leave and enter the view
within two frames. In the rooms a change of input at every frame is tried; a second change lets Keen step off and
on again.

Deadlock is not an error in `APSession` and `DeathLink`, whose bounds and whose quit really stop them, nor in
`CreatureLevel`, `Keen` and the components, which stop when the level is over or the program has quit; it is
checked in `GameSession`.

*Fairness.* `APSession`: the play loop polls in every frame, so sockets get opened, handlers run and close events
are dispatched; a dead network is noticed in the end (a transport times out); the server answers. Neither drops nor
relaunches are fair, and the player is not: he need not collect anything. `DeathLink`: the loop runs frame
after frame (`FrameGoesOn`); menus may wait for ever. `Keen`: the same (`GoesOn`), and nothing is assumed of the player or of
what meets Keen. `CreatureLevel`: a dying Keen, who is thrown up and falls without clipping, leaves the screen
(`KeenLeaves`), and the Dopefish, which moves to its prey in steps of the distance left, reaches it (`DopefishArrives`).
`GameSession` and the components state safety only.

Every property of a passing run is paired in `PROJECT.json` with a mutant of the code that breaks it, defined
next to the definition it replaces (`NewIn` and `FromMark`, `CanDie` and `CanDieAnyway`, ...).

## 4. What is proved

The theorems hold for all values of the constants that satisfy the modules' named assumptions
(`SessionAssumption`, `DeathLinkAssumption`, `GameAssumption`, `MapsAreSane`, `KeenAssumption`, `ScenesAssumption`, those
of `Creatures` and of its three episodes, `ObjListAssumption`), which the runs evaluate, and, where it is said, under a hypothesis of the theorem.

**`APSessionProofs`.** `TypeCorrect`, `ExactlyOnce` and `ImplementsItemFeed`: the type invariant with the mark
inside the server's list, the exactly-once effect of items, and that every step of the session is a step or a
stutter of the abstract feed. `ItemsExactlyOnce` is not inductive. A packet that starts beyond the mark would
leave a hole when it is applied, so the invariant `Inv` adds `PacketsContiguous`: every packet on its way lies
within the server's list, starts at or below the mark or the end of an earlier packet, and while the session
is authenticated the last one reaches the end of the list, so that what the server appends next
continues it. That needs `LinkOK`: an authenticated link is open and there is no link while disconnected, so that
packets of an old session never mix with a new one. The two lemmas at the heart are `NewPositions` (what is new in a
packet is exactly the positions above the mark) and `CopiesAdd` (filler counts add over adjacent ranges).

Of the checks, the same module has `SuppressedChecksAreKnown`, `NoCheckForgotten` and `VictoryIsEarned`. What a handler records came
in a message and what the server records was in one, so the invariant `Claims` follows the claims through the queues
of both directions: a message to the client says checked only what the server has checked and done only what was
beaten, a boss stored or a goal announced was earned, nothing is under way on a link that is not open, and
what the client believes checked is accounted for as what the player collected is.

**`DeathLinkProofs`.** `OwnDeathsAreAnnounced`, `AppliesInSilence` and `LivesAreLostByDeath`, for every size of
level, speed, timer and number of lives. `FlagsOK` says that between two steps `ap_suppress_death_send` is
clear, which is what keeps an incoming kill that `CK_KillKeen` refuses from swallowing the next own death, and that
a pending death implies an enabled DeathLink; `DeadOK` that a dying Keen has a cause and that `LS_Died` is a
death or CTRL+R.

**`GameSessionProofs`.** `TypeCorrect`, `DoneLevelsAreChecked`, `KeysAreAccounted`, `EffectsAreItems`, `FusesAreCounted`
and `StartsAsAsked`, for any levels, keys, items, launches. The invariant has two layers. `Base` holds through
every crash, cut save and failed load: the types, the bounds of the lives (`Lives`: no more than a new game and the
extra Keens of all launches give) and `Done` (the running and the saved game's levels were reported). `Control` needs it
and says where the request flags and level states may stand (`Flow`), that play is intact (`PlayIntact`), that
fuses agree with the map (`Fused`), and what a request turns into (`Asked`). The last three have hypotheses, because a
load that fails half way spoils what it has read: `KeysAreAccounted` and `EffectsAreItems` (of pogo and wetsuit; lives
are no part of it, see `FreshLaunchReplay` in section 5) hold if saves are never
cut or a short read is reported (`Trusted`), `FusesAreCounted` and `StartsAsAsked` if saves are never cut
(`Cuts = {}`). Section 5 has the counterexamples without them.

**`ComponentsProofs`**, the item tables. `LocationsAreStable`, `LocationsAreDistinct` and `LocationsAreNotMissed`: for every map that
fits the strides (`MapsAreSane`) and every size of the tables, whatever was loaded before. The invariant says that what is recorded
of the loaded level is what its two scans alone give. What a scan computes is shown by induction over the items scanned
(`LivesOK`, `PointsOK`), and `LocsOf` is the closed form of what an item sends. Of the numbering itself: `PointsanityDecodes`
(the decoding documented for the server inverts the encoding), `AddressesAreUnique` and `PointsanityApart` (ids of different
kinds, episodes, levels and indices differ), for 20 levels, 100 indices and 1000 instances, the strides of `ap_defs.h`.

**`KeenProofs`.** `KeenHasItsType`, `OneUseOfAPress`, `ClippingFollowsAction`, `GemsAreAccounted` and the action property
`TheDeadStayDead`, for any level, items and lengths of the frames. `Framed` is inductive by itself: the type with what presses
and items allow, and a timer that has not run past its action. `Kept` needs it: clipping that fits the action and gems
that add up (`Whole`), and in the phases after a movement ground that fits how Keen is clipped and carried (`Placed`). The tables of actions enter by one lemma (`RowsAre`), each function of `ck_keen.c` has a lemma on any
record, and the steps of the frame combine them. The last three theorems suppose that no platform passes a pole or a gem
holder (`PlatformsPass = {}`); that is a fact of the level data, not of the code, and section 5 has the
counterexamples without it. The proof attempt found an error of the model: it let the ground change under a Keen who
places a gem.

**`ComponentsProofs`**, the object list. `ObjectsAreSound`, for any number of slots and of deeds in a call. The invariant names what the code
only implies: a sequence of the objects and one of the free slots that the links follow (`Linked`), who of those that
should still think lies ahead of the walk (`Ahead`), and who owns which sprite (`Shown`). Each operation is a lemma on any record (`Gets` appends
and `Removes` takes out; a call keeps what lies ahead of it ahead, `CallsWell`), and a game that is loaded is the list renumbered (`LoadsWell`).
It supposes that no function goes on with the list after it has removed its own object, nor removes what has been
removed (`NoTraps`); section 5 names the functions that come near.

**`CreatureProofs` and `CreatureLevelProofs`.** `LevelTypeOK`, `LevelObjectsUnderstood`, `LevelShotsAreSpent` and
`LevelActsAgree`, for all creatures of the three episodes together in any number, any number of shots and every limit of
a counter. None of the four is inductive: what a function may do to an object depends on what the functions
before it left there, and which run next is for the action table to say. The invariant `IndInv` therefore gives each action a
*kind* (`Kind`), and each kind says of which type, how clipped and with which counters the objects with its actions are
(`Fits`). Two groups of lemmas hold it together. The rows of the tables keep to the kinds: what follows an action has
the same kind or asks for less, and a row names only functions that its kind can run (`Named`), so that a
function is proved once for the kinds that name it. The functions keep the objects good: nearly all steps are *safe*
(`SafeStep`: every object they leave fits its kind, and there are no more shots, feet, worms and fish than before, nor a
new meal), and a safe step keeps `IndInv` (`SafeKeepsInv`). The steps that are not safe (a shot is fired, the inchworms become a foot,
the Dopefish bites) have lemmas of their own. The proofs suppose `LoneHunters`: a level has at most one Dopefish, and a
level with a foot from the start has one foot and no inchworms. That is a fact of the level data, not of the code, and section 5
has what two Dopefish do. Inchworms may be any number, since the one that becomes a foot takes all others with it. The
scenes of the run satisfy the hypothesis. The attempt made `TypeOK` say which level states a level may end in.

**`Induction`** has what `ComponentsProofs` and `CreatureProofs` need of recursive functions over 0..n: a least element,
induction up to n, the existence of the function, an invariant along its values.

*Only model-checked:* all liveness (`ItemsDelivered`, `QueuedChecksDelivered`, `VictoryAnnounced`,
`PendingResolved`, `EatenKeenDies`, `BusyEnds`, `RidesEnd`), which is beyond the prover; `Cache`, `WorldMap` and
`Refresh`, whose proofs are planned; and `Physics`, which uses `Bitwise`, out of the prover's reach.

## 5. Findings

Runs that end in a counterexample, each against a line of the repository (quotes in `PROJECT.json`):

1. `ResyncOnReconnect`: a check sent into a dying link is swallowed, not queued, and not sent again, although
   `ap_client.cpp:334-335` calls swallowing safe.
2. `GoalsSurviveReconnect`: a boss beaten while not connected is never stored, against `ap_client.cpp:38-40`.
3. `PlayerNeverRemoved`: an incoming death inside the Dopefish, who has changed Keen's type, makes the fall-off
   test remove the player and the program quits (`ck_play.c:457-459`).
4. `SmirkyStaysForItems`: the search for treasure never leaves its loop with what it found, so Smirky always goes
   (`ck4_obj3.c:137`: "Remove smirky if all the treasure items are gone").

### Further counterexamples

Properties that stand in the modules and that no run checks, with the change of constants that violates them.

*DeathLink*, with `Places = {"map", "land"}`, `DeadlyTiles = {}` and `MaxStep = 1`:

- `NoEcho`: Keen, killed from outside near the bottom, falls through it before he has left the screen, and the
  fall-off test reports the death (`ap_hooks.c:173`: "don't echo it back").
- `NoDeathAfterRespawn`: a death that arrives in the poll of a death report is applied in the next life's first
  frame, which `ap_hooks.c:184-185` means to avoid.

*GameSession* (Keen 4):

- `FreshLaunchReplay`, with `MaxFiller = 1`: extra Keens replayed during the demos are lost with the demo's game
  state, against `ap_client.cpp:29-30`.
- `SaveHoldsItsLevel`: a game saved in the frame that enters a level names that level (`ck_map.c:365`) and holds the
  planes of the world map (`ck_game.c:339`); loading it puts the map Keen into the level, and the next entry
  counts as completing it.
- `FallsBackToMap`, with cut saves: a quick load that fails at the try again menu after it has read
  `currentLevel` goes on in that level (`ck_game.c:890`: "fall back to map screen on failure").
- `ReturnReturns`, with cut saves: `load_game_error`, left by a failed load at the title, aborts the next game when
  the player chooses "RETURN TO GAME" (`id_us_2.c:709`, `ck_play.c:1266`). For the same reason `StartsWhatWasAsked`
  is checked without cut saves.
- `LoadedIsLoaded`, with `ErrnoSet = {TRUE, FALSE}`: a short read with errno 0 counts as a loaded game
  (`ck_us_2.c:291`).
- After a failed menu load the menu stays open over the half loaded game, and a save from there makes it a whole
  saved game; in Keen 5 its fuse count may then be another map's, so `FusesCounted` is checked without cut saves.

*Keen*: `ClippedAsActs` with `PlatformsPass = {"pole"}` and `LevelsPoles`: a Keen who grabs a pole from a platform keeps
`topTI`, and a smash stuns him there without giving his clipping back (`ck6_obj1.c:653-659`). `DeadStayDead` with
`PlatformsPass = {"holder"}` and `LevelsHolders`: a Keen who is killed on a platform in the frame in which it takes
him past a gem holder places the gem instead of dying (`ck_keen.c:358-369`).

*CreatureLevel*: `VictimWaits` with `ScenesDopefish`: two Dopefish may bite the same schoolfish, and the second then
swims to an empty slot (`ck4_obj3.c:406-413`, `485`).

*ObjList* (its properties are the parts of `ObjectListSound`): with `"again"` in `Callbacks` (an object removed twice in a step) `ListSound` fails, with
`"selfThenSpawn"` `AllThink`, with `"selfAndNext"` `OnlyObjectsThink`. The sources that come near: Shelly's fragments
(`ck5_obj2.c:574-592`), the Shikadi Master's ball (`ck5_obj3.c:955-968`), the QED's shrapnel (`ck5_obj3.c:309-318`), enemy
shots that use `tempObj` (`ck4_misc.c:103-124`), `CK_DieOnContactDraw` (`ck_misc.c:355`).

*WorldMap*: `FlagsInHolders`: a game saved while the flag is in the air and loaded by another process changes the tile
at (0, 0), because the flag's static variables are not saved (`ck_map.c:604`, `730`). `StaysAshore` with `WaitsAshore =
TRUE`: waving runs down the time that keeps Keen from falling in again (`ck_map.c:411`).
A shore among the tiles of `Under`: a flight over it sends Keen swimming.

*Refresh*: `ShowsTheLevel` with `WideToasts = TRUE` (`id_vh.c:372`); `EntriesAccounted` with a scene that keeps Keen's
pointer over a load, as Nospike's `user3` is in Keen 6 (`ck_game.c:481`, `ck6_obj2.c:143`); `TablesSuffice` with one
buffer and two moving sprites, that is more than thirty in the program (`id_rf.c:1119`, `1253`);
`OnceInTheList` by a diagonal scroll, which enters the corner tile twice (`id_rf.c:1088-1108`).

### Observations

Met while reading, with no line of the repository to hold against them:

- Player: the security door's entry has no invincibility, unlike the others (`ck_keen.c:484-499`); a smash while Keen
  places a gem loses it, as death does (`lostGems`).
- Creatures: `CK5_MasterCol` compares `posX - posX` (`ck5_obj3.c:832`); `NospikeFallDraw2` reads a `user3` that is a
  pointer elsewhere (`ck6_obj2.c:160`); the Arachnut that has recovered keeps the type of the stunned (`ck4_obj1.c:431-447`).
- World map: without its clipping guard `MapMiscFlagsCheck` runs during flights too, with `user3` 0 (`ck5_map.c:331`); a level beside a
  shore or elevator has Keen spawned on it; the first locked level in reach ends the scan (`ck_map.c:355`);
  `GrabbiterCol` and `RocketCol` do not look at what touched them (`ck6_obj1.c:62`, `125`).
- Refresh: two planes animated at one place share one timer (`id_rf.c:291`); `RF_ReplaceTiles` may put an animated tile
  down without a timer (`id_rf.c:436`).
- Physics: a long fall thinks twice in the frame in which its first action ends, so Keen may be inside a wall's
  tile for one frame, which is why `NeverInMidAir` allows `visible`; `posX |= plat.posX & 0x1F` makes a standing Keen
  slip at each turn of a platform, by less than 64 units in all (`SlipsLittle`, comment `ck_keen.c:700`); a jump down from
  a lift that rises at four tics a frame is pushed back; a falling platform at full speed and four tics a
  frame falls through its stop block (comment `ck_obj.c:560`; the rooms use at most three), and overshoots its place
  when Keen steps on it while it rises; axis platforms enter the turning block by a unit; the Keen 6 slope fix
  returns early (`ck_phys.c:442-463`); gravity loses what is left of a frame's tics at the apex; the smash's camera
  shake reads an uninitialized `dx` (`ck_play.c:2228-2231`).
- Others: `CK_PlayDemoFile` frees the demo by a pointer that playing has moved (`ck_inter.c:1501-1523`); `oldsoundmode` is
  never assigned (`id_ca.c:154`, `1267`); the story's end leaks a cache level (`ck_text.c:725`, the `wins` of `LevelsBalanced`).

## 6. Plan

Done, in the order of importance: locations, the item feed, the session, DeathLink, the game session, Keen and the
object list and the creatures with their proofs; cache, world maps, refresh and physics. Left:

1. *Proofs:* of `WorldMap` that what a ride borrows is given back, of `Cache` that what is in use stays.
2. *Menus:* the stack of cards and the options, composed with `GameSession`. Known from reading: `US_SaveMain` removes a file
   by its bare name, a cancelled name entry leaves "Untitled", a failed load leaves `load_game_error` set.
3. *Pure algorithms:* demo recording and playback (`id_in.c`), the string hash (`id_str.c`), RLEW (`id_ca.c`) as
   operators against reference definitions; sound priorities with the timer thread.
4. *Physics:* `CK_PhysPushX` and `CK_PhysPushXY` for the blocks and creatures that push.

Not planned: drawing, music, parsers, the connection form (input and output only), the sound card emulators and
other vendored code, and the presentation of texts.
