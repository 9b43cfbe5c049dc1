---- MODULE Cache ----
(***************************************************************************)
(* The memory manager (id_mm.c), the cache manager (id_ca.c) and how the   *)
(* screens of the game use them: what a screen needs is marked with the    *)
(* bit of its level, cached, and made purgeable when the screen is left.   *)
(*                                                                         *)
(* A block is named for its owner, the pointer that MM_GetPtr was given.   *)
(* A function is applied to a state and yields the states it may end in:   *)
(* which of the blocks of the highest purge level goes first depends on    *)
(* their places in an array, which is left open.                           *)
(***************************************************************************)
EXTENDS Integers, Sequences, FiniteSets, SequencesExt, TLC

CONSTANTS
    MM_MAXBLOCKS,       \* blocks, or what memory there is
    MaxWins,            \* games won without leaving the program
    AudioModes          \* the sound modes, "off", "pc" or "adlib", each with the music on or off

ASSUME CacheAssumption == MM_MAXBLOCKS \in Nat /\ MaxWins \in Nat

VARIABLE ca

\* The graphics in the order of the file: the tables of headers, the fonts, the bitmaps (the
\* title, those of the menu and the messages, the countdown), the sprites and tiles of a
\* level, then texts, the intro and the demo.
Bitmaps == {"title", "pics", "countdown"}
LevelGraphics == {"sprites", "tiles"}
Chunks == <<"headers", "font", "title", "pics", "countdown", "sprites", "tiles", "text", "intro", "demo">>
SoundsOf(mode) == IF mode = "off" THEN {} ELSE {mode}     \* CA_audio of one sound mode

Top(s) == Last(s.stack)
Push(s, screen) == [s EXCEPT !.stack = Append(@, screen)]
Pop(s) == [s EXCEPT !.stack = Front(@)]
After(states, Op(_)) == UNION {Op(s) : s \in states}

(***************************************************************************)
(* Memory.                                                                 *)
(***************************************************************************)
Quits(s, msg) == [s EXCEPT !.quit = IF @ = "" THEN msg ELSE @]

Cached(s, p) == p \in DOMAIN s.blocks

MM_SetPurge(s, p, level) ==
    IF ~Cached(s, p) THEN Quits(s, "MM_SetPurge: Block not Found!")
    ELSE [s EXCEPT !.blocks[p].purge = level,
                   !.numpurgeable = CASE s.blocks[p].purge = 0 /\ level > 0 -> @ + 1
                                      [] s.blocks[p].purge > 0 /\ level = 0 -> @ - 1
                                      [] OTHER -> @]

MM_SetLock(s, p) ==
    IF ~Cached(s, p) THEN Quits(s, "MM_SetLock: Block not Found!")
    ELSE [s EXCEPT !.blocks[p].locked = TRUE]

MM_FreePtr(s, p) ==
    IF ~Cached(s, p) THEN Quits(s, "MM_FreePtr: Block not Found!")
    ELSE [s EXCEPT !.blocks = [q \in DOMAIN @ \ {p} |-> @[q]],
                   !.numpurgeable = IF s.blocks[p].purge > 0 THEN @ - 1 ELSE @]

MML_ClearBlock(s) ==
    LET able == {p \in DOMAIN s.blocks : s.blocks[p].purge > 0 /\ ~s.blocks[p].locked}
        best == {p \in able : \A q \in able : s.blocks[q].purge <= s.blocks[p].purge}
    IN  IF best = {} THEN {Quits(s, "MML_ClearBlock(): No purgable blocks!")} ELSE {MM_FreePtr(s, p) : p \in best}

MM_GetPtr(s, p) ==
    {IF t.quit # "" THEN t ELSE [t EXCEPT !.blocks = p :> [purge |-> 0, locked |-> FALSE] @@ @]
     : t \in IF Cardinality(DOMAIN s.blocks) < MM_MAXBLOCKS THEN {s} ELSE MML_ClearBlock(s)}

(***************************************************************************)
(* Graphics: the marks of a level of the stack, and what they ask for.     *)
(***************************************************************************)
CA_MarkGrChunk(s, c) == [s EXCEPT !.needed[c] = @ \cup {s.levelnum}]
CA_ClearMarks(s) == [s EXCEPT !.needed = [c \in DOMAIN @ |-> @[c] \ {s.levelnum}]]
Needs(s, c) == s.levelnum \in s.needed[c]

CAL_ExpandGrChunk(s, c) == IF s.quit # "" THEN {s} ELSE MM_GetPtr(s, c)

\* A chunk is read into a block of its own and expanded into its own.
CA_CacheGrChunk(s, c) ==
    LET m == CA_MarkGrChunk(s, c)
    IN  IF s.quit # "" THEN {s}
        ELSE IF Cached(m, c) THEN {MM_SetPurge(m, c, 0)}
        ELSE After(MM_GetPtr(m, "compressed"),
                   LAMBDA t : {IF u.quit # "" THEN u ELSE MM_FreePtr(u, "compressed") : u \in CAL_ExpandGrChunk(t, c)})

CacheAll(s, chunks) ==
    FoldLeft(LAMBDA states, c : After(states, LAMBDA t : CA_CacheGrChunk(t, c)), {s},
             SelectSeq(Chunks, LAMBDA c : c \in chunks))

PurgeAll(s, chunks, level) ==
    FoldLeft(LAMBDA t, c : IF Cached(t, c) THEN MM_SetPurge(t, c, level) ELSE t, s,
             SelectSeq(Chunks, LAMBDA c : c \in chunks))

CA_SetGrPurge(s) == PurgeAll(s, ToSet(Chunks), 3)
CK_EndingPurge(s) == PurgeAll(s, LevelGraphics \cup {"text", "intro", "demo"}, 1)

\* The countdown of the loading box is there as long as there is room for it.
CK_BeginCacheBox(s) ==
    {IF t.quit # "" THEN t
     ELSE MM_SetPurge([t EXCEPT !.needed["countdown"] = @ \ {t.levelnum}], "countdown", 3)
     : t \in CA_CacheGrChunk(s, "countdown")}

CA_CacheMarks(s, box) ==
    LET marked == {c \in DOMAIN s.needed : Needs(s, c)}
        t == PurgeAll(PurgeAll(s, marked, 0), DOMAIN s.needed \ marked, 3)
        missing == {c \in marked : ~Cached(t, c)}
    IN  IF missing = {} THEN {t}
        ELSE After(IF box THEN CK_BeginCacheBox(t) ELSE {t},
                   LAMBDA u : CacheAll(u, {c \in DOMAIN u.needed : Needs(u, c) /\ ~Cached(u, c)}))

CA_UpLevel(s) ==
    IF s.levelnum = 7 THEN Quits(s, "CA_UpLevel: Up past level 7!") ELSE [s EXCEPT !.levelnum = @ + 1]

\* A screen is left and what the one below it needs is not fetched again.
DownLevelOnly(s) ==
    IF s.levelnum = 0 THEN {Quits(s, "CA_DownLevel: Down past level 0!")} ELSE {[s EXCEPT !.levelnum = @ - 1]}

CA_DownLevel(s) ==
    IF s.levelnum = 0 THEN {Quits(s, "CA_DownLevel: Down past level 0!")}
    ELSE CA_CacheMarks([s EXCEPT !.levelnum = @ - 1], FALSE)

(***************************************************************************)
(* Maps, sounds and music.                                                 *)
(***************************************************************************)
\* The planes of the last map go; each plane is expanded twice on its way.
CA_CacheMap(s) ==
    LET freed == IF Cached(s, "planes") THEN MM_FreePtr(s, "planes") ELSE s
        Rlew(t) == IF t.quit # "" THEN {t} ELSE MM_GetPtr(t, "rlew")
        Done(t) == IF t.quit # "" THEN {t} ELSE {MM_FreePtr(MM_FreePtr(t, "compressed"), "rlew")}
    IN  After(MM_GetPtr(freed, "planes"),
              LAMBDA t : IF t.quit # "" THEN {t}
                         ELSE After(After(MM_GetPtr(t, "compressed"), Rlew), Done))

CA_CacheAudioChunk(s, p) ==
    IF s.quit # "" THEN {s} ELSE IF Cached(s, p) THEN {MM_SetPurge(s, p, 0)} ELSE MM_GetPtr(s, p)

\* oldsoundmode is never assigned: no sounds are ever given up.
CA_LoadAllSounds(s) ==
    IF s.sound = "off" THEN {s} ELSE CA_CacheAudioChunk(s, s.sound)

StopMusic(s) ==
    LET off == [s EXCEPT !.playing = FALSE]
    IN  IF Cached(off, "song") THEN MM_SetPurge(off, "song", 3) ELSE off

StartMusic(s) ==
    IF ~s.music THEN {[s EXCEPT !.playing = FALSE]}
    ELSE {[t EXCEPT !.playing = t.quit = ""] : t \in CA_CacheAudioChunk(s, "song")}

(***************************************************************************)
(* A level, from a file or from a saved game.                              *)
(***************************************************************************)
\* What is drawn is marked, with the lumps of the level's objects and with its tiles, and
\* platforms cache theirs as they are spawned.
LoadsLevel(s, doCache, silent) ==
    LET Scanned(t) == CA_CacheGrChunk(CA_MarkGrChunk(CA_ClearMarks(t), "tiles"), "sprites")
        Marked(t) == After(Scanned(t), CA_LoadAllSounds)
        Shown(t) == IF doCache /\ t.quit = "" THEN CA_CacheMarks(t, ~silent) ELSE {t}
    IN  After(After(CA_CacheMap(s), Marked), Shown)

\* From the menu a game is loaded into the level of the stack below it.
LoadsGame(s, fromMenu) ==
    LET levels == IF fromMenu
                  THEN {[t EXCEPT !.levelnum = @ + 1]
                        : t \in LoadsLevel([s EXCEPT !.levelnum = @ - 1], FALSE, FALSE)}
                  ELSE LoadsLevel(s, TRUE, TRUE)
    IN  After(levels, LAMBDA t : IF t.quit # "" THEN {t}
                                 ELSE {IF u.quit # "" THEN u ELSE MM_FreePtr(u, "buf") : u \in MM_GetPtr(t, "buf")})

\* The headers are cached before there is a level to mark them for.
CAL_SetupGrFile(s) == {MM_SetLock(CA_ClearMarks(t), "headers") : t \in CA_CacheGrChunk(s, "headers")}

MM_Startup == "buffer" :> [purge |-> 0, locked |-> FALSE]

CK_InitGame ==
    LET s == [blocks |-> MM_Startup, numpurgeable |-> 0,
              needed |-> [c \in ToSet(Chunks) |-> {}], levelnum |-> 0,
              sound |-> "off", music |-> FALSE, playing |-> FALSE,
              stack |-> <<"title">>,    \* the screens, each over the one before
              asked |-> FALSE,          \* the menu has ended the level that is played
              wins |-> 0,               \* games won
              quit |-> ""]
        Marked(t) == CA_CacheMarks(CA_MarkGrChunk(CA_MarkGrChunk(t, "font"), "title"), FALSE)
    IN  {[MM_SetLock(t, "font") EXCEPT !.sound = m[1], !.music = m[2]]
         : t \in After(CAL_SetupGrFile(s), Marked), m \in AudioModes}

CaInits == CK_InitGame

(***************************************************************************)
(* The screens.                                                            *)
(***************************************************************************)
Does(states) == \E t \in states : ca' = IF t.quit = "" THEN t ELSE [quit |-> t.quit]
On(screens) == ca.quit = "" /\ Top(ca) \in screens

CK_ShowTitleScreen == On({"title"}) /\ Does({CA_ClearMarks(t) : t \in CA_CacheGrChunk(ca, "title")})

\* The intro draws from the chunks themselves.
TerminatorBegins == On({"title"}) /\ Does({Push(t, "intro") : t \in CacheAll(ca, {"title", "intro"})})
TerminatorEnds == On({"intro"}) /\ Does({Pop(CA_ClearMarks(MM_SetPurge(ca, "intro", 3)))})

CK_DrawStarWars ==
    /\ On({"title"})
    /\ Does({CA_ClearMarks(StopMusic(t)) : t \in After(CacheAll(CA_SetGrPurge(ca), {"font", "pics"}), StartMusic)})

\* The demo is a chunk that is read while it is played.
CK_PlayDemo ==
    /\ On({"title"})
    /\ LET Locked(t) == IF t.quit # "" THEN {t} ELSE {MM_SetLock(t, "demo")}
           Level(t) == IF t.quit # "" THEN {t} ELSE LoadsLevel(t, TRUE, FALSE)
       IN  Does({Push(t, "demo") : t \in After(After(After(CA_CacheGrChunk(ca, "demo"), Locked), Level), StartMusic)})
DemoEnds == On({"demo"}) /\ Does({Pop(CA_ClearMarks(MM_FreePtr(StopMusic(ca), "demo")))})

US_RunCards ==
    /\ On({"title", "level"}) /\ ~ca.asked
    /\ Does(After({Push(t, "menu") : t \in CacheAll(CA_UpLevel(StopMusic(ca)), Bitmaps \cup {"font"})}, CA_LoadAllSounds))

\* The menu is left: for the level it came from, for the one it has loaded, or for the title.
EndCards ==
    /\ On({"menu"})
    /\ LET Loaded(t) == IF t.quit # "" THEN {t} ELSE CA_LoadAllSounds(t)
           Plays(t) == IF Top(t) = "level" THEN StartMusic(t) ELSE {t}
       IN  Does(After(After(CA_DownLevel(Pop(ca)), Loaded), Plays))

MenuLoadsGame ==
    On({"menu"}) /\ ~ca.asked
    /\ Does({[t EXCEPT !.stack = <<"title", "level", "menu">>] : t \in LoadsGame(ca, TRUE)})

\* A new game, or the end of one: CK_ExitMenu drops the marks of the level below.
CK_ExitMenu ==
    /\ On({"menu"}) /\ ~ca.asked
    /\ LET below == CA_ClearMarks([ca EXCEPT !.levelnum = @ - 1])
       IN  Does({[below EXCEPT !.levelnum = @ + 1, !.stack = <<"title", "level", "menu">>, !.asked = TRUE]})

SetsSound == On({"menu"}) /\ Does({[ca EXCEPT !.sound = m[1], !.music = m[2]] : m \in AudioModes})

\* Help keeps the level of the cache of where it was called.
HelpScreens ==
    On({"title", "menu", "level"}) /\ ~ca.asked
    /\ Does({Push(t, "help") : t \in CacheAll(StopMusic(ca), {"pics"})})
HelpTopic ==
    On({"help"})
    /\ Does({Push(t, "topic") : t \in After(CA_CacheGrChunk(ca, "text"),
                                            LAMBDA t : IF t.quit # "" THEN {t}
                                                       ELSE CA_CacheMarks(CA_MarkGrChunk(t, "pics"), FALSE))})
HelpTopicEnds == On({"topic"}) /\ Does({Pop(MM_FreePtr(ca, "text"))})
HelpEnds ==
    On({"help"}) /\ Does(IF Top(Pop(ca)) = "level" THEN StartMusic(Pop(ca)) ELSE {Pop(ca)})

\* A message over the level: Keen 4 and 5 cache the marks of its own level, Keen 6 a picture.
Message ==
    On({"level"}) /\ ~ca.asked
    /\ \E s \in {ca, StopMusic(ca)} :
         LET up == CA_UpLevel(s)
         IN  Does({Push(t, "message") : t \in CA_CacheMarks(CA_MarkGrChunk(up, "pics"), FALSE)
                                              \cup CA_CacheGrChunk(up, "pics")})
MessageEnds ==
    On({"message"})
    /\ Does(After(CA_DownLevel(Pop(ca)), LAMBDA t : IF t.quit # "" \/ t.playing THEN {t} ELSE StartMusic(t)))

QuickLoad ==
    On({"level"}) /\ ~ca.asked
    /\ Does(After({StopMusic(t) : t \in LoadsGame(ca, FALSE)},
                  LAMBDA t : IF t.quit # "" THEN {t} ELSE StartMusic(t)))

\* The next level, after the last one or a new game.
NextLevelLoaded ==
    On({"level"})
    /\ Does(After(LoadsLevel([StopMusic(ca) EXCEPT !.asked = FALSE], TRUE, FALSE), StartMusic))

GameEnds == On({"level"}) /\ Does({[StopMusic(ca) EXCEPT !.stack = <<"title">>, !.asked = FALSE]})

\* The end of the story goes up a level of the cache and never down again.
GameWon ==
    /\ On({"level"}) /\ ~ca.asked /\ ca.wins < MaxWins
    /\ LET up == CA_SetGrPurge(CA_UpLevel(CK_EndingPurge(StopMusic(ca))))
           Layout(t) == IF t.quit # "" THEN {t} ELSE CA_CacheMarks(t, FALSE)
       IN  Does({[t EXCEPT !.stack = <<"title", "ending">>, !.wins = @ + 1]
                 : t \in After(After(CacheAll(up, {"pics", "text"}), Layout), StartMusic)})
EndingEnds == On({"ending"}) /\ Does({Pop(MM_FreePtr(MM_FreePtr(StopMusic(ca), "text"), "pics"))})

CaNext ==
    \/ CK_ShowTitleScreen \/ TerminatorBegins \/ TerminatorEnds \/ CK_DrawStarWars
    \/ CK_PlayDemo \/ DemoEnds
    \/ US_RunCards \/ EndCards \/ MenuLoadsGame \/ CK_ExitMenu \/ SetsSound
    \/ HelpScreens \/ HelpTopic \/ HelpTopicEnds \/ HelpEnds
    \/ Message \/ MessageEnds \/ QuickLoad \/ NextLevelLoaded
    \/ GameEnds \/ GameWon \/ EndingEnds

CaSpec == ca \in CaInits /\ [][CaNext]_ca

(***************************************************************************)
(* Properties                                                              *)
(***************************************************************************)
Stays(p) == Cached(ca, p) /\ (ca.blocks[p].purge = 0 \/ ca.blocks[p].locked)

\* The pointers into blocks that a screen keeps while others allocate.
PointersHeld ==
    {"headers"} \cup (IF ca.playing THEN {"song"} ELSE {})
    \cup UNION {CASE ca.stack[i] = "intro" -> {"intro"}
                  [] ca.stack[i] = "demo" -> {"demo", "planes"}
                  [] ca.stack[i] \in {"topic", "ending"} -> {"text"}
                  [] ca.stack[i] = "level" /\ ~ca.asked -> {"planes"}
                  [] OTHER -> {} : i \in DOMAIN ca.stack}

PointersStay == \A p \in PointersHeld : Stays(p)

\* What a level is drawn and sounds with is there when its play goes on, whatever screens
\* were over it.
LevelStays ==
    Top(ca) \in {"level", "demo"} /\ ~ca.asked
        => \A p \in LevelGraphics \cup SoundsOf(ca.sound) : Stays(p)

\* The count of purgeable blocks decides whether a failed allocation quits.
CountRight == ca.numpurgeable = Cardinality({p \in DOMAIN ca.blocks : ca.blocks[p].purge > 0})

\* Each screen gives its level of the stack back, but for the end of the story.
LevelsBalanced ==
    /\ ca.levelnum = ca.wins + Cardinality({i \in DOMAIN ca.stack : ca.stack[i] \in {"menu", "message"}})
    /\ {p \in DOMAIN ca.blocks : p \in {"compressed", "rlew", "buf"}} = {}

\* However many screens there were and however little memory: no pointer in use goes stale,
\* what was promised to a level is there, and only memory that is all needed ends the game
\* (id_mm.c 58-244, id_ca.c 686-890).
CacheSound ==
    /\ ca.quit = "" => PointersStay /\ LevelStays /\ LevelsBalanced /\ CountRight
    /\ ca.quit \in {"", "MML_ClearBlock(): No purgable blocks!"}
====
