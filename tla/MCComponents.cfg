SPECIFICATION ComponentsSpec
CONSTANTS
    Episode = 1
    Levels = {1, 2}
    InfoPlane <- MCInfoPlane
    ForePlane <- MCForePlane
    EXTRALIFE_MAX = 2
    POINTITEM_MAX = 3
    CK_MAX_OBJECTS = 4
    MaxDeeds = 1
    Callbacks = {"spawn", "self", "other"}
    MM_MAXBLOCKS = 10
    MaxWins = 1
    AudioModes <- MCAudioModes
    MapOf <- MCMapOf
    LockedLevels = {3}
    Under <- MCUnder
    FlightTime = 2
    WaitsAshore = FALSE
    FlagSync = 60
    RfScenes <- MCRfScenes
    RF_MAX_SPRITETABLEENTRIES = 2
    RF_MAX_ONSCREENANIMTILES = 4
    WideToasts = FALSE
    PhScenes <- MCPhScenes
INVARIANTS DistinctItemsDistinctLocations StableLocations NoMissedLocation ObjectListSound CacheHolds MapHolds RefreshHolds PhysicsHolds
PROPERTY RidesEnd
CHECK_DEADLOCK FALSE
