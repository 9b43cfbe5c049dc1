SPECIFICATION Spec
CONSTANTS
    Locations <- MCLocations
    EpisodeOf <- MCEpisodeOf
    LevelLocations = {"boss4", "boss5"}
    BossLocation <- MCBossLocation
    OwnItem <- MCOwnItem
    Items = {"keen", "pogo"}
    Filler = {"keen"}
    EpisodeSelect = 1
    Played = {"keen4", "other"}
    Collectable = {}
    MaxItems = 0
    MaxDrops = 1
    MaxRestarts = 0
    MaxInFlight = 2
INVARIANT ResyncOnReconnect
CHECK_DEADLOCK FALSE
