SPECIFICATION FairSpec
CONSTANTS
    Locations <- MCLocations
    EpisodeOf <- MCEpisodeOf
    LevelLocations = {"boss4", "boss5"}
    BossLocation <- MCBossLocation
    OwnItem <- MCOwnItem
    Items = {"keen", "pogo"}
    Filler = {"keen"}
    EpisodeSelect = 3
    Played = {"boss4", "boss5"}
    Collectable = {"boss4", "boss5"}
    MaxItems = 0
    MaxDrops = 3
    MaxRestarts = 2
    MaxInFlight = 2
CHECK_DEADLOCK FALSE
INVARIANTS SuppressedIsKnown ChecksAccountedFor NoFalseVictory
PROPERTIES QueuedChecksDelivered VictoryAnnounced
