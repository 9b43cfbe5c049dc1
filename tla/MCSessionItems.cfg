SPECIFICATION FairSpec
CONSTANTS
    Locations <- MCLocations
    EpisodeOf <- MCEpisodeOf
    LevelLocations = {"boss4", "boss5"}
    BossLocation <- MCBossLocation
    OwnItem <- MCOwnItem
    Items = {"keen", "pogo"}
    Filler = {"keen"}
    EpisodeSelect = 1
    Played = {"keen4", "pogo4"}
    Collectable = {}
    MaxItems = 3
    MaxDrops = 2
    MaxRestarts = 1
    MaxInFlight = 1
INVARIANT TypeOK
INVARIANT ItemsExactlyOnce
PROPERTY FeedSpec
PROPERTY ItemsDelivered
CHECK_DEADLOCK FALSE
