SPECIFICATION Spec
CONSTANTS
    Locations <- MCLocations
    EpisodeOf <- MCEpisodeOf
    LevelLocations = {"boss4", "boss5"}
    BossLocation <- MCBossLocation
    OwnItem <- MCOwnItem
    Items = {"keen", "pogo"}
    Filler = {"keen"}
    EpisodeSelect = 3
    Played = {"boss4", "boss5"}
    Collectable = {}
    MaxItems = 0
    MaxDrops = 2
    MaxRestarts = 1
    MaxInFlight = 2
INVARIANT GoalsSurviveReconnect
CHECK_DEADLOCK FALSE
