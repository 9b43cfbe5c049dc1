SPECIFICATION FairSpec
CONSTANTS
    Places = {"map", "land", "water"}
    DeadlyTiles = {"land", "water"}
    MapHeight = 6
    ScreenHeight = 3
    MaxStep = 2
    KillTics = 3
    DoorTics = 5
    MaxTics = 2
    Lives = 1
INVARIANTS OwnDeathAnnounced
PROPERTIES AppliedInSilence ALostLifeIsADeath PendingResolved
CHECK_DEADLOCK FALSE
