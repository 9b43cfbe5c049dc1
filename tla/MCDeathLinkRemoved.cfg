SPECIFICATION Spec
CONSTANTS
    Places = {"map", "water"}
    DeadlyTiles = {}
    MapHeight = 6
    ScreenHeight = 3
    MaxStep = 1
    KillTics = 3
    DoorTics = 5
    MaxTics = 2
    Lives = 1
INVARIANT PlayerNeverRemoved
CHECK_DEADLOCK FALSE
