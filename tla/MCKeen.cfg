SPECIFICATION Spec
CONSTANTS
    Starts <- LevelsAll
    PlatformsPass = {}
    MaxSync = 2
    JumpTime = 1
    DoorTime = 11
    DeathTime = 2
INVARIANTS KeenTypeOK PressesCountOnce ClippedAsActs GemsAccounted
PROPERTIES DeadStayDead BusyEnds
CHECK_DEADLOCK FALSE
