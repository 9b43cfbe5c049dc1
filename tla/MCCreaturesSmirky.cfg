SPECIFICATION Spec
CONSTANTS
    Slots = 3
    MaxShots = 2
    NumJumps = 2
    InchwormCount = 2
    TeleCycle = 2
    HoverSteps = 1
    ChargeDelay = 2
    SliceHealth = 2
    RoboShots = 2
    NumBounces = 2
    ShikadiHealth = 2
    ShocksundHealth = 2
    StandTime = 2
    Health6 = 2
    AirHangTime = 2
    BounceCount = 2
    FloatSteps = 1
    HopsPerShot = 2
    DecayTime = 2
    VanishTime = 2
    Scenes <- ScenesSmirky
PROPERTY SmirkyStaysForItems
CHECK_DEADLOCK FALSE
