SPECIFICATION Spec
CONSTANTS
    pogo = pogo
    wetsuit = wetsuit
    unlock1 = unlock1
    gem = gem
    gemset = gemset
    red = red
    Episode = "CK5"
    Levels = {1, 2}
    QEDLevel = 1
    Items = {pogo, unlock1, gem}
    Keys = {red}
    Needs <- MCNeeds
    KeyItems <- MCKeyItems
    Pogo = pogo
    Wetsuit = wetsuit
    FusesIn <- Fuses
    DemoLevel = 1
    NewLives = 0
    MaxFiller = 1
    MaxLaunches = 1
    Cuts = {}
    ErrnoSet = {TRUE}
INVARIANT FusesCounted
INVARIANT KeysAccounted
INVARIANT EffectsMatchItems
INVARIANT StartsWhatWasAsked
