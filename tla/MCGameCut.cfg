SPECIFICATION Spec
CONSTANTS
    pogo = pogo
    wetsuit = wetsuit
    unlock1 = unlock1
    gem = gem
    gemset = gemset
    red = red
    Episode = "CK4"
    Levels = {1}
    QEDLevel = 0
    Items = {wetsuit, gem}
    Keys = {red}
    Needs <- MCNeeds
    KeyItems <- MCKeyItems
    Pogo = pogo
    Wetsuit = wetsuit
    FusesIn <- NoFuses
    DemoLevel = 1
    NewLives = 1
    MaxFiller = 0
    MaxLaunches = 2
    Cuts = {0, 3, 4, 5, 6}
    ErrnoSet = {TRUE}
INVARIANT KeysAccounted
INVARIANT EffectsMatchItems
INVARIANT DoneIsChecked
