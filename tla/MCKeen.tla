---- MODULE MCKeen ----
EXTENDS Keen

Level(episode, items, fires, gems, card, shots, places) ==
    [ep |-> episode, has |-> items, twoButton |-> fires, gems |-> gems, card |-> card, shots |-> shots,
     places |-> places]

Both == {"stunner", "pogo"}

LevelsAll ==
    {Level(4, Both, FALSE, 0, 0, 1, {}), Level(4, Both, TRUE, 0, 0, 0, {}),
     Level(5, {}, FALSE, 0, 0, 1, {"door", "exit"}),
     Level(5, {}, FALSE, 0, 1, 1, {"securityDoor"}),
     Level(6, {}, FALSE, 2, 0, 1, {"switch"})}

\* For the counterexamples.
LevelsDeaths == {Level(4, Both, FALSE, 0, 0, 0, {})}
LevelsPoles == {Level(6, {}, FALSE, 0, 0, 0, {})}
LevelsHolders == {Level(6, {}, FALSE, 1, 0, 0, {"switch"})}
====
