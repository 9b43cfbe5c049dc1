---- MODULE MCGameSession ----
(***************************************************************************)
(* Instances of GameSession: level 1 is locked and has a door for the red  *)
(* gem, which an item of its own or the gem set of the level yields; the   *)
(* last level has fuses.                                                   *)
(***************************************************************************)
EXTENDS GameSession

CONSTANTS pogo, wetsuit, unlock1, gem, gemset, red

MCNeeds == [l \in Levels |-> {unlock1} \cap IF l = 1 THEN Items ELSE {}]
MCKeyItems == [l \in Levels |-> [k \in Keys |-> {gem, gemset} \cap IF l = 1 THEN Items ELSE {}]]
NoFuses == [l \in Levels |-> 0]
Fuses == [l \in Levels |-> IF l = QEDLevel THEN 0 ELSE 2]
====
