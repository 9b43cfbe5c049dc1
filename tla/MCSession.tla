---- MODULE MCSession ----
(***************************************************************************)
(* The instances of APSession: a slot with the two boss levels, two        *)
(* locations of Keen 4 that hold the slot's own items (an extra Keen, the  *)
(* pogo) and one that holds an item of another slot.                       *)
(***************************************************************************)
EXTENDS APSession, TLC

MCLocations    == {"boss4", "boss5", "keen4", "pogo4", "other"}
MCEpisodeOf    == "boss4" :> "CK4" @@ "boss5" :> "CK5" @@ "keen4" :> "CK4" @@ "pogo4" :> "CK4"
                  @@ "other" :> "CK4"
MCBossLocation == "CK4" :> "boss4" @@ "CK5" :> "boss5"
MCOwnItem      == "keen4" :> "keen" @@ "pogo4" :> "pogo"
====
