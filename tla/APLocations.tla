---- MODULE APLocations ----
(***************************************************************************)
(* The numbering of the Archipelago locations (ap_defs.h) and the decision *)
(* of each pickup hook whether a location check is emitted (ap_hooks.c).   *)
(* Everything here is pure; TileItems uses it for the item pickups.        *)
(***************************************************************************)
EXTENDS Integers

EP_CK4 == 1
EP_CK5 == 2
Episodes == {EP_CK4, EP_CK5}

LevelCompleteBase == 10000
KeygemBase        == 20000
KeycardBase       == 30000
KegBase           == 50000
FlaskBase         == 60000
PointsanityBase   == 100000

EpisodeStride == 2000
LevelStride   == 100

\* The address every location below the pointsanity range shares.
LocAt(base, ep, lvl) == base + ep * EpisodeStride + lvl * LevelStride

LOC_LEVEL_COMPLETE(ep, lvl)   == LocAt(LevelCompleteBase, ep, lvl)
LOC_KEYGEM(ep, lvl, gem)      == LocAt(KeygemBase, ep, lvl) + gem
LOC_SECURITY_KEYCARD(ep, lvl) == LocAt(KeycardBase, ep, lvl)
LOC_KEG(ep, lvl, idx)         == LocAt(KegBase, ep, lvl) + idx
LOC_FLASK(ep, lvl, idx)       == LocAt(FlaskBase, ep, lvl) + idx

PointClassStride   == 100000
PointEpisodeStride == 20000
PointLevelStride   == 1000

LOC_POINTSANITY(cls, ep, lvl, inst) ==
    PointsanityBase + cls * PointClassStride + ep * PointEpisodeStride
                    + lvl * PointLevelStride + inst

\* The decoding the header gives to the other side of the protocol.
DecodeClass(loc)    == (loc - PointsanityBase) \div PointClassStride
DecodeEpisode(loc)  == ((loc - PointsanityBase) % PointClassStride) \div PointEpisodeStride
DecodeLevel(loc)    == ((loc - PointsanityBase) % PointEpisodeStride) \div PointLevelStride
DecodeInstance(loc) == (loc - PointsanityBase) % PointLevelStride

(***************************************************************************)
(* The hooks: the set of locations a pickup emits, at most one.            *)
(***************************************************************************)
PointClasses == 0..5
EnabledClasses == {5}

ap_on_keygem_get(ep, lvl, gem)   == {LOC_KEYGEM(ep, lvl, gem)}
ap_on_security_card_get(ep, lvl) == {LOC_SECURITY_KEYCARD(ep, lvl)}

ap_on_extralife_get(ep, lvl, idx) ==
    IF ep = EP_CK4 THEN {LOC_FLASK(EP_CK4, lvl, idx)}
    ELSE IF ep = EP_CK5 THEN {LOC_KEG(EP_CK5, lvl, idx)}
    ELSE {}

ap_on_pointitem_get(ep, lvl, cls, inst) ==
    IF /\ cls \in PointClasses /\ cls \in EnabledClasses
       /\ inst >= 0 /\ inst < PointLevelStride
       /\ ep \in Episodes
    THEN {LOC_POINTSANITY(cls, ep, lvl, inst)}
    ELSE {}
====
