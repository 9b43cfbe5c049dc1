---- MODULE MCDeathLink ----
(***************************************************************************)
(* The instances of DeathLink: a level of six rows behind a screen of      *)
(* three, so that the screen has two positions, Keen crosses it in two     *)
(* frames and his invincibility is over before he has fallen out of it.    *)
(***************************************************************************)
EXTENDS DeathLink
====
