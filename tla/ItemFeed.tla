---- MODULE ItemFeed ----
(***************************************************************************)
(* What the AP client promises about received items (ap_client.cpp 23-31): *)
(* the multiworld sends a list that only grows, and a running game has had *)
(* the effect of each item of a prefix of that list exactly once.          *)
(* A permanent item is owned; a filler item (an extra Keen, stunner ammo)  *)
(* counts once per copy.  A fresh launch starts again from nothing.        *)
(***************************************************************************)
EXTENDS Integers, Sequences, FiniteSets

CONSTANTS Items, Filler

VARIABLES
    sent,       \* the items the multiworld has sent this slot, in order
    applied,    \* how many of them the running game has applied
    owned,      \* the permanent items it has
    granted     \* the filler it has been granted

feedVars == <<sent, applied, owned, granted>>

Permanent(n) == {i \in Items \ Filler : \E k \in 1..n : sent[k] = i}
Copies(f, n) == Cardinality({k \in 1..n : sent[k] = f})

\* The state of a game that has applied the first n items.
Holds(n) ==
    /\ applied = n
    /\ owned = Permanent(n)
    /\ granted = [f \in Filler |-> Copies(f, n)]

Init == sent = <<>> /\ Holds(0)

Send ==
    /\ sent' \in Seq(Items)
    /\ Len(sent') > Len(sent) /\ \A k \in 1..Len(sent) : sent'[k] = sent[k]
    /\ UNCHANGED <<applied, owned, granted>>

Apply ==
    /\ \E n \in applied + 1 .. Len(sent) : Holds(n)'
    /\ UNCHANGED sent

Relaunch == Holds(0)' /\ UNCHANGED sent

Next == Send \/ Apply \/ Relaunch

Spec == Init /\ [][Next]_feedVars
====
