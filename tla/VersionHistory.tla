--------------------------- MODULE VersionHistory ---------------------------
(***************************************************************************)
(* What publishing promises of a project: an append-only history of        *)
(* versions, one per request key, of which the newest is active; and       *)
(* nothing more once the project is deleted.                               *)
(***************************************************************************)
EXTENDS Naturals

CONSTANT Keys

VARIABLES
    history,    \* number -> version: its key, and whatever it contains
    active,     \* the number of the active version, 0 for none
    phase,      \* the project is live, being deleted, or gone
    orphans     \* numbers of versions that the deletion left behind

vars == <<history, active, phase, orphans>>

Init ==
    /\ DOMAIN history = {}
    /\ active = 0
    /\ phase = "live"
    /\ orphans = {}

Publish(key) ==
    /\ phase = "live"
    /\ \A n \in 1..active : history[n].key # key
    /\ DOMAIN history' = 1..(active + 1)
    /\ \A n \in 1..active : history'[n] = history[n]
    /\ history'[active + 1].key = key
    /\ active' = active + 1
    /\ phase' = "live"
    /\ UNCHANGED orphans

\* While the deletion runs nothing is promised.
Delete ==
    /\ phase = "live"
    /\ phase' = "deleting"
    /\ UNCHANGED orphans

Gone ==
    /\ phase = "deleting"
    /\ phase' = "gone"
    /\ UNCHANGED <<history, active>>

Next ==
    \/ \E key \in Keys : Publish(key)
    \/ Delete
    \/ Gone

Spec == Init /\ [][Next]_vars
=============================================================================
