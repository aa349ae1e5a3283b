----------------------------- MODULE DriveIntent -----------------------------
(***************************************************************************)
(* What the base card of the remote-control page promises, with nothing    *)
(* said about key events, tabs, focus or calls in flight: the base is      *)
(* under power only while the card records a held key, and a discrete run  *)
(* is never started over a base that is under power.                       *)
(***************************************************************************)
CONSTANT Keys

VARIABLES
    held,   \* the keys the card records as held
    drive   \* what the last command it issued makes the base do

Init ==
    /\ held = {}
    /\ drive = "idle"

Power ==
    /\ held' \in (SUBSET Keys) \ {{}}
    /\ drive' = "power"

Halt ==
    /\ held' \in SUBSET Keys
    /\ drive' = "idle"

Run ==
    /\ drive # "power"
    /\ drive' = "run"
    /\ UNCHANGED held

Next == Power \/ Halt \/ Run

Spec == Init /\ [][Next]_<<held, drive>>
=============================================================================
