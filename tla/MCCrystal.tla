----------------------------- MODULE MCCrystal -----------------------------
(* Rates that divide a second unevenly, up to the resolution of the timeline. *)
EXTENDS Crystal

CONSTANTS MaxUnits, MaxTime  \* bounds on the position and the instant

MCRates == {[num |-> 1, den |-> 2], [num |-> 3, den |-> 1], [num |-> 5, den |-> 3],
            [num |-> 7, den |-> 2], [num |-> 10, den |-> 1]}

Bounded == osc'.units <= MaxUnits /\ osc'.time <= MaxTime

MCNext == Next /\ Bounded

MCSpec == Init /\ [][MCNext]_osc
=============================================================================
