------------------------------ MODULE Crystal ------------------------------
(* What the clock forest may do to the timeline of one crystal, whatever it   *)
(* does to the tree of domains above it (core/clock.rs).                     *)
EXTENDS Oscillator

CONSTANTS
  Rates,   \* the unit rates a tree may have
  Counts   \* positions, and lengths of advances

ASSUME CrystalAssumption ==
  /\ Rates \subseteq Rational /\ Counts \subseteq Nat
  /\ \A r \in Rates : r.num <= Frac   \* num is a u64

VARIABLE osc

Fresh(r) ==
  [unit_rate |-> r, units |-> 0, base_units |-> 0, base_time |-> 0, time |-> 0, residual |-> 0]

Init == \E r \in Rates : osc = Fresh(r)

Advance(n) == osc' = advance_units(osc, n)

(* A re-rating may make the unit finer, which renames the position. *)
Rerate(r, u) == osc' = new_segment(osc, r, u)

Restore(r, u) == osc' = restore_unit_position([osc EXCEPT !.unit_rate = r], u)

Next ==
  \/ \E n \in Counts : Advance(n)
  \/ \E r \in Rates, u \in Counts : Rerate(r, u) \/ Restore(r, u)

Spec == Init /\ [][Next]_osc

-----------------------------------------------------------------------------
(* A crystal has a timeline, and stands inside its own segment. *)
TypeOK == osc \in Timeline /\ osc.unit_rate \in Rates /\ osc.base_units <= osc.units

(* The instant the accumulator keeps is always the closed form's, however the *)
(* advances were split and through every change of rate: no error collects.   *)
TimelineExact == osc.time = time_for_units(osc, osc.units)

(* Asking for the position of the instant a tree reports gives the position   *)
(* it is at: a round that runs a tree to an instant ends.                     *)
ReachesOwnTime == units_at(osc, osc.time) = osc.units
=============================================================================
