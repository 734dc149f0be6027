----------------------------- MODULE Oscillator -----------------------------
(* One crystal and the timeline derived from it (core/clock.rs): a position   *)
(* in unit ticks, and the instant that position stands for, kept exactly by   *)
(* an accumulator that carries the remainder of every division.              *)
EXTENDS Integers, FiniteSetsExt

CONSTANT Frac  \* timeline units per second, 2^64 in the code

ASSUME FracAssumption == Frac \in Nat \ {0}

-----------------------------------------------------------------------------
(* Rationals in lowest terms. *)
Rational == [num : Nat \ {0}, den : Nat \ {0}]

divides(d, n) == n % d = 0

gcd(a, b) == Max({d \in 1 .. a : divides(d, a) /\ divides(d, b)})

lcm(a, b) == (a \div gcd(a, b)) * b

rational(n, d) == [num |-> n \div gcd(n, d), den |-> d \div gcd(n, d)]

scale(r, mul, div) == rational(r.num * mul, r.den * div)

-----------------------------------------------------------------------------
(***************************************************************************)
(* unit_rate is the tree's unit ticks per second.  A conversion segment     *)
(* starts at base_units and base_time; time and residual are the running    *)
(* floor and what it leaves over.                                           *)
(***************************************************************************)
Timeline ==
  [unit_rate : Rational, units : Nat, base_units : Nat, base_time : Nat,
   time : Nat, residual : Nat]

(* recompute_conversion: the length of a unit tick is step + rem / num.      *)
step(o) == (o.unit_rate.den * Frac) \div o.unit_rate.num

rem(o) == (o.unit_rate.den * Frac) % o.unit_rate.num

(* Mutant: the remainder of each advance is dropped instead of carried. *)
accumulateDrops(o, n) ==
  [o EXCEPT !.time = @ + (n * step(o)) + ((n * rem(o)) \div o.unit_rate.num)]

accumulate(o, n) ==
  LET residual == o.residual + (n * rem(o))
  IN  [o EXCEPT !.time = @ + (n * step(o)) + (residual \div o.unit_rate.num),
                !.residual = residual % o.unit_rate.num]

advance_units(o, n) == [accumulate(o, n) EXCEPT !.units = @ + n]

advance_tree_to(o, u) == IF u > o.units THEN advance_units(o, u - o.units) ELSE o

(* The closed form of the same computation. *)
time_for_units(o, u) ==
  IF u <= o.base_units THEN o.base_time
  ELSE LET n == u - o.base_units
       IN  o.base_time + (n * step(o)) + ((n * rem(o)) \div o.unit_rate.num)

(* Mutant: the instant multiplied back by the rate. *)
units_atNaive(o, t) ==
  IF t <= o.base_time THEN o.base_units
  ELSE o.base_units + (((t - o.base_time) * o.unit_rate.num) \div o.unit_rate.den) \div Frac

(* The last unit position whose instant is at or before t. *)
units_at(o, t) ==
  IF t <= o.base_time THEN o.base_units
  ELSE LET dt == t - o.base_time
       IN  o.base_units + ((((dt + 1) * o.unit_rate.num) - 1) \div o.unit_rate.den) \div Frac

advance_to_global(o, t) == advance_tree_to(o, units_at(o, t))

(* A changed rate starts a segment at the position and instant reached. *)
new_segment(o, rate, u) ==
  [o EXCEPT !.unit_rate = rate, !.units = u, !.base_units = u,
            !.base_time = o.time, !.residual = 0]

(* The timeline of a restored position, computed from the origin. *)
restore_unit_position(o, u) ==
  LET z == [o EXCEPT !.base_units = 0, !.base_time = 0, !.units = u]
  IN  [z EXCEPT !.time = time_for_units(z, u), !.residual = (u * rem(o)) % o.unit_rate.num]
=============================================================================
