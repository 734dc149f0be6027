---------------------------- MODULE CrystalProofs ---------------------------
(* What the timeline of a crystal is worth: the accumulator never loses a     *)
(* fraction, and positions and instants convert into each other exactly, for  *)
(* every rate, every resolution of the timeline and every history of advances. *)
EXTENDS Crystal, TLAPS

(* The accumulator's debt: time and residual together are the exact instant   *)
(* of the position, in units of 1/num.                                        *)
Exact(o) ==
  /\ o \in Timeline
  /\ o.units >= o.base_units
  /\ o.residual < o.unit_rate.num
  /\ (o.time - o.base_time) * o.unit_rate.num + o.residual
       = (o.units - o.base_units) * (o.unit_rate.den * Frac)

-----------------------------------------------------------------------------
(* Quotient and remainder recompose the dividend. *)
LEMMA DivMod ==
  ASSUME NEW a \in Nat, NEW b \in Nat \ {0}
  PROVE  /\ a \div b \in Nat /\ a % b \in Nat /\ a % b < b
         /\ a = (a \div b) * b + (a % b)
OBVIOUS

(* The quotient is the only number with that property. *)
LEMMA DivUnique ==
  ASSUME NEW a \in Nat, NEW b \in Nat \ {0}, NEW q \in Nat, NEW r \in Nat,
         r < b, a = (q * b) + r
  PROVE  a \div b = q /\ a % b = r
<1>1. /\ a \div b \in Nat /\ a % b \in Nat /\ a % b < b
      /\ a = (a \div b) * b + (a % b)
  BY DivMod
<1>2. ~ (a \div b < q)
  <2> SUFFICES ASSUME a \div b + 1 <= q PROVE FALSE
    BY <1>1
  <2>1. (a \div b + 1) * b <= q * b
    BY <1>1
  <2> QED BY <1>1, <2>1
<1>3. ~ (q < a \div b)
  <2> SUFFICES ASSUME q + 1 <= a \div b PROVE FALSE
    BY <1>1
  <2>1. (q + 1) * b <= (a \div b) * b
    BY <1>1
  <2> QED BY <1>1, <2>1
<1> QED BY <1>1, <1>2, <1>3

(* A quotient is at least q exactly when the dividend is at least q times the *)
(* divisor.                                                                  *)
LEMMA DivAtLeast ==
  ASSUME NEW a \in Nat, NEW b \in Nat \ {0}, NEW q \in Nat
  PROVE  q <= a \div b <=> q * b <= a
<1>1. /\ a \div b \in Nat /\ a % b \in Nat /\ a % b < b
      /\ a = (a \div b) * b + (a % b)
  BY DivMod
<1>2. ASSUME q <= a \div b PROVE q * b <= a
  <2>1. q * b <= (a \div b) * b
    BY <1>1, <1>2, SMTT(30)
  <2> QED BY <1>1, <2>1
<1>3. ASSUME a \div b < q PROVE a < q * b
  <2>1. (a \div b + 1) * b <= q * b
    BY <1>1, <1>3
  <2> QED BY <1>1, <2>1
<1> QED BY <1>1, <1>2, <1>3

(* A product is no smaller than a factor. *)
LEMMA TimesGrows ==
  ASSUME NEW a \in Nat \ {0}, NEW b \in Nat \ {0}
  PROVE  b <= a * b
OBVIOUS

(* Dividing twice is dividing by the product. *)
LEMMA DivTwice ==
  ASSUME NEW a \in Nat, NEW b \in Nat \ {0}, NEW c \in Nat \ {0}, NEW q \in Nat
  PROVE  q <= (a \div b) \div c <=> q * (b * c) <= a
<1>1. a \div b \in Nat
  BY DivMod
<1>2. q <= (a \div b) \div c <=> q * c <= a \div b
  BY <1>1, DivAtLeast, SMTT(30)
<1>3. q * c \in Nat
  OBVIOUS
<1>4. q * c <= a \div b <=> (q * c) * b <= a
  BY <1>3, DivAtLeast, SMTT(30)
<1>5. (q * c) * b = q * (b * c)
  OBVIOUS
<1> QED BY <1>2, <1>4, <1>5

-----------------------------------------------------------------------------
(* The length of a unit tick, split into whole and fraction. *)
LEMMA Length ==
  ASSUME NEW o, o.unit_rate \in Rational
  PROVE  /\ o.unit_rate.num \in Nat \ {0} /\ o.unit_rate.den * Frac \in Nat \ {0}
         /\ step(o) \in Nat /\ rem(o) \in Nat /\ rem(o) < o.unit_rate.num
         /\ o.unit_rate.den * Frac = step(o) * o.unit_rate.num + rem(o)
<1>1. o.unit_rate.num \in Nat \ {0} /\ o.unit_rate.den \in Nat \ {0}
  BY DEF Rational
<1>2. o.unit_rate.den * Frac \in Nat \ {0}
  BY <1>1, FracAssumption
<1> QED BY <1>1, <1>2, DivMod, Zenon DEF step, rem

(* The closed form is the floor of the exact instant. *)
LEMMA Floor ==
  ASSUME NEW o, o.unit_rate \in Rational, NEW n \in Nat
  PROVE  n * step(o) + ((n * rem(o)) \div o.unit_rate.num)
           = (n * (o.unit_rate.den * Frac)) \div o.unit_rate.num
<1> DEFINE num == o.unit_rate.num
           D == o.unit_rate.den * Frac
           s == step(o)
           m == rem(o)
           q == (n * m) \div num
           r == (n * m) % num
<1>1. num \in Nat \ {0} /\ D \in Nat /\ s \in Nat /\ m \in Nat /\ D = s * num + m
  BY Length
<1> HIDE DEF num, D, s, m
<1>2. n * m \in Nat /\ n * D \in Nat /\ n * s \in Nat
  BY <1>1
<1>3. q \in Nat /\ r \in Nat /\ r < num /\ n * m = q * num + r
  BY <1>1, <1>2, DivMod
<1> HIDE DEF q, r
<1>4. n * D = (n * s + q) * num + r
  <2>1. n * D = (n * s) * num + n * m
    BY <1>1
  <2> QED BY <2>1, <1>1, <1>2, <1>3
<1>5. n * s + q \in Nat
  BY <1>2, <1>3
<1>6. (n * D) \div num = n * s + q
  BY <1>1, <1>2, <1>3, <1>4, <1>5, DivUnique
<1> QED BY <1>6 DEF num, D, s, m, q

-----------------------------------------------------------------------------
(* An advance carries its remainder: the account still balances. *)
LEMMA AdvanceExact ==
  ASSUME NEW o, Exact(o), NEW n \in Nat
  PROVE  Exact(advance_units(o, n)) /\ advance_units(o, n).unit_rate = o.unit_rate
<1> DEFINE num == o.unit_rate.num
           D == o.unit_rate.den * Frac
           s == step(o)
           m == rem(o)
           x == o.residual + (n * m)
           q == x \div num
           r == x % num
           p == advance_units(o, n)
<1>1. /\ o.unit_rate \in Rational /\ o.units \in Nat /\ o.base_units \in Nat
      /\ o.base_time \in Nat /\ o.time \in Nat /\ o.residual \in Nat
  BY DEF Exact, Timeline
<1>2. num \in Nat \ {0} /\ D \in Nat /\ s \in Nat /\ m \in Nat /\ D = s * num + m
  BY <1>1, Length
<1>3. p = [o EXCEPT !.time = o.time + (n * s) + q, !.residual = r, !.units = o.units + n]
  BY DEF Exact, Timeline, advance_units, accumulate
<1> HIDE DEF num, D, s, m
<1>5. x \in Nat /\ n * s \in Nat
  BY <1>1, <1>2
<1>6. q \in Nat /\ r \in Nat /\ r < num /\ x = q * num + r
  BY <1>2, <1>5, DivMod, Zenon
<1>4. o.time + (n * s) + q \in Nat /\ o.units + n \in Nat
  BY <1>1, <1>5, <1>6
<1>7. /\ p \in Timeline
      /\ p.unit_rate = o.unit_rate /\ p.base_units = o.base_units /\ p.base_time = o.base_time
      /\ p.units = o.units + n /\ p.time = o.time + (n * s) + q /\ p.residual = r
  <2> DEFINE t == o.time + (n * s) + q
             v == o.units + n
  <2> HIDE DEF t, v, q, r, p
  <2>1. p = [o EXCEPT !.time = t, !.residual = r, !.units = v]
    BY <1>3 DEF t, v
  <2>2. t \in Nat /\ v \in Nat /\ r \in Nat /\ o \in Timeline
    BY <1>4, <1>6 DEF t, v, Exact
  <2>3. /\ p \in Timeline
        /\ p.unit_rate = o.unit_rate /\ p.base_units = o.base_units
        /\ p.base_time = o.base_time /\ p.units = v /\ p.time = t /\ p.residual = r
    BY <2>1, <2>2, Zenon DEF Timeline
  <2> QED BY <2>3 DEF t, v
<1>8. (o.time - o.base_time) * num + o.residual = (o.units - o.base_units) * D
  BY DEF Exact, num, D
<1> HIDE DEF q, r, p
<1>9. ((o.time + (n * s) + q) - o.base_time) * num + r = ((o.units + n) - o.base_units) * D
  <2>1. ((o.time + (n * s) + q) - o.base_time) * num
          = (o.time - o.base_time) * num + (n * s) * num + q * num
    BY <1>1, <1>2, <1>5, <1>6
  <2>2. q * num + r = o.residual + n * m
    BY <1>6
  <2>3. ((o.units + n) - o.base_units) * D = (o.units - o.base_units) * D + n * D
    BY <1>1, <1>2
  <2>4. n * D = (n * s) * num + n * m
    BY <1>2
  <2>5. /\ (o.time - o.base_time) * num \in Int /\ (n * s) * num \in Int /\ q * num \in Int
        /\ n * m \in Int /\ (o.units - o.base_units) * D \in Int /\ n * D \in Int
    BY <1>1, <1>2, <1>6
  <2> QED BY <2>1, <2>2, <2>3, <2>4, <2>5, <1>1, <1>6, <1>8
<1>10. p.units >= p.base_units
  BY <1>1, <1>7 DEF Exact
<1> QED BY <1>6, <1>7, <1>9, <1>10 DEF Exact, p, num, D

(* A changed rate starts from a settled account. *)
LEMMA SegmentExact ==
  ASSUME NEW o, Exact(o), NEW r \in Rational, NEW u \in Nat
  PROVE  Exact(new_segment(o, r, u)) /\ new_segment(o, r, u).unit_rate = r
<1> DEFINE p == new_segment(o, r, u)
<1>1. /\ p.unit_rate = r /\ p.units = u /\ p.base_units = u /\ p.base_time = o.time
      /\ p.time = o.time /\ p.residual = 0 /\ p \in Timeline
  BY Zenon DEF new_segment, Exact, Timeline
<1>2. r.num \in Nat \ {0} /\ r.den * Frac \in Nat /\ o.time \in Nat
  BY FracAssumption DEF Rational, Exact, Timeline
<1> HIDE DEF p
<1>3. Exact(p)
  BY <1>1, <1>2 DEF Exact
<1> QED BY <1>1, <1>3 DEF p

(* A restored position comes with the residual the accumulator would have had. *)
LEMMA RestoredExact ==
  ASSUME NEW o, Exact(o), NEW r \in Rational, NEW u \in Nat
  PROVE  LET p == restore_unit_position([o EXCEPT !.unit_rate = r], u)
         IN  Exact(p) /\ p.unit_rate = r
<1> DEFINE w == [o EXCEPT !.unit_rate = r]
           z == [w EXCEPT !.base_units = 0, !.base_time = 0, !.units = u]
           p == restore_unit_position(w, u)
           num == r.num
           D == r.den * Frac
           s == step(z)
           m == rem(z)
           q == (u * m) \div num
           d == (u * m) % num
<1>1. /\ w \in Timeline /\ z \in Timeline /\ z.unit_rate = r /\ w.unit_rate = r
      /\ z.base_units = 0 /\ z.base_time = 0 /\ z.units = u
  BY Zenon DEF Exact, Timeline
<1>2. rem(w) = m
  BY <1>1 DEF rem
<1>3. num \in Nat \ {0} /\ D \in Nat /\ s \in Nat /\ m \in Nat /\ D = s * num + m
  BY <1>1, Length, Zenon
<1>4. p = [z EXCEPT !.time = time_for_units(z, u), !.residual = d]
  BY <1>1, <1>2, Zenon DEF restore_unit_position
<1> HIDE DEF w, z, s, m, p, D, num
<1>5. u * m \in Nat /\ u * s \in Nat
  BY <1>3
<1>6. q \in Nat /\ d \in Nat /\ d < num /\ u * m = q * num + d
  BY <1>3, <1>5, DivMod
<1>7. time_for_units(z, u) = (u * s) + q
  <2>1. CASE u = 0
    <3>1. time_for_units(z, u) = 0
      BY <1>1, <2>1 DEF time_for_units
    <3>2. u * m = 0 /\ u * s = 0
      BY <1>3, <2>1
    <3>3. q = 0
      BY <3>2, <1>3
    <3> QED BY <3>1, <3>2, <3>3
  <2>2. CASE u > 0
    <3>1. time_for_units(z, u) = 0 + ((u - 0) * s) + (((u - 0) * m) \div r.num)
      BY <1>1, <2>2 DEF time_for_units, s, m
    <3> QED BY <3>1, <1>5, <1>6 DEF num
  <2> QED BY <2>1, <2>2
<1> HIDE DEF q, d
<1>8. /\ p \in Timeline /\ p.unit_rate = r /\ p.units = u /\ p.base_units = 0
      /\ p.base_time = 0 /\ p.time = (u * s) + q /\ p.residual = d
  <2> DEFINE t == (u * s) + q
  <2>1. t \in Nat
    BY <1>5, <1>6
  <2>2. time_for_units(z, u) = t
    BY <1>7
  <2> HIDE DEF t
  <2>3. p = [z EXCEPT !.time = t, !.residual = d, !.units = u]
    BY <1>1, <1>4, <2>2, Zenon DEF Timeline
  <2>4. /\ p \in Timeline
        /\ p.unit_rate = z.unit_rate /\ p.base_units = z.base_units
        /\ p.base_time = z.base_time /\ p.units = u /\ p.time = t /\ p.residual = d
    BY <2>1, <2>3, <1>1, <1>6, Zenon DEF Timeline
  <2> QED BY <2>4, <1>1 DEF t
<1>9. ((u * s) + q) * num + d = u * D
  <2>1. u * D = (u * s) * num + u * m
    BY <1>3
  <2> QED BY <2>1, <1>3, <1>5, <1>6
<1>10. Exact(p)
  BY <1>3, <1>5, <1>6, <1>8, <1>9 DEF Exact, num, D
<1> QED BY <1>8, <1>10 DEF p, w

-----------------------------------------------------------------------------
(* Of a balanced account only one instant is possible: the closed form's. *)
LEMMA ExactIsClosedForm ==
  ASSUME NEW o, Exact(o)
  PROVE  o.time = time_for_units(o, o.units)
<1> DEFINE num == o.unit_rate.num
           D == o.unit_rate.den * Frac
           n == o.units - o.base_units
           k == o.time - o.base_time
<1>1. /\ o.unit_rate \in Rational /\ o.units \in Nat /\ o.base_units \in Nat
      /\ o.base_time \in Nat /\ o.time \in Nat /\ o.residual \in Nat
      /\ o.units >= o.base_units
  BY DEF Exact, Timeline
<1>2. num \in Nat \ {0} /\ D \in Nat
  BY <1>1, Length
<1>3. n \in Nat /\ k \in Int /\ o.residual < num /\ k * num + o.residual = n * D
  BY <1>1 DEF Exact
<1>4. (n * D) \div num = n * step(o) + ((n * rem(o)) \div num)
  BY <1>1, <1>3, Floor
<1> HIDE DEF num, D, n, k
<1>5. k \in Nat
  <2>1. n * D >= 0
    BY <1>2, <1>3
  <2>2. ASSUME k <= -1 PROVE FALSE
    <3>1. k * num <= (-1) * num
      BY <1>2, <1>3, <2>2
    <3> QED BY <3>1, <2>1, <1>1, <1>2, <1>3
  <2> QED BY <2>2, <1>3
<1>6. (n * D) \div num = k
  <2>1. n * D \in Nat
    BY <1>2, <1>3
  <2> QED BY <2>1, <1>1, <1>2, <1>3, <1>5, DivUnique, Zenon
<1>7. CASE n = 0
  <2>1. time_for_units(o, o.units) = o.base_time
    BY <1>1, <1>7 DEF time_for_units, n
  <2>2. k = 0
    <3>1. 0 * D = 0
      BY <1>2
    <3>2. 0 \div num = 0
      BY <1>2
    <3> QED BY <1>6, <1>7, <3>1, <3>2
  <2> QED BY <2>1, <2>2, <1>1 DEF k
<1>8. CASE n > 0
  <2>1. time_for_units(o, o.units) = o.base_time + (n * step(o)) + ((n * rem(o)) \div num)
    BY <1>1, <1>8 DEF time_for_units, n, num
  <2>2. n * step(o) \in Nat /\ (n * rem(o)) \div num \in Int
    <3>1. step(o) \in Nat /\ rem(o) \in Nat
      BY <1>1, Length
    <3>2. n * step(o) \in Nat /\ n * rem(o) \in Nat
      BY <3>1, <1>3
    <3> QED BY <3>2, <1>2, DivMod
  <2>3. k = n * step(o) + ((n * rem(o)) \div num)
    BY <1>4, <1>6
  <2> QED BY <2>1, <2>2, <2>3, <1>1 DEF k
<1> QED BY <1>3, <1>7, <1>8

(* Positions and instants are in Galois connection: a position's instant is   *)
(* at or before t exactly when the position is at or before units_at(t).  So  *)
(* units_at is the last position not after t, for every rate the timeline's   *)
(* resolution covers (Oscillator::time_for_units and Oscillator::units_at).   *)
THEOREM Conversion ==
  ASSUME NEW o \in Timeline, o.unit_rate.num <= Frac,
         NEW u \in Nat, u >= o.base_units, NEW t \in Nat, t >= o.base_time
  PROVE  time_for_units(o, u) <= t <=> u <= units_at(o, t)
<1> DEFINE num == o.unit_rate.num
           den == o.unit_rate.den
           D == den * Frac
           n == u - o.base_units
           dt == t - o.base_time
           fl == (n * D) \div num
           x == ((dt + 1) * num) - 1
           q == (x \div den) \div Frac
<1>1. o.unit_rate \in Rational /\ o.base_units \in Nat /\ o.base_time \in Nat
  BY DEF Timeline
<1>2. num \in Nat \ {0} /\ den \in Nat \ {0} /\ D \in Nat \ {0} /\ num <= Frac /\ Frac \in Nat \ {0}
  BY <1>1, Length, FracAssumption DEF Rational
<1>3. n \in Nat /\ dt \in Nat
  BY <1>1
<1>4. fl = n * step(o) + ((n * rem(o)) \div num)
  BY <1>1, <1>3, Floor
<1>5. time_for_units(o, u) = o.base_time + fl
  <2>1. CASE n = 0
    <3>1. time_for_units(o, u) = o.base_time
      BY <1>1, <2>1 DEF time_for_units
    <3>2. 0 * D = 0 /\ 0 \div num = 0
      BY <1>2
    <3>3. fl = 0
      BY <3>2, <2>1, SMTT(30)
    <3> QED BY <3>1, <3>3, <1>1
  <2>2. CASE n > 0
    <3>1. time_for_units(o, u) = o.base_time + (n * step(o)) + ((n * rem(o)) \div num)
      BY <1>1, <2>2 DEF time_for_units
    <3>2. step(o) \in Nat /\ rem(o) \in Nat
      BY <1>1, Length
    <3>3. n * step(o) \in Nat /\ n * rem(o) \in Nat
      BY <3>2, <1>3
    <3>4. (n * rem(o)) \div num \in Nat
      BY <3>3, <1>2, DivMod, SMTT(30)
    <3> QED BY <3>1, <3>3, <3>4, <1>1, <1>4
  <2> QED BY <2>1, <2>2, <1>3
<1> HIDE DEF num, den, n, dt
<1>6. n * D \in Nat /\ fl \in Nat
  BY <1>2, <1>3, DivMod
<1>7. dt + 1 <= fl <=> (dt + 1) * num <= n * D
  <2> DEFINE a == n * D
             b == dt + 1
  <2>1. a \in Nat /\ b \in Nat
    BY <1>3, <1>6
  <2> HIDE DEF a, b
  <2>2. b <= a \div num <=> b * num <= a
    BY <2>1, <1>2, DivAtLeast
  <2> QED BY <2>2 DEF a, b
<1>8. x \in Nat
  <2>1. (dt + 1) * num >= num
    BY <1>2, <1>3
  <2> QED BY <2>1, <1>2, <1>3
<1>9. n <= q <=> n * D <= x
  BY <1>2, <1>3, <1>8, DivTwice, Zenon
<1>10. q \in Nat
  BY <1>2, <1>8, DivMod
<1>11. fl <= dt <=> n <= q
  <2>1. (dt + 1) * num \in Nat
    BY <1>2, <1>3
  <2>2. n * D <= x <=> ~ ((dt + 1) * num <= n * D)
    BY <2>1, <1>6
  <2> QED BY <2>2, <1>3, <1>6, <1>7, <1>9
<1> HIDE DEF fl, q, x, D
<1>12. time_for_units(o, u) <= t <=> fl <= dt
  BY <1>1, <1>3, <1>5, <1>6 DEF dt
<1>13. CASE t = o.base_time
  <2>1. units_at(o, t) = o.base_units /\ dt = 0
    BY <1>1, <1>13 DEF units_at, dt
  <2>2. fl <= 0 <=> n = 0
    <3>1. q = 0
      <4>1. x < Frac
        BY <1>2, <2>1 DEF x
      <4>2. ~ (1 <= q)
        <5>1. 1 <= q <=> 1 * D <= x
          BY <1>2, <1>8, DivTwice, Zenon DEF q, D
        <5>2. Frac <= D
          BY <1>2 DEF D
        <5> QED BY <5>1, <5>2, <4>1, <1>2, <1>8
      <4> QED BY <4>2, <1>10
    <3> QED BY <3>1, <2>1, <1>3, <1>11
  <2> QED BY <2>1, <2>2, <1>1, <1>3, <1>12 DEF n
<1>14. CASE t > o.base_time
  <2>1. units_at(o, t) = o.base_units + q
    BY <1>1, <1>14 DEF units_at, q, x, num, den, dt
  <2> QED BY <2>1, <1>1, <1>3, <1>10, <1>11, <1>12 DEF n
<1> QED BY <1>1, <1>13, <1>14

-----------------------------------------------------------------------------
(* The inductive invariant: a balanced account at one of the rates. *)
IInv == Exact(osc) /\ osc.unit_rate \in Rates

(* A new crystal owes nothing. *)
LEMMA InitIInv == Init => IInv
<1> SUFFICES ASSUME NEW r \in Rates, osc = Fresh(r) PROVE IInv
  BY DEF Init
<1>1. r \in Rational
  BY CrystalAssumption
<1>2. r.num \in Nat \ {0} /\ r.den * Frac \in Nat
  BY <1>1, FracAssumption DEF Rational
<1>3. osc \in Timeline
  BY <1>1 DEF Fresh, Timeline
<1>4. 0 * r.num = 0 /\ 0 * (r.den * Frac) = 0
  BY <1>2
<1> QED BY <1>2, <1>3, <1>4 DEF IInv, Exact, Fresh

(* Advancing, re-rating and restoring each keep the account balanced. *)
LEMMA StepIInv == IInv /\ [Next]_osc => IInv'
<1> SUFFICES ASSUME IInv, [Next]_osc PROVE IInv'
  OBVIOUS
<1>1. ASSUME NEW n \in Counts, Advance(n) PROVE IInv'
  <2>1. n \in Nat
    BY CrystalAssumption
  <2> QED BY <1>1, <2>1, AdvanceExact DEF Advance, IInv, Exact
<1>2. ASSUME NEW r \in Rates, NEW u \in Counts, Rerate(r, u) PROVE IInv'
  <2>1. r \in Rational /\ u \in Nat
    BY CrystalAssumption
  <2> QED BY <1>2, <2>1, SegmentExact DEF Rerate, IInv, Exact
<1>3. ASSUME NEW r \in Rates, NEW u \in Counts, Restore(r, u) PROVE IInv'
  <2>1. r \in Rational /\ u \in Nat
    BY CrystalAssumption
  <2>2. Exact(osc') /\ osc'.unit_rate = r
    BY <1>3, <2>1, RestoredExact DEF Restore, IInv
  <2> QED BY <2>2 DEF IInv, Exact
<1>4. CASE UNCHANGED osc
  BY <1>4 DEF IInv, Exact
<1> QED BY <1>1, <1>2, <1>3, <1>4 DEF Next

(* Every reachable timeline has a balanced account: time * num + residual is  *)
(* exactly the number of timeline units its segment's unit ticks are worth.   *)
THEOREM Invariance == Spec => []IInv
BY InitIInv, StepIInv, PTL DEF Spec

(* For every rate, resolution and history of advances, re-ratings and loads,  *)
(* the instant Oscillator::accumulate keeps is the one time_for_units gives.  *)
THEOREM TimelineAlwaysExact == Spec => []TimelineExact
<1>1. IInv => TimelineExact
  BY ExactIsClosedForm DEF IInv, TimelineExact
<1> QED BY <1>1, Invariance, PTL

(* A crystal is a well-formed timeline and stands inside its own segment. *)
THEOREM TypeCorrect == Spec => []TypeOK
<1>1. IInv => TypeOK
  BY DEF IInv, Exact, Timeline, TypeOK
<1> QED BY <1>1, Invariance, PTL

(* The next position's instant is later: a unit tick lasts at least one unit  *)
(* of the timeline.                                                          *)
LEMMA NextIsLater ==
  ASSUME NEW o, Exact(o), o.unit_rate.num <= Frac
  PROVE  time_for_units(o, o.units + 1) > o.time
<1> DEFINE num == o.unit_rate.num
           D == o.unit_rate.den * Frac
           p == advance_units(o, 1)
<1>1. /\ o.unit_rate \in Rational /\ o.units \in Nat /\ o.time \in Nat
      /\ o.base_time \in Nat /\ o.base_units \in Nat
  BY DEF Exact, Timeline
<1>2. step(o) >= 1 /\ step(o) \in Nat /\ rem(o) \in Nat /\ num \in Nat \ {0}
  <2>1. num <= D
    <3>1. o.unit_rate.den \in Nat \ {0}
      BY <1>1 DEF Rational
    <3>2. Frac <= D
      BY <3>1, FracAssumption, TimesGrows, Zenon
    <3> QED BY <3>1, <3>2, <1>1, FracAssumption, Length
  <2>2. num \in Nat \ {0} /\ D \in Nat
    BY <1>1, Length
  <2> HIDE DEF num, D
  <2>3. 1 <= D \div num
    BY <2>1, <2>2, DivAtLeast
  <2> QED BY <2>3, <1>1, Length DEF step, num, D
<1>3. Exact(p) /\ p.unit_rate = o.unit_rate
  BY AdvanceExact
<1>4. p.time = time_for_units(p, p.units)
  BY <1>3, ExactIsClosedForm
<1>5. /\ p.units = o.units + 1 /\ p.base_units = o.base_units /\ p.base_time = o.base_time
      /\ p.time = o.time + (1 * step(o)) + ((o.residual + (1 * rem(o))) \div num)
  BY DEF advance_units, accumulate, Exact, Timeline
<1>6. time_for_units(p, p.units) = time_for_units(o, o.units + 1)
  BY <1>3, <1>5 DEF time_for_units, step, rem
<1>7. (o.residual + (1 * rem(o))) \div num \in Nat
  <2>1. o.residual + (1 * rem(o)) \in Nat
    BY <1>2 DEF Exact, Timeline
  <2> QED BY <2>1, <1>2, DivMod
<1> QED BY <1>1, <1>2, <1>4, <1>5, <1>6, <1>7

(* A tree always reaches the instant it reports: units_at of its own instant  *)
(* is its own position, whatever the rates.                                   *)
THEOREM AlwaysReachesOwnTime == Spec => []ReachesOwnTime
<1>1. IInv => ReachesOwnTime
  <2> SUFFICES ASSUME IInv PROVE units_at(osc, osc.time) = osc.units
    BY DEF ReachesOwnTime
  <2>1. /\ osc \in Timeline /\ osc.units \in Nat /\ osc.time \in Nat
        /\ osc.base_units \in Nat /\ osc.base_time \in Nat
        /\ osc.units >= osc.base_units /\ osc.unit_rate \in Rational
    BY DEF IInv, Exact, Timeline
  <2>2. osc.unit_rate.num <= Frac
    BY CrystalAssumption DEF IInv
  <2>3. osc.time = time_for_units(osc, osc.units)
    BY ExactIsClosedForm DEF IInv
  <2>4. osc.time >= osc.base_time
    <3>1. CASE osc.units = osc.base_units
      BY <2>1, <2>3, <3>1 DEF time_for_units
    <3>2. CASE osc.units > osc.base_units
      <4> DEFINE n == osc.units - osc.base_units
      <4>1. n \in Nat /\ step(osc) \in Nat /\ rem(osc) \in Nat /\ osc.unit_rate.num \in Nat \ {0}
        BY <2>1, Length
      <4>2. osc.time = osc.base_time + (n * step(osc)) + ((n * rem(osc)) \div osc.unit_rate.num)
        BY <2>1, <2>3, <3>2 DEF time_for_units
      <4> HIDE DEF n
      <4>3. n * step(osc) \in Nat /\ n * rem(osc) \in Nat
        BY <4>1
      <4>4. (n * rem(osc)) \div osc.unit_rate.num \in Nat
        BY <4>1, <4>3, DivMod, Zenon
      <4> QED BY <2>1, <4>2, <4>3, <4>4
    <3> QED BY <2>1, <3>1, <3>2
  <2>5. osc.units <= units_at(osc, osc.time)
    BY <2>1, <2>2, <2>3, <2>4, Conversion
  <2>6. ~ (osc.units + 1 <= units_at(osc, osc.time))
    <3>1. time_for_units(osc, osc.units + 1) > osc.time
      BY <2>2, NextIsLater DEF IInv
    <3>2. osc.units + 1 \in Nat /\ osc.units + 1 >= osc.base_units
      BY <2>1
    <3>3. time_for_units(osc, osc.units + 1) <= osc.time <=> osc.units + 1 <= units_at(osc, osc.time)
      BY <2>1, <2>2, <2>4, <3>2, Conversion
    <3>4. time_for_units(osc, osc.units + 1) \in Int
      <4> DEFINE n == (osc.units + 1) - osc.base_units
      <4>1. n \in Nat /\ step(osc) \in Nat /\ rem(osc) \in Nat /\ osc.unit_rate.num \in Nat \ {0}
        BY <2>1, Length
      <4>2. time_for_units(osc, osc.units + 1)
              = osc.base_time + (n * step(osc)) + ((n * rem(osc)) \div osc.unit_rate.num)
        BY <2>1 DEF time_for_units
      <4> HIDE DEF n
      <4>3. n * step(osc) \in Nat /\ n * rem(osc) \in Nat
        BY <4>1
      <4>4. (n * rem(osc)) \div osc.unit_rate.num \in Nat
        BY <4>1, <4>3, DivMod, Zenon
      <4> QED BY <2>1, <4>2, <4>3, <4>4
    <3> QED BY <2>1, <3>1, <3>3, <3>4
  <2>7. units_at(osc, osc.time) \in Int
    <3> DEFINE y == (((osc.time - osc.base_time) + 1) * osc.unit_rate.num) - 1
    <3>1. osc.unit_rate.num \in Nat \ {0} /\ osc.unit_rate.den \in Nat \ {0}
      BY <2>1 DEF Rational
    <3>2. y \in Int
      BY <3>1, <2>1
    <3> HIDE DEF y
    <3>3. (y \div osc.unit_rate.den) \div Frac \in Int
      BY <3>1, <3>2, FracAssumption
    <3> QED BY <2>1, <3>3 DEF units_at, y
  <2> QED BY <2>1, <2>5, <2>6, <2>7
<1> QED BY <1>1, Invariance, PTL
=============================================================================
