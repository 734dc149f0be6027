-------------------------- MODULE EventQueueProofs --------------------------
(***************************************************************************)
(* The event queue implements AbstractQueue, for every wheel geometry.     *)
(***************************************************************************)
EXTENDS EventQueueSpec, FiniteSetTheorems, WellFoundedInduction, TLAPS

\* A nonempty set of naturals has a least element.
LEMMA LeastNat ==
    ASSUME NEW S, S \subseteq Nat, S # {}
    PROVE  \E x \in S : \A y \in S : x <= y
<1>1. PICK x \in S : \A y \in S : ~(<<y, x>> \in OpToRel(<, Nat))
  BY NatLessThanWellFounded, WFMin, Zenon
<1>2. \A y \in S : ~(y < x)
  BY <1>1, Zenon DEF OpToRel
<1> QED BY <1>2

\* The library's Min, on a set of naturals, is its least member.
LEMMA MinNat ==
    ASSUME NEW S, S \subseteq Nat, S # {}
    PROVE  Min(S) \in S /\ \A y \in S : Min(S) <= y
BY LeastNat, Zenon DEF Min

\* A nonempty set of events has one that is before all the others.
LEMMA EarliestExists ==
    ASSUME NEW S \in SUBSET Event, S # {}
    PROVE  /\ Earliest(S) \in S
           /\ \A f \in S : f = Earliest(S) \/ Before(Earliest(S), f)
<1>1. PICK t \in {e.time : e \in S} : \A u \in {e.time : e \in S} : t <= u
  <2>1. {e.time : e \in S} \subseteq Nat /\ {e.time : e \in S} # {}
    BY DEF Event
  <2> QED BY <2>1, LeastNat, Zenon
<1> DEFINE T == {e \in S : e.time = t}
<1>2. PICK i \in {e.id : e \in T} : \A j \in {e.id : e \in T} : i <= j
  <2>1. {e.id : e \in T} \subseteq Nat /\ {e.id : e \in T} # {}
    BY <1>1 DEF Event
  <2> QED BY <2>1, LeastNat, Zenon
<1>3. PICK e \in T : e.id = i
  BY <1>2
<1>4. \A f \in S : f = e \/ Before(e, f)
  <2> TAKE f \in S
  <2>1. CASE f \in T
    <3>1. e.id <= f.id /\ e.time = f.time
      BY <2>1, <1>2, <1>3
    <3>2. e = [time |-> e.time, id |-> e.id] /\ f = [time |-> f.time, id |-> f.id]
      BY DEF Event
    <3>3. e.id \in Nat /\ f.id \in Nat
      BY DEF Event
    <3> QED BY <3>1, <3>2, <3>3 DEF Before
  <2>2. CASE f \notin T
    <3>1. t <= f.time /\ t # f.time /\ e.time = t /\ t \in Nat /\ f.time \in Nat
      BY <2>2, <1>1, <1>3 DEF Event
    <3> QED BY <3>1 DEF Before
  <2> QED BY <2>1, <2>2
<1>5. \E x \in S : \A f \in S : f = x \/ Before(x, f)
  BY <1>4
<1> QED BY <1>5 DEF Earliest

\* The order of events (Event::cmp) is strict.
LEMMA BeforeStrict ==
    ASSUME NEW a \in Event, NEW b \in Event
    PROVE  ~(Before(a, b) /\ Before(b, a)) /\ ~Before(a, a)
BY DEF Before, Event

-----------------------------------------------------------------------------
\* Integer division is monotone: a later instant is never in an earlier block.
LEMMA DivMono ==
    ASSUME NEW a \in Nat, NEW b \in Nat, a <= b, NEW d \in Nat \ {0}
    PROVE  /\ a \div d \in Nat
           /\ a \div d <= b \div d
  OBVIOUS

\* Integer division, bounded by multiplication.
LEMMA DivBounds ==
    ASSUME NEW a \in Nat, NEW d \in Nat \ {0}
    PROVE  /\ a \div d \in Nat
           /\ (a \div d) * d <= a
           /\ a < (a \div d) * d + d
OBVIOUS

\* A multiple of the divisor at or below a bounds the quotient from below.
LEMMA DivLower ==
    ASSUME NEW a \in Nat, NEW d \in Nat \ {0}, NEW k \in Nat, k * d <= a
    PROVE  k <= a \div d
OBVIOUS

\* A multiple of the divisor above a bounds the quotient from above.
LEMMA DivUpper ==
    ASSUME NEW a \in Nat, NEW d \in Nat \ {0}, NEW k \in Nat, a < k * d
    PROVE  a \div d < k
OBVIOUS

\* Two positions in one block of S sub-blocks are fewer than S sub-blocks apart.
LEMMA DivNest ==
    ASSUME NEW a \in Nat, NEW b \in Nat, b <= a, NEW d \in Nat \ {0}, NEW S \in Nat \ {0},
           a \div (S * d) = b \div (S * d)
    PROVE  (a \div d) - (b \div d) < S
<1> DEFINE k == a \div (S * d)
<1>1. S * d \in Nat \ {0}
  OBVIOUS
<1>2. k \in Nat /\ k * (S * d) <= b /\ a < k * (S * d) + S * d
  BY <1>1, DivBounds, Zenon
<1> HIDE DEF k
<1>3. k * (S * d) = (k * S) * d /\ k * (S * d) + S * d = (k * S + S) * d
  BY <1>2
<1>4. k * S \in Nat /\ k * S + S \in Nat
  BY <1>2
<1>5. k * S <= b \div d
  BY <1>2, <1>3, <1>4, DivLower
<1>6. a \div d < k * S + S
  BY <1>2, <1>3, <1>4, DivUpper
<1>7. a \div d \in Nat /\ b \div d \in Nat
  BY DivBounds
<1> QED BY <1>4, <1>5, <1>6, <1>7, SMTT(30)

\* Two numbers less than S apart do not share a remainder modulo S.
LEMMA ModInjective ==
    ASSUME NEW a \in Nat, NEW b \in Nat, NEW S \in Nat \ {0},
           a % S = b % S, a < b, b < a + S
    PROVE  FALSE
<1> DEFINE u == a \div S
           v == b \div S
<1>1. a = u * S + (a % S) /\ b = v * S + (b % S) /\ u \in Nat /\ v \in Nat
  OBVIOUS
<1> HIDE DEF u, v
<1>2. a % S \in Nat
  OBVIOUS
<1>3. b - a = (v - u) * S
  BY <1>1, <1>2
<1>4. CASE v - u <= 0
  BY <1>1, <1>3, <1>4
<1>5. CASE v - u >= 1
  <2>1. (v - u) * S >= S
    BY <1>1, <1>5
  <2> QED BY <1>3, <2>1
<1> QED BY <1>1, <1>4, <1>5, SMTT(30)

\* A later instant is in the same or in a later block, on every level.
LEMMA BlockMono ==
    ASSUME NEW l \in Level, NEW a \in Nat, NEW b \in Nat
    PROVE  /\ Block(l, a) \in Nat
           /\ a <= b => Block(l, a) <= Block(l, b)
           /\ Block(l, a) < Block(l, b) => a < b
<1>1. Granule \in Nat \ {0} /\ Span[l] \in Nat \ {0}
  BY WheelAssumption
<1>2. a \div Granule \in Nat /\ b \div Granule \in Nat
  BY <1>1, DivMono
<1>3. a <= b => Block(l, a) <= Block(l, b)
  BY <1>1, <1>2, DivMono, Zenon DEF Block
<1>4. b <= a => Block(l, b) <= Block(l, a)
  BY SMTT(30), <1>1, <1>2, DivMono DEF Block
<1>5. Block(l, a) \in Nat /\ Block(l, b) \in Nat
  BY <1>1, <1>2, DivMono DEF Block
<1> QED BY <1>3, <1>4, <1>5

\* What a placement says of the instant placed.
LEMMA PlacementFacts ==
    ASSUME NEW now \in Nat, NEW t \in Nat
    PROVE  LET p == placement(now, t)
           IN  /\ p.heap \in {"due", "near", "far"}
               /\ p.heap = "due" => Block(0, t) <= Block(0, now)
               /\ p.heap = "far" =>
                    Block(Levels - 1, t) >= Block(Levels - 1, now) + Slots
               /\ p.heap = "near" =>
                    /\ p.level \in Level /\ p.slot \in Slot
                    /\ p = Home("near", p.level, p.slot)
                    /\ p.slot = Block(p.level, t) % Slots
                    /\ Block(p.level, now) < Block(p.level, t)
                    /\ Block(p.level, t) < Block(p.level, now) + Slots
<1> DEFINE l == Min(Fits(now, t))
           p == placement(now, t)
<1>0. 0 \in Level
  BY WheelAssumption DEF Level
<1>1. CASE t <= now
  <2>1. p = Home("due", 0, 0)
    BY <1>1 DEF placement
  <2>2. Block(0, t) <= Block(0, now)
    BY <1>0, <1>1, BlockMono
  <2> QED BY <2>1, <2>2 DEF Home
<1>2. CASE t > now /\ Fits(now, t) = {}
  <2>1. p = Home("far", 0, 0)
    BY <1>2 DEF placement
  <2>2. Levels - 1 \in Level
    BY WheelAssumption DEF Level
  <2>3. ~(Block(Levels - 1, t) - Block(Levels - 1, now) < Slots)
    BY <1>2, <2>2 DEF Fits
  <2>4. Block(Levels - 1, t) \in Nat /\ Block(Levels - 1, now) \in Nat /\ Slots \in Nat
    BY <2>2, BlockMono, WheelAssumption, SMTT(30)
  <2> QED BY <2>1, <2>3, <2>4 DEF Home
<1>3. CASE t > now /\ Fits(now, t) # {}
  <2>1. l \in Level /\ Block(l, t) - Block(l, now) < Slots
    <3>1. Fits(now, t) \subseteq Nat
      BY DEF Fits, Level
    <3>2. l \in Fits(now, t)
      BY <1>3, <3>1, MinNat, SMTT(30)
    <3> QED BY <3>2 DEF Fits
  <2>2. Block(l, t) \in Nat /\ Block(l, now) \in Nat /\ Block(l, now) <= Block(l, t)
    BY <1>3, <2>1, BlockMono
  <2>3. CASE Block(l, t) = Block(l, now)
    <3>1. p = Home("due", 0, 0)
      BY <1>3, <2>3 DEF placement
    <3>2. ASSUME l # 0 PROVE FALSE
      <4> HIDE DEF l, p
      <4>a. l \in Level \ {0}
        BY <2>1, <3>2
      <4>b. l - 1 \in Level
        BY <4>a, WheelAssumption DEF Level
      <4>c. Span[l] = Slots * Span[l - 1]
        BY <4>a, WheelAssumption
      <4>d. Slots \in Nat \ {0}
        BY WheelAssumption
      <4>1. l - 1 \in Level /\ Span[l] = Slots * Span[l - 1] /\ Slots \in Nat \ {0}
        BY <4>b, <4>c, <4>d, SMTT(30)
      <4>2. Span[l - 1] \in Nat \ {0} /\ Granule \in Nat \ {0}
        BY <4>1, WheelAssumption
      <4>3. t \div Granule \in Nat /\ now \div Granule \in Nat /\ now \div Granule <= t \div Granule
        BY <1>3, <4>2, DivMono, SMTT(30)
      <4>4. (t \div Granule) \div (Slots * Span[l - 1]) = (now \div Granule) \div (Slots * Span[l - 1])
        BY <2>3, <4>1 DEF Block
      <4>5. Block(l - 1, t) - Block(l - 1, now) < Slots
        BY <4>1, <4>2, <4>3, <4>4, DivNest, Zenon DEF Block
      <4>6. l - 1 \in Fits(now, t)
        BY <4>1, <4>5 DEF Fits
      <4>7. Fits(now, t) \subseteq Nat
        BY DEF Fits, Level
      <4>8. l <= l - 1
        BY <4>6, <4>7, MinNat DEF l
      <4> QED BY <2>1, <4>8 DEF Level
    <3>3. Block(0, t) <= Block(0, now)
      BY <2>2, <2>3, <3>2, SMTT(30)
    <3> QED BY <3>1, <3>3 DEF Home
  <2>4. CASE Block(l, t) # Block(l, now)
    <3>1. p = Home("near", l, Block(l, t) % Slots)
      BY <1>3, <2>4 DEF placement
    <3>2. Block(l, t) % Slots \in Slot
      BY <2>2, WheelAssumption, SMTT(30) DEF Slot
    <3>3. Block(l, now) < Block(l, t) /\ Block(l, t) < Block(l, now) + Slots
      BY <2>1, <2>2, <2>4, WheelAssumption, SMTT(30)
    <3>4. p.heap = "near" /\ p.level = l /\ p.slot = Block(l, t) % Slots
      BY <3>1 DEF Home
    <3> HIDE DEF l
    <3> QED BY <2>1, <3>1, <3>2, <3>3, <3>4
  <2> QED BY <2>3, <2>4
<1> QED BY <1>1, <1>2, <1>3

-----------------------------------------------------------------------------
\* An entry is in one of the heaps or in a bucket.
LEMMA EntriesIn ==
    ASSUME NEW r
    PROVE  \A e : e \in Entries(r) <=>
               \/ e \in r.due \/ e \in r.far
               \/ \E l \in Level : \E s \in Slot : e \in r.near[l][s]
BY SMTT(30) DEF Entries

\* push_entry adds what it is given, in a place of its own, and nothing else.
LEMMA PushFacts ==
    ASSUME NEW qq \in Queue, NEW E \in SUBSET Event, IsFiniteSet(E)
    PROVE  LET r == push_entries(qq, E)
           IN  /\ r \in Queue
               /\ Entries(r) = Entries(qq) \cup E
               /\ r.now = qq.now /\ r.cancelled = qq.cancelled
               /\ r.next_seq = qq.next_seq
               /\ NearPlaced(qq) => NearPlaced(r)
               /\ FarPlaced(qq) => FarPlaced(r)
               /\ DuePlaced(qq) => DuePlaced(r)
<1> DEFINE r == push_entries(qq, E)
           home(e) == placement(qq.now, e.time)
           At(l, s) == {e \in E : home(e) = Home("near", l, s)}
           Dued == {e \in E : home(e).heap = "due"}
           Fared == {e \in E : home(e).heap = "far"}
           nearR == [l \in Level |-> [s \in Slot |-> qq.near[l][s] \cup At(l, s)]]
           lenR == [l \in Level |-> qq.level_len[l]
              + Cardinality({e \in E : home(e).heap = "near" /\ home(e).level = l})]
<1>1. r = [qq EXCEPT !.due = @ \cup Dued, !.far = @ \cup Fared,
                     !.near = nearR, !.level_len = lenR]
  BY DEF push_entries
<1>2. /\ r.now = qq.now /\ r.cancelled = qq.cancelled /\ r.next_seq = qq.next_seq
      /\ r.due = qq.due \cup Dued /\ r.far = qq.far \cup Fared
      /\ r.near = nearR /\ r.level_len = lenR
  <2> HIDE DEF Dued, Fared, nearR, lenR, r
  <2> QED BY <1>1 DEF Queue
<1>3. r \in Queue
  <2>1. nearR \in [Level -> [Slot -> SUBSET Event]]
    BY DEF Queue
  <2>2. lenR \in [Level -> Int]
    <3> SUFFICES ASSUME NEW l \in Level
                 PROVE  qq.level_len[l] + Cardinality(
                          {e \in E : home(e).heap = "near" /\ home(e).level = l}) \in Int
      OBVIOUS
    <3>1. IsFiniteSet({e \in E : home(e).heap = "near" /\ home(e).level = l})
      BY FS_Subset
    <3> HIDE DEF home
    <3>2. Cardinality({e \in E : home(e).heap = "near" /\ home(e).level = l}) \in Nat
      BY <3>1, FS_CardinalityType
    <3>3. qq.level_len[l] \in Int
      BY DEF Queue
    <3> QED BY <3>2, <3>3
  <2>3. Dued \subseteq Event /\ Fared \subseteq Event
    OBVIOUS
  <2> HIDE DEF Dued, Fared, nearR, lenR, r
  <2> QED BY <1>1, <2>1, <2>2, <2>3, Zenon DEF Queue
<1>4. \A e \in E : e \in Dued \/ e \in Fared \/ \E l \in Level : \E s \in Slot : e \in At(l, s)
  <2> SUFFICES ASSUME NEW e \in E
               PROVE  e \in Dued \/ e \in Fared
                        \/ \E l \in Level : \E s \in Slot : e \in At(l, s)
    OBVIOUS
  <2>1. qq.now \in Nat /\ e.time \in Nat
    BY DEF Queue, Event
  <2>2. /\ home(e).heap \in {"due", "near", "far"}
        /\ home(e).heap = "near" => /\ home(e).level \in Level /\ home(e).slot \in Slot
                                    /\ home(e) = Home("near", home(e).level, home(e).slot)
    BY <2>1, PlacementFacts
  <2> QED BY <2>2
<1>5. Entries(r) = Entries(qq) \cup E
  <2>1. \A l \in Level : \A s \in Slot : r.near[l][s] = qq.near[l][s] \cup At(l, s)
    BY <1>2, SMTT(30)
  <2> HIDE DEF r, home
  <2>2. \A e : e \in Entries(r) <=> e \in Entries(qq) \/ e \in E
    BY <1>2, <1>4, <2>1, EntriesIn, SMTT(30)
  <2> QED BY <2>2, SMTT(30)
<1>6. ASSUME NearPlaced(qq) PROVE NearPlaced(r)
  <2>1. ASSUME NEW l \in Level, NEW s \in Slot, NEW e \in r.near[l][s]
        PROVE  /\ s = Block(l, e.time) % Slots
               /\ Block(l, r.now) < Block(l, e.time)
               /\ Block(l, e.time) < Block(l, r.now) + Slots
    <3>1. CASE e \in qq.near[l][s]
      BY SMTT(30), <3>1, <1>6, <1>2 DEF NearPlaced
    <3>2. CASE e \in At(l, s)
      <4>1. home(e) = Home("near", l, s) /\ qq.now \in Nat /\ e.time \in Nat
        BY <3>2 DEF Queue, Event
      <4>2. home(e).heap = "near" /\ home(e).level = l /\ home(e).slot = s
        BY <4>1 DEF Home
      <4> QED BY <4>1, <4>2, <1>2, PlacementFacts, SMTT(30)
    <3> QED BY <3>1, <3>2, <2>1, <1>2, SMTT(30)
  <2> HIDE DEF r
  <2> QED BY <2>1, SMTT(30) DEF NearPlaced
<1>7. ASSUME FarPlaced(qq) PROVE FarPlaced(r)
  <2>1. ASSUME NEW e \in r.far
        PROVE  Block(Levels - 1, e.time) >= Block(Levels - 1, r.now) + Slots
    <3>1. CASE e \in qq.far
      BY <3>1, <1>7, <1>2, SMTT(30) DEF FarPlaced
    <3>2. CASE e \in Fared
      <4>1. home(e).heap = "far" /\ qq.now \in Nat /\ e.time \in Nat
        BY <3>2 DEF Queue, Event
      <4> QED BY <4>1, <1>2, PlacementFacts
    <3> QED BY <3>1, <3>2, <2>1, <1>2, SMTT(30)
  <2> HIDE DEF r
  <2> QED BY <2>1, SMTT(30) DEF FarPlaced
<1>8. ASSUME DuePlaced(qq) PROVE DuePlaced(r)
  <2>1. ASSUME NEW e \in r.due PROVE Block(0, e.time) <= Block(0, r.now)
    <3>1. CASE e \in qq.due
      BY <3>1, <1>8, <1>2, SMTT(30) DEF DuePlaced
    <3>2. CASE e \in Dued
      <4>1. home(e).heap = "due" /\ qq.now \in Nat /\ e.time \in Nat
        BY <3>2 DEF Queue, Event
      <4> QED BY <4>1, <1>2, PlacementFacts
    <3> QED BY <3>1, <3>2, <2>1, <1>2, SMTT(30)
  <2> HIDE DEF r
  <2> QED BY <2>1, SMTT(30) DEF DuePlaced
<1> HIDE DEF r
<1> QED BY <1>2, <1>3, <1>5, <1>6, <1>7, <1>8 DEF r

-----------------------------------------------------------------------------
\* An entry the sweep of its level does not reach is still ahead by less than
\* a turn; the position it is ahead of is the new one.
LEMMA NotPassed ==
    ASSUME NEW l \in Level, NEW from \in Nat, NEW to \in Nat, from <= to, NEW t \in Nat,
           Block(l, from) < Block(l, t), Block(l, t) < Block(l, from) + Slots,
           Block(l, t) % Slots \notin Passed(l, from, to)
    PROVE  Block(l, to) < Block(l, t) /\ Block(l, t) < Block(l, to) + Slots
<1> DEFINE old == Block(l, from)
           new == Block(l, to)
           b == Block(l, t)
           steps == Min({new - old, Slots})
<1>1. old \in Nat /\ new \in Nat /\ b \in Nat /\ old <= new /\ Slots \in Nat /\ Slots > 1
  BY BlockMono, WheelAssumption
<1>2. steps \in {new - old, Slots} /\ steps <= new - old /\ steps <= Slots
  <2>1. {new - old, Slots} \subseteq Nat /\ {new - old, Slots} # {}
    BY <1>1
  <2> HIDE DEF new, old
  <2> QED BY <2>1, MinNat
<1>3. Passed(l, from, to) = {(old + i) % Slots : i \in 1 .. steps}
  BY DEF Passed
<1> HIDE DEF old, new, b, steps
<1>4. ASSUME b <= old + steps PROVE FALSE
  <2>1. b - old \in 1 .. steps /\ old + (b - old) = b
    BY <1>1, <1>2, <1>4 DEF b, old
  <2>2. b % Slots \in Passed(l, from, to)
    BY <2>1, <1>3
  <2> QED BY <2>2 DEF b
<1>5. b < old + Slots /\ old < b
  BY DEF b, old
<1> QED BY <1>1, <1>2, <1>4, <1>5, SMTT(30) DEF b, new, old

\* An entry the sweep of its level does reach is in a block entered or passed.
LEMMA OnlyPassed ==
    ASSUME NEW l \in Level, NEW from \in Nat, NEW to \in Nat, from <= to, NEW t \in Nat,
           Block(l, from) < Block(l, t), Block(l, t) < Block(l, from) + Slots,
           Block(l, t) % Slots \in Passed(l, from, to)
    PROVE  Block(l, t) <= Block(l, to)
<1> DEFINE old == Block(l, from)
           new == Block(l, to)
           b == Block(l, t)
           steps == Min({new - old, Slots})
<1>1. old \in Nat /\ new \in Nat /\ b \in Nat /\ old <= new /\ Slots \in Nat /\ Slots > 1
  BY BlockMono, WheelAssumption
<1>2. steps \in {new - old, Slots} /\ steps <= new - old /\ steps <= Slots
  <2>1. {new - old, Slots} \subseteq Nat /\ {new - old, Slots} # {}
    BY <1>1
  <2> HIDE DEF new, old
  <2> QED BY <2>1, MinNat
<1>3. PICK i \in 1 .. steps : b % Slots = (old + i) % Slots
  BY Zenon DEF Passed
<1>4. b < old + Slots /\ old < b
  OBVIOUS
<1> HIDE DEF old, new, b, steps
<1>5. i \in Nat /\ i > 0 /\ i <= Slots /\ old + i <= new
  BY <1>1, <1>2, <1>3
<1>6. ASSUME b > new PROVE FALSE
  <2>1. old + i < b /\ b < (old + i) + Slots /\ old + i \in Nat
    BY <1>1, <1>4, <1>5, <1>6
  <2>2. (old + i) % Slots = b % Slots /\ Slots \in Nat \ {0}
    BY <1>1, <1>3 DEF b
  <2> HIDE <1>3
  <2> QED BY <1>1, <2>1, <2>2, ModInjective, Zenon
<1> QED BY <1>1, <1>6 DEF b, new

\* The sweep keeps every entry and leaves the wheel in order.
LEMMA SweepFacts ==
    ASSUME NEW qq \in Queue, IsFiniteSet(Entries(qq)), NearPlaced(qq), DuePlaced(qq),
           NEW to \in Nat, qq.now < to
    PROVE  LET r == sweep(qq, to)
           IN  /\ r \in Queue
               /\ Entries(r) = Entries(qq)
               /\ r.now = to /\ r.cancelled = qq.cancelled
               /\ r.next_seq = qq.next_seq
               /\ NearPlaced(r) /\ DuePlaced(r)
<1> DEFINE nearS == [l \in Level |-> [s \in Slot |->
                      IF s \in Passed(l, qq.now, to) THEN {} ELSE qq.near[l][s]]]
           lenS == [l \in Level |-> qq.level_len[l] - Cardinality(Drained(qq, l, to))]
           dueS == Drained(qq, 0, to)
           E == UNION {Drained(qq, l, to) : l \in Level \ {0}}
           w == [qq EXCEPT !.now = to, !.due = @ \cup dueS,
                           !.near = nearS, !.level_len = lenS]
<1>1. sweep(qq, to) = push_entries(w, E)
  BY DEF sweep
<1>2. \A l \in Level : Passed(l, qq.now, to) \subseteq Slot
  <2> SUFFICES ASSUME NEW l \in Level, NEW i \in Nat
               PROVE  (Block(l, qq.now) + i) % Slots \in Slot
    <3>1. \A l \in Level : Min({Block(l, to) - Block(l, qq.now), Slots}) \in Nat
      <4> TAKE l \in Level
      <4>1. qq.now \in Nat /\ qq.now <= to
        BY DEF Queue
      <4>2. Block(l, to) \in Nat /\ Block(l, qq.now) \in Nat /\ Block(l, qq.now) <= Block(l, to)
        BY <4>1, BlockMono
      <4>3. {Block(l, to) - Block(l, qq.now), Slots} \subseteq Nat
        BY <4>2, WheelAssumption
      <4> QED BY <4>3, MinNat, Zenon
    <3> QED BY <3>1 DEF Passed
  <2>1. Block(l, qq.now) \in Nat /\ Slots \in Nat \ {0}
    BY BlockMono, WheelAssumption DEF Queue
  <2> QED BY <2>1 DEF Slot
<1>3. \A l \in Level : Drained(qq, l, to) \subseteq Entries(qq)
  BY <1>2, EntriesIn, SMTT(30) DEF Drained
<1>4. Entries(qq) \subseteq Event
  BY EntriesIn DEF Queue
<1>5. 0 \in Level
  BY WheelAssumption DEF Level
<1>6. /\ w.now = to /\ w.due = qq.due \cup dueS /\ w.near = nearS
      /\ w.level_len = lenS /\ w.far = qq.far
      /\ w.cancelled = qq.cancelled /\ w.next_seq = qq.next_seq
  <2> HIDE DEF nearS, lenS, dueS
  <2> QED BY DEF Queue
<1>7. w \in Queue
  <2>1. nearS \in [Level -> [Slot -> SUBSET Event]]
    BY DEF Queue
  <2>2. lenS \in [Level -> Int]
    <3> SUFFICES ASSUME NEW l \in Level
                 PROVE  qq.level_len[l] - Cardinality(Drained(qq, l, to)) \in Int
      OBVIOUS
    <3>1. Cardinality(Drained(qq, l, to)) \in Nat
      BY <1>3, FS_Subset, FS_CardinalityType
    <3>2. qq.level_len[l] \in Int
      BY DEF Queue
    <3> QED BY <3>1, <3>2, SMTT(30)
  <2>3. dueS \subseteq Event
    BY <1>3, <1>4, <1>5, SMTT(30)
  <2> HIDE DEF nearS, lenS, dueS
  <2> QED BY <2>1, <2>2, <2>3, Zenon DEF Queue
<1>8. E \subseteq Entries(qq) /\ E \in SUBSET Event /\ IsFiniteSet(E)
  <2>1. E \subseteq Entries(qq)
    BY <1>3, SMTT(30)
  <2> HIDE DEF E
  <2> QED BY <2>1, <1>4, FS_Subset, SMTT(30)
<1>9. NearPlaced(w)
  <2> SUFFICES ASSUME NEW l \in Level, NEW s \in Slot, NEW e \in w.near[l][s]
               PROVE  /\ s = Block(l, e.time) % Slots
                      /\ Block(l, to) < Block(l, e.time)
                      /\ Block(l, e.time) < Block(l, to) + Slots
    <3> HIDE DEF w
    <3> QED BY <1>6 DEF NearPlaced
  <2>1. s \notin Passed(l, qq.now, to) /\ e \in qq.near[l][s]
    BY <1>6
  <2>2. /\ s = Block(l, e.time) % Slots /\ Block(l, qq.now) < Block(l, e.time)
        /\ Block(l, e.time) < Block(l, qq.now) + Slots
    BY <2>1 DEF NearPlaced
  <2>3. qq.now \in Nat /\ e.time \in Nat /\ qq.now <= to
    BY <2>1 DEF Queue, Event
  <2> QED BY <2>1, <2>2, <2>3, NotPassed, SMTT(30)
<1>10. Entries(w) \cup E = Entries(qq)
  <2>1. \A l \in Level : \A s \in Slot : w.near[l][s] =
            IF s \in Passed(l, qq.now, to) THEN {} ELSE qq.near[l][s]
    BY <1>6
  <2>2. \A l \in Level : \A s \in Slot : \A e \in qq.near[l][s] :
            s \in Passed(l, qq.now, to) => e \in dueS \/ e \in E
    <3>1. \A l \in Level : \A s \in Slot : \A e \in qq.near[l][s] :
            s \in Passed(l, qq.now, to) => e \in Drained(qq, l, to)
      BY DEF Drained
    <3> QED BY <3>1
  <2>3. dueS \subseteq Entries(qq)
    BY <1>3, <1>5, SMTT(30)
  <2> HIDE DEF w, dueS, E
  <2>4. \A e : e \in Entries(w) \/ e \in E <=> e \in Entries(qq)
    BY <1>6, <1>8, <2>1, <2>2, <2>3, EntriesIn, SMTT(30)
  <2> QED BY <2>4
<1>13. DuePlaced(w)
  <2> SUFFICES ASSUME NEW e \in qq.due \cup dueS
               PROVE  Block(0, e.time) <= Block(0, to)
    <3> HIDE DEF w, dueS
    <3> QED BY <1>6 DEF DuePlaced
  <2>1. qq.now \in Nat /\ qq.now <= to
    BY DEF Queue
  <2>2. CASE e \in qq.due
    <3>1. Block(0, e.time) <= Block(0, qq.now) /\ e.time \in Nat
      BY <2>2 DEF DuePlaced, Queue, Event
    <3>2. /\ Block(0, qq.now) <= Block(0, to) /\ Block(0, e.time) \in Nat
          /\ Block(0, qq.now) \in Nat /\ Block(0, to) \in Nat
      BY <1>5, <2>1, <3>1, BlockMono, SMTT(30)
    <3> QED BY <3>1, <3>2
  <2>3. CASE e \in dueS
    <3>1. PICK s \in Passed(0, qq.now, to) : e \in qq.near[0][s]
      BY <2>3 DEF Drained
    <3>2. s \in Slot
      BY <1>2, <1>5, <3>1, SMTT(30)
    <3>3. /\ s = Block(0, e.time) % Slots /\ Block(0, qq.now) < Block(0, e.time)
          /\ Block(0, e.time) < Block(0, qq.now) + Slots /\ e.time \in Nat
      BY <1>5, <3>1, <3>2, SMTT(30) DEF NearPlaced, Queue, Event
    <3> QED BY <1>5, <2>1, <3>1, <3>3, OnlyPassed, SMTT(30)
  <2> QED BY <2>2, <2>3, SMTT(30)
<1> HIDE DEF w, E
<1>11. LET r == push_entries(w, E)
       IN  /\ r \in Queue /\ Entries(r) = Entries(w) \cup E
           /\ r.now = w.now /\ r.cancelled = w.cancelled /\ r.next_seq = w.next_seq
           /\ NearPlaced(w) => NearPlaced(r)
           /\ DuePlaced(w) => DuePlaced(r)
  BY <1>7, <1>8, PushFacts, SMTT(30)
<1>12. /\ w.now = to /\ w.cancelled = qq.cancelled /\ w.next_seq = qq.next_seq
  BY <1>6, SMTT(30)
<1> QED BY <1>1, <1>9, <1>10, <1>11, <1>12, <1>13, SMTT(30)

\* The far heap is in order once its head is: the events behind it are later.
LEMMA PullFacts ==
    ASSUME NEW qq \in Queue, IsFiniteSet(Entries(qq)), NearPlaced(qq), DuePlaced(qq)
    PROVE  LET r == pull(qq)
           IN  /\ r \in Queue
               /\ Entries(r) = Entries(qq)
               /\ r.now = qq.now /\ r.cancelled = qq.cancelled
               /\ r.next_seq = qq.next_seq
               /\ NearPlaced(r) /\ FarPlaced(r) /\ DuePlaced(r)
<1> DEFINE E == Pulled(qq)
           w == [qq EXCEPT !.far = @ \ E]
<1>1. pull(qq) = push_entries(w, E)
  BY SMTT(30) DEF pull
<1>2. E \subseteq qq.far
  BY DEF Pulled
<1>3. E \in SUBSET Event /\ IsFiniteSet(E)
  <2>1. E \subseteq Entries(qq)
    BY <1>2, EntriesIn
  <2> HIDE DEF E
  <2> QED BY <1>2, <2>1, FS_Subset, SMTT(30) DEF Queue
<1>4. /\ w \in Queue /\ w.now = qq.now /\ w.due = qq.due /\ w.near = qq.near
      /\ w.far = qq.far \ E /\ w.cancelled = qq.cancelled /\ w.next_seq = qq.next_seq
  <2> HIDE DEF E
  <2> QED BY SMTT(30) DEF Queue
<1>5. NearPlaced(w) /\ DuePlaced(w)
  <2> HIDE DEF w
  <2> QED BY <1>4 DEF NearPlaced, DuePlaced
<1>6. FarPlaced(w)
  <2> SUFFICES ASSUME NEW e \in qq.far, e \notin E
               PROVE  Block(Levels - 1, e.time) >= Block(Levels - 1, qq.now) + Slots
    <3> HIDE DEF w, E
    <3> QED BY <1>4 DEF FarPlaced
  <2>1. PICK f \in qq.far : /\ f = e \/ Before(f, e)
                            /\ placement(qq.now, f.time).heap = "far"
    BY DEF Pulled
  <2>2. f.time \in Nat /\ e.time \in Nat /\ qq.now \in Nat /\ f.time <= e.time
    BY <2>1, SMTT(30) DEF Queue, Event, Before
  <2>3. Block(Levels - 1, f.time) >= Block(Levels - 1, qq.now) + Slots
    BY <2>1, <2>2, PlacementFacts
  <2>4. Levels - 1 \in Level /\ Slots \in Nat
    BY WheelAssumption DEF Level
  <2>5. /\ Block(Levels - 1, f.time) <= Block(Levels - 1, e.time)
        /\ Block(Levels - 1, f.time) \in Nat /\ Block(Levels - 1, e.time) \in Nat
        /\ Block(Levels - 1, qq.now) \in Nat
    BY <2>2, <2>4, BlockMono
  <2> QED BY <2>3, <2>4, <2>5
<1>7. Entries(w) \cup E = Entries(qq)
  <2> HIDE DEF w, E
  <2>1. \A e : e \in Entries(w) \/ e \in E <=> e \in Entries(qq)
    BY <1>2, <1>4, EntriesIn, SMTT(30)
  <2> QED BY <2>1
<1> HIDE DEF w, E
<1>8. LET r == push_entries(w, E)
      IN  /\ r \in Queue /\ Entries(r) = Entries(w) \cup E
          /\ r.now = w.now /\ r.cancelled = w.cancelled /\ r.next_seq = w.next_seq
          /\ NearPlaced(w) => NearPlaced(r)
          /\ FarPlaced(w) => FarPlaced(r)
          /\ DuePlaced(w) => DuePlaced(r)
  BY <1>3, <1>4, PushFacts, SMTT(30)
<1> QED BY <1>1, <1>4, <1>5, <1>6, <1>7, <1>8

\* advance_to moves the position, never backwards, and loses no entry.
LEMMA AdvanceFacts ==
    ASSUME NEW qq \in Queue, IsFiniteSet(Entries(qq)), NearPlaced(qq), FarPlaced(qq),
           DuePlaced(qq), NEW to \in Nat
    PROVE  LET r == advance_to(qq, to)
           IN  /\ r \in Queue
               /\ Entries(r) = Entries(qq)
               /\ r.now = IF to > qq.now THEN to ELSE qq.now
               /\ r.cancelled = qq.cancelled /\ r.next_seq = qq.next_seq
               /\ NearPlaced(r) /\ FarPlaced(r) /\ DuePlaced(r)
<1>0. qq.now \in Nat
  BY DEF Queue
<1>1. CASE to <= qq.now
  BY <1>0, <1>1 DEF advance_to
<1>2. CASE to > qq.now /\ to \div Granule = qq.now \div Granule
  <2> DEFINE r == [qq EXCEPT !.now = to]
  <2>1. advance_to(qq, to) = r
    BY <1>0, <1>2 DEF advance_to
  <2>2. /\ r \in Queue /\ r.now = to /\ r.due = qq.due /\ r.near = qq.near /\ r.far = qq.far
        /\ r.cancelled = qq.cancelled /\ r.next_seq = qq.next_seq
    BY SMTT(30) DEF Queue
  <2> HIDE DEF r
  <2>3. \A l \in Level : Block(l, to) = Block(l, qq.now)
    BY <1>2, SMTT(30) DEF Block
  <2>4. NearPlaced(r)
    BY SMTT(30), <2>2, <2>3 DEF NearPlaced
  <2>5. FarPlaced(r)
    <3>1. Levels - 1 \in Level
      BY SMTT(30), WheelAssumption DEF Level
    <3> QED BY <2>2, <2>3, <3>1, SMTT(30) DEF FarPlaced
  <2>6. Entries(r) = Entries(qq)
    BY <2>2 DEF Entries
  <2>7. DuePlaced(r)
    <3>1. 0 \in Level
      BY WheelAssumption DEF Level
    <3> QED BY <2>2, <2>3, <3>1, SMTT(30) DEF DuePlaced
  <2> QED BY <1>2, <2>1, <2>2, <2>4, <2>5, <2>6, <2>7, SMTT(30)
<1>3. CASE to > qq.now /\ to \div Granule # qq.now \div Granule
  <2> DEFINE w == sweep(qq, to)
  <2>1. advance_to(qq, to) = pull(w)
    BY <1>0, <1>3 DEF advance_to
  <2>2. /\ w \in Queue /\ Entries(w) = Entries(qq) /\ w.now = to
        /\ w.cancelled = qq.cancelled /\ w.next_seq = qq.next_seq
        /\ NearPlaced(w) /\ DuePlaced(w)
    BY <1>0, <1>3, SweepFacts, SMTT(30)
  <2> HIDE DEF w
  <2>3. LET r == pull(w)
        IN  /\ r \in Queue /\ Entries(r) = Entries(w)
            /\ r.now = w.now /\ r.cancelled = w.cancelled /\ r.next_seq = w.next_seq
            /\ NearPlaced(r) /\ FarPlaced(r) /\ DuePlaced(r)
    BY <2>2, PullFacts, SMTT(30)
  <2> QED BY <1>3, <2>1, <2>2, <2>3
<1> QED BY <1>0, <1>1, <1>2, <1>3, SMTT(30)

-----------------------------------------------------------------------------
\* Once the queue has moved to t, whatever is not in `due` is after t.
LEMMA OnlyDueIsDue ==
    ASSUME NEW qq \in Queue, NearPlaced(qq), FarPlaced(qq), NEW t \in Nat, t <= qq.now,
           NEW e \in Entries(qq), e.time <= t
    PROVE  e \in qq.due
<1>1. qq.now \in Nat /\ Slots \in Nat /\ Slots > 1 /\ Levels - 1 \in Level
  BY WheelAssumption DEF Queue, Level
<1>2. ASSUME NEW l \in Level, NEW s \in Slot, e \in qq.near[l][s] PROVE FALSE
  <2>1. Block(l, qq.now) < Block(l, e.time) /\ e.time \in Nat
    BY <1>2 DEF NearPlaced, Queue, Event
  <2> QED BY <1>1, <2>1, BlockMono, SMTT(30)
<1>3. ASSUME e \in qq.far PROVE FALSE
  <2>1. Block(Levels - 1, e.time) >= Block(Levels - 1, qq.now) + Slots /\ e.time \in Nat
    BY <1>3, SMTT(30) DEF FarPlaced, Queue, Event
  <2>2. Block(Levels - 1, qq.now) \in Nat /\ Block(Levels - 1, e.time) \in Nat
    BY <1>1, <2>1, BlockMono, SMTT(30)
  <2> QED BY <1>1, <2>1, <2>2, BlockMono, SMTT(30)
<1> QED BY <1>2, <1>3, EntriesIn

\* A due entry is in the due heap only.
LEMMA DueApart ==
    ASSUME NEW qq \in Queue, NearPlaced(qq), FarPlaced(qq), DuePlaced(qq), NEW e \in qq.due
    PROVE  /\ e \notin qq.far
           /\ \A l \in Level : \A s \in Slot : e \notin qq.near[l][s]
<1>1. qq.now \in Nat /\ e.time \in Nat /\ Slots \in Nat \ {0} /\ Granule \in Nat \ {0}
  BY WheelAssumption, SMTT(30) DEF Queue, Event
<1>2. e.time \div Granule \in Nat /\ qq.now \div Granule \in Nat
  BY <1>1, DivMono, SMTT(30)
<1>3. e.time \div Granule <= qq.now \div Granule
  <2>1. Block(0, e.time) <= Block(0, qq.now)
    BY DEF DuePlaced
  <2> QED BY <1>2, <2>1, WheelAssumption, SMTT(30) DEF Block
<1>4. \A l \in Level : Block(l, e.time) <= Block(l, qq.now)
  <2> TAKE l \in Level
  <2>1. Span[l] \in Nat \ {0}
    BY WheelAssumption, SMTT(30)
  <2> QED BY <1>2, <1>3, <2>1, DivMono, SMTT(30) DEF Block
<1>5. \A l \in Level : Block(l, e.time) \in Nat /\ Block(l, qq.now) \in Nat
  BY <1>1, BlockMono
<1>6. e \notin qq.far
  <2>1. Levels - 1 \in Level
    BY WheelAssumption, SMTT(30) DEF Level
  <2> QED BY <1>1, <1>4, <1>5, <2>1, SMTT(30) DEF FarPlaced
<1>7. ASSUME NEW l \in Level, NEW s \in Slot PROVE e \notin qq.near[l][s]
  BY SMTT(30), <1>4, <1>5 DEF NearPlaced
<1> QED BY <1>6, <1>7

\* Taking entries out of the due heap, with their tombstones, takes nothing
\* else and revives nothing.
LEMMA RemoveFacts ==
    ASSUME NEW qq \in Queue, NearPlaced(qq), FarPlaced(qq), DuePlaced(qq), Numbered(qq),
           NEW D \in SUBSET qq.due
    PROVE  LET w == [qq EXCEPT !.due = @ \ D, !.cancelled = @ \ {e.id : e \in D}]
           IN  /\ w \in Queue /\ w.now = qq.now /\ w.next_seq = qq.next_seq
               /\ Entries(w) = Entries(qq) \ D
               /\ events(w) = events(qq) \ D
               /\ NearPlaced(w) /\ FarPlaced(w) /\ DuePlaced(w) /\ Numbered(w)
<1> DEFINE I == {e.id : e \in D}
           w == [qq EXCEPT !.due = @ \ D, !.cancelled = @ \ I]
<1>1. /\ w \in Queue /\ w.now = qq.now /\ w.next_seq = qq.next_seq
      /\ w.due = qq.due \ D /\ w.cancelled = qq.cancelled \ I
      /\ w.near = qq.near /\ w.far = qq.far
  <2> HIDE DEF I
  <2> QED BY Zenon DEF Queue
<1> HIDE DEF w
<1>2. NearPlaced(w) /\ FarPlaced(w) /\ DuePlaced(w)
  BY <1>1, SMTT(30) DEF NearPlaced, FarPlaced, DuePlaced
<1>3. Entries(w) = Entries(qq) \ D
  <2>1. \A e : e \in Entries(w) <=> e \in Entries(qq) /\ e \notin D
    BY <1>1, EntriesIn, DueApart, SMTT(30)
  <2> QED BY <2>1, SMTT(30)
<1>4. D \subseteq Entries(qq)
  BY EntriesIn, SMTT(30)
<1>5. \A e \in Entries(qq) \ D : e.id \notin I
  BY <1>4 DEF Numbered, Duplicated
<1>6. events(w) = events(qq) \ D
  BY <1>1, <1>3, <1>5, SMTT(30) DEF events, Live
<1>7. Numbered(w)
  BY <1>1, <1>3, SMTT(30) DEF Numbered, Duplicated
<1> QED BY <1>1, <1>2, <1>3, <1>6, <1>7, Zenon DEF w

-----------------------------------------------------------------------------
\* The inductive invariant.
Inv ==
    /\ TypeOK
    /\ IsFiniteSet(Entries(q)) /\ IsFiniteSet(saved.events)
    /\ WheelInv
    /\ UniqueIds
    /\ ValidSnapshot(saved)

\* Every step: the invariant is kept, and the step is one of the abstract
\* queue's or changes nothing there.
LEMMA AdvanceStep ==
    ASSUME Inv, NEW t \in Times
    PROVE  LET r == advance_to(q, t)
           IN  /\ r \in Queue /\ Entries(r) = Entries(q) /\ events(r) = events(q)
               /\ r.now = IF t > q.now THEN t ELSE q.now
               /\ r.next_seq = q.next_seq
               /\ NearPlaced(r) /\ FarPlaced(r) /\ DuePlaced(r) /\ Numbered(r)
<1> DEFINE r == advance_to(q, t)
<1>1. t \in Nat
  BY CallerAssumption, SMTT(30)
<1>2. /\ r \in Queue /\ Entries(r) = Entries(q)
      /\ r.now = IF t > q.now THEN t ELSE q.now
      /\ r.cancelled = q.cancelled /\ r.next_seq = q.next_seq
      /\ NearPlaced(r) /\ FarPlaced(r) /\ DuePlaced(r)
  BY <1>1, AdvanceFacts, SMTT(30) DEF Inv, TypeOK, WheelInv
<1> HIDE DEF r
<1>3. events(r) = events(q) /\ Numbered(r)
  BY <1>2 DEF events, Live, Numbered, Inv, UniqueIds
<1> QED BY <1>2, <1>3, SMTT(30) DEF r

\* pop_due: advance, then discard tombstoned heads up to the first live event.
LEMMA PopStep ==
    ASSUME Inv, NEW t \in Times, PopDue(t)
    PROVE  Inv' /\ A!Pop(t)
<1> DEFINE r == advance_to(q, t)
           D == Discarded(r, t)
           L == Live(r, DueAt(r, t))
<1>1. /\ r \in Queue /\ Entries(r) = Entries(q) /\ events(r) = events(q)
      /\ r.now = IF t > q.now THEN t ELSE q.now
      /\ r.next_seq = q.next_seq
      /\ NearPlaced(r) /\ FarPlaced(r) /\ DuePlaced(r) /\ Numbered(r)
  BY AdvanceStep
<1>2. out' = popped(r, t) /\ q' = pop(r, t) /\ saved' = saved
  BY DEF PopDue
<1>3. t \in Nat /\ t <= r.now /\ r.now \in Nat
  <2>1. t \in Nat /\ q.now \in Nat
    BY CallerAssumption, SMTT(30) DEF Inv, TypeOK, Queue
  <2> QED BY <1>1, <2>1
<1> HIDE DEF r
<1>4. D \in SUBSET r.due
  BY SMTT(30) DEF Discarded, DueAt
<1>5. /\ q' \in Queue /\ q'.now = r.now /\ q'.next_seq = r.next_seq
      /\ Entries(q') = Entries(r) \ D /\ events(q') = events(r) \ D
      /\ NearPlaced(q') /\ FarPlaced(q') /\ DuePlaced(q') /\ Numbered(q')
  <2>1. q' = [r EXCEPT !.due = @ \ D, !.cancelled = @ \ {e.id : e \in D}]
    BY <1>2, SMTT(30) DEF pop
  <2> HIDE DEF D
  <2> QED BY <1>1, <1>4, <2>1, RemoveFacts, Zenon
<1>6. \A e \in events(r) : e.time <= t => e \in L
  <2> TAKE e \in events(r)
  <2>1. e \in Entries(r) /\ e.id \notin r.cancelled
    BY SMTT(30) DEF events, Live
  <2>2. e.time <= t => e \in r.due
    BY <1>1, <1>3, <2>1, OnlyDueIsDue, SMTT(30)
  <2> QED BY <2>1, <2>2 DEF Live, DueAt
<1>7. L \subseteq events(r) /\ L \subseteq D \cup {e \in L : Before(popped(r, t), e)}
      /\ \A e \in L : e.time <= t
  BY EntriesIn, SMTT(30) DEF Live, DueAt, events, Discarded
<1>8. events(r) \subseteq Event /\ L \subseteq Event
  BY <1>1, <1>7, EntriesIn, SMTT(30) DEF events, Live, Queue
<1>9. A!Pop(t) /\ out' \in Event \cup {NoEvent}
  <2>1. CASE L = {}
    <3>1. out' = NoEvent
      BY <1>2, <2>1 DEF popped
    <3>2. events(q') = events(q) /\ \A e \in events(q) : ~(e.time <= t)
      <4>1. \A e \in events(r) : ~(e.time <= t)
        BY <1>6, <2>1, SMTT(30)
      <4>2. \A e \in D : e.time <= t
        BY DEF Discarded, DueAt
      <4> QED BY <1>1, <1>5, <4>1, <4>2, SMTT(30)
    <3>3. \A e \in events(q) : e.time > t
      BY <1>1, <1>3, <1>8, <3>2, SMTT(30) DEF Event
    <3> QED BY <1>1, <1>2, <1>5, <3>1, <3>2, <3>3, SMTT(30) DEF A!Pop, A!NoEvent, NoEvent, NoTime
  <2>2. CASE L # {}
    <3>1. out' = Earliest(L)
      BY <1>2, <2>2, SMTT(30) DEF popped
    <3>2. out' \in L /\ \A f \in L : f = out' \/ Before(out', f)
      BY <1>8, <2>2, <3>1, EarliestExists, SMTT(30)
    <3>3. \A f \in events(q) : f = out' \/ A!Earlier(out', f)
      <4> SUFFICES ASSUME NEW f \in events(r) PROVE f = out' \/ Before(out', f)
        BY <1>1 DEF A!Earlier, Before
      <4>1. CASE f.time <= t
        BY <1>6, <3>2, <4>1, SMTT(30)
      <4>2. CASE ~(f.time <= t)
        <5>1. out'.time <= t /\ out'.time \in Nat /\ f.time \in Nat
          BY <1>7, <1>8, <3>2, SMTT(30) DEF Event
        <5> QED BY <1>3, <4>2, <5>1, SMTT(30) DEF Before
      <4> QED BY <4>1, <4>2
    <3>4. events(q') = events(q) \ {out'}
      <4>1. ASSUME NEW e \in events(r), e \in D PROVE e = out'
        <5>1. e \in L
          BY <1>6, <4>1, SMTT(30) DEF Discarded, DueAt
        <5>2. out' # NoEvent
          BY <1>8, <3>2, SMTT(30) DEF Event, NoEvent, NoTime
        <5>3. ~Before(out', e)
          BY <1>2, <4>1, <5>2, SMTT(30) DEF Discarded
        <5> QED BY <3>2, <5>1, <5>3, SMTT(30)
      <4>2. out' \in D
        <5>1. ~Before(out', out')
          BY <1>8, <3>2, BeforeStrict, SMTT(30)
        <5>2. out' \in DueAt(r, t)
          BY <3>2, SMTT(30) DEF Live
        <5> QED BY <1>2, <5>1, <5>2, SMTT(30) DEF Discarded
      <4> HIDE DEF D, L
      <4> QED BY <1>1, <1>5, <4>1, <4>2, SMTT(30)
    <3>5. out' \in events(q) /\ out'.time <= t /\ out' \in Event
      BY <1>1, <1>7, <1>8, <3>2, SMTT(30)
    <3> QED BY <1>1, <1>2, <1>5, <3>3, <3>4, <3>5, SMTT(30) DEF A!Pop, A!IsNext
  <2> QED BY <2>1, <2>2, SMTT(30)
<1>10. Inv'
  <2>1. IsFiniteSet(Entries(q'))
    <3>1. Entries(q') \subseteq Entries(q)
      BY <1>1, <1>5
    <3> QED BY <3>1, FS_Subset, SMTT(30) DEF Inv
  <2> QED BY SMTT(30), <1>2, <1>5, <1>9, <2>1 DEF Inv, TypeOK, WheelInv, UniqueIds
<1> QED BY <1>9, <1>10, SMTT(30)

\* schedule: a fresh number, one entry placed against the position.
LEMMA ScheduleStep ==
    ASSUME Inv, NEW t \in Times, Schedule(t)
    PROVE  Inv' /\ A!Schedule(t)
<1> DEFINE w == [q EXCEPT !.next_seq = @ + 1]
           e == [time |-> t, id |-> q.next_seq]
<1>1. q' = push_entries(w, {e}) /\ out' = out /\ saved' = saved
  BY SMTT(30) DEF Schedule, schedule
<1>2. t \in Nat /\ q \in Queue /\ q.next_seq \in Nat
  BY CallerAssumption DEF Inv, TypeOK, Queue
<1>3. {e} \in SUBSET Event /\ IsFiniteSet({e}) /\ e.id = q.next_seq
  <2>1. e \in Event /\ e.id = q.next_seq
    BY <1>2 DEF Event
  <2> HIDE DEF e
  <2> QED BY <2>1, FS_Singleton, Zenon
<1>4. /\ w \in Queue /\ w.now = q.now /\ w.next_seq = q.next_seq + 1
      /\ w.due = q.due /\ w.near = q.near /\ w.far = q.far /\ w.cancelled = q.cancelled
  BY <1>2, SMTT(30) DEF Queue
<1> HIDE DEF w, e
<1>5. Entries(w) = Entries(q) /\ NearPlaced(w) /\ FarPlaced(w) /\ DuePlaced(w)
  BY <1>4, SMTT(30) DEF Entries, NearPlaced, FarPlaced, DuePlaced, Inv, WheelInv
<1>6. /\ q' \in Queue /\ Entries(q') = Entries(q) \cup {e}
      /\ q'.now = q.now /\ q'.cancelled = q.cancelled /\ q'.next_seq = q.next_seq + 1
      /\ NearPlaced(q') /\ FarPlaced(q') /\ DuePlaced(q')
  <2>1. LET r == push_entries(w, {e})
        IN  /\ r \in Queue /\ Entries(r) = Entries(w) \cup {e}
            /\ r.now = w.now /\ r.cancelled = w.cancelled /\ r.next_seq = w.next_seq
            /\ NearPlaced(w) => NearPlaced(r)
            /\ FarPlaced(w) => FarPlaced(r)
            /\ DuePlaced(w) => DuePlaced(r)
    BY ZenonT(30), <1>3, <1>4, PushFacts
  <2> QED BY SMTT(30), <1>1, <1>4, <1>5, <2>1
<1>7. Entries(q) \subseteq Event
  BY <1>2, EntriesIn, SMTT(30) DEF Queue
<1>8. \A f \in Entries(q) : f.id < q.next_seq /\ f.id \in Nat
  BY <1>7, SMTT(30) DEF Inv, UniqueIds, Numbered, Event
<1>9. \A id \in q.cancelled : id < q.next_seq /\ id \in Nat
  BY <1>2, SMTT(30) DEF Inv, UniqueIds, Numbered, Queue
<1>10. Numbered(q')
  <2>1. Duplicated(Entries(q')) = {}
    BY <1>2, <1>3, <1>6, <1>8, SMTT(30) DEF Duplicated, Inv, UniqueIds, Numbered
  <2>2. \A f \in Entries(q') : f.id < q'.next_seq
    BY <1>2, <1>3, <1>6, <1>8, SMTT(30)
  <2>3. \A id \in q'.cancelled : id < q'.next_seq
    BY <1>2, <1>6, <1>9, SMTT(30)
  <2> QED BY <2>1, <2>2, <2>3, SMTT(30) DEF Numbered
<1>11. events(q') = events(q) \cup {e}
  <2>1. e.id \notin q.cancelled
    BY <1>2, <1>3, <1>9, SMTT(30)
  <2> QED BY <1>6, <2>1, SMTT(30) DEF events, Live
<1>12. IsFiniteSet(Entries(q'))
  BY <1>6, FS_AddElement, SMTT(30) DEF Inv
<1> QED BY <1>1, <1>6, <1>10, <1>11, <1>12, Zenon DEF Inv, TypeOK, WheelInv, UniqueIds, A!Schedule, e

\* cancel: a tombstone, and no entry moved.
LEMMA CancelStep ==
    ASSUME Inv, NEW id \in GivenOut, Cancel(id)
    PROVE  Inv' /\ A!Cancel(id)
<1>1. /\ q' = [q EXCEPT !.cancelled = @ \cup {id}] /\ id < q.next_seq /\ id \in Ids
      /\ out' = out /\ saved' = saved
  BY DEF Cancel, cancel, GivenOut
<1>2. q \in Queue /\ id \in Nat
  BY <1>1, CallerAssumption DEF Inv, TypeOK, Ids
<1>3. /\ q' \in Queue /\ q'.now = q.now /\ q'.next_seq = q.next_seq
      /\ q'.due = q.due /\ q'.near = q.near /\ q'.far = q.far
      /\ q'.cancelled = q.cancelled \cup {id}
  BY <1>1, <1>2, SMTT(30) DEF Queue
<1>4. Entries(q') = Entries(q) /\ NearPlaced(q') /\ FarPlaced(q') /\ DuePlaced(q')
  BY <1>3 DEF Entries, NearPlaced, FarPlaced, DuePlaced, Inv, WheelInv
<1>5. Numbered(q')
  BY <1>1, <1>3, <1>4, Zenon DEF Numbered, Inv, UniqueIds
<1>6. events(q') = {e \in events(q) : e.id # id}
  BY <1>3, <1>4 DEF events, Live
<1> QED BY <1>1, <1>3, <1>4, <1>5, <1>6, Zenon DEF Inv, TypeOK, WheelInv, UniqueIds, A!Cancel

\* next_deadline: only tombstoned heads of the due heap leave.
LEMMA DeadlineStep ==
    ASSUME Inv, NextDeadline
    PROVE  Inv' /\ UNCHANGED A!abstractVars
<1> DEFINE D == {e \in q.due : \A f \in q.due : (f = e \/ Before(f, e)) => f.id \in q.cancelled}
<1>1. /\ q' = [q EXCEPT !.due = @ \ D, !.cancelled = @ \ {e.id : e \in D}]
      /\ out' = out /\ saved' = saved
  BY DEF NextDeadline, purge_cancelled_due
<1>2. D \in SUBSET q.due /\ \A e \in D : e.id \in q.cancelled
  BY ZenonT(30)
<1> HIDE DEF D
<1>3. /\ q' \in Queue /\ q'.now = q.now /\ q'.next_seq = q.next_seq
      /\ Entries(q') = Entries(q) \ D /\ events(q') = events(q) \ D
      /\ NearPlaced(q') /\ FarPlaced(q') /\ DuePlaced(q') /\ Numbered(q')
  BY <1>1, <1>2, RemoveFacts, Zenon DEF Inv, TypeOK, WheelInv, UniqueIds
<1>4. events(q') = events(q)
  BY <1>2, <1>3, SMTT(30) DEF events, Live
<1>5. IsFiniteSet(Entries(q'))
  <2>1. Entries(q') \subseteq Entries(q)
    BY <1>3, SMTT(30)
  <2> QED BY <2>1, FS_Subset, SMTT(30) DEF Inv
<1> QED BY <1>1, <1>3, <1>4, <1>5, Zenon
        DEF Inv, TypeOK, WheelInv, UniqueIds, A!abstractVars

\* EventQueue::new: empty everywhere, counting from zero.
LEMMA NewFacts ==
    /\ New \in Queue /\ New.now = 0 /\ New.next_seq = 0 /\ New.due = {} /\ New.far = {}
    /\ New.cancelled = {} /\ \A l \in Level : \A s \in Slot : New.near[l][s] = {}
<1>1. /\ New.now = 0 /\ New.next_seq = 0 /\ New.due = {} /\ New.far = {}
      /\ New.cancelled = {}
  BY SMTT(30) DEF New
<1>2. \A l \in Level : \A s \in Slot : New.near[l][s] = {}
  BY DEF New
<1>3. [l \in Level |-> [s \in Slot |-> {}]] \in [Level -> [Slot -> SUBSET Event]]
  OBVIOUS
<1>4. [l \in Level |-> 0] \in [Level -> Int]
  OBVIOUS
<1>5. New \in Queue
  BY SMTT(30), <1>3, <1>4 DEF New, Queue
<1> QED BY <1>1, <1>2, <1>5, SMTT(30)

\* restore: a fresh wheel with the snapshot's events placed against its instant.
LEMMA RestoreStep ==
    ASSUME Inv, Restore
    PROVE  Inv' /\ A!Restore
<1> DEFINE w == [New EXCEPT !.now = saved.now, !.next_seq = saved.next_seq]
           E == saved.events
<1>1. q' = push_entries(w, E) /\ out' = out /\ saved' = saved
  BY DEF Restore, restore, Inv
<1>2. saved.now \in Nat /\ saved.next_seq \in Nat /\ E \in SUBSET Event /\ IsFiniteSet(E)
  BY DEF Inv, TypeOK
<1>3. /\ w \in Queue /\ w.now = saved.now /\ w.next_seq = saved.next_seq
      /\ w.due = {} /\ w.far = {} /\ w.cancelled = {}
      /\ \A l \in Level : \A s \in Slot : w.near[l][s] = {}
  BY <1>2, NewFacts, Zenon DEF Queue
<1> HIDE DEF w, E
<1>4. Entries(w) = {} /\ NearPlaced(w) /\ FarPlaced(w) /\ DuePlaced(w)
  BY <1>3, EntriesIn, SMTT(30) DEF NearPlaced, FarPlaced, DuePlaced
<1>5. /\ q' \in Queue /\ Entries(q') = E
      /\ q'.now = saved.now /\ q'.cancelled = {} /\ q'.next_seq = saved.next_seq
      /\ NearPlaced(q') /\ FarPlaced(q') /\ DuePlaced(q')
  <2>1. w \in Queue /\ E \in SUBSET Event /\ IsFiniteSet(E)
    BY <1>2, <1>3, SMTT(30)
  <2>2. LET r == push_entries(w, E)
        IN  /\ r \in Queue /\ Entries(r) = Entries(w) \cup E
            /\ r.now = w.now /\ r.cancelled = w.cancelled /\ r.next_seq = w.next_seq
            /\ NearPlaced(w) => NearPlaced(r)
            /\ FarPlaced(w) => FarPlaced(r)
            /\ DuePlaced(w) => DuePlaced(r)
    BY SMTT(30), <2>1, PushFacts
  <2>3. w.now = saved.now /\ w.cancelled = {} /\ w.next_seq = saved.next_seq
    BY SMTT(30), <1>3
  <2> QED BY <1>1, <1>4, <2>2, <2>3, SMTT(30)
<1>6. Numbered(q') /\ events(q') = E
  BY <1>5 DEF Numbered, Inv, ValidSnapshot, events, Live, E
<1> QED BY <1>1, <1>2, <1>5, <1>6
        DEF Inv, TypeOK, WheelInv, UniqueIds, A!Restore, E

\* A damaged snapshot is refused: the queue is as it was.
LEMMA DamagedStep ==
    ASSUME Inv, RestoreDamaged
    PROVE  q' = q /\ out' = out /\ saved' = saved
<1>1. saved \in [now : Nat, next_seq : Nat, events : SUBSET Event]
  BY DEF Inv, TypeOK
<1>2. PICK bad \in {[saved EXCEPT !.next_seq = 0]} \cup
                  {[saved EXCEPT !.events = @ \cup {[e EXCEPT !.time = @ + 1]}]
                     : e \in saved.events} :
         bad # saved /\ bad.events # {} /\ q' = restore(q, bad)
  BY DEF RestoreDamaged
<1>3. CASE bad = [saved EXCEPT !.next_seq = 0]
  <2>1. bad.next_seq = 0 /\ bad.events = saved.events
    BY <1>1, <1>3
  <2>2. \A e \in saved.events : ~(e.id < 0)
    BY <1>1 DEF Event
  <2>3. ~ValidSnapshot(bad)
    BY <1>2, <2>1, <2>2, SMTT(30) DEF ValidSnapshot
  <2> QED BY <1>2, <2>3 DEF restore, RestoreDamaged
<1>4. ASSUME NEW e \in saved.events,
             bad = [saved EXCEPT !.events = @ \cup {[e EXCEPT !.time = @ + 1]}]
      PROVE  q' = q
  <2> DEFINE f == [e EXCEPT !.time = @ + 1]
  <2>1. f.id = e.id /\ f # e
    BY <1>1 DEF Event
  <2>2. e \in bad.events /\ f \in bad.events
    BY <1>1, <1>4
  <2> HIDE DEF f
  <2>3. ~ValidSnapshot(bad)
    BY SMTT(30), <2>1, <2>2 DEF ValidSnapshot, Duplicated
  <2> QED BY <1>2, <2>3 DEF restore
<1> QED BY <1>2, <1>3, <1>4 DEF RestoreDamaged

\* A new queue satisfies the invariant and is the abstract queue's initial state.
LEMMA InitInv == Init => Inv /\ A!Init
<1> SUFFICES ASSUME Init PROVE Inv /\ A!Init
  OBVIOUS
<1>1. q = New /\ out = NoEvent /\ saved = Snapshot(New)
  BY DEF Init
<1>2. /\ New \in Queue /\ New.now = 0 /\ New.next_seq = 0 /\ New.due = {} /\ New.far = {}
      /\ New.cancelled = {} /\ \A l \in Level : \A s \in Slot : New.near[l][s] = {}
  BY ZenonT(30), NewFacts
<1>3. Entries(New) = {} /\ NearPlaced(New) /\ FarPlaced(New) /\ DuePlaced(New)
  BY <1>2, EntriesIn DEF NearPlaced, FarPlaced, DuePlaced
<1>4. events(New) = {} /\ Numbered(New)
  BY <1>2, <1>3, SMTT(30) DEF events, Live, Numbered, Duplicated
<1>5. saved = [now |-> 0, next_seq |-> 0, events |-> {}]
  <2>1. New.now = 0 /\ New.next_seq = 0 /\ events(New) = {}
    BY <1>2, <1>4, SMTT(30)
  <2> HIDE DEF New
  <2> QED BY <1>1, <2>1, SMTT(30) DEF Snapshot
<1>6. ValidSnapshot(saved)
  BY <1>5, SMTT(30) DEF ValidSnapshot, Duplicated
<1> HIDE DEF New
<1>7. TypeOK
  BY <1>1, <1>2, <1>5, SMTT(30) DEF TypeOK, NoEvent, NoTime
<1>8. WheelInv /\ UniqueIds
  BY <1>1, <1>3, <1>4, SMTT(30) DEF WheelInv, UniqueIds
<1>9. IsFiniteSet(Entries(q)) /\ IsFiniteSet(saved.events)
  BY <1>1, <1>3, <1>5, FS_EmptySet, SMTT(30)
<1>10. A!Init
  BY <1>1, <1>2, <1>4, <1>5, SMTT(30) DEF A!Init, A!NoEvent, NoEvent, NoTime
<1> QED BY <1>6, <1>7, <1>8, <1>9, <1>10, SMTT(30) DEF Inv

\* Every call keeps the invariant and is a step of the abstract queue or a stutter.
LEMMA NextInv == Inv /\ [Next]_vars => Inv' /\ [A!Next]_A!abstractVars
<1> SUFFICES ASSUME Inv, [Next]_vars PROVE Inv' /\ [A!Next]_A!abstractVars
  OBVIOUS
<1>1. ASSUME NEW t \in Times, Schedule(t) PROVE Inv' /\ A!Next
  BY <1>1, ScheduleStep DEF A!Next
<1>2. ASSUME NEW t \in Times, AdvanceTo(t) PROVE Inv' /\ A!Next
  <2>1. q' = advance_to(q, t) /\ out' = out /\ saved' = saved
    BY <1>2, SMTT(30) DEF AdvanceTo
  <2>2. /\ q' \in Queue /\ Entries(q') = Entries(q) /\ events(q') = events(q)
        /\ q'.now = IF t > q.now THEN t ELSE q.now
        /\ q'.next_seq = q.next_seq
        /\ NearPlaced(q') /\ FarPlaced(q') /\ DuePlaced(q') /\ Numbered(q')
    BY <2>1, AdvanceStep, SMTT(30)
  <2>3. Inv'
    BY <2>1, <2>2, SMTT(30) DEF Inv, TypeOK, WheelInv, UniqueIds
  <2>4. A!Advance(t)
    BY <2>1, <2>2 DEF A!Advance
  <2> QED BY <2>3, <2>4 DEF A!Next
<1>3. ASSUME NEW t \in Times, PopDue(t) PROVE Inv' /\ A!Next
  BY <1>3, PopStep DEF A!Next
<1>4. ASSUME NEW id \in GivenOut, Cancel(id) PROVE Inv' /\ A!Next
  BY <1>4, CancelStep DEF A!Next, GivenOut
<1>5. CASE NextDeadline
  BY <1>5, DeadlineStep, SMTT(30)
<1>6. CASE Save
  <2>1. q' = q /\ out' = out /\ saved' = Snapshot(q)
    BY <1>6, SMTT(30) DEF Save
  <2>2. q \in Queue /\ Entries(q) \subseteq Event /\ events(q) \subseteq Entries(q)
    BY EntriesIn, SMTT(30) DEF Inv, TypeOK, Queue, events, Live
  <2>3. IsFiniteSet(events(q))
    BY <2>2, FS_Subset DEF Inv
  <2>4. saved' = [now |-> q.now, next_seq |-> q.next_seq, events |-> events(q)]
    BY SMTT(30), <2>1 DEF Snapshot
  <2>5. ValidSnapshot(saved')
    BY <2>2, <2>4, SMTT(30) DEF ValidSnapshot, Inv, UniqueIds, Numbered, Duplicated
  <2>6. saved' \in [now : Nat, next_seq : Nat, events : SUBSET Event]
    BY SMTT(30), <2>2, <2>4 DEF Queue
  <2>7. Inv'
    BY <2>1, <2>3, <2>4, <2>5, <2>6, SMTT(30) DEF Inv, TypeOK, WheelInv, UniqueIds
  <2>8. A!Save
    BY <2>1, <2>4 DEF A!Save
  <2> QED BY <2>7, <2>8 DEF A!Next
<1>7. CASE Restore
  BY <1>7, RestoreStep, SMTT(30) DEF A!Next
<1>8. CASE RestoreDamaged
  <2>1. q' = q /\ out' = out /\ saved' = saved
    BY <1>8, DamagedStep, SMTT(30)
  <2> QED BY <2>1 DEF Inv, TypeOK, WheelInv, UniqueIds, A!abstractVars
<1>9. CASE UNCHANGED vars
  BY <1>9 DEF vars, Inv, TypeOK, WheelInv, UniqueIds, A!abstractVars
<1> QED BY <1>1, <1>2, <1>3, <1>4, <1>5, <1>6, <1>7, <1>8, <1>9, SMTT(30) DEF Next

-----------------------------------------------------------------------------
\* Type correctness: every method keeps the queue a well-formed queue.
THEOREM TypeCorrect == Spec => []TypeOK
<1>1. Inv => TypeOK
  BY SMTT(30) DEF Inv
<1> QED BY <1>1, InitInv, NextInv, PTL DEF Spec

\* The wheel stays in order through every cascade (advance_to, push_entry),
\* whatever its number of levels and slots and the size of its granule.
THEOREM WheelCorrect == Spec => []WheelInv
<1>1. Inv => WheelInv
  BY SMTT(30) DEF Inv
<1> QED BY <1>1, InitInv, NextInv, PTL DEF Spec

\* Sequence numbers stay unique, below the counter, and free of tombstones
\* laid in advance, across snapshots and restores too.
THEOREM NumbersCorrect == Spec => []UniqueIds
<1>1. Inv => UniqueIds
  BY DEF Inv
<1> QED BY <1>1, InitInv, NextInv, PTL DEF Spec

\* The queue implements the abstract one: pop_due returns the earliest live
\* event in (time, sequence) order, each exactly once, never a cancelled one,
\* and none that is due is held back on the wheel or in the far heap.
THEOREM Implements == Spec => Refines
<1> QED BY InitInv, NextInv, PTL DEF Spec, Refines, A!Spec
=============================================================================
