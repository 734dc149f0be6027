---------------------------- MODULE ClockForest ----------------------------
(* The clock forest (core/clock.rs): one tree of domains per crystal, every   *)
(* domain rated against its parent, every position an exact count of its      *)
(* tree's unit ticks; and the clock chunk of a snapshot (machine/machine.rs). *)
EXTENDS Oscillator, FiniteSets

CONSTANTS
  Domains, Oscs,
  Declared,    \* Declared[d]: the parent, mul, div and crystal of domain d
  Root,        \* Root[o]: the root domain of crystal o
  Freq,        \* Freq[o]: its declared frequency
  Scenes,      \* what drives the forest, one of them chosen at Init:
               \*   machine: a machine with its snapshots, or every operation;
               \*   domains: those it advances and re-rates; ratings: the
               \*   <<mul, div>> asked for; changes: bounds their number
  Spans,       \* how many ticks one advance may take
  MaxUnitMul,  \* the largest unit multiplier that fits
  MaxTicks     \* MaxTicks[o]: bound on the position of o, in ticks of the crystal

NoParent == -1

ASSUME ForestAssumption ==
  /\ Root \in [Oscs -> Domains]
  /\ Freq \in [Oscs -> Rational]
  /\ \A o \in Oscs : Declared[Root[o]].parent = NoParent /\ Declared[Root[o]].osc = o
  /\ MaxUnitMul \in Nat \ {0} /\ MaxTicks \in [Oscs -> Nat]

VARIABLES
  scene,
  built,  \* the forest the machine's description declares, never changed
  f,      \* the forest
  op,     \* history: the kind of the last operation
  moved,  \* history: the domains at or below what it changed
  changes, \* history: how many changes there were
  saved,  \* the last snapshot: positions, counters, leads, controllers' ratings
  origin  \* history: the forest it was taken from

vars == <<scene, built, f, op, moved, changes, saved, origin>>

-----------------------------------------------------------------------------
ancestors(g, d) ==
  LET up[x \in Domains] ==
        {x} \cup (IF g.dom[x].parent = NoParent THEN {} ELSE up[g.dom[x].parent])
  IN  up[d]

subtree(g, d) == {x \in Domains : d \in ancestors(g, x)}

ratio(g, d) ==
  LET r[x \in Domains] ==
        IF g.dom[x].parent = NoParent THEN [num |-> 1, den |-> 1]
        ELSE scale(r[g.dom[x].parent], g.dom[x].mul, g.dom[x].div)
  IN  r[d]

tree(g, d) == g.osc[g.dom[d].root]

position(g, d) == Max({tree(g, d).units, g.dom[d].own})

lead(g, d) == position(g, d) - tree(g, d).units

ticks_at(m, u) ==
  IF m.gated THEN m.base_ticks ELSE m.base_ticks + ((u - m.base_unit) \div m.units_per_tick)

ticks(g, d) == ticks_at(g.dom[d], position(g, d))

-----------------------------------------------------------------------------
(* The unit tick of a tree: the crystal's frequency times a multiplier that  *)
(* takes in the numerator of every ratio the tree has ever had.              *)
multiplier(g, o) ==
  FoldSet(LAMBDA d, a : lcm(a, ratio(g, d).num), g.osc[o].unit_mul, subtree(g, g.osc[o].root))

Recomputable(g, o) == multiplier(g, o) <= MaxUnitMul

(* Mutant: the rate changes under the segment it was counted in. *)
recompute_treeSameSegment(g, o) ==
  LET a == multiplier(g, o)
      k == a \div g.osc[o].unit_mul
      rated(d) == LET r == ratio(g, d) IN
        [g.dom[d] EXCEPT !.units_per_tick = (a \div r.num) * r.den,
                         !.base_unit = @ * k, !.own = @ * k]
  IN  [dom |-> [d \in Domains |-> IF d \in subtree(g, g.osc[o].root) THEN rated(d) ELSE g.dom[d]],
       osc |-> [g.osc EXCEPT ![o] =
                 [@ EXCEPT !.unit_rate = scale(g.osc[o].freq, a, 1), !.units = @ * k, !.unit_mul = a]]]

recompute_tree(g, o) ==
  LET a == multiplier(g, o)
      k == a \div g.osc[o].unit_mul
      rated(d) == LET r == ratio(g, d) IN
        [g.dom[d] EXCEPT !.units_per_tick = (a \div r.num) * r.den,
                         !.base_unit = @ * k, !.own = @ * k]
  IN  [dom |-> [d \in Domains |-> IF d \in subtree(g, g.osc[o].root) THEN rated(d) ELSE g.dom[d]],
       osc |-> [g.osc EXCEPT ![o] =
                 [new_segment(@, scale(@.freq, a, 1), @.units * k) EXCEPT !.unit_mul = a]]]

(* The trees in O recomputed one after the other, up to the first that has no *)
(* common unit.                                                              *)
Attempt(g, O) ==
  FoldSet(LAMBDA o, r : IF r.ok /\ Recomputable(r.g, o) THEN [r EXCEPT !.g = recompute_tree(@, o)]
                        ELSE [r EXCEPT !.ok = FALSE],
          [ok |-> TRUE, g |-> g], O)

(* Mutant: what was done before the failure stays. *)
RecomputedNoBackup(old, g, O) == Attempt(g, O).g

(* If one failed, `old` is put back. *)
Recomputed(old, g, O) ==
  LET done == Attempt(g, O) IN IF done.ok THEN done.g ELSE old

(* Every counter of the domains in S written down at its own position. *)
rebase(g, S) ==
  [g EXCEPT !.dom = [d \in Domains |->
     IF d \in S THEN [g.dom[d] EXCEPT !.base_ticks = ticks(g, d), !.base_unit = position(g, d)]
     ELSE g.dom[d]]]

(* The declared forest: every domain added to its tree at position zero. *)
Declare ==
  LET bare == [dom |-> [d \in Domains |->
                 [parent |-> Declared[d].parent, mul |-> Declared[d].mul, div |-> Declared[d].div,
                  root |-> Declared[d].osc, units_per_tick |-> 1, base_unit |-> 0,
                  base_ticks |-> 0, own |-> 0, gated |-> FALSE]],
               osc |-> [o \in Oscs |->
                 [freq |-> Freq[o], root |-> Root[o], unit_mul |-> 1, active |-> TRUE,
                  unit_rate |-> Freq[o], units |-> 0, base_units |-> 0, base_time |-> 0,
                  time |-> 0, residual |-> 0]]]
  IN  Recomputed(bare, bare, Oscs)

-----------------------------------------------------------------------------
(* Operations of the forest.  A refused one leaves it as it was. *)
advance_domain(g, d, n) ==
  [g EXCEPT !.osc[g.dom[d].root] = advance_units(@, n * g.dom[d].units_per_tick)]

advance_alone(g, d, n) ==
  [g EXCEPT !.dom[d].own = position(g, d) + (n * g.dom[d].units_per_tick)]

(* Mutant: a change of rating rewrites the ticks already counted. *)
set_ratingsInPlace(g, ch) ==
  LET h == [g EXCEPT !.dom = [d \in Domains |->
                IF d \in DOMAIN ch THEN [g.dom[d] EXCEPT !.mul = ch[d][1], !.div = ch[d][2]]
                ELSE g.dom[d]]]
  IN  IF \E d \in DOMAIN ch : g.dom[d].parent = NoParent THEN g
      ELSE Recomputed(g, h, {g.dom[d].root : d \in DOMAIN ch})

(* Mutant: the whole tree is rebased, not only the changed subtrees. *)
set_ratingsRebaseAll(g, ch) ==
  LET w == rebase(g, {x \in Domains : \E d \in DOMAIN ch : g.dom[d].root = g.dom[x].root})
      h == [w EXCEPT !.dom = [d \in Domains |->
                IF d \in DOMAIN ch THEN [w.dom[d] EXCEPT !.mul = ch[d][1], !.div = ch[d][2]]
                ELSE w.dom[d]]]
  IN  IF \E d \in DOMAIN ch : g.dom[d].parent = NoParent THEN g
      ELSE Recomputed(g, h, {g.dom[d].root : d \in DOMAIN ch})

set_ratings(g, ch) ==
  LET w == rebase(g, UNION {subtree(g, d) : d \in DOMAIN ch})
      h == [w EXCEPT !.dom = [d \in Domains |->
                IF d \in DOMAIN ch THEN [w.dom[d] EXCEPT !.mul = ch[d][1], !.div = ch[d][2]]
                ELSE w.dom[d]]]
  IN  IF \E d \in DOMAIN ch : g.dom[d].parent = NoParent THEN g
      ELSE Recomputed(g, h, {g.dom[d].root : d \in DOMAIN ch})

set_frequency(g, o, freq) ==
  Recomputed(g, [g EXCEPT !.osc[o].freq = freq], {o})

reparent(g, d, p, r) ==
  LET old == g.dom[d].root
      new == g.dom[p].root
      S   == subtree(g, d)
      w   == rebase(g, S)
      h   == [dom |-> [x \in Domains |->
                LET y == IF x = d THEN [w.dom[x] EXCEPT !.parent = p, !.mul = r[1], !.div = r[2]]
                         ELSE w.dom[x]
                IN  IF x \in S /\ old # new
                    THEN [y EXCEPT !.root = new, !.own = 0, !.base_unit = g.osc[new].units]
                    ELSE y],
              osc |-> IF g.dom[d].parent = NoParent THEN [g.osc EXCEPT ![old].active = FALSE] ELSE g.osc]
      survives == old # new /\ h.dom[g.osc[old].root].root = old
  IN  IF p \in S THEN g ELSE Recomputed(g, h, {new} \cup (IF survives THEN {old} ELSE {}))

set_gated(g, d, on) ==
  IF g.dom[d].gated = on THEN g
  ELSE [g EXCEPT !.dom[d].base_ticks = ticks(g, d), !.dom[d].base_unit = tree(g, d).units,
                 !.dom[d].own = 0, !.dom[d].gated = on]

-----------------------------------------------------------------------------
(* The clock chunk of a snapshot: positions, counters and leads.  Ratings are *)
(* not in it; the controllers ask for theirs again when their registers load. *)
save_clocks(g) ==
  [units |-> [o \in Oscs |-> g.osc[o].units],
   ticks |-> [d \in Domains |-> ticks(g, d)],
   lead  |-> [d \in Domains |-> lead(g, d)],
   rating |-> [d \in Domains |-> <<g.dom[d].mul, g.dom[d].div>>]]

(* apply_clock_requests: requests that change nothing are dropped. *)
apply_clock_requests(g, want) ==
  LET differ == {d \in DOMAIN want :
        rational(want[d][1], want[d][2]) # rational(g.dom[d].mul, g.dom[d].div)}
  IN  IF differ = {} THEN g ELSE set_ratings(g, [d \in differ |-> want[d]])

(* Mutant: the anchor is put at the position itself, losing the phase. *)
restore_ticksZeroPhase(m, u, n) == [m EXCEPT !.base_ticks = n, !.base_unit = u, !.own = 0]

(* A domain m of a tree at unit u shows n ticks again, or leads the tree by n. *)
restore_ticks(m, u, n) ==
  [m EXCEPT !.base_ticks = n, !.base_unit = u - (u % m.units_per_tick), !.own = 0]

restore_lead(m, u, n) ==
  [m EXCEPT !.own = u + n, !.base_unit = (u + n) - ((u + n) % m.units_per_tick)]

(* The crystals first, then every counter, then the leads. *)
load_clocks(g, s) ==
  [osc |-> [o \in Oscs |-> restore_unit_position(g.osc[o], s.units[o])],
   dom |-> [d \in Domains |->
     LET u == s.units[g.dom[d].root]
         m == restore_ticks(g.dom[d], u, s.ticks[d])
     IN  IF s.lead[d] > 0 THEN restore_lead(m, u, s.lead[d]) ELSE m]]

(* What the loaded controllers ask for: the ratings of every domain below a root. *)
driven(g, s) == [d \in {x \in Domains : g.dom[x].parent # NoParent} |-> s.rating[d]]

Rated(g, want) ==
  \A d \in DOMAIN want : rational(g.dom[d].mul, g.dom[d].div) = rational(want[d][1], want[d][2])

(* Machine::load_with, as far as clocks go: the controllers' requests first,  *)
(* then the positions, in the units the requests left.  A refused batch ends  *)
(* the load there.                                                           *)
load_with(g, s) ==
  LET h == apply_clock_requests(g, driven(g, s))
  IN  IF Rated(h, driven(g, s)) THEN load_clocks(h, s) ELSE h

-----------------------------------------------------------------------------
Init ==
  /\ scene \in DOMAIN Scenes
  /\ built = Declare /\ f = built
  /\ op = "none" /\ moved = {} /\ changes = 0
  /\ saved = save_clocks(f) /\ origin = f

Advance(g) ==
  f' = g /\ op' = "advance" /\ moved' = {} /\ UNCHANGED <<scene, built, changes, saved, origin>>

(* A refused change is no step at all. *)
Change(g, S) ==
  /\ changes < Scenes[scene].changes /\ changes' = changes + 1
  /\ f' \in {g} \ {f}
  /\ op' = "change" /\ moved' = S
  /\ UNCHANGED <<scene, built, saved, origin>>

(* Within the bound of crystal o. *)
Within(o, u) == u <= MaxTicks[o] * f.osc[o].unit_mul

AdvanceDomain(d, n) ==
  /\ ~f.dom[d].gated
  /\ Within(f.dom[d].root, tree(f, d).units + (n * f.dom[d].units_per_tick))
  /\ Advance(advance_domain(f, d, n))

AdvanceAlone(d, n) ==
  /\ ~f.dom[d].gated
  /\ Within(f.dom[d].root, position(f, d) + (n * f.dom[d].units_per_tick))
  /\ Advance(advance_alone(f, d, n))

AdvanceTreeTo(o, d) ==
  /\ f.osc[o].active /\ f.dom[d].root = o
  /\ position(f, d) > f.osc[o].units
  /\ Advance([f EXCEPT !.osc[o] = advance_tree_to(@, position(f, d))])

(* A crystal nothing drives is carried to another's instant. *)
AdvanceToGlobal(o, p) ==
  /\ o # p /\ f.osc[o].active
  /\ Within(o, units_at(f.osc[o], f.osc[p].time))
  /\ Advance([f EXCEPT !.osc[o] = advance_to_global(@, f.osc[p].time)])

SetRatings(ch) ==
  Change(set_ratings(f, ch), UNION {subtree(f, d) : d \in DOMAIN ch})

(* A controller's batch, applied between rounds. *)
Request(ch) ==
  Change(apply_clock_requests(f, ch), UNION {subtree(f, d) : d \in DOMAIN ch})

(* A crystal locked into another tree: the walk over its old root does not    *)
(* find that domain's parent and panics, with the frequency already changed.  *)
Panic(o, freq) ==
  /\ ~f.osc[o].active
  /\ f' = [f EXCEPT !.osc[o].freq = freq]
  /\ op' = "panic" /\ moved' = {} /\ UNCHANGED <<scene, built, changes, saved, origin>>

SetFrequency(o, freq) ==
  Panic(o, freq) \/ (f.osc[o].active /\ Change(set_frequency(f, o, freq), {}))

Reparent(d, p, r) ==
  Change(reparent(f, d, p, r), subtree(f, d))

SetGated(d, on) == f.dom[d].gated # on /\ Change(set_gated(f, d, on), {d})

(* One snapshot per behaviour. *)
Save ==
  /\ origin = built /\ f # built
  /\ saved' = save_clocks(f) /\ origin' = f
  /\ op' = "save" /\ moved' = {} /\ UNCHANGED <<scene, built, f, changes>>

(* The machine is built again from its description; the snapshot remains. *)
Build ==
  /\ origin # built /\ f # built
  /\ f' = built
  /\ op' = "build" /\ moved' = {} /\ UNCHANGED <<scene, built, changes, saved, origin>>

(* A snapshot loads into the machine it was taken from, later, or into        *)
(* another, new or with a history of its own.                                *)
Load ==
  /\ changes < Scenes[scene].changes /\ changes' = changes + 1
  /\ f' = load_with(f, saved)
  /\ op' = IF Rated(f', driven(f, saved)) THEN "load" ELSE "refused"
  /\ moved' = {}
  /\ UNCHANGED <<scene, built, saved, origin>>

Batches ==
  [s \in DOMAIN Scenes |->
     UNION {[S -> Scenes[s].ratings] : S \in (SUBSET Scenes[s].domains) \ {{}}}]

(* Everything the forest offers. *)
ForestNext ==
  \/ \E d \in Scenes[scene].domains, n \in Spans : AdvanceDomain(d, n)
  \/ \E o, p \in Oscs : AdvanceToGlobal(o, p)
  \/ \E ch \in Batches[scene] : SetRatings(ch)
  \/ \E o, p \in Oscs : o # p /\ SetFrequency(o, Freq[p])
  \/ \E d, p \in Scenes[scene].domains, r \in Scenes[scene].ratings : Reparent(d, p, r)
  \/ \E d \in Scenes[scene].domains, on \in BOOLEAN : SetGated(d, on)

(* What a running machine does to it: clock requests, snapshots and loads. *)
MachineNext == (\E ch \in Batches[scene] : Request(ch)) \/ Save \/ Build \/ Load

(* Both run their processors ahead and close the round behind them. *)
Next ==
  /\ op # "panic"
  /\ \/ \E d \in Scenes[scene].domains, n \in Spans : AdvanceAlone(d, n)
     \/ \E o \in Oscs, d \in Domains : AdvanceTreeTo(o, d)
     \/ ~Scenes[scene].machine /\ ForestNext
     \/ Scenes[scene].machine /\ MachineNext

Spec == Init /\ [][Next]_vars
-----------------------------------------------------------------------------
(* Re-rating, re-parenting, gating and re-frequencing, refused or not, leave  *)
(* every tick counter at the number it showed; advancing never takes one back. *)
CountersContinuous ==
  [][/\ op' = "change"  => \A d \in Domains : ticks(f, d)' = ticks(f, d)
     /\ op' = "advance" => \A d \in Domains : ticks(f, d)' >= ticks(f, d)]_vars

(* All or nothing: whatever was asked for, refused at the first tree of a     *)
(* batch or after another was already re-rated, every domain counts at the    *)
(* rate its own rating and those above it describe (set_ratings, reparent).   *)
RatesTrue ==
  op = "change" => \A d \in Domains :
    LET r == ratio(f, d)
        o == tree(f, d)
    IN  /\ f.dom[d].units_per_tick * r.num = o.unit_mul * r.den
        /\ o.unit_rate = scale(o.freq, o.unit_mul, 1)

(* A domain outside the change keeps its place inside the current tick, though *)
(* the unit that place is counted in may have become finer.                   *)
PhaseKept ==
  [][op' = "change" => \A d \in Domains \ moved' :
       (position(f, d) - f.dom[d].base_unit) * f.dom[d].units_per_tick'
         = (position(f, d) - f.dom[d].base_unit)' * f.dom[d].units_per_tick]_vars

(* Whatever happens to the tree above it, each crystal's timeline only        *)
(* advances, starts a segment where it stands, or is restored.               *)
UnitRates == {scale(Freq[o], a, 1) : o \in Oscs, a \in 1 .. MaxUnitMul}

TimelineOf(o) == LET x == f.osc[o] IN
  [unit_rate |-> x.unit_rate, units |-> x.units, base_units |-> x.base_units,
   base_time |-> x.base_time, time |-> x.time, residual |-> x.residual]

C(o) == INSTANCE Crystal WITH
  osc <- TimelineOf(o), Rates <- UnitRates, Counts <- 0 .. MaxTicks[o] * MaxUnitMul * MaxUnitMul

CrystalsKept ==
  [][\A o \in Oscs : TimelineOf(o)' = TimelineOf(o) \/ C(o)!Next]_vars

(* What a load must bring back when the two forests count in the same unit:   *)
(* every counter, position and lead; the phase of every domain whose anchor   *)
(* was a whole tick, so that its next ticks fall where they would have; and   *)
(* the whole timeline of a crystal that never started a second segment.       *)
RestoreExact ==
  op = "load" /\ (\A o \in Oscs : f.osc[o].unit_mul = origin.osc[o].unit_mul) =>
    /\ \A d \in Domains : ticks(f, d) = ticks(origin, d) /\ position(f, d) = position(origin, d)
    /\ \A d \in Domains : divides(origin.dom[d].units_per_tick, origin.dom[d].base_unit) =>
         \A u \in position(f, d) .. 2 * MaxTicks[f.dom[d].root] * MaxUnitMul :
           ticks_at(f.dom[d], u) = ticks_at(origin.dom[d], u)
    /\ \A o \in Oscs : origin.osc[o].base_units = 0 => f.osc[o] = origin.osc[o]
=============================================================================
