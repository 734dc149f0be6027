------------------------------ MODULE Scheduler ------------------------------
(***************************************************************************)
(* The deterministic scheduler (core/sched.rs, struct Scheduler): rounds    *)
(* over the runnables of a board, their budgets, the crystals they drive,   *)
(* the passive crystals, the event queue and a lazily advanced device.      *)
(*                                                                         *)
(* A scheduler is a record and a method an operator on it.  A runnable's    *)
(* slot carries what its clock domain holds: the crystal, units per tick,   *)
(* the gate and the domain's own position.  Domains stay at the rating they *)
(* were declared with (ClockForest re-rates them).                          *)
(***************************************************************************)
EXTENDS EventQueue, Oscillator, Sequences
LOCAL INSTANCE SequencesExt

CONSTANTS
    Nanos,    \* nanoseconds per second, 10^9 in the code
    Quantum,  \* SchedulerConfig::quantum in whole nanoseconds
    Cap,      \* SchedulerConfig::max_ticks_per_quantum, NoTime for none
    Crystals, Rate,         \* the crystals of the board, Rate[c] unit ticks per second
    Device    \* the lazily advanced device: its crystal, units per tick, and the
              \* ticks from one event of its own to the next

ASSUME SchedulerAssumption ==
    /\ Nanos \in 1 .. Frac   \* an instant is finer than a nanosecond
    /\ Quantum \in Nat \ {0}
    /\ Rate \in [Crystals -> Rational]
    /\ Device \in [crystal : Crystals, per : Nat \ {0}, every : Nat \ {0}]

RunnableSlot == [crystal : Crystals, per : Nat \ {0}, gated : BOOLEAN, own : Nat]

\* `log` records the events popped, each with the instant of the round's report;
\* `fired` those of the device's own, by the tick it stopped on.
State == [now : Nat, cursor : Nat, queue : Queue, runnables : Seq(RunnableSlot),
          osc : [Crystals -> Timeline], log : SUBSET [event : Event, at : Nat],
          dev : [tick : Nat, fired : SUBSET [tick : Nat, at : Nat]]]

Boot(runnables) ==
    [now |-> 0, cursor |-> 0, queue |-> New, runnables |-> runnables,
     osc |-> [c \in Crystals |->
        [unit_rate |-> Rate[c], units |-> 0, base_units |-> 0, base_time |-> 0,
         time |-> 0, residual |-> 0]],
     log |-> {}, dev |-> [tick |-> 0, fired |-> {}]]

from_nanos(n) == (n * Frac) \div Nanos

as_nanos(t) == (t * Nanos) \div Frac

-----------------------------------------------------------------------------
(* Where a round ends. *)

\* Mutant: the grid starts where the last round stopped.
next_grid_pointFromNow(now) == now + from_nanos(Quantum)

\* The boundary named by now's own nanosecond can be rounded down to now itself.
next_grid_point(now) ==
    LET cell == as_nanos(now) \div Quantum
    IN  Min({at \in {from_nanos((cell + i) * Quantum) : i \in 1 .. 2} : at > now})

global_time_of_tick(m, k) == time_for_units(m.osc[Device.crystal], k * Device.per)

\* LazyDevice::next_event_tick of a device with a periodic event.
next_event_tick(dev) == ((dev.tick \div Device.every) + 1) * Device.every

lazy_deadline(m) ==
    LET at == global_time_of_tick(m, next_event_tick(m.dev))
    IN  IF at <= m.now THEN NoTime ELSE at

\* Mutant: the queue does not bound the round.
natural_targetGrid(m) ==
    Min({next_grid_point(m.now)} \cup ({lazy_deadline(m)} \ {NoTime}))

\* An event already past would pull the round backwards: it stands still.
natural_target(m) ==
    Max({m.now, Min({next_grid_point(m.now)} \cup
                    ({next_deadline(m.queue), lazy_deadline(m)} \ {NoTime}))})

-----------------------------------------------------------------------------
(* Budgets, and what the clocks do with what was consumed. *)
position(m, i) ==
    Max({m.runnables[i].own, m.osc[m.runnables[i].crystal].units})

\* The running runnables on crystal c.
Running(m, c) ==
    {i \in DOMAIN m.runnables : m.runnables[i].crystal = c /\ ~m.runnables[i].gated}

ticks_until(m, i, target) ==
    LET there == units_at(m.osc[m.runnables[i].crystal], target)
    IN  IF m.runnables[i].gated \/ there <= position(m, i) THEN 0
        ELSE (there - position(m, i)) \div m.runnables[i].per

cap(span) == IF Cap = NoTime THEN span ELSE Min({span, Cap})

advance_alone(m, i, ticks) ==
    [m EXCEPT !.runnables[i].own = position(m, i) + ticks * m.runnables[i].per]

\* Mutant: the tree follows whoever ran last.
advance_runnableTree(m, i, ticks) ==
    LET moved == advance_alone(m, i, ticks)
    IN  [moved EXCEPT !.osc[m.runnables[i].crystal] =
            advance_tree_to(@, position(moved, i))]

advance_runnable(m, i, ticks) ==
    LET moved == advance_alone(m, i, ticks)
        c     == m.runnables[i].crystal
    IN  [moved EXCEPT !.osc[c] =
            advance_tree_to(@, Min({position(moved, j) : j \in Running(moved, c)}))]

\* Runnable i is handed its budget and returns after at most want[i] ticks.
run(m, i, target, want) ==
    LET used == Min({want[i], cap(ticks_until(m, i, target))})
    IN  IF used = 0 THEN m ELSE advance_runnable(m, i, used)

\* The round-robin order of a round.
Order(m) ==
    [k \in DOMAIN m.runnables |-> ((m.cursor + k - 1) % Len(m.runnables)) + 1]

\* The first n runnables of the round have run.
run_first(m, n, target, want) ==
    FoldLeft(LAMBDA x, i : run(x, i, target, want), m, SubSeq(Order(m), 1, n))

advance_undriven_trees(m, to) ==
    LET driven == {m.runnables[i].crystal : i \in DOMAIN m.runnables}
    IN  [m EXCEPT !.osc = [c \in Crystals |->
            IF c \in driven THEN m.osc[c] ELSE advance_to_global(m.osc[c], to)]]

-----------------------------------------------------------------------------
(* The ends of a round, and the round. *)

\* Mutant: a queue that stands where the round ended is not looked at.
pop_all_dueMoved(m) ==
    LET q   == advance_to(m.queue, m.now)
        due == DueAt(q, m.now)
    IN  IF m.queue.now = m.now THEN m ELSE
        [m EXCEPT !.queue = [q EXCEPT !.due = @ \ due, !.cancelled = @ \ {e.id : e \in due}],
                  !.log   = @ \cup {[event |-> e, at |-> m.now] : e \in Live(q, due)}]

\* pop_due until it has nothing more: what is due leaves, tombstones with it.
pop_all_due(m) ==
    LET q   == advance_to(m.queue, m.now)
        due == DueAt(q, m.now)
    IN  [m EXCEPT !.queue = [q EXCEPT !.due = @ \ due, !.cancelled = @ \ {e.id : e \in due}],
                  !.log   = @ \cup {[event |-> e, at |-> m.now] : e \in Live(q, due)}]

close_round(m, target) ==
    pop_all_due([advance_undriven_trees(m, target) EXCEPT !.now = target])

\* natural_target purges the tombstones at the head of the due heap.
asked(m) == [m EXCEPT !.queue = purge_cancelled_due(@)]

run_quantum_deterministic(m, target, want) ==
    LET count == Len(m.runnables)
        ran   == run_first(asked(m), count, target, want)
    IN  close_round([ran EXCEPT !.cursor = IF count = 0 THEN 0 ELSE (@ + 1) % count], target)

advance_idle_to(m, to) ==
    IF to <= m.now THEN m ELSE [advance_undriven_trees(m, to) EXCEPT !.now = to]

decline_round(m, limit) ==
    pop_all_due(IF m.runnables = <<>> THEN advance_idle_to(asked(m), limit)
                ELSE [asked(m) EXCEPT !.now = Max({@, limit})])

-----------------------------------------------------------------------------
(* The lazily advanced device at a boundary. *)

\* LazyDevice::advance_to: the device's event happens if it stops on its tick.
advance_device(m, stop) ==
    [m EXCEPT !.dev.tick = stop,
              !.dev.fired = @ \cup {[tick |-> k, at |-> m.now] :
                                        k \in {stop} \cap {next_event_tick(m.dev)}}]

\* LazySlot::sync, from one event of the device's own to the next.
RECURSIVE sync(_, _)
sync(m, target) ==
    LET stop == Min({target, next_event_tick(m.dev)})
    IN  IF stop <= m.dev.tick THEN m ELSE sync(advance_device(m, stop), target)

\* Ahead of the tree, through the events whose instants have come.
RECURSIVE deliver_due_events(_)
deliver_due_events(m) ==
    LET tick == next_event_tick(m.dev)
    IN  IF global_time_of_tick(m, tick) > m.now THEN m
        ELSE deliver_due_events(advance_device(m, tick))

\* Mutant: the device is caught up to its tree and no further.
sync_lazy_devicesToTree(m) == sync(m, m.osc[Device.crystal].units \div Device.per)

sync_lazy_devices(m) ==
    deliver_due_events(sync(m, m.osc[Device.crystal].units \div Device.per))

-----------------------------------------------------------------------------
(* Posting, and snapshots. *)
schedule_at(m, t) == [m EXCEPT !.queue = schedule(@, t)]

schedule_after_ticks(m, i, n) ==
    LET r    == m.runnables[i]
        tick == (position(m, i) \div r.per) + n
    IN  schedule_at(m, time_for_units(m.osc[r.crystal], tick * r.per))

\* The scheduler's chunk taken and loaded again; the clocks' is ClockForest's.
reload(m) == [m EXCEPT !.queue = restore(@, [Snapshot(@) EXCEPT !.now = m.now])]
=============================================================================
