# rsemu: a verification development

rsemu is an emulator library: a small generic core (time, scheduling, memory,
wires, devices, snapshots) and a large set of chips, processors and boards built
on it. This directory holds TLA+ models of the core, the configurations that
model-check them on small instances, and proofs that hold for every instance.

The models follow the code under `src/` (paths below are relative to
`src/src/`). A definition keeps the name of the function it models;
`PROJECT.json` gives, for each one, the lines it stands for.

## 1. The system and its parts

Time is a 128-bit count of 2^-64 second units (`GlobalTime`). Every device lives
in a clock domain; domains hang off oscillators. A machine runs in *rounds*: the
scheduler picks an instant no later than the next scheduled event, gives each
processor a budget of ticks that ends there, closes the round, and fires what
became due. Devices that nobody watches are *lazy*: they are brought up to date
only when something reads them. In the parallel modes the processors of a round
run on pool threads and meet shared state (memory, the exclusive monitor, the
bus lock, lazy devices, clock requests) at any point.

| Part | Source | State | Operations |
| --- | --- | --- | --- |
| Event queue | `core/sched.rs` | four-level timing wheel, far and due heaps, tombstones, sequence counter, position | schedule, cancel, next_deadline, advance_to, pop_due, events, restore |
| Scheduler rounds | `core/sched.rs` | now, quantum, cursor, runnables, queue | run_quantum, step_quantum, run_until, decline and close a round, snapshot, restore |
| Safe points | `core/sched.rs` | stop flag, generation | request, release, stop_requested, StopGuard drop |
| Lazy devices | `core/sched.rs` | per-slot position, target, busy flag, sub-tick cursor | publish, catch up, run late, contend |
| Rate control | `core/sched.rs` | host epoch, guest epoch, debt | pace, resync |
| Clock forest | `core/clock.rs` | oscillators (time, residual, units), domains (rating, position, lead, gate) | advance, re-rate, re-parent, gate, restore |
| Clock control | `core/clock.rs` | pending rate requests, dirty flag | request, take, note_applied |
| Exclusive monitor | `core/space/monitor.rs` | claimed and live bits, reserved granules, outstanding count | register, release, reserve, holds, clear, note_store |
| Bus lock | `core/space/buslock.rs` | mutex, held flag | acquire, try_acquire, drop |
| Address space | `core/space.rs`, `core/space/*.rs` | region tree, flattened dispatch table, RAM, generation | read, write, retopology |
| Wires | `core/wire.rs` | per-source drive, pending marks, deliverer flag | set, drive, refresh, restore |
| Task pool, locks | `core/sync.rs` | job queue, running count, shutdown; held lock ranks | submit, join, quiesce, drop; lock, try_lock |
| Record and replay | `core/record.rs` | posted inputs, log, replay cursor | post, deliver, rewind_to |
| Snapshots | `core/state.rs`, `machine/migrate.rs` | chunks by path, class and version | save, load, migrate |
| Rewind | `machine/timeline.rs` | keyframes, cadence, budget | run_until, snapshot, rewind_to, forget_before |
| Translation cache | `jit/cache.rs`, `jit/dispatch.rs`, `jit/tlb.rs` | blocks by (pc, key), chains, page index, generations | lookup, insert, link, follow, invalidate, note_write, sync |
| Machine | `machine/*.rs` | instances, spaces, scheduler, nets | parse, resolve, realize, run, save, load |
| Processors | `cpu/*`, `accel/*` | architectural state | one instruction, one budget |
| Devices, buses | `dev/*`, `bus/*` | registers | MMIO handlers, events |
| Hosts | `host/*`, `ffi/*`, `wasm.rs` | queues to the outside | post, drain |

How the parts interact: the machine's run loop asks the scheduler for rounds; a
round asks the event queue for the next deadline, the clock forest for budgets,
and moves the forest by what each processor used; lazy devices read the forest;
clock requests made by devices during a round are applied to the forest at its
end; stores of every processor and of every DMA master consult the exclusive
monitor; a snapshot saves queue, forest, cursor and devices, and a load puts them
back in an order that matters.

What makes it hard, and hard to test:

* the wheel re-places its entries as time passes, so where an entry is depends
  on when it was posted and not only on its instant;
* three roundings meet (unit ticks to 2^-64 s, domain ticks to unit ticks, the
  nanosecond grid of rounds), and results must not depend on how a run is cut;
* re-rating a domain while counters run, across trees, in batches that may fail;
* the exclusive monitor is lock-free, with a count that summarises a bit set;
* the shared state of the parallel modes: a net whose deliverer takes over the
  changes of others, a lazy device taken out of its slot, requests announced by a
  flag raised after the entry, a pool that sleeps on three conditions;
* input stamped at a boundary and handed out again after a rewind;
* blocks that jump to blocks, in slots that are reused.

`PROJECT.json` lists each such hazard at its line, with the property that
watches it or the reason there is none.

## 2. Modules

| Module | What it is |
| --- | --- |
| `EventQueue` | the queue's operations as operators on a record: `placement`, `push`, `schedule`, `cancel`, the cascade of `advance_to`, `pop`, `next_deadline`, `events`, `restore` |
| `EventQueueSpec` | the queue as a state machine, its properties, and the refinement mapping to |
| `AbstractQueue` | what the queue promises: a set of live events, the earliest leaves first |
| `EventQueueProofs` | the proofs about `EventQueueSpec` |
| `ExclusiveMonitor` | the monitor's atomic steps: one operator per atomic instruction |
| `Atomics` | harts executing LR, SC, AMO, stores, traps, attach and detach, one atomic step of the host at a time, over the monitor, the bus lock and the store path |
| `Oscillator` | a crystal's timeline: the accumulator with its residual and the closed forms |
| `Crystal` | one crystal as a state machine: advance, re-rate, restore |
| `CrystalProofs` | the proofs about `Oscillator` and `Crystal` |
| `ClockForest` | domains and oscillators: every operation that moves or re-shapes them, and the machine around them that saves and loads |
| `Scheduler` | deterministic rounds as operators on a scheduler record, built on `EventQueue` and `Oscillator` |
| `RunLoop` | `Machine::advance_to` on two copies of one machine, one of them sliced, stepped and reloaded |
| `HostThreads` | the threads of a parallel machine: the driver, the pool's workers, and one host thread outside both |
| `Wire` | a net: `drive`, `refresh` and `deliver`, one step per atomic access, in both net modes |
| `Pool` | the task pool: `submit`, `join`, `quiesce`, the worker loop, `drop`, and who sleeps on what |
| `LazySlot` | a lazy device under contention: `sync`, its bounded wait, the debug access, a device that breaks its contract, `publish`, arming |
| `ClockControl` | rate requests from any thread, the batch taken at a boundary and its application |
| `ParallelRound` | `run_quantum_dispatched` composed of the four above, with safe points |
| `WireMoves`, `WireProofs` | the proofs about `Wire` |
| `PoolMoves`, `PoolProofs` | the proofs about `Pool` |
| `DeviceSideProofs` | the proofs about `LazySlot` and `ClockControl` |
| `Recorder` | posted input, the log, the replay cursor and the port |
| `Timeline` | keyframes, `run_until`, `rewind_to`, `forget_before` over the machine's loop |
| `BlockCache` | the block cache as operators: lookup, links and back edges, eviction, invalidation |
| `Dispatch` | the dispatch loop, chains inside generated code, the code buffer, over `BlockCache` |
| `MC*` | instances for TLC |

How they are composed: `Scheduler` extends `EventQueue` and `Oscillator` and so
contains the very operators the proofs are about. `ClockForest` shows each of
its crystals to be a `Crystal` (the property `CrystalsKept`), which is how what
is proved of `Crystal` reaches the forest. `Atomics` extends `ExclusiveMonitor`.
`ParallelRound` extends `Wire`, `Pool`, `LazySlot` and `ClockControl`: a step of
the round is a step of one of them, or of several at once where the code does
several things in one critical section. `Timeline` extends `Recorder`, `Dispatch`
extends `BlockCache`.

**Event queue.** The state `q` is the struct: `near` (levels of slots), `far`,
`due`, `level_len`, `cancelled`, `next_seq`, `now`. Buckets and heaps are sets,
because the code takes their least element in (time, number) order. Levels,
slots, spans and granule are constants; the code has four levels of 256 slots
and granules of 2^32 units by default (`WHEEL_LEVELS`, `WHEEL_SLOTS`, `DEFAULT_GRANULE_SHIFT`). `restore` accepts or refuses
as the code does, and `RestoreDamaged` offers it a counter that has been reset
and an event that is there twice.

**Atomics.** A core's program counter steps through one atomic instruction of
the host at a time, in the order of the code: a bit and the count that
summarises it are separate steps, and so are the copy of the live word and each
visit to a slot. A reservation has two halves, the core's own (`local`) and its
slot; a fault, a trap, a store of the core itself and a change of address space
each drop their own part of it. In a scene with `buffered`, plain stores wait in a store buffer until they
drain; locked operations and fences drain it first. Nothing else of the memory
model is weakened, so a pass says nothing of reorderings beyond those of a
store buffer. `commits`, `hit` and `stale` are history variables.

**Clock.** Times are integers in units of 1/`Frac` second; the code's `Frac` is
2^64. Wide arithmetic is exact in the code (128- and 192-bit intermediates) and
in the model; that a tree has no common unit that fits is the bound
`MaxUnitMul`, past which the code's error path is taken.

**Scheduler and run loop.** The record `s` is what a scheduler is: `now`,
`cursor`, `queue`, `runnables` (each with its own position on its crystal),
`osc`, one lazy device `dev`, and `log`, the history of fired events. What a
processor does with its budget is free: `want` says, for each runnable of a
round, after how many ticks it stops. `u` runs the same program in one call.
`Misled` is the state in which `next_deadline` answers an instant after a live
event; `misled` remembers that a round was sized in one. `Additive` speaks of
runs until then, and so does the half of `FiresOnTime` that says where a round
ends; that the hidden event fires at the end of that very round is said without
the condition. The lazy device has an event of its own every few ticks, and
`fired` records the instant at which it stopped on each.

**Parallel rounds.** `dpc` is where the driving thread stands in
`run_quantum_dispatched`: the rates asked for, taken and applied; the caller's
deadline, which may decline the round; budgets, capped where the mode caps them;
the move of all runnables but the last into jobs; its own share; the rendezvous;
the books; publishing, catching lazy devices up, due events, and the rates asked
for meanwhile. `inner[r]` says that a runnable is in its slot; a job that is
queued, running or waiting to be joined holds it otherwise. A runnable executes
blocks, each of which may drive the net, ask for a rate, touch the device,
compute or panic; between blocks it looks at its own exit flag and the world's.
`ran` counts the blocks really executed, `ticks` is what the books say, and
`unbooked` what was executed in rounds that a report over budget ended. A panic
unwinds the rendezvous: the handles not yet joined are dropped, with the
runnables in them, while their jobs go on; the caller drops the pool, which
drains it.

Who stops the world: the driver, between rounds, takes a `StopGuard` (`Poke`,
then `quiesce`, then `DropGuard`); the host thread raises the world's flag or
one runnable's and lowers it again (`HostStop`). The flag is one, and dropping a
guard lowers it whoever else asked for it. So where the two overlap, the world
runs again at the first drop, with the other stop still wanted. `BarrierHolds`
is true of this because it speaks of what the driver has joined and of the flag;
that a stop lasts until its own guard is dropped would be false.

**Wire.** `wt[t]` is where a thread stands in a call: mark, claim, scan, read
the drives, settle, tell, open, look again, give up. The sinks of a net hear the
same things in the same order and are one listener, which may drive the net from
inside the call that tells it (`Feedback`).

**Pool.** What is done under one hold of a lock is one step; a notification
after the lock is a step of its own. A panicking job fills its slot with the
panic.

**Lazy slot, clock control.** `home` says the device is in its slot; a thread
that finds it gone spins at most `LAZY_CONTENDED_SPINS` times and then reports
it busy. A debug access looks without advancing. A device may stop short of
what it was asked for without an event of its own (the walk ends there), or come
back earlier than it was (`NonMonotonic`, an error of the round). `raising`
holds the threads between the entry of a request and the flag that announces it;
`batch` is what the scheduler has taken and is applying, or has refused, while
more arrives.

**Recorder and timeline.** The guest is deterministic: in a round it reads what
its port holds, up to its appetite. The port keeps at most `PORT_CAPACITY` inputs
and drops the rest (`dropped`), while recording and again while replaying. A
call whose deadline lies inside a round declines it, and the next call takes
inputs at that instant. `lived` remembers the guest's state after each recorded
round, which a replay must go through again. A keyframe is the guest
state it restores; its bytes are not modelled.

**Block cache and dispatcher.** A slot has a stamp, and a link or an id carries
the stamp of the block it means. What a guest block does is its effect on the
cache: the pages it stores to, up to `MaxDirty` of them and in any order, and
whether the topology was replaced. A block does not end at its stores: under
`Smc::HostGuard` only one into the page it was lifted from makes it leave, at its
next instruction, and everything it wrote is drained at the boundary. A run of
the dispatcher ends before or after the cache has been brought to the topology
in force, as the code does. A code buffer that is full is reset, every code
handle with it; a block that does not fit the emptied buffer either is then
refused and interpreted. `stale` remembers which translations this core's own
stores, or a new topology, made untrue. Bytes written by a device or another
core invalidate nothing in this code (`cpu/riscv/engine.rs:274`: such a guest
"can execute a stale translation"; `cpu/x86/engine.rs:323`), and are not in the
model.

## 3. Runs

Twelve runs: eight must pass, four show a place where a comment of the code says
something the code does not do.

| Run | Checks | Instance |
| --- | --- | --- |
| `queue` | `TypeOK`, `UniqueIds`, `WheelInv`, `LevelLenExact`, `DeadlineFound`, `Refines` | two levels of two slots, granule 2; three events at 2, 4, 5, 9; one snapshot, taken once time has moved |
| `queue_deadline` | `DeadlineNotLate` (violated) | as above |
| `atomics` | `UpdatesKept`, `SlotsOwned`, `CountSettles` | three cores on two slots, in three scenes: contended words with store buffers; cores that attach, trap and detach; accesses to an unmapped word between the others |
| `atomics_count` | `StoreBreaksReservation` (violated) | three cores on three slots, two granules |
| `clocks` | `RestoreExact`, `RatesTrue`, `CrystalsKept`, `CountersContinuous`, `PhaseKept` | two crystals, four domains; three scenes: two changes of shape with every operation; batches over both trees, of which the second may have no common unit; three changes of a machine that saves and loads |
| `crystal_timeline` | `TimelineExact`, `ReachesOwnTime` | rates that divide the timeline unevenly |
| `run_loop` | `Additive`, `DeviceEventsOnTime`, `ClocksTogether`, `FiresOnTime`, `EventuallyFires` | four boards, a wheel of two levels, two events, a horizon of twelve instants |
| `run_loop_stall` | `StallMeansZeroQuantum` (violated) | as above |
| `parallel` | `BarrierHolds`, `Accounted`, `WakeupsKept`, `DrainedOnExit`, `Settled`, `OneDeliverer`, `AccessFresh`, `RequestsKept`, `RunEnds` | three runnables, a pool of two workers of which none, one or both are granted, a host thread, two sources, two domains, nine scenes |
| `replay` | `LogOrdered`, `InputsOnce`, `ReplayFaithful`, `KeyframesTrue`, `RunReturns` | three rounds, three inputs, a port for two, up to two rewinds, ten scenes |
| `replay_rewind` | `InputsOnce` (violated) | a guest that reads one input a round |
| `jit` | `LinksSound`, `IndexesExact`, `ServedCurrent`, `CodeCurrent` | a cache of three slots for four blocks, a code buffer for two, up to two pages stored to by a block, five scenes |

A *scene* is one set of inputs; the initial state chooses one, and it never
changes. Scenes keep apart what would only multiply (a net and a clock, say) and
put together what may interfere.

**Why the bounds are enough to be interesting.** *Queue:* with granule 2 and two
slots a level, 2 is on level 0, 4 and 5 on level 1 and 9 beyond the wheel, so
three events cover every pair of places, a cascade from each to the next, and
two events of one granule. *Atomics:* the budgets let two cores reserve the same
word while a third stores beside it; with two slots for three cores the table
fills and slots are recycled. *Clock:* at 5 and 3/2 ticks a second a tick is no
whole number of 1/64 s, the rating 3/2 refines the unit, and 1/2 leaves a
remainder. *Run loop:* a second of 16 instants and 10 "nanoseconds" puts neither
the grid nor the ticks on whole instants; the boards are two processors on one
crystal at different speeds, one processor beside a stopped one, one that counts
every unit, and none at all; with two levels of two slots an event for 4 is on
the upper level when one for 5 is posted below it, so that `Misled` is reached. *Parallel:* with two sources and a sink that answers, a delivery takes a
second pass because of another thread's change, because of the sink's own, and
gives up when both keep coming; two threads on one device find the slot empty
while it is walked; a batch of rates is refused while another thread is between
entry and flag; one scene each has a panic, reports over budget by one runnable
and by two, capped budgets with a deadline inside a round, overlapping stops, and
a runnable that is stopped alone and catches up. *Replay:* the guest keeps up or lags until its port overflows, keyframes
are thinned by budgets of one and two, replays are cut where the recording was
not, and recordings are cut inside rounds by the caller or by the cadence. *Jit:* four
blocks for three slots force evictions under live links, one block has more
successors than exits, two blocks differ only in their key, hash chains and
filter bits collide, a third compiled block resets the code buffer, and one scene
resets it for a block that is then refused.

**What the bounds and conditions hide.** Once `next_deadline` has answered
wrongly `Additive` says nothing more of that run: a declined round fires the
hidden event at the caller's deadline, the run in one piece only at the end of
the round. In `replay` a guest that lags is not rewound, because that is what
`replay_rewind` shows, and `ReplayFaithful` stops at the first input taken inside
a round. `UpdatesKept` is for cores that reserve with a slot: past the ceiling of
the table a core has its own half alone. `RestoreExact` is for forests that count
in one unit. `Horizon`,
`MaxSeq`, `MaxUnits`, `MaxTime`, `MaxTicks`, `MaxNow`, `MaxPosts`, `MaxDirty`, the
budgets of cores and the fields of a scene bound histories, and are the only reason
deadlock is not checked where it is not: a history that has reached its bound
stops. `CountersContinuous` and `PhaseKept` speak of a `MaxUnitMul` of 3: a tree
without a common unit that small takes the code's error path.

**Fairness.** Three properties need some.

* `EventuallyFires`: `advance_to` is a loop that runs rounds until its deadline,
  so a machine whose caller keeps asking for time keeps running rounds.
  `Fairness` is weak fairness of `Round`, with its enabling condition
  (`CanRound`) written out. Nothing is assumed of callers that post or cancel,
  and a run that ended in an error owes nothing.
* `RunEnds`: weak fairness of each thread's next step, which is what the host's
  scheduler gives a thread that is neither asleep on a condition nor blocked.
  Nothing is assumed of the host thread, which need neither stop the world nor
  let it go again, nor of what the driver may do between rounds; and a thread asleep is woken only by a
  notification, so a lost wakeup would show here as well as in `WakeupsKept`.
* `RunReturns`: weak fairness of the call in progress; nobody has to make one.

## 4. What disagrees

Each is a violating run, with the comment it contradicts quoted in
`PROJECT.json`.

1. `next_deadline` can be later than a live event. An entry stays on level 1
   until its block is entered; a later event posted meanwhile may sit on level
   0, which is asked first (`core/sched.rs:478`).
2. The monitor's count can be zero while a reservation stands. A store that
   breaks a reservation between its bit and its count takes one off too early
   (`core/space/monitor.rs:457`). Updates are kept in spite of it where both
   sides are atomic (`UpdatesKept`): an SC commits under the bus lock.
3. `run_until` reports a zero quantum when a round stood still because an event
   was already due (`machine/machine.rs:720`).
4. Input delivered before a keyframe and still unread when it was taken is lost
   by a rewind to it (`core/record.rs:1156`).

Observed while reading, with no run of their own:

* *queue, clock:* a tombstone at the head of the far heap still answers
  `next_deadline` (`sched.rs:497`); `advance_to_global` rounds down where its
  comment says "at or after" (`clock.rs:1270`); `restore_unit_position` starts a
  new segment, so positions before it convert differently afterwards, and the
  instant of a crystal that was ever re-rated does not come back with a load
  (`clock.rs:1539`, `clock.rs:1566`); a frequency set on a crystal that was locked into another
  tree reaches an `expect` (`clock.rs:1726`; `Panic`, after which nothing more happens); a crystal whose only processors
  are gated never moves, because they still count as its drivers. A snapshot
  holds the raw unit position while the unit depends on ratings the tree may no
  longer have: a tree re-rated to 3/2 and back, saved, and loaded into a fresh
  machine is restored at another position (`machine/machine.rs:1276`).
  `RestoreExact` says so in its hypothesis: both forests count in one unit.
* *monitor:* the consult after a store is an acquire load after relaxed stores,
  with no fence between (`core/space.rs:1527`). On a host with store buffers it
  can run before the store is visible, so a reservation can outlive a store that
  has returned.
* *parallel:* of two overlapping stops the first to be dropped lets the world
  run (section 2); when a report over budget ends a round, the runnables behind
  it have executed too, which nothing records, so they execute that span again
  (`sched.rs:3768`, `Accounted`); a panicking job takes healthy runnables down
  with it, because the handles not yet joined are dropped (`sched.rs:3974`); the
  settle limit drops a change another thread has handed over
  (which `unsettled` reports, and `Settled` excepts).
* *replay:* "a replay that reaches the same boundaries — which a deterministic
  run does, by definition — delivers at exactly the same points"
  (`core/record.rs:157`) fails for a recording driven in slices: a deadline, or a
  rewind target, inside a round stamps input in the middle of it, and a replay
  that is not sliced there delivers it a round later; "in memory and unbounded",
  "nothing here caps it" (`machine/timeline.rs:158`) was written before
  `with_budget` and `thin`, which cap it; a cadence that is no multiple of the quantum takes keyframes inside
  rounds; a rewind while recording truncates the log at the keyframe, not at the
  instant asked for.
* *jit:* bytes written by a device or another core leave translations of them
  standing, as the code says; a block too large for the code buffer empties it
  each time it is reached (`jit/x86/rt.rs:976`); `link` keeps the first two successors it saw, where the comment on
  `EXITS` says the most recent two (`jit/cache.rs:135`); the eviction queue keeps
  the ids of invalidated blocks until an eviction drops them.

## 5. Proofs

**Event queue (`EventQueueProofs`).** For every number of levels and slots,
every granule and every set of instants:

* `TypeCorrect`: `Spec => []TypeOK`
* `WheelCorrect`: `Spec => []WheelInv`
* `NumbersCorrect`: `Spec => []UniqueIds`
* `Implements`: `Spec => Refines`, the wheel implements `AbstractQueue`.

`WheelInv` alone is not inductive: that a cascade leaves nothing behind needs
the type, and that removing or cancelling by number touches one entry needs the
uniqueness of numbers. The invariant is their conjunction with the validity of
the saved snapshot and the finiteness of the sets a minimum is taken of. The argument goes through what a placement guarantees
(`PlacementFacts`), what one push keeps (`PushFacts`), which slots the sweep
passes (`NotPassed`, `OnlyPassed`), what a sweep and the pull from the far heap
keep (`SweepFacts`, `PullFacts`), and from these that after `advance_to(t)`
everything at or before `t` is in the due heap (`OnlyDueIsDue`), which is why
the head of that heap is the earliest event of all. The assumptions on constants
are in `EventQueue` (a wheel has a level, a level a slot, spans multiply) and
`EventQueueSpec` (instants are natural numbers).

**Crystal (`CrystalProofs`).** For every resolution `Frac`, every set of rates
whose numerator is at most `Frac` (in the code a numerator is a `u64` and `Frac`
is 2^64) and every history:

* `TypeCorrect`, `TimelineAlwaysExact`, `AlwaysReachesOwnTime`;
* `Conversion`: a position's instant is at or before `t` exactly when the
  position is at or before `units_at(t)`.

The invariant is a balanced account: instant times rate, plus the residual, is
exactly what the unit ticks of the segment are worth, and the residual is less
than one unit. An advance carries the remainder, a change of rate starts from a
settled account, and a load computes the residual the accumulator would have
had; the closed form is then the only instant the account allows.

**Net (`WireMoves`, `WireProofs`).** For any set of threads and sources, any
settle limit, both net modes, and sinks that may drive the net in answer:

* `SettledAlways`: `WireSpec => []Settled`
* `OneDelivererAlways`: `WireSpec => []OneDeliverer`

`Settled` speaks of moments at which no call is in progress, so everything it
needs must be said of calls half way. The invariant `WireInv` has the types, the
flag (`Exclusive`: it is up exactly while one thread delivers), what a thread may
be doing where it stands (`Ways`), that a net remembers what it told
(`Remembered`), and, unless a delivery has given up, `NothingLost`: a marked
source will be looked at by the deliverer or by the thread that is about to claim
the delivery; and each source is marked, or on its way through the delivery, or
known to the sinks as it now is. `WireMoves` says once what each step may change,
so that the proof of each part has few cases. Assumed of the constants:
`ThreadsAssumption`, `WireAssumption`.

**Task pool (`PoolMoves`, `PoolProofs`).** For any set of callers and jobs and
whichever of finitely many workers are granted (`PoolAssumption`):

* `WakeupsAlwaysKept`: `PoolSpec => []WakeupsKept`
* `DropAlwaysDrains`: `PoolSpec => []DrainedOnExit`

The invariant `PoolInv` adds what makes them inductive: what holds of a worker
and of a caller where it stands, that `running` is the number of workers with a
job, that an unfilled slot belongs to a job that is queued or taken, and that a
job is in one place only (`Unfilled`), without which a worker could fill the slot
of a job somebody has queued again. `Calls` sums up every call but `submit`: it
leaves queue and workers alone, sleeps only on what is still to come, and wakes
workers or owes no wakeup.

**Lazy slot and clock control (`DeviceSideProofs`).** For any threads, any spin
limit, any spacing of device events, any domains and rates:

* `AccessAlwaysFresh`: `LazySpec => []AccessFresh`
* `RequestsNeverLost`: `ClockSpec => []RequestsKept`

The lazy slot's invariant says who holds the device and that whoever does has
brought it as far as its call asked, or knows that it would not move. The
clock's property is inductive with the types beside it.

The theorems about `Wire`, `Pool`, `LazySlot` and `ClockControl` are about those
specifications, in which any thread may make any call at any time that the
component's own rules allow. That a parallel round uses them only so is checked
in the run `parallel`, which checks the same properties of the whole round.

**Only model-checked.**

* `EventuallyFires`, `RunEnds`, `RunReturns`: liveness under fairness is out of
  the prover's reach.
* `LevelLenExact`, `DeadlineFound`: a sum of cardinalities over the slots of a
  level, and a scan.
* `UpdatesKept`, `SlotsOwned`, `CountSettles`: the argument is an induction over
  some forty program points of three kinds of instruction, and has not been
  written out.
* `RatesTrue`, `CrystalsKept`, `CountersContinuous`, `PhaseKept`, `RestoreExact`,
  `Additive`, `FiresOnTime`, `DeviceEventsOnTime`, `ClocksTogether`: they rest
  on what folds over the domains of a tree or the runnables of a round compute,
  which is induction over data.
* `BarrierHolds`, `Accounted`: these are about the composition
  of all four shared parts with the round. No proof is kept.
* `LogOrdered`, `InputsOnce`, `ReplayFaithful`, `KeyframesTrue`: an index
  into the log is the length of a filtered sequence, and what a filter returns is
  induction over data again.
* `LinksSound`, `IndexesExact`, `ServedCurrent`, `CodeCurrent`: the queue of
  evictions is filtered, for the same reason, and the four hold only together.

## 6. Not modelled

`PROJECT.json` gives the reason for each part. In short: chips, processors,
buses, firmware and hosts are sequential code behind the interfaces modelled
here; the description language, the IR and soft float are functions of unbounded
data; formats are conversions. Of the parts that are modelled, these are left
out: rounds of a parallel machine that has no pool, which run the jobs in the
order of the deterministic mode (`core/sched.rs:4115`); a clock that follows the
host's (`Source::Host`); restoring a net, its interrupt-acknowledge chain and its
contention counter; the lock-rank checker and the single-threaded backend of the
pool; the bytes of a keyframe.
