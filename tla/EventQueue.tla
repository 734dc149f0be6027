----------------------------- MODULE EventQueue -----------------------------
(***************************************************************************)
(* The scheduler's event queue (src/core/sched.rs, struct EventQueue): a   *)
(* hierarchical timing wheel, a heap of far events, a heap of due events   *)
(* and a set of tombstones for cancelled ones.                             *)
(*                                                                         *)
(* The queue is a record and every method is an operator from a queue to a *)
(* queue, so that the state machine of the queue alone (EventQueueSpec)    *)
(* and the scheduler's rounds (Scheduler) use the same definitions.        *)
(*                                                                         *)
(* An event keeps its instant and its sequence number; `target` and        *)
(* `token` are opaque to the queue and left out.  A heap is the set of its *)
(* entries: only its minimum is ever looked at, and (time, seq) is a total *)
(* order.  `now_granule` is always `now >> granule_shift` and is computed. *)
(***************************************************************************)
EXTENDS Integers, FiniteSetsExt

CONSTANTS
    Slots,    \* WHEEL_SLOTS, slots of one level
    Levels,   \* WHEEL_LEVELS
    Span,     \* Span[l]: granules in one slot of level l, 1 << (8 * l)
    Granule   \* 1 << granule_shift, instants in one granule

Level == 0 .. Levels - 1

Slot == 0 .. Slots - 1

ASSUME WheelAssumption ==
    /\ Slots \in Nat /\ Slots > 1
    /\ Levels \in Nat \ {0}
    /\ Granule \in Nat \ {0}
    /\ Span \in [Level -> Nat \ {0}]
    /\ Span[0] = 1
    /\ \A l \in Level \ {0} : Span[l] = Slots * Span[l - 1]

NoTime == -1

Event == [time : Nat, id : Nat]

NoEvent == [time |-> NoTime, id |-> NoTime]

\* Mutant: ties go to the event posted last.
BeforeLifo(a, b) ==
    \/ a.time < b.time
    \/ a.time = b.time /\ a.id > b.id

Before(a, b) ==
    \/ a.time < b.time
    \/ a.time = b.time /\ a.id < b.id

Earliest(S) == CHOOSE e \in S : \A f \in S : f = e \/ Before(e, f)

Queue == [now : Nat, near : [Level -> [Slot -> SUBSET Event]],
          level_len : [Level -> Int], far : SUBSET Event, due : SUBSET Event,
          cancelled : SUBSET Nat, next_seq : Nat]

New == [now |-> 0, near |-> [l \in Level |-> [s \in Slot |-> {}]],
        level_len |-> [l \in Level |-> 0], far |-> {}, due |-> {},
        cancelled |-> {}, next_seq |-> 0]

\* The index of the block of level l that holds instant t.
Block(l, t) == (t \div Granule) \div Span[l]

-----------------------------------------------------------------------------
(***************************************************************************)
(* Placement.  The loop over the levels stops at the first one on which    *)
(* the event's block is less than a turn of the wheel ahead.               *)
(***************************************************************************)
Home(heap, l, s) == [heap |-> heap, level |-> l, slot |-> s]

Fits(now, t) == {l \in Level : Block(l, t) - Block(l, now) < Slots}

\* Mutant: the level is chosen by raw distance instead of by block index.
placementByDistance(now, t) ==
    LET near == {l \in Level : t \div Granule - now \div Granule < Slots * Span[l]}
    IN  IF t \div Granule <= now \div Granule THEN Home("due", 0, 0)
        ELSE IF near = {} THEN Home("far", 0, 0)
        ELSE Home("near", Min(near), Block(Min(near), t) % Slots)

placement(now, t) ==
    LET l == Min(Fits(now, t))
    IN  IF t <= now THEN Home("due", 0, 0)
        ELSE IF Fits(now, t) = {} THEN Home("far", 0, 0)
        ELSE IF Block(l, t) = Block(l, now) THEN Home("due", 0, 0)
        ELSE Home("near", l, Block(l, t) % Slots)

\* push_entry for every event of E; they land in sets, so order is immaterial.
push_entries(q, E) ==
    LET home(e) == placement(q.now, e.time)
        At(l, s) == {e \in E : home(e) = Home("near", l, s)}
    IN  [q EXCEPT
          !.due  = @ \cup {e \in E : home(e).heap = "due"},
          !.far  = @ \cup {e \in E : home(e).heap = "far"},
          !.near = [l \in Level |-> [s \in Slot |-> q.near[l][s] \cup At(l, s)]],
          !.level_len = [l \in Level |-> q.level_len[l]
              + Cardinality({e \in E : home(e).heap = "near" /\ home(e).level = l})]]

\* Mutant: the instant is taken relative to the queue's position.
scheduleRelative(q, t) ==
    push_entries([q EXCEPT !.next_seq = @ + 1],
                 {[time |-> t - q.now, id |-> q.next_seq]})

schedule(q, t) ==
    push_entries([q EXCEPT !.next_seq = @ + 1], {[time |-> t, id |-> q.next_seq]})

cancel(q, id) == [q EXCEPT !.cancelled = @ \cup {id}]

-----------------------------------------------------------------------------
(***************************************************************************)
(* advance_to.  Each level sweeps the slots of the blocks just passed, at  *)
(* most one turn.  Level 0 drains into `due`; what an upper level drains   *)
(* is re-placed against the new position, which puts it on a lower level   *)
(* or in `due`, never back into a slot still to be swept, so the levels    *)
(* may be drained together.  Last, far events now within the span are      *)
(* pulled from the head of the heap up to the first that is still far.     *)
(***************************************************************************)
Passed(l, from, to) ==
    LET old   == Block(l, from)
        steps == Min({Block(l, to) - old, Slots})
    IN  {(old + i) % Slots : i \in 1 .. steps}

Drained(q, l, to) == UNION {q.near[l][s] : s \in Passed(l, q.now, to)}

Pulled(q) ==
    {e \in q.far : \A f \in q.far :
        (f = e \/ Before(f, e)) => placement(q.now, f.time).heap # "far"}

\* Mutant: the counters of the swept levels are not brought down.
sweepKeepsLen(q, to) ==
    push_entries([q EXCEPT
        !.now  = to,
        !.due  = @ \cup Drained(q, 0, to),
        !.near = [l \in Level |-> [s \in Slot |->
                    IF s \in Passed(l, q.now, to) THEN {} ELSE q.near[l][s]]]],
        UNION {Drained(q, l, to) : l \in Level \ {0}})

sweep(q, to) ==
    LET swept == [q EXCEPT
          !.now  = to,
          !.due  = @ \cup Drained(q, 0, to),
          !.near = [l \in Level |-> [s \in Slot |->
                      IF s \in Passed(l, q.now, to) THEN {} ELSE q.near[l][s]]],
          !.level_len = [l \in Level |->
                      q.level_len[l] - Cardinality(Drained(q, l, to))]]
    IN  push_entries(swept, UNION {Drained(q, l, to) : l \in Level \ {0}})

pull(q) == push_entries([q EXCEPT !.far = @ \ Pulled(q)], Pulled(q))

advance_to(q, to) ==
    IF to <= q.now THEN q
    ELSE IF to \div Granule = q.now \div Granule THEN [q EXCEPT !.now = to]
    ELSE pull(sweep(q, to))

\* Where entries may be: on the wheel, in the slot of a block less than a turn
\* ahead; in the far heap, a turn or more ahead on the top level; in the due
\* heap, in the current granule or before it.
NearPlaced(q) ==
    \A l \in Level : \A s \in Slot : \A e \in q.near[l][s] :
        /\ s = Block(l, e.time) % Slots
        /\ Block(l, q.now) < Block(l, e.time)
        /\ Block(l, e.time) < Block(l, q.now) + Slots

DuePlaced(q) == \A e \in q.due : Block(0, e.time) <= Block(0, q.now)

FarPlaced(q) ==
    \A e \in q.far : Block(Levels - 1, e.time) >= Block(Levels - 1, q.now) + Slots

-----------------------------------------------------------------------------
(***************************************************************************)
(* pop_due.  Tombstoned heads are discarded, and their tombstones with     *)
(* them, up to the first live event at or before t.                        *)
(***************************************************************************)
Live(q, S) == {e \in S : e.id \notin q.cancelled}

DueAt(q, t) == {e \in q.due : e.time <= t}

popped(q, t) ==
    IF Live(q, DueAt(q, t)) = {} THEN NoEvent ELSE Earliest(Live(q, DueAt(q, t)))

Discarded(q, t) ==
    {e \in DueAt(q, t) : popped(q, t) # NoEvent => ~Before(popped(q, t), e)}

\* The queue after taking popped(q, t), for a queue already advanced to t.
pop(q, t) ==
    [q EXCEPT !.due = @ \ Discarded(q, t),
              !.cancelled = @ \ {e.id : e \in Discarded(q, t)}]

-----------------------------------------------------------------------------
(***************************************************************************)
(* next_deadline: purge_cancelled_due, then the value.                     *)
(***************************************************************************)
purge_cancelled_due(q) ==
    LET dead == {e \in q.due : \A f \in q.due :
                    (f = e \/ Before(f, e)) => f.id \in q.cancelled}
    IN  [q EXCEPT !.due = @ \ dead, !.cancelled = @ \ {e.id : e \in dead}]

\* The bucket of level l that is i blocks ahead of the current one.
Ahead(q, l, i) == Live(q, q.near[l][(Block(l, q.now) + i) % Slots])

\* Mutant: a level that holds only tombstones ends the search.
next_deadlineLowest(q) ==
    LET level == Min({l \in Level : q.level_len[l] # 0})
        alive == UNION {Ahead(q, level, i) : i \in 1 .. Slots - 1}
    IN  IF purge_cancelled_due(q).due # {}
        THEN Earliest(purge_cancelled_due(q).due).time
        ELSE IF \E l \in Level : q.level_len[l] # 0
        THEN IF alive = {} THEN NoTime ELSE Min({e.time : e \in alive})
        ELSE IF q.far # {} THEN Earliest(q.far).time
        ELSE NoTime

next_deadline(q) ==
    LET found == {x \in Level \X (1 .. Slots - 1) :
                    q.level_len[x[1]] # 0 /\ Ahead(q, x[1], x[2]) # {}}
        first == CHOOSE x \in found : \A y \in found :
                    x[1] < y[1] \/ (x[1] = y[1] /\ x[2] <= y[2])
        due   == purge_cancelled_due(q).due
    IN  IF due # {} THEN Earliest(due).time
        ELSE IF found # {} THEN Min({e.time : e \in Ahead(q, first[1], first[2])})
        ELSE IF q.far # {} THEN Earliest(q.far).time
        ELSE NoTime

-----------------------------------------------------------------------------
(***************************************************************************)
(* Snapshot: the live events and the counter; and its inverse.             *)
(***************************************************************************)
Entries(q) ==
    q.due \cup q.far \cup UNION {UNION {q.near[l][s] : s \in Slot} : l \in Level}

events(q) == Live(q, Entries(q))

Snapshot(q) == [now |-> q.now, next_seq |-> q.next_seq, events |-> events(q)]

Duplicated(E) == {e \in E : \E f \in E \ {e} : f.id = e.id}

\* How entries are numbered: each once, below the counter, and no tombstone
\* lies in wait for an event yet to be posted.
Numbered(q) ==
    /\ Duplicated(Entries(q)) = {}
    /\ \A e \in Entries(q) : e.id < q.next_seq
    /\ \A id \in q.cancelled : id < q.next_seq

ValidSnapshot(snap) ==
    /\ \A e \in snap.events : e.id < snap.next_seq
    /\ Duplicated(snap.events) = {}

\* Mutant: the restored queue starts counting again from zero.
restoreCountsFromZero(q, snap) ==
    IF ValidSnapshot(snap)
    THEN push_entries([New EXCEPT !.now = snap.now], snap.events)
    ELSE q

\* An invalid snapshot is refused before anything is touched.
restore(q, snap) ==
    IF ValidSnapshot(snap)
    THEN push_entries([New EXCEPT !.now = snap.now, !.next_seq = snap.next_seq],
                      snap.events)
    ELSE q

len(q) ==
    MapThenSumSet(LAMBDA l : q.level_len[l], Level)
        + Cardinality(q.far) + Cardinality(q.due)
=============================================================================
