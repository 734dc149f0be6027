--------------------------- MODULE EventQueueSpec ---------------------------
(***************************************************************************)
(* The event queue as a state machine: its callers' operations in any      *)
(* order.  `out` is the answer of the last pop_due and `saved` the last    *)
(* snapshot taken.                                                         *)
(***************************************************************************)
EXTENDS EventQueue

CONSTANTS
    Times,   \* instants a caller may name
    MaxSeq   \* bound: events posted in one history

ASSUME CallerAssumption == Times \subseteq Nat /\ MaxSeq \in Nat

Ids == 0 .. MaxSeq - 1  \* handles ever given out

VARIABLES q, out, saved

vars == <<q, out, saved>>

Init ==
    /\ q = New
    /\ out = NoEvent
    /\ saved = Snapshot(New)

Schedule(t) ==
    /\ q.next_seq < MaxSeq
    /\ q' = schedule(q, t)
    /\ UNCHANGED <<out, saved>>

Cancel(id) ==
    /\ q' = cancel(q, id)
    /\ UNCHANGED <<out, saved>>

NextDeadline ==
    /\ q' = purge_cancelled_due(q)
    /\ UNCHANGED <<out, saved>>

AdvanceTo(t) ==
    /\ q' = advance_to(q, t)
    /\ UNCHANGED <<out, saved>>

PopDue(t) ==
    /\ LET at == advance_to(q, t) IN out' = popped(at, t) /\ q' = pop(at, t)
    /\ UNCHANGED saved

Save ==
    /\ saved' = Snapshot(q)
    /\ UNCHANGED <<q, out>>

Restore ==
    /\ q' = restore(q, saved)
    /\ UNCHANGED <<out, saved>>

\* A damaged snapshot: a counter that has been reset, or an event twice.
RestoreDamaged ==
    /\ \E bad \in {[saved EXCEPT !.next_seq = 0]} \cup
                  {[saved EXCEPT !.events = @ \cup {[e EXCEPT !.time = @ + 1]}]
                     : e \in saved.events} :
         bad # saved /\ bad.events # {} /\ q' = restore(q, bad)
    /\ UNCHANGED <<out, saved>>

\* The handles a caller may hold: those given out, fired or not.  cancel takes
\* any number, and one not given out yet would tombstone an event to come; only
\* schedule and a snapshot make handles (EventId::from_seq, "for nothing else").
GivenOut == {id \in Ids : id < q.next_seq}

Next ==
    \/ \E t \in Times : Schedule(t) \/ AdvanceTo(t) \/ PopDue(t)
    \/ \E id \in GivenOut : Cancel(id)
    \/ NextDeadline
    \/ Save \/ Restore \/ RestoreDamaged

Spec == Init /\ [][Next]_vars

-----------------------------------------------------------------------------
\* The queue is a well-formed record, and so are an answer and a snapshot.
TypeOK ==
    /\ q \in Queue
    /\ out \in Event \cup {NoEvent}
    /\ saved \in [now : Nat, next_seq : Nat, events : SUBSET Event]

\* An entry's number is its identity and its tie-break: no two entries share
\* one, the counter is above them all, and no tombstone waits for an event yet
\* to be posted (schedule, cancel, restore and its refusals).
UniqueIds == Numbered(q)

\* Wherever the cascade left it, an entry on the wheel is in the slot of its
\* block, ahead of the current block by less than a turn; a far entry is at
\* least a turn ahead on the top level; a due entry is not past the current
\* granule (placement, advance_to).
WheelInv == NearPlaced(q) /\ FarPlaced(q) /\ DuePlaced(q)

\* level_len is the number of entries on the level, so that next_deadline
\* skips only empty levels and `level_len -= len` cannot underflow.
LevelLenExact ==
    \A l \in Level :
        q.level_len[l] = Cardinality(UNION {q.near[l][s] : s \in Slot})

\* While anything is to fire, next_deadline has an answer: the scan of a turn
\* less one slot per level misses no bucket.
DeadlineFound == events(q) # {} => next_deadline(q) # NoTime

\* "Exact, not a hint": next_deadline is never later than a live event.
DeadlineNotLate ==
    \A e \in events(q) : next_deadline(q) # NoTime /\ next_deadline(q) <= e.time

A == INSTANCE AbstractQueue WITH
        now <- q.now, live <- events(q), next_seq <- q.next_seq

\* The wheel, the heaps and the tombstones implement the abstract queue.
Refines == A!Spec
=============================================================================
