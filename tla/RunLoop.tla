------------------------------- MODULE RunLoop -------------------------------
(***************************************************************************)
(* Machine::run_until over the scheduler (machine/machine.rs), on two       *)
(* copies of one machine.  `u` is run in one call.  `s` is run in slices:   *)
(* its caller's deadlines may fall inside a round, which is then declined,  *)
(* and it may be snapshotted and reloaded.  The programs are the same: in   *)
(* the same round a runnable stops after the same number of ticks, and what *)
(* is posted or cancelled between two rounds is the same.                   *)
(***************************************************************************)
EXTENDS Scheduler

CONSTANTS
    Boards,   \* the runnables a machine may be built with
    Wants,    \* how many ticks a runnable may want to run for
    Times,    \* instants an event may be posted for
    Delays,   \* ticks from now an event may be posted for
    Deadlines,\* instants a caller may stop at
    MaxSeq,   \* bound: events posted
    Horizon   \* bound: instants reached

VARIABLES s, u,
    misled,   \* next_deadline has sized a round of s or u by an answer that was
              \* not the next event's instant
    status    \* how the last turn ended: "ok"; "stalled", the error "virtual
              \* time did not advance"; "overrun", the error that ends the run

vars == <<s, u, misled, status>>

Init ==
    /\ \E board \in Boards : s = Boot(board)
    /\ u = s
    /\ misled = FALSE
    /\ status = "ok"

\* What a program does in a round: when each runnable gives its budget up.
Programs == [DOMAIN s.runnables -> Wants]

AtBoundary == s.now = u.now

\* The instant next_deadline should answer, and whether it matters that it does
\* not: MCEventQueueDeadline shows that the wheel can answer too late, and a far
\* tombstone makes it answer too early.
NextEvent(m) == IF events(m.queue) = {} THEN NoTime ELSE Earliest(events(m.queue)).time

Misled(m) ==
    \E answer \in {next_deadline(m.queue)}, at \in {NextEvent(m)} :
        /\ answer # at
        /\ \E t \in {answer, at} \ {NoTime} : t < next_grid_point(m.now)

Asks == misled' = (misled \/ Misled(s) \/ Misled(u))

\* advance_to after a round that ended at target.
Outcome(target) == IF target <= s.now THEN "stalled" ELSE "ok"

\* There is a whole round to run, within the bound.
CanRound == status # "overrun" /\ natural_target(s) <= Horizon

\* One turn of the loop of advance_to that runs a whole round.
Round(want) ==
    \E target \in {natural_target(s)} :
        /\ CanRound
        /\ s' = sync_lazy_devices(run_quantum_deterministic(s, target, want))
        /\ u' = sync_lazy_devices(run_quantum_deterministic(u, natural_target(u), want))
        /\ status' = Outcome(target) /\ Asks

\* One turn that the caller's deadline falls inside.
Decline(limit) ==
    /\ status # "overrun" /\ s.now < limit /\ limit < natural_target(s)
    /\ s' = sync_lazy_devices(decline_round(s, limit))
    /\ status' = "ok" /\ Asks
    /\ UNCHANGED u

\* Between two rounds of a run that has not ended.
Between == AtBoundary /\ status # "overrun"

\* A debugger's fragment of a round.
Step(limit, want) ==
    LET target == Min({natural_target(s), limit})
    IN  /\ Between /\ s.now < limit
        /\ s' = sync_lazy_devices(run_quantum_deterministic(s, target, want))
        /\ u' = sync_lazy_devices(run_quantum_deterministic(u, target, want))
        /\ status' = Outcome(target) /\ Asks

\* The n-th runnable of the round reports more than its budget: the round ends
\* in an error, with the runnables before it advanced and nothing else.
Overrun(n, want) ==
    /\ status # "overrun"
    /\ cap(ticks_until(run_first(s, n - 1, natural_target(s), want),
                       Order(s)[n], natural_target(s))) > 0
    /\ s' = run_first(asked(s), n - 1, natural_target(s), want)
    /\ u' = run_first(asked(u), n - 1, natural_target(u), want)
    /\ status' = "overrun" /\ Asks

Post(t) ==
    /\ Between /\ s.queue.next_seq < MaxSeq
    /\ s' = schedule_at(s, t) /\ u' = schedule_at(u, t)
    /\ UNCHANGED <<misled, status>>

PostAfter(i, n) ==
    /\ Between /\ s.queue.next_seq < MaxSeq
    /\ s' = schedule_after_ticks(s, i, n) /\ u' = schedule_after_ticks(u, i, n)
    /\ UNCHANGED <<misled, status>>

\* (EventQueueSpec cancels handles that have already fired, too.)
Cancel(id) ==
    /\ Between
    /\ s' = [s EXCEPT !.queue = cancel(@, id)]
    /\ u' = [u EXCEPT !.queue = cancel(@, id)]
    /\ UNCHANGED <<misled, status>>

Reload ==
    /\ status # "overrun"
    /\ s' = reload(s)
    /\ UNCHANGED <<u, misled, status>>

Next ==
    \/ \E want \in Programs :
         \/ Round(want)
         \/ \E limit \in Deadlines : Step(limit, want)
         \/ \E n \in DOMAIN s.runnables : Overrun(n, want)
    \/ \E limit \in Deadlines : Decline(limit)
    \/ \E t \in Times : Post(t)
    \/ \E i \in DOMAIN s.runnables, n \in Delays : PostAfter(i, n)
    \/ \E e \in events(s.queue) : Cancel(e.id)
    \/ Reload

\* The loop of advance_to turns until the deadline is reached: weak fairness of
\* Round, spelt out for TLC.  A round is known by the target both copies reach;
\* a post or a cancellation where the target is the present looks like one, but
\* only MaxSeq of each can be made.
Turned == s'.now = natural_target(s) /\ u'.now = natural_target(u)

Fairness == []<>~CanRound \/ []<><<Turned>>_vars

Spec == Init /\ [][Next]_vars /\ Fairness

-----------------------------------------------------------------------------
\* What of a machine its guest can tell.
Guest(m) == [runnables |-> m.runnables, osc |-> m.osc, dev |-> m.dev]

\* Running for a span and running for it in pieces reach the same state
\* (run_until, decline_round): the same rounds end at the same instants, in the
\* same order of runnables, and fire the same events at the same instants.
\* Inside a declined round no clock moves, unless nothing runs on the board.
\* The claim stands until a round is sized by a wrong answer of next_deadline.
Additive ==
    misled \/ Misled(s) \/ Misled(u) \/
        /\ natural_target(s) = natural_target(u)
        /\ s.cursor = u.cursor
        /\ events(s.queue) = events(u.queue)
        /\ s.log = u.log
        /\ (AtBoundary \/ s.runnables # <<>>) => Guest(s) = Guest(u)

\* A round never runs past an event: one that is live is fired in the step that
\* reaches its instant, or, posted late, in the next one (natural_target).  An
\* event next_deadline did not answer with fires at the end of that very round.
FiresOnTime ==
    [][s'.now > s.now => \A e \in events(s.queue) :
         /\ e.time <= s'.now => [event |-> e, at |-> s'.now] \in s'.log
         /\ ~Misled(s) => e.time >= s'.now \/ e.time <= s.now]_vars

\* A device stops on every event of its own, at the boundary at that event's
\* instant and no other, even where its tree is a tick short of it
\* (lazy_deadline, sync_lazy_devices, deliver_due_events).
DeviceEventsOnTime ==
    \A m \in {s, u} :
        m.dev.fired = {[tick |-> k, at |-> global_time_of_tick(m, k)] :
                        k \in {k \in 1 .. Horizon : k % Device.every = 0
                                    /\ global_time_of_tick(m, k) <= m.now}}

\* Each runnable has only what it consumed, in whole ticks, and nothing beyond
\* the present; its crystal waits for the slowest (advance_runnable).  A crystal
\* nothing drives stands at the last boundary (advance_undriven_trees).
ClocksTogether ==
    status # "overrun" => \A m \in IF AtBoundary THEN {s, u} ELSE {u}, c \in Crystals :
        LET on == {i \in DOMAIN m.runnables : m.runnables[i].crystal = c}
        IN  /\ \A i \in Running(m, c) :
                 /\ m.runnables[i].own % m.runnables[i].per = 0
                 /\ m.osc[c].units <= m.runnables[i].own
                 /\ m.runnables[i].own <= units_at(m.osc[c], m.now)
            /\ on = {} => m.osc[c].units = units_at(m.osc[c], m.now)

\* A posted event is not lost: it fires, unless it is cancelled or the run ends
\* in an error (run_until with deadlines that keep coming).
EventuallyFires ==
    \A id \in 0 .. MaxSeq - 1 :
        (\E e \in events(s.queue) : e.id = id /\ e.time <= Horizon)
            ~> (status = "overrun" \/ \A e \in events(s.queue) : e.id # id)

\* "So this can only mean a zero quantum": run_until reports a clock that did
\* not move as a zero quantum, so with any other quantum it never has to.
StallMeansZeroQuantum == status # "stalled"
=============================================================================
