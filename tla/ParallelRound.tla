---------------------------- MODULE ParallelRound ----------------------------
(***************************************************************************)
(* The parallel round of core/sched.rs (run_quantum_dispatched) with what  *)
(* its runnables share: all but the last are moved to the task pool, the   *)
(* last runs on the driving thread, and the round closes behind a          *)
(* rendezvous.  A runnable executes blocks; in a block it may drive a net, *)
(* ask for a clock rate, touch a lazily advanced device, or panic.  A host *)
(* thread may stop the world at any time.                                  *)
(***************************************************************************)
EXTENDS Wire, Pool, LazySlot, ClockControl, Sequences

CONSTANTS LazyOn,    \* the runnable whose crystal the lazy device is on
          Relock,    \* <<domain, rate>> asked by the device at its events
          Scenes     \* the inputs examined, each a record of:
                     \*   menu      runnable -> what its blocks may do
                     \*   modes     the modes of the net
                     \*   grants    the worker threads the host may grant
                     \*   quantum, cap  of the scheduler's configuration
                     \*   limit     the deadline of the run
                     \*   overruns  runnables that may report over budget, once
                     \*   refusals  whether the forest may refuse a batch
                     \*   falters   whether the device may break its contract, once
                     \*   pokes     what the driver may do, once, between rounds
                     \*   host      what the host thread may do, each once

Runnables == Jobs
Nobody == 0
World == 0           \* the exit flag of every runnable
NoCap == -1

VARIABLES scene,
          inner,     \* runnable -> it is in its slot
          ticks, allowed, spent, used,
          now, target,
          todo, handles, here,
          mine,      \* the runnable the driving thread executes
          dpc,       \* where the driving thread stands
          owes,      \* threads whose block has still to do its work
          stop,      \* the exit flags that are up: a runnable's own, or World
          held,      \* those the host thread has raised
          hostTodo, poked, faltered,
          ran, unbooked, short \* history: blocks executed; those of rounds whose
                               \* books did not reach the runnable; who could not
                               \* use the whole span of the last round

boxVars == <<inner, mine>>
bookVars == <<ticks, now, target, allowed, used, unbooked, short>>
planVars == <<todo, here>>
stopVars == <<stop, held, hostTodo>>
roundVars == <<scene, boxVars, bookVars, planVars, stopVars, handles, spent, ran,
               dpc, owes, poked, faltered>>
vars == <<wireVars, poolVars, lazyVars, clockVars, roundVars>>

ASSUME RoundAssumption ==
  /\ IsFiniteSet(Jobs) /\ Jobs \subseteq Nat /\ Jobs = 1 .. Cardinality(Jobs)
  /\ Callers = {Driver}
  /\ LazyOn \in Jobs
  /\ Relock \in Domains \X Rates
  /\ \A sc \in Scenes :
       /\ sc.quantum \in Nat \ {0}
       /\ \A r \in Jobs : \A op \in sc.menu[r] :
            /\ op[1] = "drive" => op[2] \in Sources /\ op[3] \in Drives
            /\ op[1] = "rate" => op[2] \in Domains /\ op[3] \in Rates

Zero == [r \in Runnables |-> 0]

Init ==
  /\ WireInit /\ PoolInit /\ LazyInit /\ ClockInit
  /\ contended = (workers # {})          \* republish_contention
  /\ scene \in Scenes /\ mode \in scene.modes /\ workers \in scene.grants
  /\ inner = [r \in Runnables |-> TRUE]
  /\ ticks = Zero /\ allowed = Zero /\ spent = Zero /\ used = Zero
  /\ ran = Zero /\ unbooked = Zero /\ short = {}
  /\ now = 0 /\ target = 0
  /\ todo = {} /\ handles = <<>> /\ here = Nobody /\ mine = Nobody
  /\ dpc = "boundary" /\ owes = {} /\ stop = {} /\ held = {}
  /\ hostTodo = scene.host /\ poked = FALSE /\ faltered = FALSE

-----------------------------------------------------------------------------
\* The runnable thread t executes.
Executing(t) == CASE t = Driver -> mine
                  [] t \in Workers /\ wk[t].pc = "run" -> wk[t].job
                  [] OTHER -> Nobody
InCall(t) == wt[t].pc # "out" \/ lt[t].pc # "out" \/ t \in raising
Free(t) == ~InCall(t) /\ t \notin owes

raised(r) == {World, r} \cap stop # {}

\* A block begins if the exit flag is down and budget is left; the cursor,
\* and with it the live view of the lazy device, moves on.
Block(t) ==
  \E r \in {Executing(t)} \ {Nobody} :
    /\ Free(t) /\ ~raised(r) /\ spent[r] < allowed[r]
    /\ spent' = [spent EXCEPT ![r] = @ + 1]
    /\ ran' = [ran EXCEPT ![r] = @ + 1]
    /\ owes' = owes \cup {t}
    /\ IF r = LazyOn THEN Arm(ticks[r] + spent[r] + 1) ELSE UNCHANGED lazyVars
    /\ UNCHANGED <<wireVars, poolVars, clockVars, scene, boxVars, bookVars, planVars,
                   stopVars, handles, dpc, poked, faltered>>

\* What the block does.  A panic leaves run with the box: on a worker it waits
\* in the job's result, on the driving thread it unwinds the round and drops
\* the handles of the jobs with it.
Work(t) ==
  /\ t \in owes
  /\ owes' = owes \ {t}
  /\ \E op \in scene.menu[Executing(t)] :
       \/ /\ op[1] = "compute"
          /\ UNCHANGED <<wireVars, poolVars, lazyVars, clockVars, mine, handles, dpc>>
       \/ /\ op[1] = "drive" /\ Drive(t, op[2], op[3])
          /\ UNCHANGED <<poolVars, lazyVars, clockVars, mine, handles, dpc>>
       \/ /\ op[1] = "rate" /\ Push(t, op[2], op[3])
          /\ UNCHANGED <<wireVars, poolVars, lazyVars, mine, handles, dpc>>
       \/ /\ op[1] = "access" /\ Access(t, FALSE)
          /\ UNCHANGED <<wireVars, poolVars, clockVars, mine, handles, dpc>>
       \/ /\ op[1] = "panic"
          /\ IF t = Driver
             THEN mine' = Nobody /\ handles' = <<>> /\ dpc' = "unwound" /\ UNCHANGED poolVars
             ELSE Fill(t, "panic") /\ UNCHANGED <<mine, handles, dpc>>
          /\ UNCHANGED <<wireVars, lazyVars, clockVars>>
  /\ UNCHANGED <<scene, inner, bookVars, planVars, stopVars, spent, ran, poked, faltered>>

\* A device that passes an event of its own asks for a new rate from inside
\* its catch-up, as a PLL that has locked does.
Notices(t) ==
  IF tick' > tick /\ tick' % EventEvery = 0 THEN Push(t, Relock[1], Relock[2])
  ELSE UNCHANGED clockVars

\* A device that does not get where it was asked to: it stays, or goes back.
MayFalter == scene.falters /\ ~faltered
Faults == {tick, tick - 1} \cap Nat
Faltered ==
  /\ faltered' = TRUE
  /\ UNCHANGED <<scene, boxVars, bookVars, planVars, stopVars, handles, spent, ran, dpc, owes,
                 poked>>

\* The block's calls take their steps.
Calls(t) ==
  \/ /\ WireStep(t)
     /\ UNCHANGED <<poolVars, lazyVars, clockVars, roundVars>>
  \/ /\ Raise(t)
     /\ UNCHANGED <<wireVars, poolVars, lazyVars, roundVars>>
  \/ /\ t \notin raising /\ LazyStep(t)
     /\ Notices(t)
     /\ UNCHANGED <<wireVars, poolVars, roundVars>>
  \/ /\ MayFalter /\ \E p \in Faults : Falter(t, p)
     /\ Faltered /\ UNCHANGED <<wireVars, poolVars, clockVars>>

\* run returns what it used.  The box goes back to the slot, or into the
\* result of the job; a job run inline goes through a filled handle.
Return(t) ==
  \E r \in {Executing(t)} \ {Nobody} :
    /\ Free(t) /\ (raised(r) \/ spent[r] = allowed[r])
    /\ \E over \in IF r \in scene.overruns /\ unbooked[r] = 0 /\ spent[r] > 0 THEN {0, 1} ELSE {0} :
         used' = [used EXCEPT ![r] = IF over = 1 THEN allowed[r] + 1 ELSE spent[r]]
    /\ short' = IF spent[r] < allowed[r] THEN short \cup {r} ELSE short
    /\ \/ t # Driver /\ Fill(t, "ok") /\ UNCHANGED <<boxVars, handles, dpc>>
       \/ /\ t = Driver /\ dpc = "here" /\ dpc' = "join"
          /\ inner' = [inner EXCEPT ![r] = TRUE] /\ mine' = Nobody
          /\ UNCHANGED <<poolVars, handles>>
       \/ /\ t = Driver /\ dpc = "inline" /\ dpc' = "submit"
          /\ SubmitInline(t, r) /\ handles' = Append(handles, r) /\ mine' = Nobody
          /\ UNCHANGED inner
    /\ UNCHANGED <<wireVars, lazyVars, clockVars, scene, ticks, now, target, allowed,
                   unbooked, planVars, stopVars, spent, ran, owes, poked, faltered>>

-----------------------------------------------------------------------------
\* The driving thread.
AtBoundary == dpc = "boundary" /\ Free(Driver) /\ cp[Driver].pc = "free"
Refused == scene.refusals /\ Refuse

Goes_on(pc) ==
  /\ dpc' = pc
  /\ UNCHANGED <<scene, boxVars, bookVars, planVars, stopVars, handles, spent, ran, owes,
                 poked, faltered>>

(***************************************************************************)
(* apply_clock_requests, called before a round, in its close and after the *)
(* catch-up: where the batch is applied from, and what comes next.  Nothing *)
(* announced, nothing done.  A refused batch ends the run loop's call with *)
(* an error.                                                               *)
(***************************************************************************)
Applying == [boundary |-> "apply_open", closed |-> "apply_close", rates |-> "apply_after"]
Onward == [apply_open |-> "open", apply_close |-> "publish", apply_after |-> "boundary"]

TakeRates ==
  /\ dpc \in DOMAIN Applying
  /\ dpc = "boundary" => AtBoundary /\ now < scene.limit
  /\ TakeBatch /\ Goes_on(Applying[dpc])
  /\ UNCHANGED <<wireVars, poolVars, lazyVars>>

ApplyRates ==
  /\ dpc \in DOMAIN Onward
  /\ \/ /\ Apply /\ Goes_on(Onward[dpc])
        /\ IF Changes # {} THEN Placed(ticks[LazyOn], live) ELSE UNCHANGED lazyVars
     \/ Refused /\ Goes_on("boundary") /\ UNCHANGED lazyVars
  /\ UNCHANGED <<wireVars, poolVars>>

\* natural_target, without queued events: the next point of the grid, or the
\* device's next event if that comes first.
natural_target ==
  LET grid == scene.quantum * (now \div scene.quantum + 1)
  IN IF now < next_event_tick /\ next_event_tick < grid THEN next_event_tick ELSE grid

\* Mutant: every runnable is given the span from the present.
ticks_untilFromNow(r, at) == IF at > now THEN at - now ELSE 0

\* A runnable that stands past the target, as one may after a round that
\* failed, gets nothing.
ticks_until(r, at) == IF at > ticks[r] THEN at - ticks[r] ELSE 0

cap(span) == IF scene.cap # NoCap /\ scene.cap < span THEN scene.cap ELSE span

\* The last of the runnables in registration order, if there is one.
LastOf(S) == {r \in S : \A o \in S : o <= r} \cup (IF S = {} THEN {Nobody} ELSE {})

Opens == (AtBoundary /\ now < scene.limit /\ ~dirty) \/ dpc = "open"

\* decline_round: the deadline falls inside the round, so nobody runs.
Decline ==
  /\ Opens /\ natural_target > scene.limit
  /\ now' = scene.limit /\ dpc' = "catchup"
  /\ Placed(ticks[LazyOn], live)
  /\ UNCHANGED <<wireVars, poolVars, clockVars, scene, boxVars, ticks, target, allowed, used,
                 unbooked, short, planVars, stopVars, handles, spent, ran, owes, poked, faltered>>

\* The round opens: budgets, live views, who runs where.
OpenRound ==
  /\ Opens /\ natural_target <= scene.limit
  /\ target' = natural_target
  /\ allowed' = [r \in Runnables |-> cap(ticks_until(r, target'))]
  /\ short' = {r \in Runnables : target' - ticks[r] > allowed'[r]}
  /\ here' \in LastOf({r \in Runnables : allowed'[r] > 0 /\ inner[r]})
  /\ todo' = {r \in Runnables : allowed'[r] > 0 /\ inner[r]} \ {here'}
  /\ spent' = Zero /\ used' = Zero
  /\ Placed(present, ticks[LazyOn])
  /\ dpc' = "submit"
  /\ UNCHANGED <<wireVars, poolVars, clockVars, scene, boxVars, ticks, now, unbooked, stopVars,
                 handles, ran, owes, poked, faltered>>

\* The next runnable leaves its slot, for the pool or for this thread.
Dispatch ==
  /\ dpc = "submit" /\ cp[Driver].pc = "free"
  /\ \E r \in todo :
       /\ \A o \in todo : r <= o
       /\ inner' = [inner EXCEPT ![r] = FALSE]
       /\ todo' = todo \ {r}
       /\ IF workers # {}
          THEN /\ Submit(Driver, r)
               /\ handles' = Append(handles, r)
               /\ UNCHANGED <<mine, dpc>>
          ELSE /\ mine' = r /\ dpc' = "inline"
               /\ UNCHANGED <<poolVars, handles>>
  /\ UNCHANGED <<wireVars, lazyVars, clockVars, scene, bookVars, here, stopVars, spent,
                 ran, owes, poked, faltered>>

RunHere ==
  /\ dpc = "submit" /\ todo = {} /\ cp[Driver].pc = "free"
  /\ IF here = Nobody THEN dpc' = "join" /\ UNCHANGED boxVars
     ELSE /\ mine' = here /\ dpc' = "here"
          /\ inner' = [inner EXCEPT ![here] = FALSE]
  /\ UNCHANGED <<wireVars, poolVars, lazyVars, clockVars, scene, bookVars, planVars,
                 stopVars, handles, spent, ran, owes, poked, faltered>>

\* Mutant: a job's panic is swallowed and the round goes on to its books.
RendezvousSwallows ==
  /\ dpc = "join" /\ handles # <<>>
  /\ \/ (Join(Driver, Head(handles)) \/ JoinWait(Driver)) /\ UNCHANGED roundVars
     \/ /\ JoinTake(Driver)
        /\ IF value[Head(handles)] = "ok"
           THEN /\ inner' = [inner EXCEPT ![Head(handles)] = TRUE]
                /\ handles' = Tail(handles)
           ELSE handles' = <<>> /\ UNCHANGED inner
        /\ UNCHANGED <<scene, mine, bookVars, planVars, stopVars, spent, ran, dpc, owes,
                       poked, faltered>>
  /\ UNCHANGED <<wireVars, lazyVars, clockVars>>

\* The rendezvous, in registration order.  A job's panic resumes here and
\* drops the handles not yet joined.
Rendezvous ==
  /\ dpc = "join" /\ handles # <<>>
  /\ \/ (Join(Driver, Head(handles)) \/ JoinWait(Driver)) /\ UNCHANGED roundVars
     \/ /\ JoinTake(Driver)
        /\ IF value[Head(handles)] = "ok"
           THEN /\ inner' = [inner EXCEPT ![Head(handles)] = TRUE]
                /\ handles' = Tail(handles) /\ UNCHANGED dpc
           ELSE handles' = <<>> /\ dpc' = "unwound" /\ UNCHANGED inner
        /\ UNCHANGED <<scene, mine, bookVars, planVars, stopVars, spent, ran, owes,
                       poked, faltered>>
  /\ UNCHANGED <<wireVars, lazyVars, clockVars>>

\* Mutant: the offender's own report is recorded.
RecordedInclusive ==
  {r \in Runnables : \A o \in Runnables : used[o] > allowed[o] => r <= o}

\* The books, in registration order: the first report over its budget ends
\* the round with an error, and what follows it is not recorded.
Offenders == {r \in Runnables : used[r] > allowed[r]}
Recorded == {r \in Runnables : \A o \in Offenders : r < o}

Close ==
  /\ dpc = "join" /\ handles = <<>> /\ cp[Driver].pc = "free"
  /\ ticks' = [r \in Runnables |-> IF r \in Recorded THEN ticks[r] + used[r] ELSE ticks[r]]
  /\ unbooked' = [r \in Runnables |->
                    unbooked[r] + IF \E o \in 1 .. r : used[o] > allowed[o] THEN spent[r] ELSE 0]
  /\ IF Offenders # {} THEN dpc' = "boundary" /\ UNCHANGED now
     ELSE dpc' = "closed" /\ now' = target
  /\ Placed(present, NotArmed)
  /\ UNCHANGED <<wireVars, poolVars, clockVars, scene, boxVars, target, allowed, used, short,
                 planVars, stopVars, handles, spent, ran, owes, poked, faltered>>

Publish ==
  /\ (dpc = "closed" /\ ~dirty) \/ dpc = "publish"
  /\ Placed(ticks[LazyOn], live) /\ Goes_on("catchup")
  /\ UNCHANGED <<wireVars, poolVars, clockVars>>

(***************************************************************************)
(* Machine::advance_to after the round: every lazy device to the present,  *)
(* again while it gets further, and through its due events, then the rates *)
(* those catch-ups asked for.                                              *)
(***************************************************************************)
CatchUp ==
  /\ dpc = "catchup"
  /\ Access(Driver, FALSE) /\ Goes_on("caught")
  /\ UNCHANGED <<wireVars, poolVars, clockVars>>

CaughtUp ==
  /\ dpc \in {"caught", "again"} /\ Free(Driver)
  /\ LET at == lt[Driver].got
     IN \/ at = NonMonotonic /\ Goes_on("boundary") /\ UNCHANGED lazyVars
        \/ /\ at >= present \/ (dpc = "again" /\ at = lt[Driver].from)
           /\ Goes_on("due") /\ UNCHANGED lazyVars
        \/ /\ at \in 0 .. present - 1 /\ ~(dpc = "again" /\ at = lt[Driver].from)
           /\ Access(Driver, FALSE) /\ Goes_on("again")
  /\ UNCHANGED <<wireVars, poolVars, clockVars>>

\* A device that does not move ends the walk, one that goes back fails it.
DueEvents ==
  /\ dpc = "due" /\ Free(Driver)
  /\ \/ /\ next_event_tick <= now
        /\ SyncToTick(next_event_tick) /\ Notices(Driver) /\ UNCHANGED roundVars
     \/ next_event_tick > now /\ Goes_on("rates") /\ UNCHANGED <<lazyVars, clockVars>>
     \/ /\ next_event_tick <= now /\ MayFalter
        /\ \E p \in Faults : SyncToTick(p) /\ dpc' = IF p = tick THEN "rates" ELSE "boundary"
        /\ faltered' = TRUE
        /\ UNCHANGED <<clockVars, scene, boxVars, bookVars, planVars, stopVars, handles, spent,
                       ran, owes, poked>>
  /\ UNCHANGED <<wireVars, poolVars>>

RatesAfter ==
  /\ dpc = "rates" /\ ~dirty /\ Goes_on("boundary")
  /\ UNCHANGED <<wireVars, poolVars, lazyVars, clockVars>>

\* The run is over, or has unwound: the machine and its pool are dropped.
Over ==
  /\ (AtBoundary /\ now >= scene.limit) \/ (dpc = "unwound" /\ ~InCall(Driver))
  /\ Drop(Driver) /\ Goes_on("drop")
  /\ UNCHANGED <<wireVars, lazyVars, clockVars>>

\* The driver's pool calls besides join.
PoolCalls ==
  /\ NotifyOne(Driver) \/ Rouse(Driver) \/ Reap(Driver) \/ QuiesceStep(Driver)
  /\ UNCHANGED <<wireVars, lazyVars, clockVars, roundVars>>

-----------------------------------------------------------------------------
\* Between rounds the driver may refresh the net, as a reset does, look at the
\* device and ask for a rate, as a monitor does, or stop the world: the flag,
\* then quiesce.
Poke ==
  /\ AtBoundary /\ ~poked /\ now < scene.limit
  /\ poked' = TRUE
  /\ \/ /\ "refresh" \in scene.pokes /\ Refresh(Driver)
        /\ UNCHANGED <<poolVars, lazyVars, clockVars, dpc, stop>>
     \/ /\ "look" \in scene.pokes /\ Access(Driver, TRUE)
        /\ UNCHANGED <<wireVars, poolVars, clockVars, dpc, stop>>
     \/ /\ \E d \in Domains, r \in Rates : "rate" \in scene.pokes /\ Push(Driver, d, r)
        /\ UNCHANGED <<wireVars, poolVars, lazyVars, dpc, stop>>
     \/ /\ "stop" \in scene.pokes /\ Quiesce(Driver)
        /\ stop' = stop \cup {World} /\ dpc' = "held"
        /\ UNCHANGED <<wireVars, lazyVars, clockVars>>
  /\ UNCHANGED <<scene, boxVars, bookVars, planVars, held, hostTodo, handles, spent, ran, owes,
                 faltered>>

\* The StopGuard is dropped, which lets the world run whoever else asked.
DropGuard ==
  /\ dpc = "held" /\ cp[Driver].pc = "free"
  /\ dpc' = "boundary" /\ stop' = stop \ {World}
  /\ UNCHANGED <<wireVars, poolVars, lazyVars, clockVars, scene, boxVars, bookVars,
                 planVars, held, hostTodo, handles, spent, ran, owes, poked, faltered>>

\* The host thread raises an exit flag, of the world through its SafePoint or
\* of one runnable, and lowers it again.
HostStop ==
  /\ \/ \E x \in Runnables \cup {World} :
          /\ <<"stop", x>> \in hostTodo /\ hostTodo' = hostTodo \ {<<"stop", x>>}
          /\ held' = held \cup {x} /\ stop' = stop \cup {x}
     \/ \E x \in held :
          held' = held \ {x} /\ stop' = stop \ {x} /\ UNCHANGED hostTodo
  /\ UNCHANGED <<wireVars, poolVars, lazyVars, clockVars, scene, boxVars, bookVars,
                 planVars, handles, spent, ran, dpc, owes, poked, faltered>>

\* It asks for a rate, whatever the scheduler is doing.
HostRate ==
  /\ \E d \in Domains, r \in Rates :
       /\ <<"rate", d, r>> \in hostTodo /\ hostTodo' = hostTodo \ {<<"rate", d, r>>}
       /\ Push(Host, d, r)
  /\ UNCHANGED <<wireVars, poolVars, lazyVars, scene, boxVars, bookVars, planVars, stop, held,
                 handles, spent, ran, dpc, owes, poked, faltered>>

DriverStep ==
  \/ TakeRates \/ ApplyRates \/ Decline \/ OpenRound \/ Dispatch \/ RunHere \/ Rendezvous
  \/ Close \/ Publish \/ CatchUp \/ CaughtUp \/ DueEvents \/ RatesAfter \/ Over \/ PoolCalls
  \/ DropGuard

PoolWorker(w) ==
  WorkerStep(w) /\ UNCHANGED <<wireVars, lazyVars, clockVars, roundVars>>

ThreadStep(t) ==
  \/ Block(t) \/ Work(t) \/ Calls(t) \/ Return(t)
  \/ t \in Workers /\ PoolWorker(t)
  \/ t = Driver /\ DriverStep

Next == (\E t \in Threads : ThreadStep(t)) \/ Poke \/ HostStop \/ HostRate

\* The host's scheduler runs every thread; nobody has to stop the world, let
\* it go again, ask for anything, or do anything between rounds.
Spec == Init /\ [][Next]_vars /\ \A t \in Threads : WF_vars(ThreadStep(t))

-----------------------------------------------------------------------------
(***************************************************************************)
(* The rendezvous: once the driver has joined its handles nobody executes. *)
(* While the books are done, the clocks are re-rated, devices are brought  *)
(* up to date and events dispatched, no job is queued or running, every    *)
(* runnable is back in its slot (a panic, which destroys some, does not    *)
(* get here), and no worker is inside a net, a lazy device or a clock      *)
(* request.  The same holds under a StopGuard, where the pool is quiet as  *)
(* well.                                                                   *)
(***************************************************************************)
InRound == {"submit", "inline", "here", "join", "unwound", "drop"}

BarrierHolds ==
  /\ dpc \notin InRound =>
       /\ jobs = <<>> /\ mine = Nobody
       /\ \A w \in workers : wk[w].pc # "run" /\ Free(w)
       /\ \A r \in Runnables : inner[r]
       /\ home \/ lt[Driver].pc \in Holding
  /\ dpc = "held" /\ cp[Driver].pc = "free" => running = 0

(***************************************************************************)
(* The books.  A runnable's clock stands where it has executed to, except  *)
(* for what it executed in rounds that a report over its budget, its own   *)
(* or of a runnable before it, ended in an error.  And no lag outlives a   *)
(* round that goes through: whatever was stopped, capped or failed in      *)
(* earlier rounds, when one closes every clock is at the present but those *)
(* of the runnables that this round stopped or capped.                     *)
(***************************************************************************)
Accounted ==
  dpc \notin InRound =>
    /\ \A r \in Runnables : ticks[r] + unbooked[r] = ran[r]
    /\ now = target => \A r \in Runnables \ short : ticks[r] = now

\* Every round ends, every call on the net, the device and the pool returns,
\* and the machine comes apart: whatever was stopped, refused or panicked,
\* the driver gets through its rounds and its pool is drained and joined.
RunEnds == <>(cp[Driver].pc = "gone")
=============================================================================
