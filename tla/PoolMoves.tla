----------------------------- MODULE PoolMoves ------------------------------
(***************************************************************************)
(* The invariant behind the task pool's promises, what each of its steps   *)
(* does as far as that invariant can tell, and the parts of it about the   *)
(* types, the places, the slots and the count.  PoolProofs has the rest.   *)
(***************************************************************************)
EXTENDS Pool, FiniteSetTheorems, TLAPS

WorkerPlaces == {"idle", "run", "filled", "ran", "quiet", "exit"}
CallerPlaces == {"free", "notify", "join", "quiesce", "rouse", "reap", "gone"}

PoolTypes ==
  /\ workers \subseteq Workers
  /\ jobs \in Seq(Jobs)
  /\ running \in Int
  /\ shutdown \in BOOLEAN
  /\ value \in [Jobs -> Results]
  /\ wk \in [Workers -> [pc : WorkerPlaces, job : Jobs \cup {NoJob}]]
  /\ cp \in [Callers -> [pc : CallerPlaces, job : Jobs \cup {NoJob}]]
  /\ work \subseteq workers
  /\ idle \subseteq Callers
  /\ done \in [Jobs -> SUBSET Callers]

\* What holds of a worker where it stands: only a granted worker leaves the
\* start, a sleeper is idle, one with a job has one, and none leaves before the
\* pool is shut down and its queue empty.
WorkerAt(w) ==
  /\ wk[w].pc # "idle" => w \in workers
  /\ w \in work => wk[w].pc = "idle"
  /\ wk[w].pc \in {"run", "filled"} => wk[w].job \in Jobs
  /\ wk[w].pc = "exit" => shutdown /\ jobs = <<>>

CallerAt(c) ==
  /\ cp[c].pc = "join" => cp[c].job \in Jobs
  /\ cp[c].pc \in {"rouse", "reap", "gone"} => shutdown
  /\ cp[c].pc = "gone" => \A w \in workers : wk[w].pc = "exit"

\* A job whose slot is empty is queued or in the hands of a worker.
Queued(j) == \E i \in 1 .. Len(jobs) : jobs[i] = j
Taken(j) == \E w \in workers : wk[w] = At("run", j)

\* The workers between taking a job and counting it done.
Busied == {w \in workers : wk[w].pc \in InJob}

\* A job queued or run is so once, and its slot is empty.
QueuedOnce == \A i, k \in 1 .. Len(jobs) : jobs[i] = jobs[k] => i = k
QueuedEmpty == \A i \in 1 .. Len(jobs) : value[jobs[i]] = "none"
RunEmpty ==
  \A w \in Workers, j \in Jobs :
    wk[w].pc = "run" /\ wk[w].job = j => value[j] = "none" /\ ~Queued(j)
RunOnce ==
  \A v, w \in Workers :
    wk[v].pc = "run" /\ wk[w].pc = "run" /\ v # w => wk[v].job # wk[w].job
Unfilled == QueuedOnce /\ QueuedEmpty /\ RunEmpty /\ RunOnce

PoolInv ==
  /\ PoolTypes
  /\ \A w \in Workers : WorkerAt(w)
  /\ \A c \in Callers : CallerAt(c)
  /\ jobs # <<>> => workers # {}
  /\ \A j \in Jobs : value[j] = "none" => Queued(j) \/ Taken(j)
  /\ Unfilled
  /\ running = Cardinality(Busied)
  /\ WakeupsKept

\* Workers are finitely many, so those with a job can be counted.
LEMMA BusiedFinite == PoolTypes => IsFiniteSet(Busied)
  BY PoolAssumption, FS_Subset DEF PoolTypes, Busied

\* worker takes the front of the queue; what else is queued stays queued.
LEMMA FirstJob ==
  ASSUME PoolTypes, jobs # <<>>
  PROVE  /\ Head(jobs) \in Jobs /\ Tail(jobs) \in Seq(Jobs)
         /\ \A j : Queued(j) => j = Head(jobs) \/ \E i \in 1 .. Len(Tail(jobs)) : Tail(jobs)[i] = j
<1>1. jobs \in Seq(Jobs) /\ Len(jobs) \in Nat \ {0} /\ Len(Tail(jobs)) = Len(jobs) - 1
  BY DEF PoolTypes
<1>2. ASSUME NEW i \in 1 .. Len(jobs), i # 1
      PROVE  i - 1 \in 1 .. Len(Tail(jobs)) /\ Tail(jobs)[i - 1] = jobs[i]
  BY <1>1, <1>2, SMTT(30)
<1>3. QED
  BY <1>1, <1>2 DEF Queued

-----------------------------------------------------------------------------
\* Types.
LEMMA PoolTypesStep ==
  ASSUME PoolTypes, \A w \in Workers : WorkerAt(w), \A c \in Callers : CallerAt(c), PoolNext
  PROVE  PoolTypes'
<1> USE DEF PoolTypes, At, CallerGoes, WorkerGoes, WorkerPlaces, CallerPlaces, Results
<1>1. ASSUME NEW c \in Callers, NotifyOne(c) PROVE PoolTypes'
  BY <1>1 DEF NotifyOne
<1>2. ASSUME NEW c \in Callers, JoinWait(c) PROVE PoolTypes'
  BY <1>2 DEF JoinWait, CallerAt
<1>3. ASSUME NEW c \in Callers, JoinTake(c) PROVE PoolTypes'
  BY <1>3 DEF JoinTake, CallerAt
<1>4. ASSUME NEW c \in Callers, QuiesceStep(c) PROVE PoolTypes'
  <2>1. CASE jobs # <<>> \/ running > 0
    BY <1>4, <2>1 DEF QuiesceStep
  <2>2. CASE ~(jobs # <<>> \/ running > 0)
    BY <1>4, <2>2, SMTT(30) DEF QuiesceStep
  <2>3. QED
    BY <2>1, <2>2
<1>5. ASSUME NEW c \in Callers, Rouse(c) PROVE PoolTypes'
  BY <1>5 DEF Rouse
<1>6. ASSUME NEW c \in Callers, Reap(c) PROVE PoolTypes'
  BY <1>6 DEF Reap
<1>7. ASSUME NEW c \in Callers, Quiesce(c) PROVE PoolTypes'
  BY <1>7 DEF Quiesce
<1>8. ASSUME NEW c \in Callers, Drop(c) PROVE PoolTypes'
  BY <1>8 DEF Drop
<1>9. ASSUME NEW c \in Callers, NEW j \in Jobs, Submit(c, j) PROVE PoolTypes'
  BY <1>9 DEF Submit
<1>10. ASSUME NEW c \in Callers, NEW j \in Jobs, Join(c, j) PROVE PoolTypes'
  BY <1>10 DEF Join
<1>11. ASSUME NEW c \in Callers, NEW j \in Jobs, SubmitInline(c, j) PROVE PoolTypes'
  BY <1>11 DEF SubmitInline
<1>12. ASSUME NEW w \in Workers, Take(w) PROVE PoolTypes'
  <2>1. CASE jobs # <<>>
    <3>1. Head(jobs) \in Jobs /\ Tail(jobs) \in Seq(Jobs)
      BY <2>1, FirstJob, SMTT(30)
    <3>2. /\ jobs' = Tail(jobs) /\ running' = running + 1
          /\ wk' = [wk EXCEPT ![w] = [pc |-> "run", job |-> Head(jobs)]]
          /\ UNCHANGED <<work, workers, shutdown, value, cp, idle, done>>
      BY <1>12, <2>1, SMTT(30) DEF Take, WorkerGoes, At
    <3>3. wk' \in [Workers -> [pc : WorkerPlaces, job : Jobs \cup {NoJob}]]
      BY <3>1, <3>2, SMTT(30) DEF PoolTypes, WorkerPlaces
    <3>4. QED
      BY <3>1, <3>2, <3>3, SMTT(30) DEF PoolTypes
  <2>2. CASE jobs = <<>>
    BY <1>12, <2>2 DEF Take
  <2>3. QED
    BY <2>1, <2>2, SMTT(30)
<1>13. ASSUME NEW w \in Workers, TellJoiners(w) PROVE PoolTypes'
  BY <1>13 DEF TellJoiners, WorkerAt
<1>14. ASSUME NEW w \in Workers, CountDown(w) PROVE PoolTypes'
  BY <1>14 DEF CountDown
<1>15. ASSUME NEW w \in Workers, TellIdle(w) PROVE PoolTypes'
  BY <1>15 DEF TellIdle
<1>16. ASSUME NEW w \in Workers, NEW r \in {"ok", "panic"}, Fill(w, r) PROVE PoolTypes'
  BY <1>16, SMTT(30) DEF Fill, WorkerAt
<1>17. QED
  BY <1>1, <1>2, <1>3, <1>4, <1>5, <1>6, <1>7, <1>8, <1>9, <1>10, <1>11,
     <1>12, <1>13, <1>14, <1>15, <1>16, SMTT(30) DEF PoolNext, CallerStep, WorkerStep

\* Where workers and callers stand.
LEMMA PlacesStep ==
  ASSUME PoolTypes, \A w \in Workers : WorkerAt(w), \A c \in Callers : CallerAt(c),
         jobs # <<>> => workers # {}, PoolNext
  PROVE  (\A v \in Workers : WorkerAt(v)') /\ (\A d \in Callers : CallerAt(d)')
      /\ (jobs' # <<>> => workers' # {})
<1> USE DEF PoolTypes, At, CallerGoes, WorkerGoes, WorkerAt, CallerAt
<1>1. ASSUME NEW c \in Callers, NotifyOne(c) PROVE (\A v \in Workers : WorkerAt(v)') /\ (\A d \in Callers : CallerAt(d)')
      /\ (jobs' # <<>> => workers' # {})
  BY <1>1 DEF NotifyOne
<1>2. ASSUME NEW c \in Callers, JoinWait(c) PROVE (\A v \in Workers : WorkerAt(v)') /\ (\A d \in Callers : CallerAt(d)')
      /\ (jobs' # <<>> => workers' # {})
  BY <1>2 DEF JoinWait
<1>3. ASSUME NEW c \in Callers, JoinTake(c) PROVE (\A v \in Workers : WorkerAt(v)') /\ (\A d \in Callers : CallerAt(d)')
      /\ (jobs' # <<>> => workers' # {})
  BY <1>3 DEF JoinTake
<1>4. ASSUME NEW c \in Callers, QuiesceStep(c) PROVE (\A v \in Workers : WorkerAt(v)') /\ (\A d \in Callers : CallerAt(d)')
      /\ (jobs' # <<>> => workers' # {})
  <2>1. CASE jobs # <<>> \/ running > 0
    BY <1>4, <2>1, SMTT(30) DEF QuiesceStep
  <2>2. CASE ~(jobs # <<>> \/ running > 0)
    BY <1>4, <2>2, SMTT(30) DEF QuiesceStep
  <2>3. QED
    BY <2>1, <2>2, ZenonT(30)
<1>5. ASSUME NEW c \in Callers, Rouse(c) PROVE (\A v \in Workers : WorkerAt(v)') /\ (\A d \in Callers : CallerAt(d)')
      /\ (jobs' # <<>> => workers' # {})
  BY <1>5, SMTT(30) DEF Rouse
<1>6. ASSUME NEW c \in Callers, Reap(c) PROVE (\A v \in Workers : WorkerAt(v)') /\ (\A d \in Callers : CallerAt(d)')
      /\ (jobs' # <<>> => workers' # {})
  BY <1>6, SMTT(30) DEF Reap
<1>7. ASSUME NEW c \in Callers, Quiesce(c) PROVE (\A v \in Workers : WorkerAt(v)') /\ (\A d \in Callers : CallerAt(d)')
      /\ (jobs' # <<>> => workers' # {})
  BY <1>7 DEF Quiesce
<1>8. ASSUME NEW c \in Callers, Drop(c) PROVE (\A v \in Workers : WorkerAt(v)') /\ (\A d \in Callers : CallerAt(d)')
      /\ (jobs' # <<>> => workers' # {})
  BY <1>8, SMTT(30) DEF Drop
<1>9. ASSUME NEW c \in Callers, NEW j \in Jobs, Submit(c, j) PROVE (\A v \in Workers : WorkerAt(v)') /\ (\A d \in Callers : CallerAt(d)')
      /\ (jobs' # <<>> => workers' # {})
  BY <1>9, SMTT(30) DEF Submit
<1>10. ASSUME NEW c \in Callers, NEW j \in Jobs, Join(c, j) PROVE (\A v \in Workers : WorkerAt(v)') /\ (\A d \in Callers : CallerAt(d)')
      /\ (jobs' # <<>> => workers' # {})
  BY <1>10, SMTT(30) DEF Join
<1>11. ASSUME NEW c \in Callers, NEW j \in Jobs, SubmitInline(c, j) PROVE (\A v \in Workers : WorkerAt(v)') /\ (\A d \in Callers : CallerAt(d)')
      /\ (jobs' # <<>> => workers' # {})
  BY <1>11, SMTT(30) DEF SubmitInline
<1>12. ASSUME NEW w \in Workers, Take(w) PROVE (\A v \in Workers : WorkerAt(v)') /\ (\A d \in Callers : CallerAt(d)')
      /\ (jobs' # <<>> => workers' # {})
  <2>1. CASE jobs # <<>>
    BY <1>12, <2>1, FirstJob, SMTT(30) DEF Take
  <2>2. CASE jobs = <<>>
    BY <1>12, <2>2, SMTT(30) DEF Take
  <2>3. QED
    BY <2>1, <2>2, SMTT(30)
<1>13. ASSUME NEW w \in Workers, TellJoiners(w) PROVE (\A v \in Workers : WorkerAt(v)') /\ (\A d \in Callers : CallerAt(d)')
      /\ (jobs' # <<>> => workers' # {})
  BY <1>13, SMTT(30) DEF TellJoiners
<1>14. ASSUME NEW w \in Workers, CountDown(w) PROVE (\A v \in Workers : WorkerAt(v)') /\ (\A d \in Callers : CallerAt(d)')
      /\ (jobs' # <<>> => workers' # {})
  BY <1>14, SMTT(30) DEF CountDown
<1>15. ASSUME NEW w \in Workers, TellIdle(w) PROVE (\A v \in Workers : WorkerAt(v)') /\ (\A d \in Callers : CallerAt(d)')
      /\ (jobs' # <<>> => workers' # {})
  BY <1>15, SMTT(30) DEF TellIdle
<1>16. ASSUME NEW w \in Workers, NEW r \in {"ok", "panic"}, Fill(w, r) PROVE (\A v \in Workers : WorkerAt(v)') /\ (\A d \in Callers : CallerAt(d)')
      /\ (jobs' # <<>> => workers' # {})
  BY <1>16, SMTT(30) DEF Fill
<1>17. QED
  BY <1>1, <1>2, <1>3, <1>4, <1>5, <1>6, <1>7, <1>8, <1>9, <1>10, <1>11,
     <1>12, <1>13, <1>14, <1>15, <1>16, ZenonT(30) DEF PoolNext, CallerStep, WorkerStep

-----------------------------------------------------------------------------
\* The three parts of WakeupsKept.
Awake == \E w \in workers \ work : wk[w].pc # "exit"
Waking == \E c \in Callers : cp[c].pc \in {"notify", "rouse"}
QueueHeard == jobs # <<>> => Awake \/ Waking
QuietHeard == idle # {} => \/ jobs # <<>> \/ running > 0
                          \/ \E w \in workers : wk[w].pc = "quiet"
ResultHeard(j) == done[j] # {} => \/ value[j] = "none"
                                 \/ \E w \in workers : wk[w] = At("filled", j)

\* What WakeupsKept says, part by part.
LEMMA WakeupParts == WakeupsKept <=> QueueHeard /\ QuietHeard /\ \A j \in Jobs : ResultHeard(j)
  BY ZenonT(30) DEF WakeupsKept, QueueHeard, QuietHeard, ResultHeard, Awake, Waking

-----------------------------------------------------------------------------
\* What the steps do, as far as the invariant can tell them apart.  Every call
\* but submit leaves the workers and the queue alone; it empties no slot, goes to
\* sleep only on what is still to come, and wakes workers or owes no wakeup.
Calls ==
  /\ UNCHANGED <<workers, jobs, running, wk>>
  /\ \A i \in Jobs : value'[i] = value[i] \/ (value[i] # "none" /\ value'[i] # "none")
  /\ idle' = idle \/ jobs # <<>> \/ running > 0
  /\ \A i \in Jobs : done'[i] = done[i] \/ value'[i] = "none"
  /\ \/ work' = work /\ (Waking => Waking')
     \/ work' = {} \/ \E v \in work : work' = work \ {v}
Else(w) == \A v \in Workers : v # w => wk'[v] = wk[v]

\* Every call but submit, and every step of one, is such a step.
LEMMA CallsMove ==
  ASSUME PoolTypes, NEW c \in Callers,
         \/ NotifyOne(c) \/ JoinWait(c) \/ JoinTake(c) \/ QuiesceStep(c) \/ Rouse(c)
         \/ Reap(c) \/ Quiesce(c) \/ Drop(c) \/ \E j \in Jobs : Join(c, j) \/ SubmitInline(c, j)
  PROVE  Calls
<1>1. UNCHANGED <<workers, jobs, running, wk>>
  BY SMTT(30) DEF NotifyOne, JoinWait, JoinTake, QuiesceStep, Rouse, Reap, Quiesce, Drop, Join,
     SubmitInline
<1>2. \A i \in Jobs : value'[i] = value[i] \/ (value[i] # "none" /\ value'[i] # "none")
  <2>1. CASE JoinTake(c)
    BY <2>1, SMTT(30) DEF JoinTake, PoolTypes
  <2>2. ASSUME NEW j \in Jobs, SubmitInline(c, j)
        PROVE  \A i \in Jobs : value'[i] = value[i] \/ (value[i] # "none" /\ value'[i] # "none")
    BY <2>2, SMTT(30) DEF SubmitInline, PoolTypes
  <2>3. QED
    BY <2>1, <2>2, SMTT(30) DEF NotifyOne, JoinWait, QuiesceStep, Rouse, Reap, Quiesce, Drop, Join
<1>3. idle' = idle \/ jobs # <<>> \/ running > 0
  BY SMTT(30) DEF NotifyOne, JoinWait, JoinTake, QuiesceStep, Rouse, Reap, Quiesce, Drop, Join,
     SubmitInline
<1>4. \A i \in Jobs : done'[i] = done[i] \/ value'[i] = "none"
  <2>1. CASE JoinWait(c)
    BY <2>1, SMTT(30) DEF JoinWait, PoolTypes
  <2>2. QED
    BY <2>1, SMTT(30) DEF NotifyOne, JoinTake, QuiesceStep, Rouse, Reap, Quiesce, Drop, Join,
       SubmitInline
<1>5. \/ work' = work /\ (Waking => Waking')
      \/ work' = {} \/ \E v \in work : work' = work \ {v}
  <2>1. CASE NotifyOne(c)
    BY <2>1, ZenonT(30) DEF NotifyOne
  <2>2. CASE Rouse(c)
    BY <2>2, ZenonT(30) DEF Rouse
  <2>3. CASE ~NotifyOne(c) /\ ~Rouse(c)
    <3>1. work' = work /\ cp[c].pc \notin {"notify", "rouse"}
      BY <2>3, SMTT(30) DEF JoinWait, JoinTake, QuiesceStep, Reap, Quiesce, Drop, Join, SubmitInline
    <3>2. cp' = cp \/ \E r : cp' = [cp EXCEPT ![c] = r]
      BY <2>3, SMTT(30) DEF JoinWait, JoinTake, QuiesceStep, Reap, Quiesce, Drop, Join, SubmitInline,
         CallerGoes
    <3>3. \A d \in Callers : d # c => cp'[d] = cp[d]
      BY <3>2, SMTT(30) DEF PoolTypes
    <3>4. QED
      BY <3>1, <3>3, ZenonT(30) DEF Waking
  <2>4. QED
    BY <2>1, <2>2, <2>3, ZenonT(30)
<1>6. QED
  BY <1>1, <1>2, <1>3, <1>4, <1>5, ZenonT(30) DEF Calls

\* submit empties the slot, queues the job and owes one notification.
LEMMA SubmitMoves ==
  ASSUME PoolTypes, NEW c \in Callers, NEW j \in Jobs, Submit(c, j)
  PROVE  /\ jobs' = Append(jobs, j) /\ value[j] = "taken" /\ value' = [value EXCEPT ![j] = "none"]
         /\ cp'[c].pc = "notify" /\ UNCHANGED <<workers, running, wk, work, idle, done>>
  BY SMTT(30) DEF Submit, CallerGoes, At, PoolTypes

\* A worker that finds a job runs it.
LEMMA TakeMoves ==
  ASSUME PoolTypes, NEW w \in Workers, Take(w), jobs # <<>>
  PROVE  /\ w \in workers /\ wk[w].pc = "idle" /\ w \notin work
         /\ jobs' = Tail(jobs) /\ running' = running + 1
         /\ wk'[w] = At("run", Head(jobs)) /\ wk'[w].pc = "run" /\ wk'[w].job = Head(jobs) /\ Else(w)
         /\ UNCHANGED <<workers, value, work, idle, done>>
  BY SMTT(30) DEF Take, WorkerGoes, At, Else, PoolTypes

\* A worker that finds none sleeps or leaves.
LEMMA SleepMoves ==
  ASSUME PoolTypes, NEW w \in Workers, Take(w), jobs = <<>>
  PROVE  /\ w \in workers /\ wk[w].pc = "idle" /\ wk'[w].pc \in {"idle", "exit"} /\ Else(w)
         /\ UNCHANGED <<workers, jobs, running, value, idle, done>>
  BY SMTT(30) DEF Take, WorkerGoes, At, Else, PoolTypes

\* done.notify_all after the slot is filled.
LEMMA TellJoinersMoves ==
  ASSUME PoolTypes, NEW w \in Workers, TellJoiners(w)
  PROVE  /\ wk[w].pc = "filled" /\ wk'[w].pc = "ran" /\ Else(w)
         /\ done' = [done EXCEPT ![wk[w].job] = {}]
         /\ UNCHANGED <<workers, jobs, running, value, cp, work, idle>>
  BY SMTT(30) DEF TellJoiners, WorkerGoes, At, Else, PoolTypes

\* running goes down, and the last one sees the pool quiet.
LEMMA CountDownMoves ==
  ASSUME PoolTypes, NEW w \in Workers, CountDown(w)
  PROVE  /\ wk[w].pc = "ran" /\ running' = running - 1 /\ wk'[w].pc \in {"quiet", "idle"}
         /\ (running = 1 /\ jobs = <<>> => wk'[w].pc = "quiet") /\ Else(w)
         /\ UNCHANGED <<workers, jobs, value, cp, work, idle, done>>
  BY SMTT(30) DEF CountDown, WorkerGoes, At, Else, PoolTypes

\* idle.notify_all.
LEMMA TellIdleMoves ==
  ASSUME PoolTypes, NEW w \in Workers, TellIdle(w)
  PROVE  /\ wk[w].pc = "quiet" /\ wk'[w].pc = "idle" /\ idle' = {} /\ Else(w)
         /\ UNCHANGED <<workers, jobs, running, value, cp, work, done>>
  BY SMTT(30) DEF TellIdle, WorkerGoes, At, Else, PoolTypes

\* The job is over and its result is in the slot.
LEMMA FillMoves ==
  ASSUME PoolTypes, NEW w \in Workers, NEW r \in {"ok", "panic"}, Fill(w, r)
  PROVE  /\ wk[w].pc = "run" /\ wk'[w] = At("filled", wk[w].job) /\ wk'[w].pc = "filled"
         /\ Else(w) /\ value' = [value EXCEPT ![wk[w].job] = r]
         /\ UNCHANGED <<workers, jobs, running, cp, work, idle, done>>
  BY SMTT(30) DEF Fill, WorkerGoes, At, Else, PoolTypes

\* Every step of the pool is one of these.
LEMMA PoolSteps ==
  ASSUME PoolTypes, PoolNext
  PROVE  \/ Calls
         \/ \E c \in Callers, j \in Jobs : Submit(c, j)
         \/ \E w \in Workers : \/ Take(w) /\ jobs # <<>>
                               \/ Take(w) /\ jobs = <<>>
                               \/ TellJoiners(w) \/ CountDown(w) \/ TellIdle(w)
                               \/ \E r \in {"ok", "panic"} : Fill(w, r)
  BY CallsMove, ZenonT(30) DEF PoolNext, CallerStep, WorkerStep

\* No job is lost on its way from the queue to its slot.
LEMMA SlotsStep ==
  ASSUME PoolTypes, \A v \in Workers : WorkerAt(v), NEW z \in Jobs,
         value[z] = "none" => Queued(z) \/ Taken(z), PoolNext
  PROVE  value'[z] = "none" => Queued(z)' \/ Taken(z)'
<1>1. CASE Calls
  BY <1>1, SMTT(30) DEF Calls, Queued, Taken
<1>2. ASSUME NEW c \in Callers, NEW j \in Jobs, Submit(c, j) PROVE value'[z] = "none" => Queued(z)' \/ Taken(z)'
  <2>1. jobs' = Append(jobs, j) /\ UNCHANGED <<workers, wk>> /\ (z # j => value'[z] = value[z])
    BY <1>2, SubmitMoves, SMTT(30) DEF PoolTypes
  <2>2. /\ Len(jobs') \in 1 .. Len(jobs') /\ jobs'[Len(jobs')] = j
        /\ \A i \in 1 .. Len(jobs) : i \in 1 .. Len(jobs') /\ jobs'[i] = jobs[i]
    BY <2>1, SMTT(30) DEF PoolTypes
  <2>3. Taken(z)' <=> Taken(z)
    BY <2>1, SMTT(30) DEF Taken
  <2>4. QED
    BY <2>1, <2>2, <2>3, ZenonT(30) DEF Queued
<1>3. ASSUME NEW w \in Workers, Take(w), jobs # <<>> PROVE value'[z] = "none" => Queued(z)' \/ Taken(z)'
  <2>1. /\ jobs' = Tail(jobs) /\ w \in workers /\ workers' = workers /\ value' = value
        /\ wk'[w] = At("run", Head(jobs)) /\ wk[w].pc = "idle" /\ Else(w)
    BY <1>3, TakeMoves, ZenonT(30)
  <2>2. Queued(z) => z = Head(jobs) \/ \E i \in 1 .. Len(Tail(jobs)) : Tail(jobs)[i] = z
    BY <1>3, FirstJob, ZenonT(30)
  <2>3. Queued(z) => z = Head(jobs) \/ Queued(z)'
    BY <2>1, <2>2, ZenonT(30) DEF Queued
  <2>4. Taken(z) \/ z = Head(jobs) => Taken(z)'
    BY <2>1, SMTT(30) DEF Taken, PoolTypes, At, Else
  <2>5. QED
    BY <2>1, <2>3, <2>4, ZenonT(30)
<1>4. ASSUME NEW w \in Workers, Take(w), jobs = <<>> PROVE value'[z] = "none" => Queued(z)' \/ Taken(z)'
  <2>1. jobs' = jobs /\ workers' = workers /\ value' = value /\ wk[w].pc = "idle" /\ Else(w)
    BY <1>4, SleepMoves, ZenonT(30)
  <2>2. Taken(z) => Taken(z)'
    BY <2>1, SMTT(30) DEF Taken, PoolTypes, At, Else
  <2>3. QED
    BY <2>1, <2>2, SMTT(30) DEF Queued
<1>5. ASSUME NEW w \in Workers, TellJoiners(w) PROVE value'[z] = "none" => Queued(z)' \/ Taken(z)'
  <2>1. jobs' = jobs /\ workers' = workers /\ value' = value /\ wk[w].pc = "filled" /\ Else(w)
    BY <1>5, TellJoinersMoves, ZenonT(30)
  <2>2. Taken(z) => Taken(z)'
    BY <2>1, SMTT(30) DEF Taken, PoolTypes, At, Else
  <2>3. QED
    BY <2>1, <2>2, SMTT(30) DEF Queued
<1>6. ASSUME NEW w \in Workers, CountDown(w) PROVE value'[z] = "none" => Queued(z)' \/ Taken(z)'
  <2>1. jobs' = jobs /\ workers' = workers /\ value' = value /\ wk[w].pc = "ran" /\ Else(w)
    BY <1>6, CountDownMoves, ZenonT(30)
  <2>2. Taken(z) => Taken(z)'
    BY <2>1, SMTT(30) DEF Taken, PoolTypes, At, Else
  <2>3. QED
    BY <2>1, <2>2, SMTT(30) DEF Queued
<1>7. ASSUME NEW w \in Workers, TellIdle(w) PROVE value'[z] = "none" => Queued(z)' \/ Taken(z)'
  <2>1. jobs' = jobs /\ workers' = workers /\ value' = value /\ wk[w].pc = "quiet" /\ Else(w)
    BY <1>7, TellIdleMoves, ZenonT(30)
  <2>2. Taken(z) => Taken(z)'
    BY <2>1, SMTT(30) DEF Taken, PoolTypes, At, Else
  <2>3. QED
    BY <2>1, <2>2, SMTT(30) DEF Queued
<1>8. ASSUME NEW w \in Workers, NEW r \in {"ok", "panic"}, Fill(w, r) PROVE value'[z] = "none" => Queued(z)' \/ Taken(z)'
  <2>1. jobs' = jobs /\ workers' = workers /\ value' = [value EXCEPT ![wk[w].job] = r] /\ Else(w)
    BY <1>8, FillMoves, ZenonT(30)
  <2>2. CASE z = wk[w].job
    BY <2>1, <2>2, SMTT(30) DEF PoolTypes
  <2>3. CASE z # wk[w].job
    <3>1. value'[z] = value[z]
      BY <2>1, <2>3, SMTT(30) DEF PoolTypes
    <3>2. Queued(z) => Queued(z)'
      BY <2>1, SMTT(30) DEF Queued
    <3>3. ASSUME NEW v \in workers, wk[v] = At("run", z) PROVE Taken(z)'
      <4>1. v # w /\ v \in Workers
        BY <2>3, <3>3, SMTT(30) DEF At, PoolTypes
      <4>2. v \in workers' /\ wk'[v] = At("run", z)
        BY <2>1, <3>3, <4>1, ZenonT(30) DEF Else
      <4>3. QED
        BY <4>2, ZenonT(30) DEF Taken
    <3>4. QED
      BY <3>1, <3>2, <3>3, ZenonT(30) DEF Taken
  <2>4. QED
    BY <2>2, <2>3, ZenonT(30)
<1>9. QED
  BY <1>1, <1>2, <1>3, <1>4, <1>5, <1>6, <1>7, <1>8, PoolSteps, ZenonT(30)

\* The count under the lock is the number of workers with a job.
LEMMA CountStep ==
  ASSUME PoolTypes, \A v \in Workers : WorkerAt(v), running = Cardinality(Busied), PoolNext
  PROVE  running' = Cardinality(Busied')
<1>1. CASE Calls
  <2>1. Busied' = Busied /\ running' = running
    BY <1>1, SMTT(30) DEF Calls, Busied
  <2>2. QED
    BY <2>1, ZenonT(30)
<1>2. ASSUME NEW c \in Callers, NEW j \in Jobs, Submit(c, j) PROVE running' = Cardinality(Busied')
  <2>1. Busied' = Busied /\ running' = running
    BY <1>2, SubmitMoves, SMTT(30) DEF Busied
  <2>2. QED
    BY <2>1, ZenonT(30)
<1>3. ASSUME NEW w \in Workers, Take(w), jobs # <<>> PROVE running' = Cardinality(Busied')
  <2>1. /\ w \in workers /\ wk[w].pc = "idle" /\ wk'[w].pc = "run" /\ Else(w)
        /\ workers' = workers /\ running' = running + 1
    BY <1>3, TakeMoves, SMTT(30) DEF At
  <2>2. Busied' = Busied \cup {w} /\ w \notin Busied
    BY <2>1, SMTT(30) DEF Busied, InJob, Else, PoolTypes
  <2>3. Cardinality(Busied \cup {w}) = Cardinality(Busied) + 1
    BY <2>2, BusiedFinite, FS_AddElement, SMTT(30)
  <2>4. QED
    BY <2>1, <2>2, <2>3, ZenonT(30)
<1>4. ASSUME NEW w \in Workers, Take(w), jobs = <<>> PROVE running' = Cardinality(Busied')
  <2>1. running' = running /\ workers' = workers /\ Else(w) /\ wk[w].pc = "idle" /\ wk'[w].pc \in {"idle", "exit"}
    BY <1>4, SleepMoves, ZenonT(30)
  <2>2. Busied' = Busied
    BY <2>1, SMTT(30) DEF Busied, InJob, Else, PoolTypes
  <2>3. QED
    BY <2>1, <2>2, ZenonT(30)
<1>5. ASSUME NEW w \in Workers, TellJoiners(w) PROVE running' = Cardinality(Busied')
  <2>1. running' = running /\ workers' = workers /\ Else(w) /\ wk[w].pc = "filled" /\ wk'[w].pc = "ran"
    BY <1>5, TellJoinersMoves, ZenonT(30)
  <2>2. Busied' = Busied
    BY <2>1, SMTT(30) DEF Busied, InJob, Else, PoolTypes
  <2>3. QED
    BY <2>1, <2>2, ZenonT(30)
<1>6. ASSUME NEW w \in Workers, CountDown(w) PROVE running' = Cardinality(Busied')
  <2>1. /\ w \in workers /\ wk[w].pc = "ran" /\ wk'[w].pc \notin InJob /\ Else(w)
        /\ workers' = workers /\ running' = running - 1
    BY <1>6, CountDownMoves, SMTT(30) DEF InJob, WorkerAt
  <2>2. Busied' = Busied \ {w} /\ w \in Busied
    BY <2>1, SMTT(30) DEF Busied, InJob, Else, PoolTypes
  <2>3. Cardinality(Busied \ {w}) = Cardinality(Busied) - 1
    BY <2>2, BusiedFinite, FS_RemoveElement, SMTT(30)
  <2>4. QED
    BY <2>1, <2>2, <2>3, ZenonT(30)
<1>7. ASSUME NEW w \in Workers, TellIdle(w) PROVE running' = Cardinality(Busied')
  <2>1. running' = running /\ workers' = workers /\ Else(w) /\ wk[w].pc = "quiet" /\ wk'[w].pc = "idle"
    BY <1>7, TellIdleMoves, ZenonT(30)
  <2>2. Busied' = Busied
    BY <2>1, SMTT(30) DEF Busied, InJob, Else, PoolTypes
  <2>3. QED
    BY <2>1, <2>2, ZenonT(30)
<1>8. ASSUME NEW w \in Workers, NEW r \in {"ok", "panic"}, Fill(w, r) PROVE running' = Cardinality(Busied')
  <2>1. running' = running /\ workers' = workers /\ Else(w) /\ wk[w].pc = "run" /\ wk'[w].pc = "filled"
    BY <1>8, FillMoves, ZenonT(30)
  <2>2. Busied' = Busied
    BY <2>1, SMTT(30) DEF Busied, InJob, Else, PoolTypes
  <2>3. QED
    BY <2>1, <2>2, ZenonT(30)
<1>9. QED
  BY <1>1, <1>2, <1>3, <1>4, <1>5, <1>6, <1>7, <1>8, PoolSteps, ZenonT(30)
=============================================================================
