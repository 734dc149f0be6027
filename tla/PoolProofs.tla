----------------------------- MODULE PoolProofs -----------------------------
(***************************************************************************)
(* No wakeup of the task pool is missed and a dropped pool is drained, for *)
(* any number of callers, jobs and granted workers.                        *)
(***************************************************************************)
EXTENDS PoolMoves

-----------------------------------------------------------------------------
\* With nobody asleep, a worker is there for what is queued.
LEMMA NobodyAsleep ==
  ASSUME PoolTypes, \A w \in Workers : WorkerAt(w), jobs # <<>>, workers # {}, NEW S,
         S = {} \/ \E w \in work : S = work \ {w}
  PROVE  \E w \in workers \ S : wk[w].pc # "exit"
  BY SMTT(30) DEF PoolTypes, WorkerAt

\* While a job is queued, a worker is awake or about to be woken.
LEMMA QueueStep ==
  ASSUME PoolTypes, \A v \in Workers : WorkerAt(v), jobs # <<>> => workers # {}, QueueHeard, PoolNext
  PROVE  QueueHeard'
<1>1. CASE Calls
  <2>1. CASE work' = work /\ (Waking => Waking')
    BY <1>1, <2>1, SMTT(30) DEF Calls, QueueHeard, Awake
  <2>2. CASE work' = {} \/ \E v \in work : work' = work \ {v}
    <3>1. jobs' = jobs /\ workers' = workers /\ wk' = wk
      BY <1>1, ZenonT(30) DEF Calls
    <3>2. jobs # <<>> => \E w \in workers \ work' : wk[w].pc # "exit"
      BY <2>2, NobodyAsleep, ZenonT(30)
    <3>3. QED
      BY <3>1, <3>2, SMTT(30) DEF QueueHeard, Awake
  <2>3. QED
    BY <1>1, <2>1, <2>2, ZenonT(30) DEF Calls
<1>2. ASSUME NEW c \in Callers, NEW j \in Jobs, Submit(c, j) PROVE QueueHeard'
  <2>1. cp'[c].pc = "notify"
    BY <1>2, SubmitMoves, ZenonT(30)
  <2>2. QED
    BY <2>1, SMTT(30) DEF QueueHeard, Waking
<1>3. ASSUME NEW w \in Workers, Take(w), jobs # <<>> PROVE QueueHeard'
  <2>1. w \in workers' \ work' /\ wk'[w].pc # "exit"
    BY <1>3, TakeMoves, SMTT(30) DEF At
  <2>2. QED
    BY <2>1, SMTT(30) DEF QueueHeard, Awake
<1>4. ASSUME NEW w \in Workers, Take(w), jobs = <<>> PROVE QueueHeard'
  BY <1>4, SleepMoves, SMTT(30) DEF QueueHeard
<1>5. ASSUME NEW w \in Workers, TellJoiners(w) PROVE QueueHeard'
  <2>1. UNCHANGED <<jobs, workers, work, cp>> /\ wk[w].pc = "filled" /\ wk'[w].pc = "ran" /\ Else(w)
    BY <1>5, TellJoinersMoves, ZenonT(30)
  <2>2. Awake => Awake'
    BY <2>1, SMTT(30) DEF Awake, Else, PoolTypes
  <2>3. Waking => Waking'
    BY <2>1, SMTT(30) DEF Waking
  <2>4. QED
    BY <2>1, <2>2, <2>3, SMTT(30) DEF QueueHeard
<1>6. ASSUME NEW w \in Workers, CountDown(w) PROVE QueueHeard'
  <2>1. UNCHANGED <<jobs, workers, work, cp>> /\ wk[w].pc = "ran" /\ wk'[w].pc \in {"quiet", "idle"} /\ Else(w)
    BY <1>6, CountDownMoves, ZenonT(30)
  <2>2. Awake => Awake'
    BY <2>1, SMTT(30) DEF Awake, Else, PoolTypes
  <2>3. Waking => Waking'
    BY <2>1, SMTT(30) DEF Waking
  <2>4. QED
    BY <2>1, <2>2, <2>3, SMTT(30) DEF QueueHeard
<1>7. ASSUME NEW w \in Workers, TellIdle(w) PROVE QueueHeard'
  <2>1. UNCHANGED <<jobs, workers, work, cp>> /\ wk[w].pc = "quiet" /\ wk'[w].pc = "idle" /\ Else(w)
    BY <1>7, TellIdleMoves, ZenonT(30)
  <2>2. Awake => Awake'
    BY <2>1, SMTT(30) DEF Awake, Else, PoolTypes
  <2>3. Waking => Waking'
    BY <2>1, SMTT(30) DEF Waking
  <2>4. QED
    BY <2>1, <2>2, <2>3, SMTT(30) DEF QueueHeard
<1>8. ASSUME NEW w \in Workers, NEW r \in {"ok", "panic"}, Fill(w, r) PROVE QueueHeard'
  <2>1. UNCHANGED <<jobs, workers, work, cp>> /\ wk[w].pc = "run" /\ wk'[w].pc = "filled" /\ Else(w)
    BY <1>8, FillMoves, ZenonT(30)
  <2>2. Awake => Awake'
    BY <2>1, SMTT(30) DEF Awake, Else, PoolTypes
  <2>3. Waking => Waking'
    BY <2>1, SMTT(30) DEF Waking
  <2>4. QED
    BY <2>1, <2>2, <2>3, SMTT(30) DEF QueueHeard
<1>9. QED
  BY <1>1, <1>2, <1>3, <1>4, <1>5, <1>6, <1>7, <1>8, PoolSteps, ZenonT(30)

\* While somebody waits for a quiet pool, it is not quiet or they are about to hear.
LEMMA QuietStep ==
  ASSUME PoolTypes, \A v \in Workers : WorkerAt(v), running = Cardinality(Busied), QuietHeard, PoolNext
  PROVE  QuietHeard'
<1>1. CASE Calls
  BY <1>1, SMTT(30) DEF Calls, QuietHeard
<1>2. ASSUME NEW c \in Callers, NEW j \in Jobs, Submit(c, j) PROVE QuietHeard'
  <2>1. jobs' # <<>>
    BY <1>2, SubmitMoves, SMTT(30) DEF PoolTypes
  <2>2. QED
    BY <2>1, SMTT(30) DEF QuietHeard
<1>3. ASSUME NEW w \in Workers, Take(w), jobs # <<>> PROVE QuietHeard'
  <2>1. running' = running + 1
    BY <1>3, TakeMoves, ZenonT(30)
  <2>2. running \in Nat
    BY BusiedFinite, FS_CardinalityType, ZenonT(30)
  <2>3. running' > 0
    BY <2>1, <2>2, SMTT(30)
  <2>4. QED
    BY <2>3, ZenonT(30) DEF QuietHeard
<1>4. ASSUME NEW w \in Workers, Take(w), jobs = <<>> PROVE QuietHeard'
  <2>1. UNCHANGED <<jobs, running, workers, idle>> /\ wk[w].pc = "idle" /\ Else(w)
    BY <1>4, SleepMoves, ZenonT(30)
  <2>2. QED
    BY <2>1, SMTT(30) DEF QuietHeard, Else, PoolTypes
<1>5. ASSUME NEW w \in Workers, TellJoiners(w) PROVE QuietHeard'
  <2>1. UNCHANGED <<jobs, running, workers, idle>> /\ wk[w].pc = "filled" /\ Else(w)
    BY <1>5, TellJoinersMoves, ZenonT(30)
  <2>2. QED
    BY <2>1, SMTT(30) DEF QuietHeard, Else, PoolTypes
<1>6. ASSUME NEW w \in Workers, CountDown(w) PROVE QuietHeard'
  <2>1. /\ UNCHANGED <<jobs, workers, idle>> /\ running' = running - 1 /\ wk[w].pc = "ran"
        /\ (running = 1 /\ jobs = <<>> => wk'[w].pc = "quiet") /\ Else(w)
    BY <1>6, CountDownMoves, ZenonT(30)
  <2>2. w \in workers
    BY <2>1, SMTT(30) DEF WorkerAt
  <2>3. running > 0 => running' > 0 \/ running = 1
    BY <2>1, SMTT(30) DEF PoolTypes
  <2>4. CASE jobs # <<>> \/ running' > 0
    BY <2>1, <2>4, ZenonT(30) DEF QuietHeard
  <2>5. CASE running = 1 /\ jobs = <<>>
    BY <2>1, <2>2, <2>5, ZenonT(30) DEF QuietHeard
  <2>6. ASSUME NEW v \in workers, wk[v].pc = "quiet" PROVE QuietHeard'
    <3>1. v \in Workers /\ v # w
      BY <2>1, <2>6, SMTT(30) DEF PoolTypes
    <3>2. wk'[v].pc = "quiet" /\ v \in workers'
      BY <2>1, <2>6, <3>1, ZenonT(30) DEF Else
    <3>3. QED
      BY <3>2, ZenonT(30) DEF QuietHeard
  <2>7. QED
    BY <2>1, <2>3, <2>4, <2>5, <2>6, ZenonT(30) DEF QuietHeard
<1>7. ASSUME NEW w \in Workers, TellIdle(w) PROVE QuietHeard'
  BY <1>7, TellIdleMoves, SMTT(30) DEF QuietHeard
<1>8. ASSUME NEW w \in Workers, NEW r \in {"ok", "panic"}, Fill(w, r) PROVE QuietHeard'
  <2>1. UNCHANGED <<jobs, running, workers, idle>> /\ wk[w].pc = "run" /\ Else(w)
    BY <1>8, FillMoves, ZenonT(30)
  <2>2. QED
    BY <2>1, SMTT(30) DEF QuietHeard, Else, PoolTypes
<1>9. QED
  BY <1>1, <1>2, <1>3, <1>4, <1>5, <1>6, <1>7, <1>8, PoolSteps, ZenonT(30)

\* While somebody waits for a result, it is not there or they are about to hear.
LEMMA ResultStep ==
  ASSUME PoolTypes, \A v \in Workers : WorkerAt(v), NEW z \in Jobs, ResultHeard(z), PoolNext
  PROVE  ResultHeard(z)'
<1>1. CASE Calls
  BY <1>1, SMTT(30) DEF Calls, ResultHeard
<1>2. ASSUME NEW c \in Callers, NEW j \in Jobs, Submit(c, j) PROVE ResultHeard(z)'
  <2>1. UNCHANGED <<workers, wk, done>> /\ (value'[z] = "none" \/ value'[z] = value[z])
    BY <1>2, SubmitMoves, SMTT(30) DEF PoolTypes
  <2>2. QED
    BY <2>1, SMTT(30) DEF ResultHeard
<1>3. ASSUME NEW w \in Workers, Take(w), jobs # <<>> PROVE ResultHeard(z)'
  <2>1. UNCHANGED <<workers, value, done>> /\ wk[w].pc = "idle" /\ Else(w)
    BY <1>3, TakeMoves, ZenonT(30)
  <2>2. QED
    BY <2>1, SMTT(30) DEF ResultHeard, Else, PoolTypes, At
<1>4. ASSUME NEW w \in Workers, Take(w), jobs = <<>> PROVE ResultHeard(z)'
  <2>1. UNCHANGED <<workers, value, done>> /\ wk[w].pc = "idle" /\ Else(w)
    BY <1>4, SleepMoves, ZenonT(30)
  <2>2. QED
    BY <2>1, SMTT(30) DEF ResultHeard, Else, PoolTypes, At
<1>5. ASSUME NEW w \in Workers, TellJoiners(w) PROVE ResultHeard(z)'
  <2>1. /\ UNCHANGED <<workers, value>> /\ wk[w].pc = "filled" /\ Else(w)
        /\ done' = [done EXCEPT ![wk[w].job] = {}]
    BY <1>5, TellJoinersMoves, ZenonT(30)
  <2>2. CASE z = wk[w].job
    <3>1. done'[z] = {}
      BY <2>1, <2>2, SMTT(30) DEF PoolTypes
    <3>2. QED
      BY <3>1, SMTT(30) DEF ResultHeard
  <2>3. CASE z # wk[w].job
    <3>1. done'[z] = done[z]
      BY <2>1, <2>3, SMTT(30) DEF PoolTypes
    <3>2. QED
      BY <2>1, <2>3, <3>1, SMTT(30) DEF ResultHeard, Else, PoolTypes, At
  <2>4. QED
    BY <2>2, <2>3, ZenonT(30)
<1>6. ASSUME NEW w \in Workers, CountDown(w) PROVE ResultHeard(z)'
  <2>1. UNCHANGED <<workers, value, done>> /\ wk[w].pc = "ran" /\ Else(w)
    BY <1>6, CountDownMoves, ZenonT(30)
  <2>2. QED
    BY <2>1, SMTT(30) DEF ResultHeard, Else, PoolTypes, At
<1>7. ASSUME NEW w \in Workers, TellIdle(w) PROVE ResultHeard(z)'
  <2>1. UNCHANGED <<workers, value, done>> /\ wk[w].pc = "quiet" /\ Else(w)
    BY <1>7, TellIdleMoves, ZenonT(30)
  <2>2. QED
    BY <2>1, SMTT(30) DEF ResultHeard, Else, PoolTypes, At
<1>8. ASSUME NEW w \in Workers, NEW r \in {"ok", "panic"}, Fill(w, r) PROVE ResultHeard(z)'
  <2>1. /\ UNCHANGED <<workers, done>> /\ wk[w].pc = "run" /\ wk'[w] = At("filled", wk[w].job)
        /\ value' = [value EXCEPT ![wk[w].job] = r] /\ Else(w)
    BY <1>8, FillMoves, ZenonT(30)
  <2>2. w \in workers
    BY <2>1, SMTT(30) DEF WorkerAt
  <2>3. CASE z = wk[w].job
    BY <2>1, <2>2, <2>3, ZenonT(30) DEF ResultHeard
  <2>4. CASE z # wk[w].job
    <3>1. value'[z] = value[z]
      BY <2>1, <2>4, SMTT(30) DEF PoolTypes
    <3>2. QED
      BY <2>1, <2>4, <3>1, SMTT(30) DEF ResultHeard, Else, PoolTypes, At
  <2>5. QED
    BY <2>3, <2>4, ZenonT(30)
<1>9. QED
  BY <1>1, <1>2, <1>3, <1>4, <1>5, <1>6, <1>7, <1>8, PoolSteps, ZenonT(30)

\* Every place of the queue holds a job.
LEMMA JobsTyped ==
  ASSUME PoolTypes, \A v \in Workers : WorkerAt(v)
  PROVE  /\ \A i \in 1 .. Len(jobs) : jobs[i] \in Jobs
         /\ \A v \in Workers : wk[v].pc = "run" => wk[v].job \in Jobs
  BY DEF PoolTypes, WorkerAt

\* Nothing changes for a step that leaves the queue alone, empties no slot and
\* hands no worker a job.
LEMMA UnfilledKeeps ==
  ASSUME PoolTypes, \A v \in Workers : WorkerAt(v), Unfilled, jobs' = jobs,
         \A i \in Jobs : value[i] = "none" => value'[i] = "none",
         \A v \in Workers : wk'[v].pc = "run" => wk'[v] = wk[v]
  PROVE  Unfilled'
<1>1. QueuedOnce'
  BY SMTT(30) DEF Unfilled, QueuedOnce
<1>2. QueuedEmpty'
  BY JobsTyped, SMTT(30) DEF Unfilled, QueuedEmpty
<1>3. \A z : Queued(z)' <=> Queued(z)
  BY SMTT(30) DEF Queued
<1>4. RunEmpty'
  BY <1>3, SMTT(30) DEF Unfilled, RunEmpty
<1>5. RunOnce'
  BY SMTT(30) DEF Unfilled, RunOnce
<1>6. QED
  BY <1>1, <1>2, <1>4, <1>5, ZenonT(30) DEF Unfilled

\* submit queues a job whose slot was taken, so it was nowhere.
LEMMA UnfilledSubmit ==
  ASSUME PoolTypes, \A v \in Workers : WorkerAt(v), Unfilled,
         NEW c \in Callers, NEW j \in Jobs, Submit(c, j)
  PROVE  Unfilled'
<1>1. /\ wk' = wk /\ jobs' = Append(jobs, j) /\ value[j] = "taken"
      /\ value' = [value EXCEPT ![j] = "none"]
  BY SubmitMoves, ZenonT(30)
<1>2. /\ Len(jobs') = Len(jobs) + 1 /\ jobs'[Len(jobs) + 1] = j /\ Len(jobs) \in Nat
      /\ \A i \in 1 .. Len(jobs) : jobs'[i] = jobs[i]
  BY <1>1, SMTT(30) DEF PoolTypes
<1>3. \A i \in Jobs : value[i] = "none" => value'[i] = "none" /\ i # j
  BY <1>1, SMTT(30) DEF PoolTypes
<1>4. \A i \in 1 .. Len(jobs') : i = Len(jobs) + 1 \/ i \in 1 .. Len(jobs)
  BY <1>2, SMTT(30)
<1>5. \A i \in 1 .. Len(jobs) : jobs[i] # j
  BY <1>3, JobsTyped, SMTT(30) DEF Unfilled, QueuedEmpty
<1>6. QueuedOnce'
  <2>1. ASSUME NEW i \in 1 .. Len(jobs'), NEW k \in 1 .. Len(jobs'), jobs'[i] = jobs'[k]
        PROVE  i = k
    BY <1>2, <1>4, <1>5, <2>1, SMTT(30) DEF Unfilled, QueuedOnce
  <2>2. QED
    BY <2>1, SMTT(30) DEF QueuedOnce
<1>7. QueuedEmpty'
  <2>1. value'[j] = "none"
    BY <1>1, SMTT(30) DEF PoolTypes
  <2>2. \A i \in 1 .. Len(jobs) : value'[jobs[i]] = "none"
    BY <1>3, JobsTyped, SMTT(30) DEF Unfilled, QueuedEmpty
  <2>3. QED
    BY <1>2, <1>4, <2>1, <2>2, SMTT(30) DEF QueuedEmpty
<1>8. RunEmpty'
  <2>1. ASSUME NEW v \in Workers, NEW z \in Jobs, wk'[v].pc = "run", wk'[v].job = z
        PROVE  value'[z] = "none" /\ ~Queued(z)'
    <3>1. value[z] = "none" /\ ~Queued(z)
      BY <1>1, <2>1, SMTT(30) DEF Unfilled, RunEmpty
    <3>2. QED
      BY <1>2, <1>3, <1>4, <3>1, SMTT(30) DEF Queued
  <2>2. QED
    BY <2>1, SMTT(30) DEF RunEmpty
<1>9. RunOnce'
  BY <1>1, SMTT(30) DEF Unfilled, RunOnce
<1>10. QED
  BY <1>6, <1>7, <1>8, <1>9, ZenonT(30) DEF Unfilled

\* worker moves a job from the queue to itself.
LEMMA UnfilledTake ==
  ASSUME PoolTypes, \A v \in Workers : WorkerAt(v), Unfilled,
         NEW w \in Workers, Take(w), jobs # <<>>
  PROVE  Unfilled'
<1>1. jobs' = Tail(jobs) /\ value' = value
  BY TakeMoves, ZenonT(30)
<1>2. wk'[w].job = Head(jobs) /\ \A v \in Workers : v # w => wk'[v] = wk[v]
  BY TakeMoves, ZenonT(30) DEF Else
<1>3. jobs \in Seq(Jobs) /\ jobs' = Tail(jobs)
  BY <1>1, SMTT(30) DEF PoolTypes
<1>4. Len(jobs) \in Nat \ {0} /\ Len(jobs') = Len(jobs) - 1 /\ Head(jobs) = jobs[1]
  BY <1>3, SMTT(30)
<1>5. 1 \in 1 .. Len(jobs) /\ \A i \in 1 .. Len(jobs') : i + 1 \in 1 .. Len(jobs) /\ i + 1 # 1
  BY <1>4, SMTT(30)
<1>6. \A i \in 1 .. Len(jobs') : jobs'[i] = jobs[i + 1]
  BY <1>3, <1>4, SMTT(30)
<1>7. QueuedOnce'
  <2>1. ASSUME NEW i \in 1 .. Len(jobs'), NEW k \in 1 .. Len(jobs'), jobs'[i] = jobs'[k]
        PROVE  i = k
    <3>1. i + 1 \in 1 .. Len(jobs) /\ k + 1 \in 1 .. Len(jobs) /\ jobs[i + 1] = jobs[k + 1]
      BY <1>5, <1>6, <2>1, ZenonT(30)
    <3>2. i + 1 = k + 1
      BY <3>1, ZenonT(30) DEF Unfilled, QueuedOnce
    <3>3. QED
      BY <1>4, <3>2, SMTT(30)
  <2>2. QED
    BY <2>1, SMTT(30) DEF QueuedOnce
<1>8. \A i \in 1 .. Len(jobs') : jobs'[i] # Head(jobs)
  <2>1. ASSUME NEW i \in 1 .. Len(jobs'), jobs'[i] = Head(jobs)
        PROVE  FALSE
    <3>1. i + 1 \in 1 .. Len(jobs) /\ i + 1 # 1 /\ jobs[i + 1] = jobs[1]
      BY <1>4, <1>5, <1>6, <2>1, ZenonT(30)
    <3>2. QED
      BY <1>5, <3>1, ZenonT(30) DEF Unfilled, QueuedOnce
  <2>2. QED
    BY <2>1, ZenonT(30)
<1>9. QueuedEmpty'
  BY <1>1, <1>5, <1>6, SMTT(30) DEF Unfilled, QueuedEmpty
<1>10. ASSUME NEW z, Queued(z)'
       PROVE  Queued(z) /\ z # Head(jobs)
  BY <1>5, <1>6, <1>8, <1>10, ZenonT(30) DEF Queued
<1>11. value[Head(jobs)] = "none" /\ Queued(Head(jobs))
  BY <1>4, <1>5, SMTT(30) DEF Unfilled, QueuedEmpty, Queued
<1>12. RunEmpty'
  <2>1. ASSUME NEW v \in Workers, NEW z \in Jobs, wk'[v].pc = "run", wk'[v].job = z
        PROVE  value'[z] = "none" /\ ~Queued(z)'
    <3>1. CASE v = w
      BY <1>1, <1>2, <1>10, <1>11, <2>1, <3>1, SMTT(30)
    <3>2. CASE v # w
      <4>1. value[z] = "none" /\ ~Queued(z)
        BY <1>2, <2>1, <3>2, SMTT(30) DEF Unfilled, RunEmpty
      <4>2. QED
        BY <1>1, <1>10, <4>1, ZenonT(30)
    <3>3. QED
      BY <3>1, <3>2, ZenonT(30)
  <2>2. QED
    BY <2>1, SMTT(30) DEF RunEmpty
<1>13. \A v \in Workers : wk[v].pc = "run" => wk[v].job # Head(jobs)
  <2>1. ASSUME NEW v \in Workers, wk[v].pc = "run", wk[v].job = Head(jobs)
        PROVE  FALSE
    <3>1. wk[v].job \in Jobs
      BY <2>1, JobsTyped, ZenonT(30)
    <3>2. ~Queued(wk[v].job)
      BY <2>1, <3>1, ZenonT(30) DEF Unfilled, RunEmpty
    <3>3. QED
      BY <1>11, <2>1, <3>2, ZenonT(30)
  <2>2. QED
    BY <2>1, ZenonT(30)
<1>14. RunOnce'
  BY <1>2, <1>13, SMTT(30) DEF Unfilled, RunOnce
<1>15. QED
  BY <1>7, <1>9, <1>12, <1>14, ZenonT(30) DEF Unfilled

\* A filled slot is the slot of no other job on its way.
LEMMA UnfilledFill ==
  ASSUME PoolTypes, \A v \in Workers : WorkerAt(v), Unfilled,
         NEW w \in Workers, NEW r \in {"ok", "panic"}, Fill(w, r)
  PROVE  Unfilled'
<1>1. jobs' = jobs /\ wk[w].pc = "run" /\ value' = [value EXCEPT ![wk[w].job] = r]
  BY FillMoves, ZenonT(30)
<1>2. wk'[w].pc = "filled" /\ \A v \in Workers : v # w => wk'[v] = wk[v]
  BY FillMoves, ZenonT(30) DEF Else
<1>3. \A i \in Jobs : i # wk[w].job => value'[i] = value[i]
  BY <1>1, SMTT(30) DEF PoolTypes
<1>4. wk[w].job \in Jobs /\ ~Queued(wk[w].job)
  <2>1. wk[w].job \in Jobs
    BY <1>1, JobsTyped, ZenonT(30)
  <2>2. QED
    BY <1>1, <2>1, ZenonT(30) DEF Unfilled, RunEmpty
<1>5. \A i \in 1 .. Len(jobs) : jobs[i] # wk[w].job
  BY <1>4, ZenonT(30) DEF Queued
<1>6. QueuedOnce'
  BY <1>1, SMTT(30) DEF Unfilled, QueuedOnce
<1>7. QueuedEmpty'
  BY <1>1, <1>3, <1>5, JobsTyped, SMTT(30) DEF Unfilled, QueuedEmpty
<1>8. RunEmpty'
  <2>1. ASSUME NEW v \in Workers, NEW z \in Jobs, wk'[v].pc = "run", wk'[v].job = z
        PROVE  value'[z] = "none" /\ ~Queued(z)'
    <3>1. v # w /\ wk[v].pc = "run" /\ wk[v].job = z
      BY <1>2, <2>1, SMTT(30)
    <3>2. z # wk[w].job
      BY <1>1, <3>1, SMTT(30) DEF Unfilled, RunOnce
    <3>3. value[z] = "none" /\ ~Queued(z)
      BY <3>1, ZenonT(30) DEF Unfilled, RunEmpty
    <3>4. Queued(z)' => Queued(z)
      BY <1>1, SMTT(30) DEF Queued
    <3>5. QED
      BY <1>3, <3>2, <3>3, <3>4, ZenonT(30)
  <2>2. QED
    BY <2>1, SMTT(30) DEF RunEmpty
<1>9. RunOnce'
  BY <1>2, SMTT(30) DEF Unfilled, RunOnce
<1>10. QED
  BY <1>6, <1>7, <1>8, <1>9, ZenonT(30) DEF Unfilled

\* A job is with the queue or with one worker.
LEMMA UnfilledStep ==
  ASSUME PoolTypes, \A v \in Workers : WorkerAt(v), Unfilled, PoolNext
  PROVE  Unfilled'
<1>1. CASE Calls
  <2>1. /\ jobs' = jobs /\ wk' = wk
        /\ \A i \in Jobs : value[i] = "none" => value'[i] = "none"
    BY <1>1, ZenonT(30) DEF Calls
  <2>2. QED
    BY <2>1, UnfilledKeeps, ZenonT(30)
<1>2. ASSUME NEW c \in Callers, NEW j \in Jobs, Submit(c, j) PROVE Unfilled'
  BY <1>2, UnfilledSubmit, ZenonT(30)
<1>3. ASSUME NEW w \in Workers, Take(w), jobs # <<>> PROVE Unfilled'
  BY <1>3, UnfilledTake, ZenonT(30)
<1>4. ASSUME NEW w \in Workers, Take(w), jobs = <<>> PROVE Unfilled'
  <2>1. jobs' = jobs /\ value' = value /\ wk[w].pc = "idle" /\ wk'[w].pc \in {"idle", "exit"} /\ Else(w)
    BY <1>4, SleepMoves, ZenonT(30)
  <2>2. \A v \in Workers : wk'[v].pc = "run" => wk'[v] = wk[v]
    BY <2>1, SMTT(30) DEF Else
  <2>3. QED
    BY <2>1, <2>2, UnfilledKeeps, ZenonT(30)
<1>5. ASSUME NEW w \in Workers, TellJoiners(w) PROVE Unfilled'
  <2>1. jobs' = jobs /\ value' = value /\ wk[w].pc = "filled" /\ wk'[w].pc = "ran" /\ Else(w)
    BY <1>5, TellJoinersMoves, ZenonT(30)
  <2>2. \A v \in Workers : wk'[v].pc = "run" => wk'[v] = wk[v]
    BY <2>1, SMTT(30) DEF Else
  <2>3. QED
    BY <2>1, <2>2, UnfilledKeeps, ZenonT(30)
<1>6. ASSUME NEW w \in Workers, CountDown(w) PROVE Unfilled'
  <2>1. jobs' = jobs /\ value' = value /\ wk[w].pc = "ran" /\ wk'[w].pc \in {"quiet", "idle"} /\ Else(w)
    BY <1>6, CountDownMoves, ZenonT(30)
  <2>2. \A v \in Workers : wk'[v].pc = "run" => wk'[v] = wk[v]
    BY <2>1, SMTT(30) DEF Else
  <2>3. QED
    BY <2>1, <2>2, UnfilledKeeps, ZenonT(30)
<1>7. ASSUME NEW w \in Workers, TellIdle(w) PROVE Unfilled'
  <2>1. jobs' = jobs /\ value' = value /\ wk[w].pc = "quiet" /\ wk'[w].pc = "idle" /\ Else(w)
    BY <1>7, TellIdleMoves, ZenonT(30)
  <2>2. \A v \in Workers : wk'[v].pc = "run" => wk'[v] = wk[v]
    BY <2>1, SMTT(30) DEF Else
  <2>3. QED
    BY <2>1, <2>2, UnfilledKeeps, ZenonT(30)
<1>8. ASSUME NEW w \in Workers, NEW r \in {"ok", "panic"}, Fill(w, r) PROVE Unfilled'
  BY <1>8, UnfilledFill, ZenonT(30)
<1>9. QED
  BY <1>1, <1>2, <1>3, <1>4, <1>5, <1>6, <1>7, <1>8, PoolSteps, ZenonT(30)

-----------------------------------------------------------------------------
\* Pool::new.
LEMMA PoolInitInv == PoolInit => PoolInv
<1> SUFFICES ASSUME PoolInit PROVE PoolInv
  OBVIOUS
<1>1. PoolTypes
  <2>1. wk \in [Workers -> [pc : WorkerPlaces, job : Jobs \cup {NoJob}]]
    BY DEF PoolInit, At, WorkerPlaces
  <2>2. cp \in [Callers -> [pc : CallerPlaces, job : Jobs \cup {NoJob}]]
    BY DEF PoolInit, At, CallerPlaces
  <2>3. value \in [Jobs -> Results] /\ done \in [Jobs -> SUBSET Callers]
    BY SMTT(30) DEF PoolInit, Results
  <2>4. jobs \in Seq(Jobs)
    BY SMTT(30) DEF PoolInit
  <2>5. workers \subseteq Workers /\ work \subseteq workers /\ idle \subseteq Callers
    BY DEF PoolInit
  <2>6. running \in Int
    BY DEF PoolInit
  <2>7. shutdown \in BOOLEAN
    BY ZenonT(30) DEF PoolInit
  <2>8. QED
    BY <2>1, <2>2, <2>3, <2>4, <2>5, <2>6, <2>7, SMTT(30) DEF PoolTypes
<1>2. /\ \A w \in Workers : WorkerAt(w)
      /\ \A c \in Callers : CallerAt(c)
      /\ \A j \in Jobs : value[j] # "none"
  BY DEF PoolInit, WorkerAt, CallerAt, At
<1>3. running = Cardinality(Busied)
  <2>1. Busied = {} /\ running = 0
    BY SMTT(30) DEF PoolInit, Busied, At, InJob
  <2>2. QED
    BY <2>1, FS_EmptySet, SMTT(30)
<1>4. WakeupsKept
  BY DEF PoolInit, WakeupsKept
<1>5. jobs = <<>>
  BY SMTT(30) DEF PoolInit
<1>6. Unfilled
  BY <1>5, SMTT(30) DEF PoolInit, Unfilled, QueuedOnce, QueuedEmpty, RunEmpty, RunOnce, Queued, At
<1>7. QED
  BY <1>1, <1>2, <1>3, <1>4, <1>5, <1>6, SMTT(30) DEF PoolInv

\* Every step keeps it.
LEMMA PoolStepInv == PoolInv /\ [PoolNext]_poolVars => PoolInv'
<1> SUFFICES ASSUME PoolInv, [PoolNext]_poolVars PROVE PoolInv'
  OBVIOUS
<1>1. /\ PoolTypes /\ running = Cardinality(Busied) /\ (jobs # <<>> => workers # {})
      /\ \A w \in Workers : WorkerAt(w)
      /\ \A c \in Callers : CallerAt(c)
      /\ \A j \in Jobs : value[j] = "none" => Queued(j) \/ Taken(j)
      /\ Unfilled
      /\ QueueHeard /\ QuietHeard /\ \A j \in Jobs : ResultHeard(j)
  BY WakeupParts, ZenonT(30) DEF PoolInv
<1>2. CASE UNCHANGED poolVars
  <2>1. UNCHANGED <<workers, jobs, running, shutdown, value, wk, cp, work, idle, done>>
    BY <1>2, ZenonT(30) DEF poolVars
  <2>2. PoolTypes'
    BY <1>1, <2>1, SMTT(30) DEF PoolTypes
  <2>3. Busied' = Busied
    BY <2>1, SMTT(30) DEF Busied
  <2>4. (\A w \in Workers : WorkerAt(w)') /\ (\A c \in Callers : CallerAt(c)')
    BY <1>1, <2>1, SMTT(30) DEF WorkerAt, CallerAt
  <2>5. \A j \in Jobs : value'[j] = "none" => Queued(j)' \/ Taken(j)'
    BY <1>1, <2>1, SMTT(30) DEF Queued, Taken
  <2>6. Unfilled'
    BY <1>1, <2>1, UnfilledKeeps, ZenonT(30)
  <2>7. WakeupsKept'
    BY <2>1, SMTT(30) DEF PoolInv, WakeupsKept
  <2>8. (jobs' # <<>> => workers' # {}) /\ running' = Cardinality(Busied')
    BY <1>1, <2>1, <2>3, ZenonT(30)
  <2>9. QED
    BY <2>2, <2>4, <2>5, <2>6, <2>7, <2>8, ZenonT(30) DEF PoolInv
<1>3. CASE PoolNext
  <2>1. PoolTypes'
    BY <1>1, <1>3, PoolTypesStep, SMTT(30)
  <2>2. /\ \A w \in Workers : WorkerAt(w)'
        /\ \A c \in Callers : CallerAt(c)'
        /\ jobs' # <<>> => workers' # {}
    BY <1>1, <1>3, PlacesStep, SMTT(30)
  <2>3. \A j \in Jobs : value'[j] = "none" => Queued(j)' \/ Taken(j)'
    BY <1>1, <1>3, SlotsStep, SMTT(30)
  <2>4. running' = Cardinality(Busied')
    BY <1>1, <1>3, CountStep, SMTT(30)
  <2>5. QueueHeard' /\ QuietHeard'
    BY <1>1, <1>3, QueueStep, QuietStep, SMTT(30)
  <2>6. \A j \in Jobs : ResultHeard(j)'
    BY <1>1, <1>3, ResultStep, SMTT(30)
  <2>7. WakeupsKept'
    BY <2>5, <2>6, SMTT(30) DEF WakeupsKept, QueueHeard, QuietHeard, ResultHeard, Awake, Waking
  <2>8. Unfilled'
    BY <1>1, <1>3, UnfilledStep, SMTT(30)
  <2>9. QED
    BY <2>1, <2>2, <2>3, <2>4, <2>7, <2>8, ZenonT(30) DEF PoolInv
<1>4. QED
  BY <1>2, <1>3, ZenonT(30)

\* The strengthening is an invariant of every call on the pool.
LEMMA PoolInvariant == PoolSpec => []PoolInv
  BY PoolInitInv, PoolStepInv, PTL DEF PoolSpec

\* worker, submit, join and quiesce: no thread sleeps on a condition whose
\* notification has already been made, however the steps interleave.
THEOREM WakeupsAlwaysKept == PoolSpec => []WakeupsKept
<1>1. PoolInv => WakeupsKept
  BY DEF PoolInv
<1>2. QED
  BY <1>1, PoolInvariant, PTL

\* A worker leaves only an empty queue, and the drop waits for them all.
LEMMA PoolInvDrains == PoolInv => DrainedOnExit
<1> SUFFICES ASSUME PoolInv PROVE DrainedOnExit
  OBVIOUS
<1>1. (\E w \in workers : wk[w].pc = "exit") => jobs = <<>>
  BY DEF PoolInv, PoolTypes, WorkerAt
<1>2. ASSUME NEW c \in Callers, cp[c].pc = "gone"
      PROVE  running = 0 /\ \A j \in Jobs : value[j] # "none"
  <2>1. \A w \in workers : wk[w].pc = "exit"
    BY <1>2, ZenonT(30) DEF PoolInv, CallerAt
  <2>2. jobs = <<>>
    <3>1. jobs # <<>> => workers # {}
      BY ZenonT(30) DEF PoolInv
    <3>2. QED
      BY <1>1, <2>1, <3>1, ZenonT(30)
  <2>3. Busied = {}
    BY <2>1, SMTT(30) DEF Busied, InJob
  <2>4. ASSUME NEW j \in Jobs PROVE ~Queued(j) /\ ~Taken(j)
    BY <2>1, <2>2 DEF Queued, Taken, At
  <2>5. running = 0
    BY <2>3, FS_EmptySet, ZenonT(30) DEF PoolInv
  <2>6. QED
    BY <2>4, <2>5, ZenonT(30) DEF PoolInv
<1>3. QED
  BY <1>1, <1>2, SMTT(30) DEF DrainedOnExit

\* Drop for Pool: no job is queued once a worker has left, and none is queued,
\* running or without its result once the drop has joined them all.
THEOREM DropAlwaysDrains == PoolSpec => []DrainedOnExit
  BY PoolInvDrains, PoolInvariant, PTL

=============================================================================
