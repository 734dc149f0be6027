-------------------------------- MODULE Pool --------------------------------
(***************************************************************************)
(* The task pool of core/sync.rs (the threaded backend): a locked queue,   *)
(* worker threads, one result slot per job, and the three conditions       *)
(* threads sleep on.  Everything done under one hold of a lock is one      *)
(* step; a notification made after the lock is let go is a step of its     *)
(* own, so a waiter may slip in between.                                   *)
(***************************************************************************)
EXTENDS HostThreads, Integers, Sequences, FiniteSets

CONSTANTS Jobs, Callers

VARIABLES workers,       \* the worker threads the host granted
          jobs, running, shutdown,
          value,         \* job -> the content of its result slot
          wk,            \* worker -> where it stands, and the job it holds
          cp,            \* caller -> the pool call it is in, and on which job
          work, idle,    \* who sleeps on a new job, on a quiet pool
          done           \* job -> who sleeps on its result

poolVars == <<workers, jobs, running, shutdown, value, wk, cp, work, idle, done>>

Results == {"none", "ok", "panic", "taken"}
NoJob == 0

ASSUME PoolAssumption == NoJob \notin Jobs /\ IsFiniteSet(Workers)

At(pc, j) == [pc |-> pc, job |-> j]
WorkerGoes(w, pc, j) == wk' = [wk EXCEPT ![w] = At(pc, j)]
CallerGoes(c, pc, j) == cp' = [cp EXCEPT ![c] = At(pc, j)]

\* Pool::new keeps the workers the host granted, possibly none.
PoolInit ==
  /\ workers \in SUBSET Workers
  /\ jobs = <<>>
  /\ running = 0
  /\ shutdown = FALSE
  /\ value = [j \in Jobs |-> "taken"]
  /\ wk = [w \in Workers |-> At("idle", NoJob)]
  /\ cp = [c \in Callers |-> At("free", NoJob)]
  /\ work = {}
  /\ idle = {}
  /\ done = [j \in Jobs |-> {}]

-----------------------------------------------------------------------------
\* submit: a fresh slot, the job queued, then one sleeper woken.
Submit(c, j) ==
  /\ cp[c].pc = "free" /\ workers # {} /\ ~shutdown /\ value[j] = "taken"
  /\ jobs' = Append(jobs, j)
  /\ value' = [value EXCEPT ![j] = "none"]
  /\ CallerGoes(c, "notify", j)
  /\ UNCHANGED <<workers, running, shutdown, wk, work, idle, done>>

NotifyOne(c) ==
  /\ cp[c].pc = "notify"
  /\ \/ work = {} /\ UNCHANGED work
     \/ \E w \in work : work' = work \ {w}
  /\ CallerGoes(c, "free", NoJob)
  /\ UNCHANGED <<workers, jobs, running, shutdown, value, wk, idle, done>>

\* With no worker the job runs inside submit; its slot is filled at once.
SubmitInline(c, j) ==
  /\ cp[c].pc = "free" /\ workers = {} /\ value[j] = "taken"
  /\ value' = [value EXCEPT ![j] = "ok"]
  /\ UNCHANGED <<workers, jobs, running, shutdown, wk, cp, work, idle, done>>

\* Handle::join
Join(c, j) ==
  /\ cp[c].pc = "free" /\ value[j] # "taken"
  /\ CallerGoes(c, "join", j)
  /\ UNCHANGED <<workers, jobs, running, shutdown, value, wk, work, idle, done>>

JoinWait(c) ==
  /\ cp[c].pc = "join" /\ c \notin done[cp[c].job] /\ value[cp[c].job] = "none"
  /\ done' = [done EXCEPT ![cp[c].job] = @ \cup {c}]
  /\ UNCHANGED <<workers, jobs, running, shutdown, value, wk, cp, work, idle>>

JoinTake(c) ==
  /\ cp[c].pc = "join" /\ c \notin done[cp[c].job]
  /\ value[cp[c].job] \in {"ok", "panic"}
  /\ value' = [value EXCEPT ![cp[c].job] = "taken"]
  /\ CallerGoes(c, "free", NoJob)
  /\ UNCHANGED <<workers, jobs, running, shutdown, wk, work, idle, done>>

Quiesce(c) ==
  /\ cp[c].pc = "free"
  /\ CallerGoes(c, "quiesce", NoJob)
  /\ UNCHANGED <<workers, jobs, running, shutdown, value, wk, work, idle, done>>

QuiesceStep(c) ==
  /\ cp[c].pc = "quiesce" /\ c \notin idle
  /\ IF jobs # <<>> \/ running > 0
     THEN idle' = idle \cup {c} /\ UNCHANGED cp
     ELSE CallerGoes(c, "free", NoJob) /\ UNCHANGED idle
  /\ UNCHANGED <<workers, jobs, running, shutdown, value, wk, work, done>>

\* Drop for Pool: only its last owner can be in it.
Drop(c) ==
  /\ \A o \in Callers : cp[o].pc = "free"
  /\ ~shutdown
  /\ shutdown' = TRUE
  /\ CallerGoes(c, "rouse", NoJob)
  /\ UNCHANGED <<workers, jobs, running, value, wk, work, idle, done>>

Rouse(c) ==
  /\ cp[c].pc = "rouse"
  /\ work' = {}
  /\ CallerGoes(c, "reap", NoJob)
  /\ UNCHANGED <<workers, jobs, running, shutdown, value, wk, idle, done>>

Reap(c) ==
  /\ cp[c].pc = "reap"
  /\ \A w \in workers : wk[w].pc = "exit"
  /\ CallerGoes(c, "gone", NoJob)
  /\ UNCHANGED <<workers, jobs, running, shutdown, value, wk, work, idle, done>>

-----------------------------------------------------------------------------
\* Mutant: the worker looks at the shutdown flag before the queue.
TakeExitsFirst(w) ==
  /\ w \in workers /\ wk[w].pc = "idle" /\ w \notin work
  /\ IF shutdown THEN WorkerGoes(w, "exit", NoJob) /\ UNCHANGED <<jobs, running, work>>
     ELSE IF jobs # <<>>
          THEN /\ jobs' = Tail(jobs) /\ running' = running + 1
               /\ WorkerGoes(w, "run", Head(jobs)) /\ UNCHANGED work
          ELSE work' = work \cup {w} /\ UNCHANGED <<jobs, running, wk>>
  /\ UNCHANGED <<workers, shutdown, value, cp, idle, done>>

\* worker: a queued job comes before the shutdown flag.
Take(w) ==
  /\ w \in workers /\ wk[w].pc = "idle" /\ w \notin work
  /\ IF jobs # <<>>
     THEN /\ jobs' = Tail(jobs)
          /\ running' = running + 1
          /\ WorkerGoes(w, "run", Head(jobs))
          /\ UNCHANGED work
     ELSE /\ IF shutdown THEN WorkerGoes(w, "exit", NoJob) /\ UNCHANGED work
             ELSE work' = work \cup {w} /\ UNCHANGED wk
          /\ UNCHANGED <<jobs, running>>
  /\ UNCHANGED <<workers, shutdown, value, cp, idle, done>>

\* The job returns or panics; catch_unwind puts either in the slot.
Fill(w, result) ==
  /\ wk[w].pc = "run"
  /\ value' = [value EXCEPT ![wk[w].job] = result]
  /\ WorkerGoes(w, "filled", wk[w].job)
  /\ UNCHANGED <<workers, jobs, running, shutdown, cp, work, idle, done>>

TellJoiners(w) ==
  /\ wk[w].pc = "filled"
  /\ done' = [done EXCEPT ![wk[w].job] = {}]
  /\ WorkerGoes(w, "ran", NoJob)
  /\ UNCHANGED <<workers, jobs, running, shutdown, value, cp, work, idle>>

\* Mutant: the last worker tells nobody that the pool is quiet.
CountDownMute(w) ==
  /\ wk[w].pc = "ran"
  /\ running' = running - 1
  /\ WorkerGoes(w, "idle", NoJob)
  /\ UNCHANGED <<workers, jobs, shutdown, value, cp, work, idle, done>>

CountDown(w) ==
  /\ wk[w].pc = "ran"
  /\ running' = running - 1
  /\ WorkerGoes(w, IF running = 1 /\ jobs = <<>> THEN "quiet" ELSE "idle", NoJob)
  /\ UNCHANGED <<workers, jobs, shutdown, value, cp, work, idle, done>>

TellIdle(w) ==
  /\ wk[w].pc = "quiet"
  /\ idle' = {}
  /\ WorkerGoes(w, "idle", NoJob)
  /\ UNCHANGED <<workers, jobs, running, shutdown, value, cp, work, done>>

\* The pool's own steps of a worker; what a job does is its owner's affair.
WorkerStep(w) == Take(w) \/ TellJoiners(w) \/ CountDown(w) \/ TellIdle(w)

CallerStep(c) ==
  \/ NotifyOne(c) \/ JoinWait(c) \/ JoinTake(c) \/ QuiesceStep(c)
  \/ Rouse(c) \/ Reap(c)

PoolNext ==
  \/ \E c \in Callers : \/ CallerStep(c) \/ Quiesce(c) \/ Drop(c)
                        \/ \E j \in Jobs : \/ Submit(c, j) \/ Join(c, j)
                                           \/ SubmitInline(c, j)
  \/ \E w \in Workers : \/ WorkerStep(w)
                         \/ \E r \in {"ok", "panic"} : Fill(w, r)

PoolSpec == PoolInit /\ [][PoolNext]_poolVars

-----------------------------------------------------------------------------
InJob == {"run", "filled", "ran"}

(***************************************************************************)
(* No thread sleeps through what it waits for.  While a job is queued some *)
(* worker is awake or is about to be woken; while somebody waits for a     *)
(* quiet pool there is work left or a worker about to say there is none;   *)
(* while somebody waits for a result it is not there, or its worker is     *)
(* about to say it is.  notify_one, the count under the lock and the       *)
(* notifications after it rest on this.                                    *)
(***************************************************************************)
WakeupsKept ==
  /\ jobs # <<>> => \/ \E w \in workers \ work : wk[w].pc # "exit"
                    \/ \E c \in Callers : cp[c].pc \in {"notify", "rouse"}
  /\ idle # {} => \/ jobs # <<>> \/ running > 0
                  \/ \E w \in workers : wk[w].pc = "quiet"
  /\ \A j \in Jobs : done[j] # {} =>
       \/ value[j] = "none"
       \/ \E w \in workers : wk[w] = At("filled", j)

\* "Dropping it drains the queue and joins every worker, so no job is lost":
\* once a worker has left, no job is queued, and when the drop is over none is
\* running either.
DrainedOnExit ==
  /\ (\E w \in workers : wk[w].pc = "exit") => jobs = <<>>
  /\ (\E c \in Callers : cp[c].pc = "gone") =>
       running = 0 /\ \A j \in Jobs : value[j] # "none"
=============================================================================
