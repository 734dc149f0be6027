------------------------------ MODULE LazySlot ------------------------------
(***************************************************************************)
(* A lazily advanced device of core/sched.rs shared by threads.  An access *)
(* takes the device out of its slot, advances it with no lock held and     *)
(* puts it back; a thread that finds the slot empty spins a bounded number *)
(* of times, for the emptiness may be its own.  Device ticks and the ticks *)
(* of the runnable it is armed on are the same (a ratio of one).           *)
(***************************************************************************)
EXTENDS HostThreads, Integers, FiniteSets

CONSTANTS EventEvery,              \* the device has an event of its own every so many ticks
          Reenters,                \* its advance_to touches its own handle
          LAZY_CONTENDED_SPINS

VARIABLES home,       \* the device is in its slot
          tick,       \* the device's own position
          present,    \* the position the scheduler last published
          live,       \* the armed runnable's position, or NotArmed
          contended,
          lt          \* where each thread stands in an access

lazyVars == <<home, tick, present, live, contended, lt>>

NotArmed == -1
Busy == -1             \* LazyDeviceBusy
NonMonotonic == -2     \* NonMonotonicDevice

ASSUME LazyAssumption ==
  /\ EventEvery \in Nat \ {0}
  /\ Reenters \in BOOLEAN
  /\ LAZY_CONTENDED_SPINS \in Nat

next_event_tick == EventEvery * (tick \div EventEvery + 1)
LazyTarget == IF live > present THEN live ELSE present
LazyOut == [pc |-> "out", debug |-> FALSE, spins |-> 0, from |-> 0, target |-> 0, to |-> 0,
            need |-> 0, got |-> 0]
LazyGoes(t, pc, r) == lt' = [lt EXCEPT ![t] = [r EXCEPT !.pc = pc]]

LazyInit ==
  /\ home = TRUE
  /\ tick = 0
  /\ present = 0
  /\ live = NotArmed
  /\ contended \in BOOLEAN
  /\ lt = [t \in Threads |-> LazyOut]

-----------------------------------------------------------------------------
\* An access begins.  `need` is history, what the access is owed: a guest is
\* owed the device at the machine's position, a debugger the device as it is.
Access(t, debug) ==
  /\ lt[t].pc = "out"
  /\ LazyGoes(t, "look", [LazyOut EXCEPT !.debug = debug,
                                         !.need = IF debug THEN 0 ELSE LazyTarget])
  /\ UNCHANGED <<home, tick, present, live, contended>>

\* sync, under the slot's lock: the position, and the device if it is behind.
Sync(t) ==
  /\ lt[t].pc = "look" /\ home
  /\ IF lt[t].debug \/ LazyTarget <= tick
     THEN LazyGoes(t, "out", [lt[t] EXCEPT !.got = tick]) /\ UNCHANGED home
     ELSE /\ home' = FALSE
          /\ LazyGoes(t, "walk", [lt[t] EXCEPT !.from = tick, !.target = LazyTarget,
                                               !.to = tick])
  /\ UNCHANGED <<tick, present, live, contended>>

\* Mutant: a thread that finds the slot empty makes do with what there is.
SpinStale(t) ==
  /\ lt[t].pc \in {"look", "nested"} /\ ~home
  /\ IF lt[t].pc = "nested" THEN LazyGoes(t, "walk", lt[t])
     ELSE LazyGoes(t, "out", [lt[t] EXCEPT !.got = tick])
  /\ UNCHANGED <<home, tick, present, live, contended>>

\* Mutant: it waits for as long as the slot is empty.
SpinForever(t) ==
  /\ lt[t].pc \in {"look", "nested"} /\ ~home
  /\ UNCHANGED lazyVars

\* wait_for_the_other_thread
Spin(t) ==
  /\ lt[t].pc \in {"look", "nested"} /\ ~home
  /\ IF contended /\ lt[t].spins < LAZY_CONTENDED_SPINS
     THEN LazyGoes(t, lt[t].pc, [lt[t] EXCEPT !.spins = @ + 1])
     ELSE IF lt[t].pc = "nested" THEN LazyGoes(t, "walk", [lt[t] EXCEPT !.spins = 0])
          ELSE LazyGoes(t, "out", [lt[t] EXCEPT !.got = Busy])
  /\ UNCHANGED <<home, tick, present, live, contended>>

\* One stretch of the walk: to the target or the device's own next event.
Stretch(t) ==
  IF lt[t].target < next_event_tick THEN lt[t].target ELSE next_event_tick

Advance(t) ==
  /\ lt[t].pc = "walk" /\ Stretch(t) > lt[t].to
  /\ tick' = Stretch(t)
  /\ LazyGoes(t, IF Reenters THEN "nested" ELSE "walk", [lt[t] EXCEPT !.to = Stretch(t)])
  /\ UNCHANGED <<home, present, live, contended>>

\* A device that breaks its contract stays at p or goes back to it: the walk
\* ends there, and nothing is owed any more.
Falter(t, p) ==
  /\ lt[t].pc = "walk" /\ Stretch(t) > lt[t].to /\ p <= lt[t].to
  /\ tick' = p
  /\ LazyGoes(t, "stuck", [lt[t] EXCEPT !.to = p, !.need = 0])
  /\ UNCHANGED <<home, present, live, contended>>

PutBack(t) ==
  /\ lt[t].pc = "stuck" \/ (lt[t].pc = "walk" /\ Stretch(t) <= lt[t].to)
  /\ home' = TRUE
  /\ LazyGoes(t, "out", [lt[t] EXCEPT !.got = IF lt[t].to < lt[t].from THEN NonMonotonic
                                              ELSE lt[t].to])
  /\ UNCHANGED <<tick, present, live, contended>>

LazyStep(t) == Sync(t) \/ Spin(t) \/ Advance(t) \/ PutBack(t)

\* sync_to_tick, between rounds: the device is asked for a tick of its own, and
\* ends up at p.
SyncToTick(p) ==
  /\ home /\ tick' = p
  /\ UNCHANGED <<home, present, live, contended, lt>>

\* publish, arm and disarm, by the scheduler; the armed runnable moves on.
Arm(p) == live' = p /\ UNCHANGED <<home, tick, present, contended, lt>>
Placed(p, l) == present' = p /\ live' = l /\ UNCHANGED <<home, tick, contended, lt>>

\* The scheduler moves the machine back only while no access is under way.
LazyNext ==
  \/ \E t \in Threads : \/ LazyStep(t)
                        \/ \E debug \in BOOLEAN : Access(t, debug)
                        \/ \E p \in Nat : Falter(t, p)
  \/ \E p \in Nat : SyncToTick(p)
  \/ /\ \E p \in Nat, l \in Nat \cup {NotArmed} : Placed(p, l)
     /\ LazyTarget' >= LazyTarget \/ \A t \in Threads : lt[t].pc = "out"

LazySpec == LazyInit /\ [][LazyNext]_lazyVars

-----------------------------------------------------------------------------
Holding == {"walk", "nested", "stuck"}

(***************************************************************************)
(* Sync-on-access: a guest's access that reports no error returns with the *)
(* device at least where the machine stood when the access was made,       *)
(* whoever advanced it and however often the slot was found empty, unless  *)
(* the device itself refused to move.                                      *)
(***************************************************************************)
AccessFresh ==
  \A t \in Threads :
    lt[t].pc = "out" /\ lt[t].got \notin {Busy, NonMonotonic} => lt[t].got >= lt[t].need
=============================================================================
