---------------------------- MODULE ClockControl ----------------------------
(***************************************************************************)
(* ClockControl of core/clock.rs: rate requests that devices leave from    *)
(* any thread, and the batch the scheduler takes at a boundary.  The entry *)
(* is made under a lock and the flag that announces it is raised after;    *)
(* the batch is taken under the lock and applied after.                    *)
(***************************************************************************)
EXTENDS HostThreads, Integers

CONSTANTS Domains, Rates, FirstRate

VARIABLES asked,     \* the pending requests: at most one per domain
          dirty,
          batch,     \* what the scheduler has taken and not yet applied
          rated,     \* the rating of each domain in the forest
          wanted,    \* history: the last rating requested and not refused
          raising    \* the threads between the entry and the flag

clockVars == <<asked, dirty, batch, rated, wanted, raising>>

None == 0
ASSUME ClockAssumption == Rates \subseteq Nat \ {None} /\ FirstRate \in Rates

Nothing == [d \in Domains |-> None]

ClockInit ==
  /\ rated = [d \in Domains |-> FirstRate]
  /\ wanted = rated
  /\ asked = Nothing
  /\ batch = Nothing
  /\ dirty = FALSE
  /\ raising = {}

\* push: a later request for the domain replaces the earlier one.
Push(t, d, r) ==
  /\ t \notin raising
  /\ asked' = [asked EXCEPT ![d] = r]
  /\ wanted' = [wanted EXCEPT ![d] = r]
  /\ raising' = raising \cup {t}
  /\ UNCHANGED <<dirty, batch, rated>>

Raise(t) ==
  /\ t \in raising
  /\ dirty' = TRUE
  /\ raising' = raising \ {t}
  /\ UNCHANGED <<asked, batch, rated, wanted>>

\* take: the flag is lowered under the lock, with the entries.
TakeBatch ==
  /\ dirty /\ batch = Nothing
  /\ dirty' = FALSE
  /\ batch' = asked
  /\ asked' = Nothing
  /\ UNCHANGED <<rated, wanted, raising>>

\* Requests that change nothing are dropped.
Changes == {d \in Domains : batch[d] \notin {None, rated[d]}}

\* Mutant: the flag is lowered when the batch has been applied.
ApplyLowers ==
  /\ rated' = [d \in Domains |-> IF d \in Changes THEN batch[d] ELSE rated[d]]
  /\ batch' = Nothing
  /\ dirty' = FALSE
  /\ UNCHANGED <<asked, wanted, raising>>

\* apply_clock_requests hands the forest the whole batch.
Apply ==
  /\ rated' = [d \in Domains |-> IF d \in Changes THEN batch[d] ELSE rated[d]]
  /\ batch' = Nothing
  /\ UNCHANGED <<asked, dirty, wanted, raising>>

\* The forest refuses it: the batch is gone all the same, and reported.  What
\* was asked again in the meantime still stands.
Refuse ==
  /\ Changes # {}
  /\ batch' = Nothing
  /\ wanted' = [d \in Domains |-> IF d \in Changes /\ asked[d] = None THEN rated[d]
                                  ELSE wanted[d]]
  /\ UNCHANGED <<asked, dirty, rated, raising>>

ClockNext ==
  \/ \E t \in Threads : \/ Raise(t)
                        \/ \E d \in Domains, r \in Rates : Push(t, d, r)
  \/ TakeBatch \/ Apply \/ Refuse

ClockSpec == ClockInit /\ [][ClockNext]_clockVars

(***************************************************************************)
(* No request is lost or overtaken by an older one, wherever the take      *)
(* falls between another thread's entry and its flag, and whatever arrives *)
(* while a batch is applied: a domain runs at the rate last asked for it,  *)
(* or that request is in the batch being applied, or it is pending and the *)
(* flag that makes the scheduler look is up or about to be raised.         *)
(***************************************************************************)
RequestsKept ==
  \A d \in Domains :
    IF asked[d] # None THEN asked[d] = wanted[d] /\ (dirty \/ raising # {})
    ELSE wanted[d] = IF batch[d] # None THEN batch[d] ELSE rated[d]
=============================================================================
