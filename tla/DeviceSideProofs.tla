-------------------------- MODULE DeviceSideProofs --------------------------
(***************************************************************************)
(* What devices share with the scheduler from any thread.  An access finds *)
(* a lazily advanced device fresh, for any number of threads, any spacing  *)
(* of its events and any spin limit, re-entrant or not, and whatever a     *)
(* device that breaks its contract does.  No clock request is lost, for    *)
(* any number of threads, domains and rates.                               *)
(***************************************************************************)
EXTENDS LazySlot, ClockControl, TLAPS

LazyStanding ==
  [pc : {"out", "look", "walk", "nested", "stuck"}, debug : BOOLEAN, spins : Nat,
   from : Nat, target : Nat, to : Nat, need : Nat, got : Nat \cup {Busy, NonMonotonic}]

LazyTypes ==
  /\ home \in BOOLEAN
  /\ tick \in Nat
  /\ present \in Nat
  /\ live \in Nat \cup {NotArmed}
  /\ contended \in BOOLEAN
  /\ lt \in [Threads -> LazyStanding]

\* The device is in its slot, or one thread holds it and knows where it is.
Held ==
  /\ \A t, u \in Threads : lt[t].pc \in Holding /\ lt[u].pc \in Holding => t = u
  /\ home <=> \A t \in Threads : lt[t].pc \notin Holding
  /\ \A t \in Threads : lt[t].pc \in Holding => lt[t].to = tick

\* The machine never goes back behind an access that is still looking, and the
\* device is walked at least that far unless it falters.
Ahead(t) ==
  /\ lt[t].pc = "look" => lt[t].need <= LazyTarget /\ (lt[t].debug => lt[t].need = 0)
  /\ lt[t].pc \in {"walk", "nested"} => lt[t].need <= lt[t].target
  /\ lt[t].pc = "stuck" => lt[t].need = 0
  /\ lt[t].pc = "out" /\ lt[t].got \notin {Busy, NonMonotonic} => lt[t].got >= lt[t].need

LazyInv == LazyTypes /\ Held /\ \A t \in Threads : Ahead(t)

\* The device's next event is ahead of it, and its walk stops there at most.
LEMMA EventAhead ==
  ASSUME LazyTypes
  PROVE  next_event_tick \in Nat /\ next_event_tick > tick
<1> DEFINE q == tick \div EventEvery
<1>1. q \in Nat /\ tick < EventEvery * q + EventEvery /\ EventEvery * q \in Nat
  BY LazyAssumption DEF LazyTypes
<1>2. EventEvery * (q + 1) = EventEvery * q + EventEvery
  BY <1>1, LazyAssumption
<1>3. QED
  BY <1>1, <1>2, LazyAssumption DEF next_event_tick, LazyTypes

LEMMA TargetTypes ==
  ASSUME LazyTypes
  PROVE  LazyTarget \in Nat /\ present <= LazyTarget /\ live <= LazyTarget
  BY DEF LazyTypes, LazyTarget, NotArmed

\* Only thread t moves, and where it goes.
LEMMA LazyGoing ==
  ASSUME LazyTypes, NEW t \in Threads, NEW pc \in {"out", "look", "walk", "nested", "stuck"},
         NEW r \in LazyStanding, LazyGoes(t, pc, r)
  PROVE  /\ lt' \in [Threads -> LazyStanding] /\ \A u \in Threads \ {t} : lt'[u] = lt[u]
         /\ lt'[t].pc = pc /\ lt'[t].target = r.target /\ lt'[t].to = r.to
         /\ lt'[t].need = r.need /\ lt'[t].got = r.got /\ lt'[t].debug = r.debug
<1>1. [r EXCEPT !.pc = pc] \in LazyStanding
  BY DEF LazyStanding
<1>2. QED
  BY <1>1 DEF LazyGoes, LazyTypes, LazyStanding

-----------------------------------------------------------------------------
Stays(t) == lt' \in [Threads -> LazyStanding] /\ \A u \in Threads \ {t} : lt'[u] = lt[u]

LEMMA AccessInv ==
  ASSUME LazyInv, NEW t \in Threads, NEW debug \in BOOLEAN, Access(t, debug) PROVE LazyInv'
<1> LazyTypes /\ Held
  BY DEF LazyInv
<1> DEFINE n == IF debug THEN 0 ELSE LazyTarget
           o == [LazyOut EXCEPT !.debug = debug, !.need = n]
<1>1. LazyTarget' = LazyTarget /\ LazyTarget \in Nat /\ n \in Nat
  BY TargetTypes DEF Access, LazyTarget
<1>2. LazyGoes(t, "look", o)
  BY DEF Access
<1>3. n <= LazyTarget /\ (debug => n = 0)
  BY <1>1
<1> HIDE DEF n
<1>4. o \in LazyStanding /\ o.need = n /\ o.debug = debug
  BY <1>1 DEF LazyStanding, LazyOut
<1> HIDE DEF o
<1>5. /\ Stays(t) /\ lt'[t].pc = "look" /\ lt'[t].need = n /\ lt'[t].debug = debug
      /\ lt[t].pc = "out"
  BY <1>2, <1>4, LazyGoing DEF Stays, Access
<1>6. LazyTypes' /\ Held'
  BY <1>5 DEF Access, LazyTypes, Held, Stays, Holding
<1>7. ASSUME NEW u \in Threads PROVE Ahead(u)'
  BY <1>1, <1>3, <1>5 DEF Access, LazyInv, Ahead, Stays
<1>8. QED
  BY <1>6, <1>7 DEF LazyInv

LEMMA SyncInv == ASSUME LazyInv, NEW t \in Threads, Sync(t) PROVE LazyInv'
<1> LazyTypes /\ Held
  BY DEF LazyInv
<1>1. LazyTarget' = LazyTarget /\ LazyTarget \in Nat
  BY TargetTypes DEF Sync, LazyTarget
<1>2. lt[t] \in LazyStanding /\ tick \in Nat
  BY DEF LazyTypes
<1>3. CASE lt[t].debug \/ LazyTarget <= tick
  <2> DEFINE o == [lt[t] EXCEPT !.got = tick]
  <2>1. o \in LazyStanding /\ o.need = lt[t].need /\ o.got = tick
    BY <1>2 DEF LazyStanding
  <2>2. LazyGoes(t, "out", o) /\ home' = home
    BY <1>3 DEF Sync
  <2> HIDE DEF o
  <2>3. /\ Stays(t) /\ lt'[t].pc = "out" /\ lt'[t].need = lt[t].need /\ lt'[t].got = tick
        /\ lt[t].pc = "look"
    BY <2>1, <2>2, LazyGoing DEF Stays, Sync
  <2>4. LazyTypes' /\ Held'
    BY <2>2, <2>3 DEF Sync, LazyTypes, Held, Stays, Holding
  <2>5. tick >= lt[t].need
    BY <1>1, <1>2, <1>3, <2>3 DEF LazyInv, Ahead, LazyStanding
  <2>6. ASSUME NEW u \in Threads PROVE Ahead(u)'
    BY <1>1, <2>3, <2>5 DEF Sync, LazyInv, Ahead, Stays
  <2>7. QED
    BY <2>4, <2>6 DEF LazyInv
<1>4. CASE ~(lt[t].debug \/ LazyTarget <= tick)
  <2> DEFINE o == [lt[t] EXCEPT !.from = tick, !.target = LazyTarget, !.to = tick]
  <2>1. o \in LazyStanding /\ o.need = lt[t].need /\ o.target = LazyTarget /\ o.to = tick
    BY <1>1, <1>2, Zenon DEF LazyStanding
  <2>2. LazyGoes(t, "walk", o) /\ home' = FALSE
    BY <1>4 DEF Sync
  <2> HIDE DEF o
  <2>3. /\ Stays(t) /\ lt'[t].pc = "walk" /\ lt'[t].need = lt[t].need /\ lt[t].pc = "look"
        /\ lt'[t].target = LazyTarget /\ lt'[t].to = tick /\ home /\ tick' = tick
    BY <2>1, <2>2, LazyGoing DEF Stays, Sync
  <2>4. LazyTypes'
    BY <2>2, <2>3, Zenon DEF Sync, LazyTypes, Stays
  <2>5. Held'
    BY <2>2, <2>3 DEF Held, Stays, Holding
  <2>6. ASSUME NEW u \in Threads PROVE Ahead(u)'
    BY <1>1, <2>3 DEF Sync, LazyInv, Ahead, Stays
  <2>7. QED
    BY <2>4, <2>5, <2>6 DEF LazyInv
<1>5. QED
  BY <1>3, <1>4

LEMMA SpinInv == ASSUME LazyInv, NEW t \in Threads, Spin(t) PROVE LazyInv'
<1> LazyTypes /\ Held
  BY DEF LazyInv
<1>1. LazyTarget' = LazyTarget /\ UNCHANGED <<home, tick, present, live, contended>>
  BY DEF Spin, LazyTarget
<1>2. lt[t] \in LazyStanding /\ lt[t].spins \in Nat
  BY DEF LazyTypes, LazyStanding
<1>3. /\ Stays(t) /\ lt'[t].target = lt[t].target /\ lt'[t].to = lt[t].to
      /\ lt'[t].need = lt[t].need /\ lt'[t].debug = lt[t].debug
      /\ \/ lt'[t].pc = lt[t].pc
         \/ lt[t].pc = "nested" /\ lt'[t].pc = "walk"
         \/ lt[t].pc = "look" /\ lt'[t].pc = "out" /\ lt'[t].got = Busy
      /\ lt[t].pc \in {"look", "nested"}
  <2>1. CASE contended /\ lt[t].spins < LAZY_CONTENDED_SPINS
    <3> DEFINE o == [lt[t] EXCEPT !.spins = @ + 1]
    <3>1. /\ o \in LazyStanding /\ o.need = lt[t].need /\ o.target = lt[t].target /\ o.to = lt[t].to
          /\ o.debug = lt[t].debug
      BY <1>2 DEF LazyStanding
    <3>2. LazyGoes(t, lt[t].pc, o) /\ lt[t].pc \in {"look", "nested"}
      BY <2>1 DEF Spin
    <3> HIDE DEF o
    <3>3. QED
      BY <3>1, <3>2, LazyGoing DEF Stays
  <2>2. CASE ~(contended /\ lt[t].spins < LAZY_CONTENDED_SPINS) /\ lt[t].pc = "nested"
    <3> DEFINE o == [lt[t] EXCEPT !.spins = 0]
    <3>1. /\ o \in LazyStanding /\ o.need = lt[t].need /\ o.target = lt[t].target /\ o.to = lt[t].to
          /\ o.debug = lt[t].debug
      BY <1>2 DEF LazyStanding
    <3>2. LazyGoes(t, "walk", o)
      BY <2>2 DEF Spin
    <3> HIDE DEF o
    <3>3. QED
      BY <2>2, <3>1, <3>2, LazyGoing DEF Stays
  <2>3. CASE ~(contended /\ lt[t].spins < LAZY_CONTENDED_SPINS) /\ lt[t].pc = "look"
    <3> DEFINE o == [lt[t] EXCEPT !.got = Busy]
    <3>1. /\ o \in LazyStanding /\ o.need = lt[t].need /\ o.target = lt[t].target
          /\ o.to = lt[t].to /\ o.got = Busy /\ o.debug = lt[t].debug
      BY <1>2 DEF LazyStanding
    <3>2. LazyGoes(t, "out", o)
      BY <2>3 DEF Spin
    <3> HIDE DEF o
    <3>3. QED
      BY <2>3, <3>1, <3>2, LazyGoing DEF Stays
  <2>4. QED
    BY <2>1, <2>2, <2>3, SMTT(30) DEF Spin
<1>4. LazyTypes'
  BY <1>1, <1>3 DEF LazyTypes, Stays
<1>5. Held'
  BY <1>1, <1>3 DEF Held, Stays, Holding
<1>6. ASSUME NEW u \in Threads PROVE Ahead(u)'
  BY <1>1, <1>3 DEF LazyInv, Ahead, Stays
<1>7. QED
  BY <1>4, <1>5, <1>6 DEF LazyInv

\* A stretch of the walk ends ahead of the device or at the target.
LEMMA StretchEnds ==
  ASSUME LazyInv, NEW t \in Threads, lt[t].pc = "walk"
  PROVE  /\ Stretch(t) \in Nat /\ lt[t].to = tick
         /\ Stretch(t) <= lt[t].to => lt[t].target <= tick
<1>1. LazyTypes /\ lt[t].to = tick /\ lt[t].target \in Nat /\ tick \in Nat
  BY DEF LazyInv, Held, Holding, LazyTypes, LazyStanding
<1>2. QED
  BY <1>1, EventAhead DEF Stretch

LEMMA AdvanceInv == ASSUME LazyInv, NEW t \in Threads, Advance(t) PROVE LazyInv'
<1> LazyTypes /\ Held
  BY DEF LazyInv
<1> DEFINE p == Stretch(t)
           o == [lt[t] EXCEPT !.to = p]
           pc == IF Reenters THEN "nested" ELSE "walk"
<1>1. p \in Nat /\ p > tick /\ tick' = p /\ lt[t].pc = "walk"
  BY StretchEnds DEF Advance
<1>2. LazyTarget' = LazyTarget /\ UNCHANGED <<home, present, live, contended>>
  BY DEF Advance, LazyTarget
<1>3. LazyGoes(t, pc, o) /\ pc \in {"walk", "nested"}
  BY DEF Advance
<1> HIDE DEF p, pc
<1>4. o \in LazyStanding /\ o.need = lt[t].need /\ o.target = lt[t].target /\ o.to = p
  BY <1>1 DEF LazyTypes, LazyStanding
<1> HIDE DEF o
<1>5. /\ Stays(t) /\ lt'[t].pc \in {"walk", "nested"} /\ lt'[t].to = p
      /\ lt'[t].need = lt[t].need /\ lt'[t].target = lt[t].target
  BY <1>3, <1>4, LazyGoing DEF Stays
<1>6. LazyTypes'
  BY <1>1, <1>2, <1>5 DEF LazyTypes, Stays
<1>7. Held'
  BY <1>1, <1>2, <1>5 DEF Held, Stays, Holding
<1>8. ASSUME NEW u \in Threads PROVE Ahead(u)'
  <2>1. lt[u].need \in Nat /\ tick \in Nat
    BY DEF LazyTypes, LazyStanding
  <2>2. CASE u = t
    BY <1>1, <1>5, <2>2 DEF LazyInv, Ahead, Holding
  <2>3. CASE u # t
    BY <1>1, <1>2, <1>5, <2>1, <2>3 DEF LazyInv, Ahead, Stays
  <2>4. QED
    BY <2>2, <2>3
<1>9. QED
  BY <1>6, <1>7, <1>8 DEF LazyInv

LEMMA FalterInv ==
  ASSUME LazyInv, NEW t \in Threads, NEW p \in Nat, Falter(t, p) PROVE LazyInv'
<1> LazyTypes /\ Held
  BY DEF LazyInv
<1> DEFINE o == [lt[t] EXCEPT !.to = p, !.need = 0]
<1>1. /\ LazyTarget' = LazyTarget /\ UNCHANGED <<home, present, live, contended>>
      /\ tick' = p /\ lt[t].pc = "walk"
  BY DEF Falter, LazyTarget
<1>2. o \in LazyStanding /\ o.need = 0 /\ o.to = p
  BY DEF LazyTypes, LazyStanding
<1>3. LazyGoes(t, "stuck", o)
  BY DEF Falter
<1> HIDE DEF o
<1>4. Stays(t) /\ lt'[t].pc = "stuck" /\ lt'[t].need = 0 /\ lt'[t].to = p
  BY <1>2, <1>3, LazyGoing DEF Stays
<1>5. LazyTypes'
  BY <1>1, <1>4 DEF LazyTypes, Stays
<1>6. Held'
  BY <1>1, <1>4 DEF Held, Stays, Holding
<1>7. ASSUME NEW u \in Threads PROVE Ahead(u)'
  BY <1>1, <1>4 DEF LazyInv, Ahead, Stays
<1>8. QED
  BY <1>5, <1>6, <1>7 DEF LazyInv

LEMMA PutBackInv == ASSUME LazyInv, NEW t \in Threads, PutBack(t) PROVE LazyInv'
<1> LazyTypes /\ Held
  BY DEF LazyInv
<1> DEFINE g == IF lt[t].to < lt[t].from THEN NonMonotonic ELSE lt[t].to
           o == [lt[t] EXCEPT !.got = g]
<1>1. lt[t].pc \in {"walk", "stuck"} /\ lt[t] \in LazyStanding
  BY DEF PutBack, LazyTypes
<1>2. LazyTarget' = LazyTarget /\ UNCHANGED <<tick, present, live, contended>> /\ home' = TRUE
  BY DEF PutBack, LazyTarget
<1>3. g \in Nat \cup {Busy, NonMonotonic} /\ (g # NonMonotonic => g = lt[t].to)
  BY <1>1 DEF LazyStanding
<1>4. g \notin {Busy, NonMonotonic} => g >= lt[t].need
  <2>1. lt[t].to \in Nat /\ lt[t].need \in Nat /\ lt[t].target \in Nat
    BY <1>1 DEF LazyStanding
  <2>2. CASE lt[t].pc = "walk"
    <3>1. lt[t].target <= lt[t].to
      BY <2>2, StretchEnds DEF PutBack
    <3>2. lt[t].need <= lt[t].target
      BY <2>2 DEF LazyInv, Ahead
    <3>3. QED
      BY <1>3, <2>1, <3>1, <3>2
  <2>3. CASE lt[t].pc = "stuck"
    <3>1. lt[t].need = 0
      BY <2>3 DEF LazyInv, Ahead
    <3>2. QED
      BY <1>3, <2>1, <3>1
  <2>4. QED
    BY <1>1, <2>2, <2>3
<1>5. LazyGoes(t, "out", o)
  BY DEF PutBack
<1> HIDE DEF g
<1>6. o \in LazyStanding /\ o.need = lt[t].need /\ o.got = g
  BY <1>1, <1>3 DEF LazyStanding
<1> HIDE DEF o
<1>7. Stays(t) /\ lt'[t].pc = "out" /\ lt'[t].need = lt[t].need /\ lt'[t].got = g
  BY <1>5, <1>6, LazyGoing DEF Stays
<1>8. LazyTypes'
  BY <1>2, <1>7 DEF LazyTypes, Stays
<1>9. Held'
  BY <1>1, <1>2, <1>7 DEF Held, Stays, Holding
<1>10. ASSUME NEW u \in Threads PROVE Ahead(u)'
  BY <1>2, <1>4, <1>7 DEF LazyInv, Ahead, Stays
<1>11. QED
  BY <1>8, <1>9, <1>10 DEF LazyInv

\* The scheduler moves the device while nobody holds it, and the machine
\* forward; the live view is taken down when no access is under way.
LEMMA MoveInv ==
  ASSUME LazyInv, UNCHANGED <<home, contended, lt>>, tick' \in Nat, present' \in Nat,
         live' \in Nat \cup {NotArmed}, tick' = tick \/ home,
         LazyTarget' >= LazyTarget \/ \A t \in Threads : lt[t].pc = "out"
  PROVE  LazyInv'
<1> LazyTypes /\ Held
  BY DEF LazyInv
<1>1. LazyTypes'
  BY DEF LazyTypes
<1>2. Held'
  BY DEF Held
<1>3. LazyTarget' \in Nat /\ LazyTarget \in Nat
  BY <1>1, TargetTypes DEF LazyTypes, LazyTarget, NotArmed
<1>4. ASSUME NEW u \in Threads PROVE Ahead(u)'
  <2>1. lt[u].need \in Nat /\ tick \in Nat
    BY DEF LazyTypes, LazyStanding
  <2>2. QED
    BY <1>3, <2>1 DEF LazyInv, Ahead
<1>5. QED
  BY <1>1, <1>2, <1>4 DEF LazyInv

LEMMA LazyStepInv == LazyInv /\ [LazyNext]_lazyVars => LazyInv'
<1> SUFFICES ASSUME LazyInv, [LazyNext]_lazyVars
             PROVE  LazyInv'
  OBVIOUS
<1>0. LazyTypes
  BY DEF LazyInv
<1>1. ASSUME NEW t \in Threads,
             \/ LazyStep(t)
             \/ \E debug \in BOOLEAN : Access(t, debug)
             \/ \E p \in Nat : Falter(t, p)
      PROVE  LazyInv'
  BY <1>1, AccessInv, SyncInv, SpinInv, AdvanceInv, FalterInv, PutBackInv DEF LazyStep
<1>2. ASSUME NEW p \in Nat, SyncToTick(p) PROVE LazyInv'
  <2>1. LazyTarget' >= LazyTarget
    BY <1>0, <1>2 DEF SyncToTick, LazyTarget, LazyTypes, NotArmed
  <2>2. QED
    BY <1>0, <1>2, <2>1, MoveInv DEF SyncToTick, LazyTypes
<1>3. ASSUME NEW p \in Nat, NEW l \in Nat \cup {NotArmed}, Placed(p, l),
             LazyTarget' >= LazyTarget \/ \A t \in Threads : lt[t].pc = "out"
      PROVE  LazyInv'
  BY <1>0, <1>3, MoveInv DEF Placed, LazyTypes
<1>4. CASE UNCHANGED lazyVars
  BY <1>4 DEF lazyVars, LazyInv, LazyTypes, Held, Ahead, LazyTarget
<1>5. QED
  BY <1>1, <1>2, <1>3, <1>4 DEF LazyNext

LEMMA LazyInitInv == LazyInit => LazyInv
<1> SUFFICES ASSUME LazyInit
             PROVE  LazyInv
  OBVIOUS
<1>1. LazyOut \in LazyStanding
  BY DEF LazyOut, LazyStanding
<1>2. \A t \in Threads : lt[t].pc = "out" /\ lt[t].need = 0 /\ lt[t].got = 0
  BY DEF LazyInit, LazyOut
<1>3. LazyTypes
  BY <1>1 DEF LazyInit, LazyTypes
<1>4. Held
  BY <1>2 DEF LazyInit, Held, Holding
<1>5. \A t \in Threads : Ahead(t)
  BY <1>2 DEF LazyInit, Ahead, Holding
<1>6. QED
  BY <1>3, <1>4, <1>5 DEF LazyInv

LEMMA LazyInvariant == LazySpec => []LazyInv
  BY LazyInitInv, LazyStepInv, PTL DEF LazySpec

-----------------------------------------------------------------------------
\* Sync-on-access, whatever the spacing of the device's own events, the spin
\* limit and the interleaving: an access that reports no error leaves the device
\* no earlier than the machine was when the access began, unless the device
\* itself stopped.
THEOREM AccessAlwaysFresh == LazySpec => []AccessFresh
<1>1. LazyInv => AccessFresh
  BY DEF LazyInv, Ahead, AccessFresh
<1>2. QED
  BY <1>1, LazyInvariant, PTL

-----------------------------------------------------------------------------
\* What the batch, the forest and the last requests hold.
ClockTypes ==
  /\ asked \in [Domains -> Rates \cup {None}]
  /\ batch \in [Domains -> Rates \cup {None}]
  /\ rated \in [Domains -> Rates]
  /\ wanted \in [Domains -> Rates]
  /\ dirty \in BOOLEAN
  /\ raising \subseteq Threads

\* The rates devices ask for are rates, so an entry in the batch is never
\* mistaken for its absence: RequestsKept is inductive once this is known.
ClockInv == ClockTypes /\ RequestsKept

LEMMA ClockInitInv == ClockInit => ClockInv
  BY ClockAssumption, Zenon DEF ClockInit, ClockInv, ClockTypes, RequestsKept, None, Nothing

LEMMA ClockStepInv == ClockInv /\ [ClockNext]_clockVars => ClockInv'
<1> SUFFICES ASSUME ClockInv, [ClockNext]_clockVars PROVE ClockInv'
  OBVIOUS
<1> None \notin Rates
  BY ClockAssumption, Zenon
<1> USE DEF ClockInv, ClockTypes, RequestsKept
<1>1. ASSUME NEW t \in Threads, Raise(t) PROVE ClockInv'
  BY <1>1 DEF Raise
<1>2. ASSUME NEW t \in Threads, NEW d \in Domains, NEW r \in Rates, Push(t, d, r) PROVE ClockInv'
  BY <1>2, SMTT(30) DEF Push
<1>3. CASE Apply
  <2>1. ASSUME NEW d \in Domains
        PROVE  rated'[d] = IF batch[d] # None THEN batch[d] ELSE rated[d]
    BY <1>3 DEF Apply, Changes
  <2>2. ClockTypes'
    BY <1>3, <2>1, Zenon DEF Apply, Changes, Nothing
  <2>3. QED
    BY <1>3, <2>1, <2>2, SMTT(30) DEF Apply, Nothing
<1>4. CASE Refuse
  <2>1. ClockTypes'
    BY <1>4, Zenon DEF Refuse, Changes, Nothing
  <2>2. ASSUME NEW d \in Domains, asked[d] = None PROVE wanted'[d] = rated[d]
    BY <1>4, <2>2, SMTT(30) DEF Refuse, Changes
  <2>3. ASSUME NEW d \in Domains, asked[d] # None PROVE wanted'[d] = wanted[d]
    BY <1>4, <2>3, SMTT(30) DEF Refuse, Changes
  <2>4. QED
    BY <1>4, <2>1, <2>2, <2>3, SMTT(30) DEF Refuse, Nothing
<1>5. CASE UNCHANGED clockVars
  BY <1>5 DEF clockVars
<1>6. CASE TakeBatch
  <2>1. ClockTypes'
    BY <1>6, Zenon DEF TakeBatch, Nothing
  <2>2. ASSUME NEW d \in Domains
        PROVE  /\ asked'[d] = None
               /\ wanted'[d] = IF batch'[d] # None THEN batch'[d] ELSE rated'[d]
    <3>1. batch[d] = None /\ asked'[d] = None /\ batch'[d] = asked[d]
      BY <1>6, Zenon DEF TakeBatch, Nothing
    <3>2. wanted'[d] = wanted[d] /\ rated'[d] = rated[d]
      BY <1>6, Zenon DEF TakeBatch
    <3>3. QED
      BY <3>1, <3>2
  <2>3. RequestsKept'
    BY <2>2
  <2>4. QED
    BY <2>1, <2>3
<1>7. QED
  BY <1>1, <1>2, <1>3, <1>4, <1>5, <1>6 DEF ClockNext

(***************************************************************************)
(* push, take and apply_clock_requests between them lose no request: for   *)
(* every set of threads, domains and rates, and however the pushes         *)
(* interleave with the take and the application of a batch, a domain runs  *)
(* at the rate last asked for it, or is about to.                          *)
(***************************************************************************)
THEOREM RequestsNeverLost == ClockSpec => []RequestsKept
<1>1. ClockInv => RequestsKept
  BY DEF ClockInv
<1>2. QED
  BY <1>1, ClockInitInv, ClockStepInv, PTL DEF ClockSpec
=============================================================================
