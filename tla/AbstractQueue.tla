---------------------------- MODULE AbstractQueue ----------------------------
(***************************************************************************)
(* What the event queue promises its callers, with no wheel in sight: a    *)
(* set of live events from which the earliest, in (time, sequence) order,  *)
(* is taken once its instant is reached.  An event posted and not          *)
(* cancelled fires exactly once; a cancelled one never does; a restored    *)
(* queue holds exactly what was saved.                                     *)
(***************************************************************************)
EXTENDS Integers

CONSTANTS Times, Ids  \* instants and handles the callers use

VARIABLES
    now,       \* the queue's position
    live,      \* events that will fire
    next_seq,  \* the number the next event gets
    out,       \* the answer of the last pop
    saved      \* the last snapshot taken

abstractVars == <<now, live, next_seq, out, saved>>

NoEvent == [time |-> -1, id |-> -1]

Earlier(a, b) == a.time < b.time \/ (a.time = b.time /\ a.id < b.id)

IsNext(e, t) ==
    /\ e \in live /\ e.time <= t
    /\ \A f \in live : f = e \/ Earlier(e, f)

Init ==
    /\ now = 0 /\ live = {} /\ next_seq = 0
    /\ out = NoEvent
    /\ saved = [now |-> 0, next_seq |-> 0, events |-> {}]

Schedule(t) ==
    /\ live' = live \cup {[time |-> t, id |-> next_seq]}
    /\ next_seq' = next_seq + 1
    /\ UNCHANGED <<now, out, saved>>

Cancel(id) ==
    /\ live' = {e \in live : e.id # id}
    /\ UNCHANGED <<now, next_seq, out, saved>>

Advance(t) ==
    /\ now' = IF t > now THEN t ELSE now
    /\ UNCHANGED <<live, next_seq, out, saved>>

Pop(t) ==
    /\ now' = IF t > now THEN t ELSE now
    /\ \/ IsNext(out', t) /\ live' = live \ {out'}
       \/ out' = NoEvent /\ live' = live /\ \A e \in live : e.time > t
    /\ UNCHANGED <<next_seq, saved>>

Save ==
    /\ saved' = [now |-> now, next_seq |-> next_seq, events |-> live]
    /\ UNCHANGED <<now, live, next_seq, out>>

Restore ==
    /\ now' = saved.now /\ live' = saved.events /\ next_seq' = saved.next_seq
    /\ UNCHANGED <<out, saved>>

Next ==
    \/ \E t \in Times : Schedule(t) \/ Advance(t) \/ Pop(t)
    \/ \E id \in Ids : Cancel(id)
    \/ Save \/ Restore

Spec == Init /\ [][Next]_abstractVars
=============================================================================
