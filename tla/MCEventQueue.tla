---------------------------- MODULE MCEventQueue ----------------------------
(***************************************************************************)
(* Instances of EventQueueSpec for TLC: a wheel of two levels of two slots *)
(* and granules of two instants, so that block 0 of level 1 ends at        *)
(* instant 4 and an instant from 8 on starts in the far heap.              *)
(***************************************************************************)
EXTENDS EventQueueSpec

TwoLevels == [l \in 0 .. 1 |-> IF l = 0 THEN 1 ELSE Slots]

MCTimes == {2, 4, 5, 9}

\* One snapshot per behaviour, of a queue that has moved and given out
\* every handle.
MCNext ==
    \/ \E t \in Times : Schedule(t) \/ AdvanceTo(t) \/ PopDue(t)
    \/ \E id \in GivenOut : Cancel(id)
    \/ NextDeadline
    \/ saved.next_seq = 0 /\ q.next_seq = MaxSeq /\ q.now > 0 /\ Save
    \/ saved.next_seq > 0 /\ (Restore \/ RestoreDamaged)

MCSpec == Init /\ [][MCNext]_vars
=============================================================================
