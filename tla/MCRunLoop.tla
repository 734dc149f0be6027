------------------------------ MODULE MCRunLoop ------------------------------
(***************************************************************************)
(* A second of 16 instants and 10 "nanoseconds", so that neither the grid   *)
(* (9, 19) nor the unit ticks of the crystals fall on whole instants.  The  *)
(* wheel has two levels of two slots of two instants: an event for 4 posted *)
(* at the start is on the upper level, and there still at 3, when one for 5 *)
(* goes below it; an event for 8 posted at the start is far.                *)
(***************************************************************************)
EXTENDS RunLoop

TwoLevels == [l \in 0 .. 1 |-> IF l = 0 THEN 1 ELSE Slots]

rtc == "rtc"

main == "main"

MCRate == [c \in {main, rtc} |-> rational(IF c = main THEN 5 ELSE 3, 1)]

\* Four device ticks to the event, one crystal unit to the tick: instant 12.
Raster == [crystal |-> main, per |-> 1, every |-> 4]

On(c, per, gated) == [crystal |-> c, per |-> per, gated |-> gated, own |-> 0]

\* Two processors that divide one crystal differently; one processor beside a
\* stopped one; one that counts every unit; a bench with none.
MCBoards == {<<On(main, 2, FALSE), On(main, 3, FALSE)>>,
             <<On(main, 3, FALSE), On(main, 1, TRUE)>>,
             <<On(main, 1, FALSE)>>,
             <<>>}
=============================================================================
