----------------------------- MODULE MCParallel -----------------------------
(***************************************************************************)
(* Three runnables, two of them on the pool, on a pool of two workers, of  *)
(* one, or of none.  The first owns the crystal of the lazy device.        *)
(***************************************************************************)
EXTENDS ParallelRound

\* A sink that answers a high source 2 by driving it low: one pass more when
\* it is driven once, a loop when both sources are used.
MCFeedback ==
  [x \in Sources \X {0, 1} |->
     IF x = <<2, 1>> THEN {<<2, "Low">>} ELSE {}]

Scene(a, b, c) ==
  [menu |-> <<a, b, c>>, modes |-> {"PerSink"}, grants |-> {Workers}, quantum |-> 1,
   cap |-> NoCap, limit |-> 1, overruns |-> {}, refusals |-> FALSE, falters |-> FALSE,
   pokes |-> {}, host |-> {}]

Compute == <<"compute">>
Access1 == <<"access">>
Rate(r) == <<"rate", "pll", r>>
Bus(r) == <<"rate", "bus", r>>

One == CHOOSE w \in Workers : TRUE

MCScenes ==
  { \* two threads on one net, one with more to do than the other
    [Scene({<<"drive", 1, "High">>}, {<<"drive", 2, "High">>},
           {<<"drive", 1, "HiZ">>})
       EXCEPT !.modes = Modes, !.grants = {{One}}, !.pokes = {"refresh"}],
    \* two threads on one lazy device beside a third, then one alone
    [Scene({Access1}, {Access1}, {Compute}) EXCEPT !.grants = {{}, Workers}],
    \* the device passes its event, asks for a rate, and breaks its contract
    [Scene({Access1, Rate(2)}, {Rate(3)}, {Access1})
       EXCEPT !.limit = 2, !.falters = TRUE, !.grants = {{}, {One}}, !.pokes = {"look"}],
    \* rates of two domains from several threads, refused or not, with another
    \* thread asking at any time
    [Scene({Rate(2)}, {Bus(3)}, {Rate(3)})
       EXCEPT !.refusals = TRUE, !.pokes = {"rate"}, !.grants = {{}, {One}},
              !.host = {Bus(2)}],
    \* reports over budget, by one runnable or by two
    [Scene({Access1}, {Rate(3)}, {Access1})
       EXCEPT !.overruns = {2, 3}, !.limit = 2, !.grants = {{}, {One}}],
    \* rounds of two ticks, of which a runnable gets one, and a deadline inside
    \* a round
    [Scene({Access1}, {Compute}, {Compute})
       EXCEPT !.quantum = 2, !.cap = 1, !.limit = 5, !.grants = {{}, {One}}],
    \* a panic among other work
    Scene({Access1, <<"panic">>}, {<<"panic">>, <<"drive", 1, "High">>},
          {Rate(2), <<"panic">>}),
    \* the world stopped by the driver and by another thread
    [Scene({Access1}, {Compute}, {Compute})
       EXCEPT !.grants = {{One}}, !.limit = 2, !.pokes = {"stop"}, !.host = {<<"stop", World>>}],
    \* one runnable stopped, which then catches up
    [Scene({Access1}, {Compute}, {Compute})
       EXCEPT !.grants = {{One}}, !.limit = 2, !.host = {<<"stop", 2>>}] }

MCRelock == <<"pll", 1>>
=============================================================================
