---------------------------- MODULE MCTimeline ----------------------------
(***************************************************************************)
(* Sessions for TLC.  A guest that keeps up is rewound while recording and *)
(* while replaying; a guest that lags, and whose port overflows, is        *)
(* replayed without a rewind; a recording, and then its replay, is made in *)
(* slices that end inside rounds, by the caller or by the cadence.         *)
(***************************************************************************)
EXTENDS Timeline

Scene(recordTo, replayTo, backTo, rewinds, appetite, cadence, budget) ==
  [recordTo |-> recordTo, replayTo |-> replayTo, backTo |-> backTo,
   rewinds |-> rewinds, appetite |-> appetite, cadence |-> cadence, budget |-> budget]

MCScenes ==
  {Scene({2, 4, 6}, {4, 6}, {0, 2, 4}, <<1, 2>>, 3, c, b) : c \in {0, 4}, b \in {1, 2, 9}}
    \cup {Scene({2, 6}, {4, 6}, {}, <<0, 0>>, 1, 2, 9),
          Scene({4, 6}, {1, 3, 5, 6}, {2}, <<1, 0>>, 3, 1, 2),
          Scene({3, 6}, {5, 6}, {}, <<0, 0>>, 3, 1, 2),
          Scene({6}, {4, 6}, {}, <<0, 0>>, 3, 3, 9)}

LaggingGuest == {Scene({2, 6}, {4, 6}, {0, 2, 4}, <<0, 1>>, 1, 2, 9)}
=============================================================================
