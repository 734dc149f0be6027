--------------------------- MODULE MCClockForest ---------------------------
(* Two crystals; a chip clock (1) with a divided peripheral clock (2) below   *)
(* it, and an audio crystal (3) with a sample clock (4).                     *)
EXTENDS ClockForest

MCDomains == {1, 2, 3, 4}
MCOscs == {1, 2}

MCDeclared ==
  << [parent |-> NoParent, mul |-> 1, div |-> 1, osc |-> 1],
     [parent |-> 1,        mul |-> 1, div |-> 2, osc |-> 1],
     [parent |-> NoParent, mul |-> 1, div |-> 1, osc |-> 2],
     [parent |-> 3,        mul |-> 1, div |-> 1, osc |-> 2] >>

MCRoot == <<1, 3>>
MCTicks == <<2, 1>>
MCFreq == << [num |-> 5, den |-> 1], [num |-> 3, den |-> 2] >>

(* Dividers and multipliers, the latter making the unit finer, 4 by more than *)
(* fits: every operation on both crystals; batches over both trees; a machine *)
(* that drives the first alone and has its snapshots loaded.                  *)
MCScenes ==
  <<[machine |-> FALSE, domains |-> {1, 2, 3}, ratings |-> {<<1, 2>>, <<3, 2>>}, changes |-> 2],
    [machine |-> FALSE, domains |-> {2, 4}, ratings |-> {<<3, 2>>, <<4, 1>>}, changes |-> 2],
    [machine |-> TRUE, domains |-> {1, 2}, ratings |-> {<<3, 2>>, <<2, 1>>}, changes |-> 3]>>
=============================================================================
