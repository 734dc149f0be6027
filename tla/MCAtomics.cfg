SPECIFICATION Spec
CONSTANTS
  c1 = c1
  c2 = c2
  c3 = c3
  Cores = {c1, c2, c3}
  Slots = {0, 1}
  Addrs = {0, 1, 3}
  Unmapped = {3}
  CountModulus = 8
  Scenes <- MCScenes
INVARIANTS UpdatesKept SlotsOwned CountSettles
CHECK_DEADLOCK FALSE
