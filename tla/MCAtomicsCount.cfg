SPECIFICATION Spec
CONSTANTS
  c1 = c1
  c2 = c2
  c3 = c3
  Cores = {c1, c2, c3}
  Slots = {0, 1, 2}
  Addrs = {0, 2}
  Unmapped = {}
  CountModulus = 8
  Scenes <- StoreScenes
INVARIANTS StoreBreaksReservation
CHECK_DEADLOCK FALSE
