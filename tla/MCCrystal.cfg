SPECIFICATION MCSpec
CONSTANTS
  Frac = 10
  Rates <- MCRates
  Counts = {0, 1, 2, 3, 7, 12}
  MaxUnits = 14
  MaxTime = 80
INVARIANTS TimelineExact ReachesOwnTime
CHECK_DEADLOCK FALSE
