SPECIFICATION Spec
CONSTANTS
  Frac = 64
  Domains <- MCDomains
  Oscs <- MCOscs
  Declared <- MCDeclared
  Root <- MCRoot
  Freq <- MCFreq
  Scenes <- MCScenes
  MaxUnitMul = 3
  MaxTicks <- MCTicks
  Spans = {1}
INVARIANTS RestoreExact RatesTrue
PROPERTIES CrystalsKept CountersContinuous PhaseKept
CHECK_DEADLOCK FALSE
