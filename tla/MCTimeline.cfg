CONSTANTS
  QUANTUM = 2
  PORT_CAPACITY = 2
  MaxNow = 6
  MaxPosts = 3
  Scenes <- MCScenes
SPECIFICATION Spec
INVARIANTS LogOrdered InputsOnce ReplayFaithful KeyframesTrue
PROPERTY RunReturns
CHECK_DEADLOCK FALSE
