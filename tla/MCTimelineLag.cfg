CONSTANTS
  QUANTUM = 2
  PORT_CAPACITY = 2
  MaxNow = 6
  MaxPosts = 3
  Scenes <- LaggingGuest
SPECIFICATION Spec
INVARIANTS InputsOnce
CHECK_DEADLOCK FALSE
