\* The loop of run_until calls a clock that stood still a zero quantum.
SPECIFICATION Spec
CONSTANTS
    Slots = 2
    Levels = 2
    Span <- TwoLevels
    Granule = 2
    Frac = 16
    Nanos = 10
    Quantum = 6
    Cap = 3
    Crystals = {"main", "rtc"}
    Rate <- MCRate
    Device <- Raster
    Boards <- MCBoards
    Wants = {0, 9}
    Times = {}
    Delays = {1}
    Deadlines = {2, 5, 7}
    MaxSeq = 2
    Horizon = 9
INVARIANT StallMeansZeroQuantum

CHECK_DEADLOCK FALSE
