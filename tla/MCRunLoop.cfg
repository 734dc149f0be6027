\* Two events, three boards, deadlines inside and between rounds.
SPECIFICATION Spec
CONSTANTS
    Slots = 2
    Levels = 2
    Span <- TwoLevels
    Granule = 2
    Frac = 16
    Nanos = 10
    Quantum = 6
    Cap = 3
    Crystals = {"main", "rtc"}
    Rate <- MCRate
    Device <- Raster
    Boards <- MCBoards
    Wants = {0, 9}
    Times = {4, 5, 8}
    Delays = {1}
    Deadlines = {3, 4}
    MaxSeq = 2
    Horizon = 12
INVARIANTS Additive DeviceEventsOnTime ClocksTogether
PROPERTIES FiresOnTime EventuallyFires
CHECK_DEADLOCK FALSE
