\* Three events; one snapshot, restored whole or damaged at any later point.
CONSTANTS
    Slots = 2
    Levels = 2
    Span <- TwoLevels
    Granule = 2
    Times <- MCTimes
    MaxSeq = 3
SPECIFICATION MCSpec
INVARIANTS
    TypeOK
    UniqueIds
    WheelInv
    LevelLenExact
    DeadlineFound
PROPERTY Refines
