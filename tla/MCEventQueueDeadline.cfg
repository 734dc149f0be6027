\* The exactness the comment on next_deadline claims.
CONSTANTS
    Slots = 2
    Levels = 2
    Span <- TwoLevels
    Granule = 2
    Times <- MCTimes
    MaxSeq = 3
SPECIFICATION MCSpec
INVARIANT DeadlineNotLate
