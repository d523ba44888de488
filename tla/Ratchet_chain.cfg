\* Loss everywhere, any order of delivery, one call that overlaps another.
CONSTANTS
    MaxSkip = 1
    MaxSent = 3
    MaxOverlaps = 1
SPECIFICATION Spec
INVARIANTS
    TypeOK
    EndsAgree
    KeyPerMessage
    UsedKeysForgotten
CHECK_DEADLOCK FALSE
