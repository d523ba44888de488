\* One call of a manager at a time; the network alone disorders the messages.
CONSTANTS
    MaxSkip = 1
    MaxSent = 3
    MaxOverlaps = 0
SPECIFICATION Spec
INVARIANTS
    DecryptsUnlessSkipLimit
CHECK_DEADLOCK FALSE
