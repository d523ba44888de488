SPECIFICATION Spec
CONSTANTS
    MaxChanges = 4
    MaxTokens = 1
    MaxCalls = 2
    MaxVisits = 2
    MaxFaults = 0
INVARIANTS
    LiveSecretConfirmed
CHECK_DEADLOCK FALSE
