SPECIFICATION Spec
CONSTANTS
    MaxChanges = 4
    MaxTokens = 1
    MaxCalls = 2
    MaxVisits = 2
    MaxFaults = 1
INVARIANTS
    TypeOK
    TotpFormHasToken
    PanelExact
    CodesShownValid
    NotLockedOut
CHECK_DEADLOCK FALSE
