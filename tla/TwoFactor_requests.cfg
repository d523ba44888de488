\* Two requests at a time, failing statements and crashes.
\* The bounded supply of secrets, code sets and tokens lets behaviours end.
CONSTANTS
    Reqs = {r1, r2}
    MaxSecrets = 2
    MaxSets = 2
    PerSet = 1
    MaxTokens = 1
    MayCrash = TRUE
SPECIFICATION Spec
SYMMETRY Symmetry
INVARIANTS
    TypeOK
    InOrderWhileCalm
PROPERTIES
    RecoveryCodesOneTime
    ChallengesOneTime
CHECK_DEADLOCK FALSE
