\* Two tabs of ann against bea; cal never answers.  Room for one buddy.
CONSTANTS
    ann = ann
    bea = bea
    cal = cal
    t1 = t1
    t2 = t2
    t3 = t3
    Users = {ann, bea, cal}
    Tasks = {t1, t2, t3}
    Owner <- MCOwner
    Peers <- MCPeers
    Cap <- MCCap
    MayFail = TRUE
SPECIFICATION Spec
SYMMETRY Symmetry
INVARIANTS
    TypeOK
    BlockedNotPending
    CapKeptByAdds
PROPERTY
    AnswersStand
