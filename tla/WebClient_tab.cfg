\* One peer, a connection that is being replaced beside its successor.
CONSTANTS
    Socks = {s1, s2}
    NoSock = NoSock
    Peers = {p1}
    NoPeer = NoPeer
    Edits = {"status"}
    MaxInbox = 1
    MaxOutbox = 1
    MayFail = TRUE
SPECIFICATION Spec
INVARIANTS
    TypeOK
    
    
    
SYMMETRY Symmetry
