\* Nobody but the tab and the server, no faults: only the effect moves.
CONSTANTS
    Socks = {s1, s2}
    NoSock = NoSock
    Peers = {}
    NoPeer = NoPeer
    Edits = {}
    MaxInbox = 2
    MaxOutbox = 1
    MayFail = FALSE
SPECIFICATION FairSpec
PROPERTIES
    StaysLive
