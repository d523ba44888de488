\* A socket and the one that replaces it, two lost connections.
CONSTANTS
    Socks = {s1, s2}
    NoSock = NoSock
    MaxLost = 2
    MaxLoose = 2
SPECIFICATION FairSpec
INVARIANTS
    TypeOK
    NeverDeaf
    StaysAway
PROPERTIES
    Reconnects
