\* Two conversations, so that the open, the captured and the picked one can differ.
CONSTANTS
    Peers = {p1, p2}
    NoPeer = NoPeer
    Texts = {t1}
    NoText = NoText
    MaxUnread = 1
SPECIFICATION Spec
INVARIANTS
    BadgesExact
SYMMETRY Symmetry
