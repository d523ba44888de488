\* Two messages to one addressee; every task and forwarding task keeps going, and
\* the browser of one connection may go without a close frame.
\* The supply of connections is finite, so behaviours end.
CONSTANTS
    alice = alice
    bob = bob
    m1 = m1
    m2 = m2
    Users = {alice, bob}
    Conns = {c1, c2}
    Msgs = {m1, m2}
    None = None
    Statuses = {"online"}
    OneTab = TRUE
    Refusable = {}
    Silent = {c2}
    Profile = {}
    DbMayFail = FALSE
    MayCrash = TRUE
    From <- MCFrom
    To <- MCTo
SPECIFICATION RelayFairSpec
INVARIANT
    ReplayInOrder
PROPERTIES
    EveryMessageSettles
    ClosedSocketsLeave
CHECK_DEADLOCK FALSE
