\* One message, every kind of failure: dead sockets, crashes, database errors,
\* refusals; both users reconnect.
CONSTANTS
    alice = alice
    bob = bob
    m1 = m1
    m2 = m2
    Users = {alice, bob}
    Conns = {c1, c2, c3}
    Msgs = {m1}
    None = None
    Statuses = {"online"}
    OneTab = TRUE
    Refusable = {m1}
    Silent = {}
    Profile = {"set_status", "set_mood"}
    DbMayFail = TRUE
    MayCrash = TRUE
    From <- OneFrom
    To <- OneTo
SPECIFICATION RelaySpec
SYMMETRY Symmetry
INVARIANTS
    NewestRegistered
    RegistryLive
    PresenceExactUnlessOverlap
    RelayTypeOK
    EveryMessageAccountedFor
    AtMostOneCopy
    TickAfterHandover
