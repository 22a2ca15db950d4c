CONSTANTS
    alice = alice
    p1 = p1
    s1 = s1
    s2 = s2
    NoPrincipal = none
    Streams = {p1, p2}
    Readers = {r1}
    SidsOf <- FreshOrReused
    Owner <- AllByAlice
    Requester <- AllForAlice
    MaxEvents = 2
    MaxBytes = 3
    MaxEntries = 1
    EndOf <- OneLarge
    Cursors = {0, 2}
    MaxChunks = 2
SPECIFICATION FairSpec
CHECK_DEADLOCK FALSE
INVARIANTS
    StreamSound
    EntriesCapped
    NoMissedBroadcast
PROPERTIES
    ReplayInOrder
    ReplayEnds
