SPECIFICATION FairSpec
CONSTANTS
    Clients = {p1}
    Tags = {t1}
    VpnTags = {t1}
    Addrs = {a1, a2}
    Visitor = visitor
    MaxEvents = 2
    MaxFails = 1
INVARIANTS
    PoolMatchesStore
    NoneForgotten
PROPERTIES
    BookedStarted
