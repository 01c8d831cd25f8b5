SPECIFICATION FairSpec
CONSTANTS
    v1 = v1
    v2 = v2
    c1 = c1
    c2 = c2
    None = None
    Services = {"ban", "tenant", "settings"}
    Values = {v1, v2}
    Callers = {c1, c2}
    TTL = 3
    Latency = 2
INVARIANTS
    TypeOK
    CurrentUnlessRaced
PROPERTIES
    ServesWithinLimit
    EveryLookupEnds
