SPECIFICATION Spec
CONSTANTS
    s1 = s1
    s2 = s2
    i1 = i1
    i2 = i2
    Null = Null
    Servers = {s1, s2}
    Items = {i1, i2}
    Measures <- MCMeasures
    ServerOf <- MCServerOf
    Order <- MCOrder
    Top = 4
    Threshold = 3
    Floor = 2
    Streak = 2
    Concurrency = 1
    Stale = 0
    Hysteresis = 1
    MaxFaults = 1
    MaxEdits = 2
INVARIANTS
    TypeOK
    OneStar
    StarServable
    UniqueNames
    AlarmTruthful
PROPERTIES
    NoFlapping
