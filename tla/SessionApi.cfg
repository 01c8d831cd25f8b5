SPECIFICATION FairSpec
CONSTANTS
    d1 = d1
    d2 = d2
    l1 = l1
    t1 = t1
    t2 = t2
    IP = IP
    Devices = {d1, d2}
    Window = 1
    DeviceMax = 1
    IpMax = 1
    Logs = {l1}
    Tasks = {t1, t2}
    MaxAge = 1
    Retain = 2
    MaxFaults = 1
INVARIANTS
    TypeOK
    AtMostTwoWindows
    AnswersAgree
    NeverTooLong
PROPERTIES
    EveryLogCloses
    NeverShutOut
