SPECIFICATION FairSpec
CONSTANTS
    t1 = t1
    t2 = t2
    Tasks = {t1}
    Activities = {"check"}
    Kinds = {"trojan"}
    LastStep = 1
    MaxRows = 1
    MaxFaults = 1
CHECK_DEADLOCK FALSE
PROPERTIES
    LastingOutageMailed
