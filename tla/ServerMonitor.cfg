SPECIFICATION FairSpec
CONSTANTS
    t1 = t1
    t2 = t2
    Tasks = {t1}
    Activities = {"check", "renewal", "test", "install"}
    Kinds = {"trojan", "ssh", "cert", "config"}
    LastStep = 2
    MaxRows = 1
    MaxFaults = 0
CHECK_DEADLOCK FALSE
INVARIANTS
    TypeOK
    IncidentsTruthful
    ErrorExplained
    JobMatchesSteps
PROPERTIES
    PanelCatchesUp
