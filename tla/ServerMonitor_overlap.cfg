SPECIFICATION Spec
CONSTANTS
    t1 = t1
    t2 = t2
    Tasks = {t1, t2}
    Activities = {"check", "renewal", "install"}
    Kinds = {"trojan"}
    LastStep = 1
    MaxRows = 2
    MaxFaults = 1
CHECK_DEADLOCK FALSE
SYMMETRY Symmetry
INVARIANTS
    OneOpenIncident
    IncidentsTruthful
    BusyMeansWork
PROPERTIES
    RecoveryMatchesOutage
