SPECIFICATION Spec
CONSTANTS
    u1 = u1
    u2 = u2
    p1 = p1
    p2 = p2
    f1 = f1
    t1 = t1
    t2 = t2
    None = None
    Placeholder = Placeholder
    Held <- OneUser
    Users = {u1, u2}
    Defaults = {u2}
    Passwords = {p1, p2, f1}
    Foreign = {f1}
    Tasks = {t1, t2}
    Tracking = TRUE
    EditImported = TRUE
    MaxRequests = 3
    MaxFaults = 1
CHECK_DEADLOCK FALSE
PROPERTY
    ForeignUntouched
