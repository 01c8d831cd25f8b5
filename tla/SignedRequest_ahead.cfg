SPECIFICATION Spec
CONSTANTS
    r1 = r1
    w1 = w1
    w2 = w2
    Requests = {r1}
    Workers = {w1, w2}
    Skew = 2
    Rounding = 0
    Margin <- ClientAhead
    MaxStall = 0
    Horizon = 6
SYMMETRY Symmetry
INVARIANTS
    AtMostOnce
