SPECIFICATION Spec
CONSTANTS
    r1 = r1
    w1 = w1
    w2 = w2
    Requests = {r1}
    Workers = {w1, w2}
    Skew = 2
    Rounding = 1
    Margin = 2
    MaxStall = 1
    Horizon = 8
SYMMETRY Symmetry
INVARIANTS
    TypeOK
    AtMostOnce
