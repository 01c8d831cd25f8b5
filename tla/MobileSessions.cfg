SPECIFICATION Spec
CONSTANTS
    d1 = d1
    c1 = c1
    c2 = c2
    c3 = c3
    k1 = k1
    k2 = k2
    None = None
    Devices = {d1}
    Challenges = {c1, c2}
    Calls = {k1, k2}
    FailOpen = TRUE
    MaxSession = 3
CHECK_DEADLOCK FALSE
SYMMETRY Symmetry
INVARIANTS
    TypeOK
    SpentBeforeIssue
    SingleUseUnlessOverlapped
    ReliablePayload
    TrustedOnlyIfVouched
    RetiredNeverServed
PROPERTIES
    SoldAsFound
