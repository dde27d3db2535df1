SPECIFICATION Spec
CONSTANTS
    Verifiers = {v1, v2}
    Updates <- MCUpdates
    Names = {n}
    Ids = {a, b}
    NoId = NoId
    Principals = {s1, s2}
    Records <- MCRecords
    Scopes <- MCScopes
    Skew = 1
    MaxTime = 3
    MaxEvents = 2
    MaxOther = 1
    MaxFaults = 1
    a = a
    b = b
    n = n
    s1 = s1
    s2 = s2
INVARIANTS WholeInv OnceBeforeNotAfter AppliedAsSigned
SYMMETRY Symmetry
CHECK_DEADLOCK FALSE
