SPECIFICATION FairSpec
CONSTANTS
    Procs = {p1, p2}
    Names = {n}
    Ids = {a}
    NoId = NoId
    Times = {1, 2}
    Keeps = {0, 1}
    MaxOps = 3
    MaxFaults = 1
INVARIANTS TypeOK LockExclusive CheckedValueHolds HistoryKept
PROPERTIES ImplementsRegister CallsReturn
CHECK_DEADLOCK FALSE
