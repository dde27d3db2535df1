SPECIFICATION Spec
CONSTANTS
    Procs = {p1, p2}
    Objs = {1, 2, 3, 4}
    Links <- MCLinks
    Unknown = {}
    Cands = {3, 4}
    Scores = {1, 2}
    Refused = {4}
    Pins <- MCPins
    Edges = {e, f, g}
    MaxPerState = 1
    Keeps = {1}
    MaxTime = 1
    MaxOps = 4
    MaxFaults = 1
INVARIANTS RetentionInv
PROPERTY SweepsOnlyGarbage
SYMMETRY Symmetry
CHECK_DEADLOCK FALSE
