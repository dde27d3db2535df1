SPECIFICATION Spec
CONSTANTS
    a = a
    b = b
    Dirs <- MCDirs
    Contents = {a, b}
    Tasks = {t}
    Scope <- MCScope
    Promoters = {p}
    MaxChanges = 3
    MaxConns = 2
INVARIANTS ProvenanceInv ShownStillThere
SYMMETRY Symmetric
CHECK_DEADLOCK FALSE
