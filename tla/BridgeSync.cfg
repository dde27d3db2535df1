SPECIFICATION FairSpec
CONSTANTS
    Specs = {"s1", "s2", "s3"}
    Genesis = "s1"
    Decisions = {"approve"}
    Conns = {c1}
    Authors = {a1}
    NoSpec = "-"
    NoDecision = "-"
    MaxLocal = 1
    MaxEdits = 2
    MaxCrashes = 1
INVARIANTS BridgeInv ResyncIdempotent
PROPERTY Converges
CHECK_DEADLOCK FALSE
