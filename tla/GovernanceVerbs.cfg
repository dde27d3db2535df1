SPECIFICATION Spec
CONSTANTS
    Procs = {p1, p2}
    c1 = c1
    c2 = c2
    k1 = k1
    k2 = k2
    Keys = {k1, k2}
    Changes <- MCChanges
    ParentOf <- MCParentOf
    FulfillsOf <- MCFulfillsOf
    ScoreOf <- MCScoreOf
    Calls <- MCCalls
    Ticket = ticket
    Artifact = artifact
    Claim = claim
    Scopes = {"s"}
    MaxRevs = 2
    MaxCalls = 4
    MaxAsides = 2
    MaxCrashes = 1
INVARIANTS ArtifactsReadable PromotionHeeds ChartSerial
PROPERTY NotesOnlyGrow
SYMMETRY Sym
CHECK_DEADLOCK FALSE
