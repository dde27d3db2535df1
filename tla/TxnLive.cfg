SPECIFICATION FairSpec
CONSTANTS
    N = 3
    Paths <- MCPaths
    Decls <- NamedClaims
    Batches = {"run", "other"}
    Concurrency = 2
    MaxAttempts = 2
    ByPriority = TRUE
    MayCancel = TRUE
    MaxExternal = 0
    MaxFaults = 1
INVARIANTS OnceEach HeldConflictFree
PROPERTY RunReturns
