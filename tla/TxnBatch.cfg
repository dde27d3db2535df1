SPECIFICATION Spec
CONSTANTS
    N = 3
    Paths <- MCPaths
    Decls <- MCDecls
    Batches = {"run"}
    Concurrency = 2
    MaxAttempts = 3
    ByPriority = TRUE
    MayCancel = FALSE
    MaxExternal = 1
    MaxFaults = 1
INVARIANTS SerialInv SerialInRank
