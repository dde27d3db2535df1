SPECIFICATION AffectedSpec
CONSTANTS
    Queries = {q1, q2}
    Paths <- MCPaths
    Exts = {"js", "rb", "go", "mod"}
    ExtOf <- MCExtOf
    Blobs = {"x", "y", "z"}
    NoBlob = "none"
    FirstTree <- MCFirstTree
    FirstManifest <- MCFirstManifest
    Modules = {"m1", "m2"}
    NoModule = "none"
    Binaries = {1, 2}
    BuiltinExts = {"js", "go"}
    Builtin <- MCBuiltin
    Output <- MCOutput
    Candidates <- MCCandidates
    Members <- MCMembers
    ModuleFile = "go.mod"
    Scopes <- MCScopes
    Commits <- MCCommits
    Registrations <- MCRegistrations
    MaxEdits = 1
    MaxSets = 1
    MaxQueries = 3
    MaxFaults = 1
    Budget = 8
INVARIANTS AffectedExact AnswersHonest
SYMMETRY Sym
CHECK_DEADLOCK FALSE
