SPECIFICATION WorkcopySpec
CONSTANTS
    Paths = {"f", "g"}
    Root <- MCRoot
    Selections = {{}, {"f"}}
    Scopes = {{"f"}, {"f", "g"}}
    MaxEdits = 2
    MaxShifts = 1
    MaxCommits = 2
    MaxPeer = 1
    MaxMerges = 2
    MaxPeerMerges = 1
    Cost <- MCCost
    Budget = 16
    MaxScans = 2
    MaxTicks = 1
    MaxMoves = 1
INVARIANTS MergedLines OwnEditsOnly ProposesTheDirectory
CHECK_DEADLOCK FALSE
