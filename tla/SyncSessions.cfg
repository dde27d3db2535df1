SPECIFICATION Spec
CONSTANTS
    Clients = {a, b}
    Hub = h
    Cloned = {a}
    Writes <- MCWrites
    MaxObjs = 4
    MaxSessions = 3
    MaxDrops = 1
INVARIANTS TrackingInv
PROPERTIES ArrivesWhole NeverClobbers NothingUnseenLost
CHECK_DEADLOCK FALSE
