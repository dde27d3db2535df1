SPECIFICATION Spec
CONSTANTS
    Tasks = {t1, t2}
    Lists = {l}
    Signers = {s}
    TTLs = {1}
    MaxTime = 2
INVARIANTS TypeOK KeysForgotten NoLateSignature NoStrayFiles
PROPERTIES RevokedForGood ExpiryRevokes
CHECK_DEADLOCK FALSE
