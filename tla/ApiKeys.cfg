\* Two overlapping requests, four keys, a crash at any point.
SPECIFICATION KeysSpec
CONSTANTS
    MaxKeys = 4
    Clients = {c1, c2}
    MaxCrashes = 2
INVARIANT TokensAreDurable
PROPERTY LastAdminFallsOnlyInCrossfire
CHECK_DEADLOCK FALSE
