SPECIFICATION FairSpec
CONSTANTS
    Events = {e1, e2}
    KeyOf <- MCKeyOf
    IdentityOf <- MCIdentityOf
    Contents = {"sale", "amended sale", "refund", "unknown"}
    Unpublishable = {"unknown"}
    Workers = {w1, w2}
    Handlers = {h1, h2}
    Null = Null
    MaxAttempts = 2
    BatchSize = 2
    MaxFaults = 1
    MaxCrashes = 1
INVARIANTS TypeOK ActedAtMostOnce HistoryIsTrue
PROPERTIES LogSpec EventSettles
CHECK_DEADLOCK FALSE
