SPECIFICATION FairSpec
CONSTANTS
    Events = {e1}
    KeyOf <- MCKeyOf
    IdentityOf <- MCIdentityOf
    Contents = {"sale"}
    Unpublishable = {}
    Workers = {w1, w2}
    Handlers = {h1}
    Null = Null
    MaxAttempts = 2
    BatchSize = 1
    MaxFaults = 0
    MaxCrashes = 1
PROPERTIES ClaimedIsRetried
CHECK_DEADLOCK FALSE
