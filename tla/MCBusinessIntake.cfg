SPECIFICATION FairSpec
CONSTANTS
    Tasks = {t1, t2}
    Runs = {r1, r2}
    Packages = {p1, p2}
    Keys = {k1}
    Batches <- MCBatches
    PageLimit = 1
    InitialStock = 1
    Null = Null
INVARIANTS TypeOK BookedOnce DeliveriesAreBooked
PROPERTIES PublishedOnce BookSpec RunSettles
CHECK_DEADLOCK FALSE
