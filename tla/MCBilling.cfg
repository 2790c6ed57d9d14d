SPECIFICATION FairSpec
CONSTANTS
    Calls = {c1, c2}
    Plans = {free, enterprise}
    FreePlan = free
    TrialPlans = {enterprise}
    Limit <- MCLimit
    Quantities = {2}
    Null = Null
    MaxUsage = 0
    MaxFailures = 1
INVARIANTS TypeOK UsageIsExact EntitledUse ProvisionNeverLost
PROPERTIES GraceEnds
