SPECIFICATION FairSpec
CONSTANTS
    Calls = {c1, c2}
    Codes = {b1, b2}
    Administered = {b1}
    Null = Null
    MaxCrashes = 1
INVARIANTS TypeOK CompletionIsEarned
PROPERTIES OwnerIsAuthorized WizardEnds
