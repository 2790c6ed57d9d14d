SPECIFICATION FairSpec
CONSTANTS
    Users = {u1}
    Calls = {c1, c2}
    Reviews = {r1}
    AssignmentCodes <- MCOneCode
    OwnerCode <- MCOwnerCode
    DecisionCodes = {d1}
    RequestedOutcomes = {"approve"}
    GrantRoles = {"manager"}
    Twins = {}
    FactsSpace <- ClockFacts
    Null = Null
    NoFacts = NoFacts
    MaxTime = 1
INVARIANTS AuditMatchesDecisions ExpiryRecordedOnce
PROPERTIES DecisionIsFinal CallsEnd
