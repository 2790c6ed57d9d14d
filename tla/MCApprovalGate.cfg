SPECIFICATION Spec
CONSTANTS
    Users = {u1}
    Calls = {c1}
    Reviews = {r1}
    AssignmentCodes <- MCOneCode
    OwnerCode <- MCOwnerCode
    DecisionCodes = {d1}
    RequestedOutcomes = {"approve", "reject"}
    GrantRoles = {"manager"}
    Twins = {1, 2}
    FactsSpace <- GateFacts
    Null = Null
    NoFacts = NoFacts
    MaxTime = 2
INVARIANTS ApprovalRestsOnValidFacts
