SPECIFICATION Spec
CONSTANTS
    Users = {u1, u2}
    Calls = {c1}
    Reviews = {r1}
    AssignmentCodes <- MCCodes
    OwnerCode <- MCOwnerCode
    DecisionCodes = {d1}
    RequestedOutcomes = {"approve", "reject"}
    GrantRoles = {"cashier", "manager"}
    Twins = {}
    FactsSpace <- RiskFacts
    Null = Null
    NoFacts = NoFacts
    MaxTime = 0
INVARIANTS TypeOK ApprovalRespectsRisk DecisionRestsOnAuthority
PROPERTIES AuthorityIsFinal
