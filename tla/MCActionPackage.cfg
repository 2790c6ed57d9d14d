SPECIFICATION Spec
CONSTANTS
    Packages = {a1}
    MaxVersion = 3
    Docs <- MCDocs
    Sessions = {s1, s2}
    Consumers = {k1, k2}
    Null = Null
    MaxTime = 2
SYMMETRY ActorSymmetry
INVARIANTS TypeOK IssuedOnlyForApproved
PROPERTIES StatusNeverRevives FatesSpec
CHECK_DEADLOCK FALSE
