SPECIFICATION FairSpec
CONSTANTS
    Clients = {x1, x2, x3}
    Keys = {k1}
    Bodies = {b1, b2}
    Null = Null
    MaxCrashes = 2
    MaxFailures = 1
    MaxLostAcks = 1
INVARIANTS TypeOK AtMostOnce AnswersAgree
PROPERTIES RetryIsAnswered
