SPECIFICATION Spec
CONSTANTS
    Snapshots <- MCSnapshots
    EffectiveAt <- MCEffectiveAt
    Sessions = {p1}
    Null = Null
INVARIANTS OnlyPublishedCounts
CHECK_DEADLOCK FALSE
