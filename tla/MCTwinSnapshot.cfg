SPECIFICATION Spec
CONSTANTS
    Snapshots <- MCSnapshots
    EffectiveAt <- MCEffectiveAt
    Sessions = {p1, p2, p3}
    Null = Null
INVARIANTS TypeOK PublishedIsSound
PROPERTIES CatalogueSpec
CHECK_DEADLOCK FALSE
