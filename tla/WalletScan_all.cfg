SPECIFICATION FairSpec
CONSTANTS
    Scans = {s1}
    Lookups = {t1, t2}
    None = None
    MaxOpen = 2
    MaxPositions = 3
    POSITION_CONCURRENCY = 2
    Attempts = 2
INVARIANTS
    PositionsAccounted
    NoStaleSubject
PROPERTIES
    TaggedWhenAlone
    CallsEnd
