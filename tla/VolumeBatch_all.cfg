SPECIFICATION FairSpec
CONSTANTS
    PoolCount = 5
    WORKERS = 2
    MAX_TRIES = 3
    MaxResumes = 2
INVARIANTS
    PoolsAccounted
PROPERTIES
    ImplementsBatch
    BatchEnds
