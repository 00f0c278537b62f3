SPECIFICATION BucketSpec
CONSTANTS
    ONE = 8
    Ceiling = 8
    Floor = 2
    Step = 2
    Burst = 2
    RecoverAfter = 2
    MaxNow = 6
    MaxTakes = 5
INVARIANTS
    WithinBudget
    BackoffPaidFor
