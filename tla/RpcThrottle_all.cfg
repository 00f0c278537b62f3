SPECIFICATION FairSpec
CONSTANTS
    Requests = {r1, r2, r3, r4}
    MaxInflight = 3
    RecoverAfter = 1
    Attempts = 2
    MaxWait = 2
    DefaultWait = 2
    Stated = {0, 1, 3}
INVARIANTS
    Accounting
    NoLostWakeup
    RetryNotEarly
PROPERTIES
    AdmissionWithinPermit
    OncePerPause
    EveryCallSettles
