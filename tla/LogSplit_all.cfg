CONSTANTS
    Tip = 4
    Logs <- MCLogs
    Cap = 1
    Tolerance = 1
    ProbeWidth = 1
    ATTEMPTS = 2
    MaxKept = 3
    Sites <- MCSites
    Subject = "w"
SPECIFICATION SplitFairSpec
INVARIANTS
    QuerySound
    OnlyTheGoneIsMissing
    StrangersStayPublic
    HonestlyPruned
PROPERTIES
    SearchEnds
