SPECIFICATION FairRangeSpec
CONSTANTS
    Queries = {q}
    Key = q
    MaxTip = 5
    Depth = 1
    NoLog = NoLog
    Content = {NoLog, x}
    Scans = {s1, s2}
    Starts = {1, 2}
    HeadLag = 0
INVARIANTS
    RecordComplete
