SPECIFICATION RangeSpec
CONSTANTS
    Queries = {q}
    Key = q
    MaxTip = 4
    Depth = 2
    NoLog = NoLog
    Content = {NoLog, x}
    Scans = {s1, s2}
    Starts = {1}
    HeadLag = 3
SYMMETRY Interchangeable
INVARIANTS
    CacheSound
    AnswerExact
