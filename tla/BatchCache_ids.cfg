SPECIFICATION Spec
CONSTANTS
    Queries = {i1, i2}
    MaxTip = 4
    Depth = 2
    NoLog = NoLog
    Content = {NoLog, x}
    Scans = {s1}
    Starts = {1, 2}
    HeadLag = 3
SYMMETRY Interchangeable
INVARIANTS
    RecordsComplete
    AnswersExact
