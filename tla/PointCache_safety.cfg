SPECIFICATION PointSpec
CONSTANTS
    Callers = {c1, c2, c3}
    Facts = {x, y}
    At = 1
    MaxTip = 5
    Depth = 2
    REORG_DEPTH = 3
    Transit = 1
    MaxResets = 2
    NoFact = NoFact
SYMMETRY Interchangeable
INVARIANTS
    StoredIsFinal
    MemoSound
    RescanForgets
