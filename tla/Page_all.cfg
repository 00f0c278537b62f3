CONSTANTS
    DaysPerMonth = 10
    Candles <- MCCandles
    MAX_POINTS <- MCMaxPoints
    Queries <- MCQueries
    PortfoliosOf <- MCPortfoliosOf
    Runs <- MCRuns
    Rates = {0, 3, 4}
    ThisMonth = 6
    MaxClicks = 3
    MaxFaults = 1
SPECIFICATION FairSpec
INVARIANTS
    SettledIsCurrent
    OneRequestADay
    BarAddsUp
    MonthsMatchBar
    PageSound
    RecentVolumeShown
PROPERTIES
    LoadingEnds
