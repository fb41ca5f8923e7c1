SPECIFICATION FairSpec
CONSTANTS
    DayLen = 2
    MaxDailyLoss = 2
    MaxDrawdown = 10
    MaxPositions = 1
    MaxDailyTrades = 3
    CooldownLosses = 2
    CooldownLen = 1
    BreakevenResets = TRUE
    InitialEquity = 10000
    Strategies = {s5}
    Bars <- AllBars
    Share = 50
    MaxCandle = 3
    MaxTrades = 2
    CanAbort = FALSE
    MaxRestarts = 0
    NoTrade = NoTrade
    Databases = {"sqlite"}
INVARIANTS
    MirrorAgrees
PROPERTY StopsAreExecuted
CHECK_DEADLOCK FALSE
