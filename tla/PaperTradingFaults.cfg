SPECIFICATION Spec
CONSTANTS
    DayLen = 2
    MaxDailyLoss = 2
    MaxDrawdown = 10
    MaxPositions = 2
    MaxDailyTrades = 3
    CooldownLosses = 2
    CooldownLen = 1
    BreakevenResets = TRUE
    InitialEquity = 10000
    Strategies = {s5, s6}
    Bars <- EventfulBars
    Share = 50
    MaxCandle = 2
    MaxTrades = 3
    CanAbort = TRUE
    MaxRestarts = 1
    NoTrade = NoTrade
    Databases = {"postgresql", "sqlite"}
SYMMETRY Symmetry
INVARIANTS
    TableNeverAhead
    SlotsAgree
PROPERTY RowsMoveForward
CHECK_DEADLOCK FALSE
