SPECIFICATION Spec
CONSTANTS
    DayLen = 2
    MaxDailyLoss = 2
    MaxDrawdown = 6
    MaxPositions = 1
    MaxDailyTrades = 3
    CooldownLosses = 2
    CooldownLen = 2
    BreakevenResets = TRUE
    InitialEquity = 1000
    NoRow = NoRow
    Exits = {e1, e2, e3}
    Resets = {r1}
    Results <- MixedResults
    MaxInFlight = 2
    MaxBackdate = 1
    CanCrash = TRUE
    MaxTime = 2
INVARIANTS
    EveryCloseCounted
    NeverOvercounts
CHECK_DEADLOCK FALSE
SYMMETRY Symmetry
