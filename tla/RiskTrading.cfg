SPECIFICATION Spec
CONSTANTS
    DayLen = 3
    MaxDailyLoss = 2
    MaxDrawdown = 5
    MaxPositions = 2
    MaxDailyTrades = 2
    CooldownLosses = 2
    CooldownLen = 4
    BreakevenResets = FALSE
    InitialEquity = 1000
    Results <- SmallResults
    WorstLoss = 3
    MaxTime = 5
INVARIANTS
    DailyLossBounded
    DailyTradesBounded
    BreachKills
    BlocksExpire
PROPERTIES
    DailyLimitLasts
