SPECIFICATION ResearchSpec
CONSTANTS
    Bars <- MCBars
    Events <- MCEvents
    Slip = 1
    Fee = 1
    Risk = 1
    Reward = 2
    Horizon = 2
    MaxBars = 4
    Questions <- MCQuestions
    MinTrades = 2
    Lookback = 3
    Reference = 20
INVARIANTS
    ReplaysAgree
    FundingIsExact
    LevelsOrdered
    NoLookahead
    TwinsAgree
    ChoicesAreBest
    ReportsAreTrue
CHECK_DEADLOCK FALSE
