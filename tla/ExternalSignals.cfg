SPECIFICATION Spec
CONSTANTS
    Deliveries = {d1, d2, d3}
    Messages = {m1}
    Symbols = {s1, s2}
    MaxEdit = 2
    MaxInFlight = 2
    DailyTradeMax = 1
    MaxAi = 1
    MaxDay = 1
    AutomaticTrading = TRUE
    Verified = {TRUE}
    Database = "sqlite"
    NoMessage = NoMessage
    NoSignal = NoSignal
    NoUpdate = NoUpdate
SYMMETRY Symmetry
INVARIANTS
    DailyEntriesBounded
    OpenTradesBounded
PROPERTY EditsMoveForward
CHECK_DEADLOCK FALSE
