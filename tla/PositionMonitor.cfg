SPECIFICATION MonitorSpec
CONSTANTS
    t1 = t1
    t2 = t2
    r1 = r1
    Trades = {t1, t2}
    Long = {t1}
    Level <- MCLevel
    Prices = {1, 2, 3}
    Loop = loop
    Requests = {r1}
    MaxFaults = 1
    Databases = {"postgresql", "sqlite"}
INVARIANTS
    OneAlertPerBreach
PROPERTIES
    BreachesAreReported
