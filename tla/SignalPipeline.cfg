SPECIFICATION PipelineSpec
CONSTANTS
    job = job
    script = script
    s05 = s05
    s06 = s06
    Job = job
    Script = script
    Lookback = 1
    PageLimit = 1
    Scripts = {1}
    MaxCandle = 4
    MaxFaults = 1
    Paths = {"closed", "live"}
    Registry <- MCRegistry
    Baseline = s05
    Followed = {3}
    Databases = {"postgresql", "sqlite"}
INVARIANTS
    HolesAreExcused
    OneSignalPerCandle
    AlertedOnce
PROPERTIES
    CandlesArrive
