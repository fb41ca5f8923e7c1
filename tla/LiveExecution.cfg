SPECIFICATION FairSpec
CONSTANTS
    Workers = {w1, w2}
    Keys = {k1, k2}
    Verified = {FALSE, TRUE}
    NoRow = NoRow
    NoKey = NoKey
INVARIANTS
    StopDrains
PROPERTIES
    LedgerSpec
    EveryRowDecided
