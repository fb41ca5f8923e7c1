SPECIFICATION Spec
CONSTANTS
    sync = sync
    signals = signals
    ai = ai
    Loops = {sync, signals}
    Closing = {sync}
    Signal = signals
    AI = ai
    Interval <- MCInterval
    Timeout = 2
    Threshold = 2
    Base = 1
    MaxBackoff = 3
INVARIANTS
    HeartbeatTells
PROPERTIES
    BackoffKept
    Recovers
