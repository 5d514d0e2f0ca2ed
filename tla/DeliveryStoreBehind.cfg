CONSTANTS
    None = None
    NumTexts = 1
    Ttl = 2
    Interruptible <- Everywhere
    MaxFaults = 0
    MaxSeals = 2
    MaxClock = 3
    Lag = 1
SPECIFICATION Spec
INVARIANT
    OneCopy
