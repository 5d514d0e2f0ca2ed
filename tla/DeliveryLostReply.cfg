CONSTANTS
    None = None
    NumTexts = 2
    Ttl = 2
    Interruptible <- Everywhere
    MaxFaults = 1
    MaxSeals = 2
    MaxClock = 0
    Lag = 0
SPECIFICATION FairSpec
PROPERTIES
    AcknowledgementReturned
