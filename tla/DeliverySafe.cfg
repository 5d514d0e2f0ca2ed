CONSTANTS
    None = None
    NumTexts = 2
    Ttl = 3
    Interruptible <- Everywhere
    MaxFaults = 2
    MaxSeals = 2
    MaxClock = 3
    Lag = 1
SPECIFICATION MCFairSpec
INVARIANTS
    DeletedOnlyAfterCommit
    StoredIsHeldOrRead
    DeliveredWasReceived
    OneCopyInForce
    NoResurrectionInForce
    DeleteSelectsTheItemRead
PROPERTIES
    EveryTextDelivered
