CONSTANTS
    m1 = m1
    m2 = m2
    i1 = i1
    i2 = i2
    small = small
    large = large
    None = None
    Mailboxes <- TwoMailboxes
    Items <- TwoItems
    Envelopes <- BothSizes
    Size <- MCSize
    Ttls <- OneTtl
    MaxItemsPerMailbox = 1
    MaxTotalItems = 2
    MaxTotalBytes = 3
    MaxClock = 3
    Lag = 1
SPECIFICATION MCFairSpec
INVARIANTS
    WithinCapacity
    AcceptedIsHeld
    DeletedStaysDeleted
PROPERTIES
    OnlyItsReceiptDeletes
    TotalsRepaired
