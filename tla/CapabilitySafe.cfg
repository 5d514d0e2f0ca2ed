SPECIFICATION MCFairSpec
CONSTANTS
    t1 = t1
    Texts <- OneText
    None = None
    OwnerRoom = 4
    WriterRoom = 2
    OwnerSlots = 2
    WriterSlots = 2
    MaxFaults = 1
INVARIANTS
    TypeOK
    WriterFollowsOwner
    AcknowledgedIsApplied
    OnlyTheLimitRejects
    WriterBindingIsPolled
PROPERTIES
    RetiredStaysRetired
    EveryUpdateAcknowledged
    EveryPolledTextIsRead
CHECK_DEADLOCK FALSE
