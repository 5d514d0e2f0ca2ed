CONSTANTS
    None = None
    text = text
    note = note
    ack = ack
    s1 = s1
    s2 = s2
    s3 = s3
    p1 = p1
    p2 = p2
    p3 = p3
    Texts = {text}
    Inbound = {note}
    Ack <- AckOfNote
    Rank <- TextFirst
    Stores = {s1, s2, s3}
    Transports = {p1, p2, p3}
    Offered <- AllDifferent
    Locator = {s1, s2}
    OwnLocator = {s1, s2}
    Https = TRUE
    Targets = 3
    Required = 2
    Retry = 1
    MaxFaults = 1
SPECIFICATION MCFairSpec
INVARIANTS
    ExactMeansReplicated
    ReceiptsAreIndependent
    PlanBeforeDial
    DeletedOnlyAfterCommit
    RecordsMatchCopies
PROPERTIES
    EvidenceIsKept
    EveryCopyDeleted
    EveryUploadIsTriedOrEnds
