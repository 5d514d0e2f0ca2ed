CONSTANTS
    v1 = v1
    e1 = e1
    r1 = r1
    Absent = Absent
    Torn = Torn
    Empty = Empty
    Contents <- OneContent
    Events <- None
    Runtime <- MCRuntime
    DeletedBefore <- PreparedFirst
    MaxFaults = 2
SPECIFICATION MCFairSpec
INVARIANTS
    CommittedNeverRolledBack
    RestoreNeverStopsHalfway
    RecoveredWhole
PROPERTIES
    ImplementsAtomicState
    JournalCleared
