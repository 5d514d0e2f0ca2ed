CONSTANTS
    v1 = v1
    e1 = e1
    r1 = r1
    Absent = Absent
    Torn = Torn
    Empty = Empty
    Contents <- OneContent
    Events <- MCEvents
    Runtime <- MCRuntime
    DeletedBefore <- ByName
    MaxFaults = 2
SPECIFICATION Spec
INVARIANT
    CommittedNeverRolledBack
