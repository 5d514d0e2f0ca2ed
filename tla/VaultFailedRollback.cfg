CONSTANTS
    c1 = c1
    c2 = c2
    e1 = e1
    e2 = e2
    id1 = id1
    id2 = id2
    Absent = Absent
    Key = Key
    Contents <- TwoContents
    Events <- TwoEvents
    Identity <- MCIdentity
    Faults <- FailingRollback
    MaxFaults = 1
    MaxGeneration = 2
SPECIFICATION Spec
INVARIANTS
    QuiescentVaultIsDurable
