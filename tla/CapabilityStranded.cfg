SPECIFICATION Spec
CONSTANTS
    t1 = t1
    Texts <- OneText
    None = None
    OwnerRoom = 5
    WriterRoom = 3
    OwnerSlots = 2
    WriterSlots = 2
    MaxFaults = 1
INVARIANT
    NoTextStranded
CHECK_DEADLOCK FALSE
