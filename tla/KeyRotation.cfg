SPECIFICATION FairSpec
CONSTANTS
    A = A
    B = B
    MasterKey = MasterKey
    None = None
    Serial = {0, 1}
    MaxId = 7
    NetCap = 2
INVARIANTS
    LockStep
    Readable
    SlotKeepsKey
PROPERTIES
    ImplementsKeySlots
    NoKeyRollback RotationProgress
