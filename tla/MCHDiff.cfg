SPECIFICATION Spec
CONSTANTS
    Base        = 4
    Patches13  <- ThePatches13
    Patches20  <- ThePatches20
    Olds       <- TheOlds
    PoolLen     = 2
    BufferLimit = 2
    IoLen       = 2
    MaxStep     = 9
    MaxCovers   = 2
INVARIANTS AppliedIsRight PoolIsClean
CHECK_DEADLOCK FALSE
