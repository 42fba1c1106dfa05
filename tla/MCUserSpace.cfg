CONSTANTS
    Process = {p1, p2, p3}
    None = none
    Files <- MCFiles
    PoolSizes = {3, 6, 9}
    PageSize = 2
    UserBase = 2
    UserTop = 12
    StackPages = 2
    FramebufferVa = 3
    FramebufferPages = 2
    MaxImagePages = 4
    SlotCount = 2
SPECIFICATION Spec
INVARIANTS FramesExact ImageAsDescribed OwnDataOnly FramebufferOwned
SYMMETRY Symmetry
CHECK_DEADLOCK FALSE
