CONSTANTS
    BlockHeader = 1
    ArenaHeader = 1
    Minimum = 1
    PageUnits = 5
    InitialPages = 2
    MaxArenas = 2
    SizeMax = 15
    Requests = {1, 3, 9}
SPECIFICATION Spec
INVARIANTS HeapWellFormed AllocationsExact
