SPECIFICATION Spec
CONSTANTS
    PageCount = 10
    MemoryMaps <- MCMaps
    BitmapPages = 2
    MaxRequest = 3
INVARIANTS BitmapExact FreeCountExact
