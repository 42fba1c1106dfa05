CONSTANTS
    RegionPages = 6
    MaxExtents = 2
    MaxRequest = 3
    Alignments = {1, 2}
    Thread = {t1, t2}
    Frame = {f1, f2, f3}
    None = none
    Shapes <- MCShapes
SPECIFICATION PagesSpec
INVARIANTS MappingsExact ReservationsOwned RegionPartitioned
PROPERTIES LossNeedsCrowd ImplementsRegion
SYMMETRY Symmetry
