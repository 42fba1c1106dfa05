SPECIFICATION Spec
CONSTANTS
    Process = {p1, p2}
    desktop = p1
    Channel = {c1, c2}
    HandleCount = 3
    StandardHandle = {0}
    FirstDynamic = 1
    SlotCount = 1
    console = console
    None = None
INVARIANTS RefsExact NoUseAfterFree NoLeak SlotsExact
CHECK_DEADLOCK FALSE
