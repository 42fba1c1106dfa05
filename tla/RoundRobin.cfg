CONSTANTS
    Thread = {t1, t2}
    boot_thread = boot
    Process = {p1}
    Kernel = kernel
    None = none
    SliceTicks = 2
    ReleaseFails = TRUE
SPECIFICATION RRSpec
INVARIANTS RunQueueExact CpuMatchesThread ReapedOnce ReferencesCounted 
PROPERTIES BoundedOvertaking ReadyThreadRuns ZombieIsReaped
