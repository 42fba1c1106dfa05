CONSTANTS
    Kernel = kernel
    Process = {p1, p2}
    EntryCount = 4
    KernelFirst = 1
    PoolSizes = {3, 12}
    Boot <- MCBoot
    BootFrame <- MCBootFrame
    BootRoot = 51
    Data <- MCData
    KernelRuns <- MCKernelRuns
    UserRuns <- MCUserRuns
    Permanent <- MCPermanent
SPECIFICATION Spec
INVARIANT TablesExact
PROPERTY ImplementsVmm
SYMMETRY MCSymmetry
