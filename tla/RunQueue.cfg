CONSTANTS
    Thread = {t1, t2, t3, t4}
    boot_thread = boot
    NULL = null
SPECIFICATION QueueSpec
INVARIANT OneRing
PROPERTY ImplementsQueue
