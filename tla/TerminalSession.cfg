SPECIFICATION FairSpec
CONSTANTS
    Capacity = 2
    LineCapacity = 2
    MaxOutput = 2
INVARIANTS OneCommandAtATime ViewConverges PromptAfterOutput
PROPERTIES PromptReturns SendsComplete
CHECK_DEADLOCK FALSE
