SPECIFICATION RingSpec
CONSTANTS
    short = short
    long = long
    empty = empty
    oversized = oversized
    Message <- MCMessage
    Size <- MCSize
    MaxSize = 2
    RingCapacity = 3
INVARIANT RingConsistent
PROPERTY ImplementsChannel
