CONSTANTS
    FRAGMENT_SIZE = 2
    MAX_MSGLEN = 7
    Lengths = {1, 2, 7}
    Variants = 1
    Byte <- MCBytes
    Messages <- MCMessageSet
    MaxMessages = 4
    MaxSubmitted = 4
SPECIFICATION SVSpec
INVARIANTS NoneForgotten InOrderUnlessCornered
PROPERTY ImplementsChannelThroughQueue
CHECK_DEADLOCK FALSE
