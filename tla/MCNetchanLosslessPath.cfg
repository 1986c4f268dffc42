CONSTANTS
    FRAGMENT_SIZE = 2
    MAX_MSGLEN = 5
    Lengths = {1, 3, 4, 5}
    Variants = 1
    Byte <- MCBytes
    Messages <- MCMessageSet
    MaxMessages = 3
SPECIFICATION PathSpec
PROPERTY EveryMessageArrives
CHECK_DEADLOCK FALSE
