CONSTANTS
    FRAGMENT_SIZE = 2
    MAX_MSGLEN = 5
    Lengths = {1, 3, 4, 5}
    Variants = 2
    Byte <- MCBytes
    Messages <- MCMessageSet
    MaxMessages = 3
SPECIFICATION FairSpec
INVARIANTS TypeOK DeliveredIntact DeliveredInOrder
PROPERTIES ImplementsChannel
CHECK_DEADLOCK FALSE
