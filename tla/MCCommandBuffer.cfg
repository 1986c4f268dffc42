CONSTANTS
    Size = 24
    SIZE_T = 1000
    Lengths = {4, 5, 12, 13}
    Variants = {1, 2}
    Byte <- MCBytes
    Messages <- MCCommands
    MaxWritten = 4
SPECIFICATION FairSpec
INVARIANTS NeverIncomplete SafetyOffsetKept
PROPERTIES ImplementsStream FlushComesBack
CHECK_DEADLOCK FALSE
