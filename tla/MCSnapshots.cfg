CONSTANTS
    PACKET_BACKUP = 4
    DeltaMargin = 1
    NumSnapshotEntities = 8
    MAX_PARSE_ENTITIES = 6
    ParseMargin = 3
    Worlds <- MCWorlds
    Others = {3}
    MaxMessages = 7
    MaxInFlight = 1
    MaxOther = 6
    MaxLevel = 2
SPECIFICATION Spec
INVARIANTS
    
    DeltaFromValidFrame
CHECK_DEADLOCK FALSE
