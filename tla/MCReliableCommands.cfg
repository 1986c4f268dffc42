CONSTANTS
    MAX_RELIABLE_COMMANDS = 2
    MaxClientCommands = 3
    MaxServerCommands = 3
    MaxInFlight = 1
SPECIFICATION FairSpec
INVARIANTS
    ServerExecutesOnceInOrder
    CgameRunsOnceInOrder
    AcknowledgedIsReceived

    
    
