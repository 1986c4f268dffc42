CONSTANTS
    FileBlocks <- MCLongerFiles
    MAX_DOWNLOAD_WINDOW = 3
    BlocksPerSnap = 1
    ShortMax = 5
    MaxSpawns = 1
    MaxInFlight = 2
    MaxPending = 6
SPECIFICATION FairSpec
INVARIANTS  NextdlIsExpected UnrequestedIsEaten
 
