CONSTANTS
    MaxSpawns = 2
    MaxRestarts = 2
    MaxInFlight = 2
    RestartAnytime = FALSE
SPECIFICATION FairSpec
INVARIANTS UsercmdsFromCurrentLevel 
PROPERTY EventuallyPlaying
