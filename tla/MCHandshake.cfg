SPECIFICATION Spec
CONSTANTS
    Me = me
    Others = {o1}
    MaxAttempts = 2
    MaxChallenges = 4
    MaxInFlight = 2
    Delay = 1
    RetransmitTimeout = 3
    ReconnectLimit = 3
    ZombieTime = 1
    ServerTimeout = 2
    ClientTimeout = 2
    Silence = 2
INVARIANTS ChallengeKept
PROPERTIES EstablishedIsNotRebuilt  HalfOpenEnds
CHECK_DEADLOCK FALSE
