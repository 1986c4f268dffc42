\* Three clients, a team and those of none, with three comings and changes of team and two votes.
CONSTANTS
    Slots = {c1, c2, c3}
    NoTeam = "none"
    PlayTeams = {"q"}
    Kinds = {"nextmap", "map", "spectate"}
    MaxMoves = 3
    MaxCalls = 2
    VoteTime = 2
    VoteDelay = 1
    Percentage = 50
    QueueTime = 1
    MinIntermission = 1
    MaxIntermission = 3
    ReadyTime = 1
SPECIFICATION Spec
SYMMETRY Symmetry
INVARIANTS
    TallyIsOfMembers
    DueIsWhatPassed
    NeverOverAMinute
\* The last command may be that of another level.
CHECK_DEADLOCK FALSE
