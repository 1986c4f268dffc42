------------------------------- MODULE Votes --------------------------------
(***************************************************************************)
(* Votes of the players and the end of a level in the game module.  Votes  *)
(* of the whole server and of each team run beside one another, while      *)
(* players come, go and change sides; a vote that passes is a console      *)
(* command, executed a frame or more later.  At the time limit the level   *)
(* goes into an intermission, which ends when the players are ready and    *)
(* no vote runs.                                                           *)
(*                                                                         *)
(* One level, from its start to the command that ends it.  A frame is a    *)
(* second; the counters hold what the code computes from level.time.       *)
(***************************************************************************)
EXTENDS Integers, FiniteSets, SequencesExt

CONSTANTS
    Slots,              \* client numbers
    NoTeam, PlayTeams,  \* TEAM_NONE, also the whole server's; and the other teams
    Kinds,              \* the votes of voteInfo that are called
    MaxMoves,           \* how often clients connect or change sides, at most
    MaxCalls,           \* how many votes are called, at most
    VoteTime,           \* VOTE_TIME
    VoteDelay,          \* the 3000 of a map vote
    Percentage,         \* g_*VotesPercent
    QueueTime,          \* INTERMISSION_DELAY_TIME
    MinIntermission,    \* the 5000,
    MaxIntermission,    \* the 60000,
    ReadyTime           \* and the 30000 of CheckIntermissionExit

ASSUME TimesAssumption ==
    /\ {MaxMoves, MaxCalls, VoteTime, VoteDelay, QueueTime, MinIntermission,
        MaxIntermission, ReadyTime} \subseteq Nat
    /\ 0 < VoteTime /\ VoteTime < MaxIntermission /\ MinIntermission <= MaxIntermission
    /\ Percentage \in 1 .. 100

ASSUME KindsAssumption ==
    /\ Kinds \subseteq {"nextmap", "map", "spectate", "poll"}
    /\ NoTeam \notin PlayTeams
    /\ IsFiniteSet(PlayTeams)

ASSUME SlotsAssumption == IsFiniteSet(Slots)

VARIABLES
    level,      \* level_locals_t
    console,    \* commands sent to the console and not executed yet
    moves,      \* how often clients have connected or changed sides
    calls       \* how many votes have been called

vars == <<level, console, moves, calls>>

Teams == PlayTeams \cup {NoTeam}

\* voteInfo.
StopOnIntermission(kind) == kind = "map"
NeedsQuorum(kind) == kind \in {"map", "spectate"}
Delay(kind) == IF kind = "map" THEN VoteDelay ELSE 0
KindsOf(team) == Kinds \cap IF team = NoTeam THEN {"nextmap", "map", "spectate", "poll"}
                            ELSE {"spectate", "poll"}

\* A gclient_t of zeroes.
Absent == [connected |-> "no", team |-> NoTeam, voted |-> {}, voteYes |-> {}, voteNo |-> {},
           ready |-> FALSE]

NoCommand == [kind |-> "none", target |-> 0]

\* wait counts the frames until voteExecuteTime is past, -1 when that is zero.  command is the
\* voteString, as long as the code may look at it.  due is the command of the vote that
\* passed, which the code does not keep.
NoVote == [running |-> FALSE, age |-> 0, wait |-> -1, command |-> NoCommand,
           yes |-> 0, no |-> 0, voted |-> 0, due |-> NoCommand]

\* The level with everyone in it that has come over from the last one.
Init ==
    /\ level = [clients |-> [c \in Slots |-> [Absent EXCEPT !.connected = "connected"]],
                team |-> [t \in Teams |-> NoVote], phase |-> "play", since |-> 0,
                exit |-> -1, nextMap |-> FALSE, restarted |-> FALSE]
    /\ console = <<>>
    /\ moves = 0 /\ calls = 0

-----------------------------------------------------------------------------
(* What is computed of a level lv. *)

Here(lv, states) == { c \in Slots : lv.clients[c].connected \in states }

\* numPlayers as CalculateRanks leaves it.
NumPlayers(lv, team) ==
    Cardinality({ c \in Here(lv, {"connecting", "connected"}) :
        IF team = NoTeam THEN lv.clients[c].team = NoTeam \/ lv.clients[c].connected = "connected"
        ELSE lv.clients[c].team = team })

\* floor( powf( n, 0.6 ) )
Quorum(n) == CHOOSE k \in 0 .. n : k^5 <= n^3 /\ (k + 1)^5 > n^3

Running(lv) == { t \in Teams : lv.team[t].running }

\* G_Vote: a client's vote is counted, or, when it leaves, not any more.
\* Mutant: a client may vote twice.
MayCountAny(lv, c, t, voting) == TRUE

MayCount(lv, c, t, voting) == voting = (t \notin lv.clients[c].voted)

Change(n, yes, voting) == IF ~yes THEN n ELSE IF voting THEN n + 1 ELSE n - 1

Vote(lv, c, t, voting) ==
    LET cl == lv.clients[c] IN
    IF ~lv.team[t].running \/ ~MayCount(lv, c, t, voting) THEN lv
    ELSE [lv EXCEPT !.clients[c].voted = @ \cup {t},
                    !.team[t].voted = Change(@, TRUE, voting),
                    !.team[t].yes = Change(@, t \in cl.voteYes, voting),
                    !.team[t].no = Change(@, t \in cl.voteNo, voting)]

ResetVote(lv, t) ==
    [lv EXCEPT !.team[t] = [NoVote EXCEPT
                    !.wait = lv.team[t].wait, !.due = lv.team[t].due,
                    !.command = IF lv.team[t].wait = -1 THEN NoCommand ELSE lv.team[t].command],
               !.clients = [c \in Slots |-> [lv.clients[c] EXCEPT
                    !.voted = @ \ {t}, !.voteYes = @ \ {t}, !.voteNo = @ \ {t}]]]

\* G_ExecuteVote; the command itself goes to the console.
ExecuteVote(lv, t) ==
    [lv EXCEPT !.team[t] = [@ EXCEPT !.wait = -1, !.command = NoCommand, !.due = NoCommand],
               !.restarted = @ \/ lv.team[t].command.kind = "map"]

-----------------------------------------------------------------------------
(* The end of a vote. *)

\* yes / (yes + no) of floats; a count may be negative.
Share(yes, no) ==
    CASE yes + no > 0 -> 100 * yes > Percentage * (yes + no)
      [] yes + no = 0 -> yes > 0
      [] OTHER -> 100 * yes < Percentage * (yes + no)

Passes(v, n) ==
    IF v.age >= VoteTime \/ v.yes + v.no = n
    THEN v.yes # 0 /\ Share(v.yes, v.no)
    ELSE 100 * v.yes > Percentage * n

Undecided(v, n) ==
    /\ v.age < VoteTime /\ v.yes + v.no # n
    /\ 100 * v.yes <= Percentage * n
    /\ 100 * v.no <= (100 - Percentage) * n

\* G_CheckVote from where it looks whether a vote runs.
EndOfVote(lv, t, quorum) ==
    LET v == lv.team[t]
        n == NumPlayers(lv, t)
        reached == ~quorum \/ v.voted >= Quorum(n)
    IN  IF ~v.running \/ Undecided(v, n) THEN lv
        ELSE ResetVote(IF Passes(v, n) /\ reached
                       THEN [lv EXCEPT !.team[t] = [v EXCEPT !.wait = Delay(v.command.kind) + 1,
                                                             !.due = v.command]]
                       ELSE lv, t)

\* What G_CheckVote executes first.
Executes(lv, t) == lv.team[t].wait = 0

CheckVote(lv, t) ==
    EndOfVote(IF Executes(lv, t) THEN ExecuteVote(lv, t) ELSE lv, t,
              NeedsQuorum(lv.team[t].command.kind))

-----------------------------------------------------------------------------
(* The end of a level. *)

\* G_ClearVotes( false ): only the time of a vote is reset.
BeginIntermission(lv) ==
    [lv EXCEPT !.phase = "intermission", !.since = 0,
               !.team = [t \in Teams |-> [lv.team[t] EXCEPT
                    !.running = @ /\ ~StopOnIntermission(lv.team[t].command.kind)]]]

ExitLevel(lv) ==
    [lv EXCEPT !.phase = "over", !.since = 0, !.nextMap = FALSE, !.restarted = TRUE,
               !.clients = [c \in Slots |-> [lv.clients[c] EXCEPT
                    !.connected = IF @ = "connected" THEN "connecting" ELSE @]]]

\* CheckIntermissionExit.
Ready(lv, ready) ==
    { c \in Here(lv, {"connected"}) : lv.clients[c].team # NoTeam /\ lv.clients[c].ready = ready }

MayExit(lv) == Running(lv) = {} /\ lv.since >= MinIntermission

CheckIntermissionExit(lv) ==
    IF Here(lv, {"connecting", "connected"}) = {} /\ Running(lv) = {} THEN ExitLevel(lv)
    ELSE IF ~MayExit(lv) THEN lv
    ELSE IF lv.since > MaxIntermission THEN ExitLevel(lv)
    ELSE CASE Ready(lv, TRUE) = {} /\ Ready(lv, FALSE) # {} -> [lv EXCEPT !.exit = -1]
           [] Ready(lv, FALSE) = {} -> ExitLevel(lv)
           [] Ready(lv, TRUE) # {} /\ Ready(lv, FALSE) # {} ->
                IF lv.exit = -1 THEN [lv EXCEPT !.exit = 0]
                ELSE IF lv.exit < ReadyTime THEN lv ELSE ExitLevel(lv)

\* hit: the time limit is hit now, which puts LogExit into intermissionQueued.
CheckExitRules(lv, hit) ==
    CASE lv.phase = "intermission" -> CheckIntermissionExit(lv)
      [] lv.phase = "queued" /\ lv.since >= QueueTime -> BeginIntermission(lv)
      [] lv.phase = "play" /\ hit -> [lv EXCEPT !.phase = "queued", !.since = 0]
      [] OTHER -> lv

-----------------------------------------------------------------------------
(* G_RunFrame *)

Aged(lv) ==
    [lv EXCEPT !.since = IF lv.phase # "play" /\ @ <= MaxIntermission THEN @ + 1 ELSE @,
               !.exit = IF @ \in 0 .. ReadyTime - 1 THEN @ + 1 ELSE @,
               !.team = [t \in Teams |-> [lv.team[t] EXCEPT
                    !.age = IF lv.team[t].running THEN @ + 1 ELSE @,
                    !.wait = IF @ > 0 THEN @ - 1 ELSE @]]]

\* The map that ExitLevel goes to.
ExitCommand(lv) ==
    IF lv.phase = "over" THEN <<>>
    ELSE <<[kind |-> IF lv.nextMap THEN "exit to the voted map" ELSE "exit", target |-> 0]>>

\* Votes are checked after the exit rules.  Checking that of one team changes nothing that
\* checking another's looks at.
CheckVotes(lv) ==
    LET checked == [t \in Teams |-> CheckVote(lv, t)]
    IN  [lv EXCEPT !.team = [t \in Teams |-> checked[t].team[t]],
                   !.restarted = \E t \in Teams : checked[t].restarted,
                   !.clients = [c \in Slots |-> [lv.clients[c] EXCEPT
                        !.voted = { t \in @ : t \in checked[t].clients[c].voted },
                        !.voteYes = { t \in @ : t \in checked[t].clients[c].voteYes },
                        !.voteNo = { t \in @ : t \in checked[t].clients[c].voteNo }]]]

\* What they send to the console: that of the whole server is the first.
Commands(lv) ==
    LET others == SetToSeq({ t \in PlayTeams : Executes(lv, t) })
    IN  (IF Executes(lv, NoTeam) THEN <<lv.team[NoTeam].command>> ELSE <<>>)
        \o [i \in DOMAIN others |-> lv.team[others[i]].command]

Frame ==
    /\ ~level.restarted
    /\ \E hit \in BOOLEAN :
        LET aged == Aged(level)
            lv == CheckExitRules(aged, hit)
        IN  /\ level' = CheckVotes(lv)
            /\ console' = (IF lv.phase = "over" THEN ExitCommand(aged) ELSE <<>>) \o Commands(lv)
    /\ UNCHANGED <<moves, calls>>

-----------------------------------------------------------------------------
(* What clients do between frames.  CalculateRanks looks at the exit rules too. *)

Ranked(lv) ==
    LET after == CheckExitRules(lv, FALSE)
    IN  /\ level' = after
        /\ console' = console \o IF after.phase = "over" THEN ExitCommand(lv) ELSE <<>>

In(c) == level.clients[c].connected = "connected"

ClientConnect(c) ==
    /\ moves < MaxMoves /\ level.clients[c].connected = "no"
    /\ moves' = moves + 1 /\ UNCHANGED calls
    /\ Ranked([level EXCEPT !.clients[c] = [Absent EXCEPT !.connected = "connecting"]])

ClientBegin(c) ==
    /\ level.clients[c].connected = "connecting"
    /\ Ranked([level EXCEPT !.clients[c].connected = "connected"])
    /\ UNCHANGED <<moves, calls>>

LeaveTeam(lv, c) ==
    IF lv.clients[c].team = NoTeam THEN lv ELSE Vote(lv, c, lv.clients[c].team, FALSE)

\* Mutant: the vote of a client that goes is left in the count.
LeaveVoteAlone(lv, c) == LeaveTeam(lv, c)

LeaveVotes(lv, c) == Vote(LeaveTeam(lv, c), c, NoTeam, FALSE)

\* The rest of the gclient_t is not looked at before ClientConnect clears it.
ClientDisconnect(c) ==
    /\ level.clients[c].connected # "no"
    /\ Ranked([LeaveVotes(level, c) EXCEPT !.clients[c] = Absent])
    /\ UNCHANGED <<moves, calls>>

ChangedTeam(lv, c, t) == [LeaveTeam(lv, c) EXCEPT !.clients[c].team = t]

Cmd_Team_f(c, t) ==
    /\ In(c) /\ level.phase # "intermission" /\ level.clients[c].team # t
    /\ moves < MaxMoves /\ moves' = moves + 1 /\ UNCHANGED calls
    /\ Ranked(ChangedTeam(level, c, t))

\* ClientIntermissionThink; a spectator's readiness is not asked for.
ClientIsReady(c) ==
    /\ In(c) /\ level.phase = "intermission" /\ level.clients[c].team # NoTeam
    /\ ~level.clients[c].ready
    /\ level' = [level EXCEPT !.clients[c].ready = TRUE]
    /\ UNCHANGED <<console, moves, calls>>

\* Cmd_CallVote_f.  A vote that has passed and waits is executed before.
\* Mutant: it is not.
NotExecuted(lv, t) == lv

ExecutedEarly(lv, t) == IF lv.team[t].wait = -1 THEN lv ELSE ExecuteVote(lv, t)

\* Commands that are not valid during the intermission (ClientCommand).
\* Mutant: calling a vote is.
CallableAlways == TRUE

Callable == level.phase # "intermission"

Targets(kind) == IF kind = "spectate" THEN Here(level, {"connecting", "connected"}) ELSE {0}

Called(lv, c, t, command) ==
    LET lv1 == [lv EXCEPT !.team[t] = [@ EXCEPT !.running = TRUE, !.command = command]]
    IN  IF command.kind = "poll" THEN lv1
        ELSE Vote([lv1 EXCEPT !.clients[c].voteYes = @ \cup {t}], c, t, TRUE)

Cmd_CallVote_f(c, t) ==
    /\ In(c) /\ t \in {NoTeam, level.clients[c].team}
    /\ Callable /\ ~level.team[t].running
    /\ calls < MaxCalls /\ calls' = calls + 1 /\ UNCHANGED moves
    /\ console' = console \o IF level.team[t].wait = -1 THEN <<>> ELSE <<level.team[t].command>>
    /\ \E kind \in KindsOf(t) : \E target \in Targets(kind) :
        LET lv == ResetVote(ExecutedEarly(level, t), t)
            refused == \/ kind = "nextmap" /\ level.nextMap
                       \/ target # 0 /\ t # NoTeam /\ level.clients[target].team # t
        IN  level' = IF refused THEN lv ELSE Called(lv, c, t, [kind |-> kind, target |-> target])

\* Cmd_Vote_f: yes, no, or anything else.
Cmd_Vote_f(c, t) ==
    /\ In(c) /\ t \in {NoTeam, level.clients[c].team}
    /\ level.team[t].running /\ MayCount(level, c, t, TRUE)
    /\ \E yes, no \in {{}, {t}} :
        /\ yes = {} \/ no = {}
        /\ level' = Vote([level EXCEPT !.clients[c].voteYes = @ \cup yes,
                                       !.clients[c].voteNo = @ \cup no], c, t, TRUE)
    /\ UNCHANGED <<console, moves, calls>>

\* G_admin_endvote: everyone has voted No, or Yes.
G_admin_endvote(t) ==
    /\ level.team[t].running
    /\ \E cancel \in BOOLEAN :
        level' = EndOfVote([level EXCEPT
            !.team[t].no = IF cancel THEN NumPlayers(level, t) ELSE 0,
            !.team[t].yes = IF cancel THEN 0 ELSE NumPlayers(level, t)], t, FALSE)
    /\ UNCHANGED <<console, moves, calls>>

\* The engine executes a command: a vote's, or the one of another level.
Console ==
    /\ console # <<>>
    /\ LET command == Head(console)
           c == command.target
       IN  CASE command.kind = "nextmap" ->
                    /\ level' = [level EXCEPT !.nextMap = TRUE]
                    /\ console' = Tail(console)
             [] command.kind = "spectate" /\ level.phase # "intermission"
                /\ level.clients[c].connected # "no" /\ level.clients[c].team # NoTeam ->
                    /\ level' = CheckExitRules(ChangedTeam(level, c, NoTeam), FALSE)
                    /\ console' = Tail(console)
             [] OTHER -> level' = level /\ console' = Tail(console)
    /\ UNCHANGED <<moves, calls>>

-----------------------------------------------------------------------------
ClientActs(c) ==
    \/ ClientConnect(c) \/ ClientBegin(c) \/ ClientDisconnect(c) \/ ClientIsReady(c)
    \/ \E t \in Teams : Cmd_Team_f(c, t) \/ Cmd_CallVote_f(c, t) \/ Cmd_Vote_f(c, t)

\* Once a command for another level is on its way, nothing said here can change.
Next ==
    \/ Frame
    \/ Console
    \/ ~level.restarted /\ (\E c \in Slots : ClientActs(c))
    \/ ~level.restarted /\ (\E t \in Teams : G_admin_endvote(t))

Spec == Init /\ [][Next]_vars

-----------------------------------------------------------------------------
(* Properties *)

\* The state is of its type.
TypeOK ==
    /\ level.phase \in {"play", "queued", "intermission", "over"}
    /\ level.since \in 0 .. MaxIntermission + 1
    /\ \A c \in Slots : level.clients[c].connected \in {"no", "connecting", "connected"}
    /\ \A t \in Teams : level.team[t].wait \in -1 .. VoteDelay + 1 /\ level.team[t].age \in 0 .. VoteTime

\* The clients of a team, or all, whose vote of that kind is cast.
Members(lv, t) ==
    { c \in Here(lv, {"connecting", "connected"}) : t \in {NoTeam, lv.clients[c].team} }

Yes(lv, t) == { c \in Members(lv, t) : t \in lv.clients[c].voted \cap lv.clients[c].voteYes }
No(lv, t) == { c \in Members(lv, t) : t \in lv.clients[c].voted \cap lv.clients[c].voteNo }

\* What is counted is what was said; by a team, of which some have left and come back, no more.
TallyOf(lv, t) ==
    LET yes == Cardinality(Yes(lv, t))
        no == Cardinality(No(lv, t))
    IN  /\ lv.team[t].yes <= yes /\ lv.team[t].no <= no
        /\ t = NoTeam => lv.team[t].yes = yes /\ lv.team[t].no = no

\* The counts of a vote of the server are those of the clients that are there and have
\* voted, through all comings and goings; the counts of a team's vote never have more.
TallyIsOfMembers ==
    \A t \in Teams : level.team[t].running => TallyOf(level, t)

\* What is going to be executed is what has passed, and what has passed is going to
\* be, whatever votes are called before its time has come.
DueIsWhatPassed ==
    \A t \in Teams : level.team[t].due =
        IF level.team[t].wait = -1 THEN NoCommand ELSE level.team[t].command

\* "never let intermission go on for over 1 minute" (CheckIntermissionExit), though no
\* exit is made while a vote runs.
NeverOverAMinute ==
    level.phase = "intermission" => level.since <= MaxIntermission

\* Expected, but not so: the counts of a team's vote are those of its members.  One that
\* has voted, left, come back and left again is taken off twice.
TeamTallyIsOfMembers ==
    \A t \in PlayTeams : level.team[t].running => level.team[t].yes = Cardinality(Yes(level, t))

\* Expected, but not so: the level exits to the map a vote has chosen.  Once the vote has
\* passed it does not run any more, and an exit in the next frame comes before its command.
ExitsToVotedMap ==
    \A i \in DOMAIN console : console[i].kind = "exit" =>
        \A j \in DOMAIN console : console[j].kind # "nextmap"
=============================================================================
