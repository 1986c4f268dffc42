------------------------------- MODULE Levels -------------------------------
(***************************************************************************)
(* How the server takes a connected client from one level to the next: the *)
(* gamestate, its retransmission, SV_SpawnServer, SV_MapRestart_f, and the *)
(* server id by which both sides tell which gamestate a message is about.  *)
(*                                                                         *)
(* Messages travel as MessageChannel promises: some are lost, the others   *)
(* arrive in order and once.  Server commands travel as ReliableCommands   *)
(* promises: a message brings all that were added before it was sent.  The *)
(* only command kept is "cs" for CS_SYSTEMINFO, which carries sv_serverid, *)
(* so a command is a server id.                                            *)
(***************************************************************************)
EXTENDS Integers, Sequences, FiniteSets

CONSTANTS
    MaxSpawns, MaxRestarts,     \* bounds of the model: changes of level, and
    MaxInFlight,                \* messages on their way in one direction
    RestartAnytime              \* whether a level may be restarted before the
                                \* client has come into it

ASSUME ConstantsAssumption ==
    /\ MaxSpawns \in Nat /\ MaxRestarts \in Nat /\ MaxInFlight \in Nat \ {0}
    /\ RestartAnytime \in BOOLEAN

VARIABLES
    sv,         \* the server, and its client_t
    cl,         \* clientActive_t and clientConnection_t
    commands,   \* server commands added so far
    toServer, toClient,
    \* history: changes so far, the level of the client's gamestate, whether
    \* the client has got the gamestate sent last, and what went wrong: a move
    \* executed for another level, a gamestate sent again that was not dropped
    spawns, restarts, loaded, arrived, wrongLevel, needless

vars == <<sv, cl, commands, toServer, toClient,
          spawns, restarts, loaded, arrived, wrongLevel, needless>>
history == <<spawns, restarts, loaded, arrived, wrongLevel, needless>>

None == -1

\* Message numbers matter only in their order to gamestateMessageNum; they are
\* kept as BEFORE, AT or AFTER it.  It starts as -1, before all of them.
BEFORE == -1
AT == 0
AFTER == 1

Init ==
    /\ sv = [serverId |-> 1, restartedServerId |-> 1, systeminfo |-> 1,
             state |-> "CONNECTED"]
    /\ cl = [state |-> "CONNECTED", serverId |-> 0, serverMessageSequence |-> AFTER,
             serverCommandSequence |-> 0, lastExecutedServerCommand |-> 0,
             snap |-> None]
    /\ commands = <<>> /\ toServer = <<>> /\ toClient = <<>>
    /\ spawns = 0 /\ restarts = 0
    /\ loaded = 0 /\ arrived = TRUE /\ wrongLevel = FALSE /\ needless = FALSE

\* A message joins those in flight; when there are too many the oldest is lost.
Send(channel, m) ==
    IF Len(channel) < MaxInFlight THEN Append(channel, m)
                                  ELSE Append(Tail(channel), m)

After(channel, i) == SubSeq(channel, i + 1, Len(channel))

-----------------------------------------------------------------------------
(* Server.                                                                 *)

\* SV_SendClientGameState.  Every message number so far is before the new
\* gamestateMessageNum.
SV_SendClientGameState ==
    LET older(channel) == [i \in DOMAIN channel |-> [channel[i] EXCEPT !.number = BEFORE]]
    IN  /\ sv' = [sv EXCEPT !.state = "PRIMED"]
        /\ toClient' = Send(older(toClient),
                            [type |-> "gamestate", number |-> AT, commands |-> Len(commands),
                             serverId |-> sv.systeminfo, level |-> sv.restartedServerId])
        /\ toServer' = older(Tail(toServer))
        /\ cl' = [cl EXCEPT !.serverMessageSequence = BEFORE]
        /\ arrived' = FALSE

\* SV_UserMove: the first usercmd of a gamestate brings the client in.
SV_UserMove ==
    /\ sv' = [sv EXCEPT !.state = IF @ = "PRIMED" THEN "ACTIVE" ELSE @]
    /\ wrongLevel' = (wrongLevel \/ (sv'.state = "ACTIVE" /\ loaded # sv.restartedServerId))

FromBeforeRestart(m) ==
    sv.restartedServerId <= m.serverId /\ m.serverId < sv.serverId

\* Mutant: the gamestate is sent only once.
NeverDropped(m) == sv.state = "CONNECTED" /\ m.number = AFTER

\* Mutant: every message with another server id gets the gamestate.
AnyMessage(m) == TRUE

DroppedGamestate(m) == m.number = AFTER     \* messageAcknowledge > gamestateMessageNum

\* SV_ExecuteClientMessage, of the first message in flight.
SV_ExecuteClientMessage(m) ==
    \/ /\ m.serverId # sv.serverId /\ ~FromBeforeRestart(m) /\ DroppedGamestate(m)
       /\ SV_SendClientGameState
       /\ needless' = (needless \/ (sv.state # "CONNECTED" /\ arrived))
       /\ UNCHANGED <<commands, spawns, restarts, loaded, wrongLevel>>
    \/ /\ m.serverId # sv.serverId /\ (FromBeforeRestart(m) \/ ~DroppedGamestate(m))
       /\ toServer' = Tail(toServer)
       /\ UNCHANGED <<sv, cl, commands, toClient, history>>
    \/ /\ m.serverId = sv.serverId /\ m.move
       /\ SV_UserMove
       /\ toServer' = Tail(toServer)
       /\ UNCHANGED <<cl, commands, toClient, spawns, restarts, loaded, arrived, needless>>
    \/ /\ m.serverId = sv.serverId /\ ~m.move
       /\ toServer' = Tail(toServer)
       /\ UNCHANGED <<sv, cl, commands, toClient, history>>

ServerReceives == toServer # <<>> /\ SV_ExecuteClientMessage(Head(toServer))

\* SV_UpdateConfigStrings: CS_SYSTEMINFO goes to the clients with a gamestate.
SV_UpdateConfigStrings ==
    IF sv.systeminfo # sv.serverId /\ sv.state # "CONNECTED"
    THEN Append(commands, sv.serverId) ELSE commands

\* SV_Frame: a changed sv_serverid becomes the configstring CS_SYSTEMINFO; then the
\* client's next message is sent, a snapshot or, to a client not in the game, an
\* idle packet.
SV_Frame ==
    LET cs == SV_UpdateConfigStrings
    IN  /\ sv' = [sv EXCEPT !.systeminfo = sv.serverId]
        /\ commands' = cs
        /\ toClient' = Send(toClient,
                            [type |-> IF sv.state = "ACTIVE" THEN "snapshot" ELSE "idle",
                             number |-> AFTER, commands |-> Len(cs),
                             serverId |-> None, level |-> None])
        /\ UNCHANGED <<cl, toServer, history>>

\* Mutant: the client is left in the game, and the id left to SV_Frame.
SV_SpawnServerInPlace ==
    /\ spawns < MaxSpawns
    /\ sv' = [sv EXCEPT !.serverId = @ + 1, !.restartedServerId = sv.serverId + 1]
    /\ spawns' = spawns + 1
    /\ UNCHANGED <<cl, commands, toServer, toClient,
                   restarts, loaded, arrived, wrongLevel, needless>>

\* A new level: the client has to ask for its gamestate.
SV_SpawnServer ==
    /\ spawns < MaxSpawns
    /\ sv' = [serverId |-> sv.serverId + 1, restartedServerId |-> sv.serverId + 1,
              systeminfo |-> sv.serverId + 1, state |-> "CONNECTED"]
    /\ spawns' = spawns + 1
    /\ UNCHANGED <<cl, commands, toServer, toClient,
                   restarts, loaded, arrived, wrongLevel, needless>>

\* The same level from the start: everybody is in at once, without a gamestate.
SV_MapRestart_f ==
    /\ restarts < MaxRestarts
    /\ RestartAnytime \/ sv.state = "ACTIVE"
    /\ sv' = [sv EXCEPT !.serverId = @ + 1, !.state = "ACTIVE"]
    /\ restarts' = restarts + 1
    /\ UNCHANGED <<cl, commands, toServer, toClient,
                   spawns, loaded, arrived, wrongLevel, needless>>

-----------------------------------------------------------------------------
(* Client.                                                                 *)

\* CL_WritePacket; usercmds are there once the cgame runs.  Nothing is written
\* while it is loaded.
Packet(c) ==
    [serverId |-> c.serverId, number |-> c.serverMessageSequence,
     move |-> c.state \in {"PRIMED", "ACTIVE"}]

CL_WritePacket ==
    /\ cl.state # "LOADING"
    /\ toServer' = Send(toServer, Packet(cl))
    /\ UNCHANGED <<sv, cl, commands, toClient, history>>

\* CL_ParseGamestate forgets the old level.  The commands received so far stay
\* unexecuted.
CL_ParseGamestate(m) ==
    /\ cl' = [cl EXCEPT !.state = "LOADING", !.serverId = m.serverId,
                        !.serverMessageSequence = m.number,
                        !.serverCommandSequence = m.commands, !.snap = None]
    /\ loaded' = m.level
    /\ arrived' = (arrived \/ m.number = AT)

Latest(m) == IF m.commands > cl.serverCommandSequence
             THEN m.commands ELSE cl.serverCommandSequence

\* CL_ParseServerMessage, of the i-th message in flight; those before are lost.
ClientReceives(i) ==
    LET m == toClient[i]
    IN  /\ toClient' = After(toClient, i)
        /\ \/ m.type = "gamestate" /\ CL_ParseGamestate(m)
           \/ /\ m.type # "gamestate"
              /\ cl' = [cl EXCEPT !.serverMessageSequence = m.number,
                                  !.serverCommandSequence = Latest(m),
                                  !.snap = IF m.type = "snapshot" THEN Latest(m) ELSE @]
              /\ UNCHANGED <<loaded, arrived>>
        /\ UNCHANGED <<sv, commands, toServer, spawns, restarts, wrongLevel, needless>>

\* CL_DownloadsComplete, with nothing to download: the cgame is loaded and a packet
\* written.
CL_InitCGame ==
    /\ cl.state = "LOADING"
    /\ cl' = [cl EXCEPT !.state = "PRIMED"]
    /\ toServer' = Send(toServer, Packet(cl'))
    /\ UNCHANGED <<sv, commands, toClient, history>>

\* CL_SystemInfoChanged: the server id after the commands up to the one numbered last.
CL_SystemInfoChanged(last) ==
    IF last > cl.lastExecutedServerCommand THEN commands[last] ELSE cl.serverId

\* CL_SetCGameTime: the first snapshot makes the client active.
CL_SetCGameTime == cl.state \in {"PRIMED", "ACTIVE"} /\ cl.snap # None

\* CL_GetSnapshot: cgame gets the commands that came before the snapshot.
CL_GetSnapshot ==
    /\ CL_SetCGameTime
    /\ LET last == cl.snap
       IN  cl' = [cl EXCEPT !.state = "ACTIVE", !.snap = None,
                            !.serverId = CL_SystemInfoChanged(last),
                            !.lastExecutedServerCommand = last]
    /\ UNCHANGED <<sv, commands, toServer, toClient, history>>

Next ==
    \/ ServerReceives
    \/ SV_Frame
    \/ SV_SpawnServer
    \/ SV_MapRestart_f
    \/ CL_WritePacket
    \/ \E i \in DOMAIN toClient : ClientReceives(i)
    \/ CL_InitCGame
    \/ CL_GetSnapshot

Spec == Init /\ [][Next]_vars

\* Both programs run frame after frame, the cgame gets loaded, and of the messages
\* of a kind sent over and over some arrive.  The level changes only as it will.
FairSpec ==
    /\ Spec
    /\ WF_vars(SV_Frame) /\ WF_vars(CL_WritePacket)
    /\ WF_vars(CL_InitCGame) /\ WF_vars(CL_GetSnapshot)
    /\ SF_vars(ServerReceives)
    /\ \A type \in {"gamestate", "snapshot", "idle"} :
          SF_vars(\E i \in DOMAIN toClient : toClient[i].type = type /\ ClientReceives(i))

-----------------------------------------------------------------------------
(* Properties.                                                             *)

Ids == 0 .. MaxSpawns + MaxRestarts + 1

TypeOK ==
    /\ sv \in [serverId : Ids, restartedServerId : Ids, systeminfo : Ids,
               state : {"CONNECTED", "PRIMED", "ACTIVE"}]
    /\ cl.state \in {"CONNECTED", "LOADING", "PRIMED", "ACTIVE"}
    /\ cl.serverId \in Ids /\ cl.serverMessageSequence \in {BEFORE, AT, AFTER}
    /\ cl.serverCommandSequence \in 0 .. Len(commands)
    /\ cl.lastExecutedServerCommand \in 0 .. cl.serverCommandSequence
    /\ cl.snap \in 0 .. cl.serverCommandSequence \cup {None}
    /\ commands \in Seq(Ids)
    /\ Len(toServer) <= MaxInFlight /\ Len(toClient) <= MaxInFlight
    /\ sv.restartedServerId <= sv.serverId
    /\ \A i, j \in DOMAIN toClient : i < j => toClient[i].number <= toClient[j].number

\* No usercmd is executed that was made for another level than the one running:
\* "if this is a usercmd from a previous gamestate, ignore it or retransmit the
\* current gamestate" (sv_client.cpp, SV_ExecuteClientMessage).  The server id has
\* to tell the levels apart through spawns, restarts, delay and loss.
UsercmdsFromCurrentLevel == ~wrongLevel

\* A gamestate is sent again only when the last one was lost: "if we can tell that
\* the client has dropped the last gamestate we sent them, resend it"
\* (SV_ExecuteClientMessage).  A client that got it is not made to load twice.
GamestateNeverResentNeedlessly == ~needless

\* What the code achieves of it.  A restart adds the command with its server id;
\* when a change of level follows, the client executes that command after it has
\* loaded the new level, and answers with the old id again.
GamestateResentOnlyIfDropped == restarts = 0 => ~needless

\* However levels changed and whatever was lost, when the changes end the client
\* comes into the level that is running and stays.
Playing == /\ sv.state = "ACTIVE" /\ cl.state = "ACTIVE"
           /\ cl.serverId = sv.serverId /\ loaded = sv.restartedServerId
AlwaysPlaying == <>[]Playing

\* What the code achieves of it: a client that was not set back by such a command
\* comes in.  One that was may stay out for good: the gamestate it gets again can
\* carry the id from before a second restart, whose messages are ignored because
\* "they just haven't caught the map_restart yet" (SV_ExecuteClientMessage), and
\* without a snapshot it never executes the command that would tell it.
EventuallyPlaying == <>[](Playing \/ needless)
=============================================================================
