----------------------------- MODULE Downloads -----------------------------
(***************************************************************************)
(* How a client that has got its gamestate downloads the files it misses   *)
(* over the connection: the window of blocks the server fills, sends and   *)
(* sends again, the client's "nextdl" for each block, and the gamestate    *)
(* the client asks for with "donedl".                                      *)
(*                                                                         *)
(* Messages travel as MessageChannel promises: some are lost, the others   *)
(* arrive in order and once.  Commands travel as ReliableCommands promises:*)
(* a message brings all that were issued before it.  Redirection to a web  *)
(* server is left out (sv_wwwDownload 0).                                  *)
(***************************************************************************)
EXTENDS Integers, SequencesExt

CONSTANTS
    FileBlocks,             \* FileBlocks[f] is the length of file f in blocks
    MAX_DOWNLOAD_WINDOW,
    BlocksPerSnap,          \* what rate and snapshotMsec allow: blockspersnap
    ShortMax,               \* one more than the largest number of MSG_WriteShort
    MaxSpawns,              \* bounds of the model: changes of level,
    MaxInFlight,            \* messages on their way in one direction,
    MaxPending              \* commands the server has not got

ASSUME ConstantsAssumption ==
    /\ FileBlocks \in Seq(Nat) /\ FileBlocks # <<>>
    /\ MAX_DOWNLOAD_WINDOW \in Nat \ {0} /\ BlocksPerSnap \in Nat \ {0}
    /\ ShortMax \in Nat \ {0}
    /\ MaxSpawns \in Nat /\ MaxInFlight \in Nat \ {0} /\ MaxPending \in Nat \ {0}

VARIABLES
    sv,         \* client_t, and sv.serverId
    cl,         \* clientConnection_t and clientStatic_t
    disk,       \* disk[f] is what the client has stored as file f
    pending,    \* the client's commands the server has not executed
    toServer,   \* messages; upto tells how many of pending they bring
    toClient

vars == <<sv, cl, disk, pending, toServer, toClient>>

Files == DOMAIN FileBlocks
NoFile == 0
MISSING == <<"missing">>

\* A block: its file and place, and whether its size is zero.
Block(f, k) == [file |-> f, index |-> k, eof |-> k = FileBlocks[f]]
NeverRead == [file |-> NoFile, index |-> 0, eof |-> TRUE]

Content(f) == [k \in 1 .. FileBlocks[f] |-> Block(f, k - 1)]

\* Message numbers matter only in their order to gamestateMessageNum.
BEFORE == -1
AT == 0
AFTER == 1

\* The client has asked for the first file (CL_InitDownloads, CL_NextDownload).
Init ==
    /\ sv = [serverId |-> 1, state |-> "PRIMED", lastNextdl |-> FALSE,
             name |-> NoFile, open |-> FALSE, current |-> 0, clientBlock |-> 0, xmit |-> 0,
             blocks |-> [k \in 0 .. MAX_DOWNLOAD_WINDOW - 1 |-> NeverRead]]
    /\ cl = [state |-> "DOWNLOADING", serverId |-> 1, number |-> AT, file |-> 1,
             block |-> 0, open |-> FALSE, written |-> <<>>]
    /\ disk = [f \in Files |-> MISSING]
    /\ pending = <<[cmd |-> "download", arg |-> 1]>>
    /\ toServer = <<>> /\ toClient = <<>>

Min2(a, b) == IF a < b THEN a ELSE b

\* A message joins those in flight; when there are too many the oldest is lost.
Send(channel, m) ==
    IF Len(channel) < MaxInFlight THEN Append(channel, m)
                                  ELSE Append(Tail(channel), m)

After(channel, i) == SubSeq(channel, i + 1, Len(channel))

\* MSG_WriteShort and MSG_ReadShort.
Short(n) == ((n + ShortMax) % (2 * ShortMax)) - ShortMax

-----------------------------------------------------------------------------
(* Server.                                                                 *)

\* SV_WriteDownloadToClient, in its steps.  The file is opened, ...
Opened(s) ==
    IF s.open THEN s
    ELSE [s EXCEPT !.open = TRUE, !.current = 0, !.clientBlock = 0, !.xmit = 0]

\* ... the window filled with what remains of the file, and a block of size zero, ...
WindowEnd(s) == Min2(s.clientBlock + MAX_DOWNLOAD_WINDOW, FileBlocks[s.name] + 1)

Filled(s) ==
    LET end   == WindowEnd(s)
        at(i) == { k \in s.current .. end - 1 : k % MAX_DOWNLOAD_WINDOW = i }
    IN  [s EXCEPT !.current = end,
                  !.blocks = [i \in DOMAIN @ |->
                                IF at(i) = {} THEN @[i]
                                ELSE Block(s.name, CHOOSE k \in at(i) : TRUE)]]

\* ... and the next blocks sent; when all have been, from the start of the window
\* again, but only a second after the last.
\* Mutants: the window is never sent again; the file is, from the start.
StartOnce(s, late) == s.xmit

StartOver(s, late) == IF late /\ s.xmit = s.current THEN 0 ELSE s.xmit

Start(s, late) == IF late /\ s.xmit = s.current THEN s.clientBlock ELSE s.xmit

SentBlocks(s, start, n) ==
    [k \in 1 .. n |-> [number |-> Short(start + k - 1),
                       data   |-> s.blocks[(start + k - 1) % MAX_DOWNLOAD_WINDOW]]]

\* SV_SendClientIdle: a message, with blocks of the file the client asked for.
SV_SendClientIdle(late) ==
    LET s     == Filled(Opened(sv))
        start == Start(s, late)
        n     == Min2(BlocksPerSnap, s.current - start)
        m(bs) == [type |-> "idle", number |-> AFTER, serverId |-> 0, blocks |-> bs]
    IN  /\ \/ /\ sv.name # NoFile
              /\ sv' = [s EXCEPT !.xmit = start + n]
              /\ toClient' = Send(toClient, m(SentBlocks(s, start, n)))
           \/ /\ sv.name = NoFile
              /\ toClient' = Send(toClient, m(<<>>))
              /\ UNCHANGED sv
        /\ UNCHANGED <<cl, disk, pending, toServer>>

Closed(s) == [s EXCEPT !.name = NoFile, !.open = FALSE]

\* The commands of the client.  SV_NextDownload_f: the block the client should
\* have acknowledged next, or the end of the connection.
Expected(s, arg) == arg = s.clientBlock

SV_NextDownload_f(s, arg) ==
    IF ~Expected(s, arg) THEN [Closed(s) EXCEPT !.state = "ZOMBIE"]
    ELSE IF s.blocks[s.clientBlock % MAX_DOWNLOAD_WINDOW].eof THEN Closed(s)
    ELSE [s EXCEPT !.clientBlock = @ + 1]

\* SV_SendClientGameState, for SV_DoneDownload_f and for a client that seems to
\* have dropped its gamestate.  t is what a handler has changed so far: the server,
\* and whether it sent a gamestate.
WithGamestate(t) == [sv |-> [t.sv EXCEPT !.state = "PRIMED"], gamestate |-> TRUE]

Executed(t, c) ==
    LET done == CASE c.cmd = "download" -> [t EXCEPT !.sv = [Closed(@) EXCEPT !.name = c.arg]]
                  [] c.cmd = "nextdl"   -> [t EXCEPT !.sv = SV_NextDownload_f(@, c.arg)]
                  [] c.cmd = "stopdl"   -> [t EXCEPT !.sv = Closed(@)]
                  [] c.cmd = "donedl"   -> WithGamestate(t)
    IN  [done EXCEPT !.sv.lastNextdl = c.cmd = "nextdl"]

\* SV_ExecuteClientMessage of a client with the running level's gamestate, or in the
\* middle of a download; the commands after the end of the connection are not read.
ExecuteAll(cmds) ==
    FoldLeft(LAMBDA t, c : IF t.sv.state = "ZOMBIE" THEN t ELSE Executed(t, c),
             [sv |-> sv, gamestate |-> FALSE], cmds)

\* ... and of one with another gamestate, whose commands are skipped.
Skip(cmds) ==
    [sv |-> IF cmds = <<>> THEN sv
            ELSE [sv EXCEPT !.lastNextdl = Last(cmds).cmd = "nextdl"],
     gamestate |-> FALSE]

\* Mutant: a download is not looked after when the level changes.
OutdatedThoughDownloading(m) == m.serverId # sv.serverId

Outdated(m) == m.serverId # sv.serverId /\ sv.name = NoFile /\ ~sv.lastNextdl

Result(m, cmds) ==
    IF ~Outdated(m) THEN ExecuteAll(cmds)
    ELSE IF m.number = AFTER THEN WithGamestate(Skip(cmds))
    ELSE Skip(cmds)

SV_ExecuteClientMessage(m) ==
    LET r        == Result(m, SubSeq(pending, 1, m.upto))
        rest     == [i \in DOMAIN Tail(toServer) |->
                        [Tail(toServer)[i] EXCEPT !.upto = @ - m.upto]]
        older(q) == [i \in DOMAIN q |-> [q[i] EXCEPT !.number = BEFORE]]
    IN  /\ sv' = r.sv
        /\ pending' = After(pending, m.upto)
        /\ \/ /\ r.gamestate
              /\ toServer' = older(rest)
              /\ toClient' = Send(older(toClient),
                                  [type |-> "gamestate", number |-> AT,
                                   serverId |-> sv.serverId, blocks |-> <<>>])
              /\ cl' = [cl EXCEPT !.number = BEFORE]
           \/ ~r.gamestate /\ toServer' = rest /\ UNCHANGED <<toClient, cl>>
        /\ UNCHANGED disk

ServerReceives ==
    /\ toServer # <<>> /\ sv.state # "ZOMBIE"
    /\ SV_ExecuteClientMessage(Head(toServer))

\* SV_SpawnServer lets a download go on.
SV_SpawnServer ==
    /\ sv.serverId <= MaxSpawns /\ sv.state # "ZOMBIE"
    /\ sv' = [sv EXCEPT !.serverId = @ + 1, !.state = "CONNECTED"]
    /\ UNCHANGED <<cl, disk, pending, toServer, toClient>>

-----------------------------------------------------------------------------
(* Client.  t is what CL_ParseDownload has changed so far.                 *)

Packet(t) == [serverId |-> t.cl.serverId, number |-> t.cl.number, upto |-> Len(t.pending)]

Issue(t, c) == [t EXCEPT !.pending = Append(@, c)]

\* CL_WritePacket, twice.
Intentions(t) == [t EXCEPT !.toServer = Send(Send(@, Packet(t)), Packet(t))]

CL_BeginDownload(t, f) ==
    Issue([t EXCEPT !.cl.file = f, !.cl.block = 0], [cmd |-> "download", arg |-> f])

\* CL_DownloadsComplete, when something was downloaded, asks for a gamestate.
CL_DownloadsComplete(t) ==
    Issue([t EXCEPT !.cl.file = NoFile], [cmd |-> "donedl", arg |-> 0])

CL_NextDownload(t) ==
    LET next == t.cl.file + 1
    IN  IF next \in Files THEN CL_BeginDownload(t, next) ELSE CL_DownloadsComplete(t)

\* The end of a file: it gets its name.
FileEnds(t) ==
    LET file == t.cl.file
    IN  CL_NextDownload(Intentions(
            [t EXCEPT !.disk[file] = t.cl.written, !.cl.open = FALSE, !.cl.written = <<>>]))

\* A block is written and acknowledged.
Written(t, b) ==
    LET before == IF t.cl.open THEN t.cl.written ELSE <<>>
        u      == Issue([t EXCEPT !.cl.open = TRUE, !.cl.block = @ + 1,
                           !.cl.written = IF b.data.eof THEN before
                                          ELSE Append(before, b.data)],
                        [cmd |-> "nextdl", arg |-> t.cl.block])
    IN  IF b.data.eof THEN FileEnds(u) ELSE u

\* Mutant: any block is taken for the one expected.
AnyBlock(t, b) == TRUE

IsExpected(t, b) == b.number = t.cl.block

\* CL_ParseDownload.  A download nobody asked for is refused and eaten, but of
\* block 0 the size and the data stay in the message and are taken for messages:
\* an error, or by chance the end of the message.
CL_ParseDownload(t, b, error) ==
    IF t.garbled THEN t
    ELSE IF t.cl.file = NoFile
    THEN LET u == Issue(t, [cmd |-> "stopdl", arg |-> 0])
         IN  IF b.number # 0 THEN u
             ELSE [u EXCEPT !.garbled = TRUE, !.cl.state = IF error THEN "error" ELSE @]
    ELSE IF IsExpected(t, b) THEN Written(t, b) ELSE t

\* CL_InitDownloads asks for the files that are missing, or the client loads the
\* level.  A file half written stays open.
CL_InitDownloads(t) ==
    LET missing == { f \in Files : t.disk[f] = MISSING }
        first   == CHOOSE f \in missing : \A g \in missing : f <= g
    IN  IF missing = {} THEN [t EXCEPT !.cl.state = "LOADING"] ELSE CL_BeginDownload(t, first)

CL_ParseGamestate(t, m) == CL_InitDownloads([t EXCEPT !.cl.serverId = m.serverId])

\* CL_ParseServerMessage, of the i-th message in flight; those before are lost.
CL_ParseServerMessage(i, error) ==
    LET m == toClient[i]
        t == [cl |-> [cl EXCEPT !.number = m.number], disk |-> disk, pending |-> pending,
              toServer |-> toServer, garbled |-> FALSE]
        u == IF m.type = "gamestate" THEN CL_ParseGamestate(t, m)
             ELSE FoldLeft(LAMBDA v, b : CL_ParseDownload(v, b, error), t, m.blocks)
    IN  /\ cl.state = "DOWNLOADING" /\ Len(pending) < MaxPending
        /\ toClient' = After(toClient, i)
        /\ cl' = u.cl /\ disk' = u.disk /\ pending' = u.pending /\ toServer' = u.toServer
        /\ UNCHANGED sv

CL_WritePacket ==
    /\ cl.state = "DOWNLOADING"
    /\ toServer' = Send(toServer, Packet([cl |-> cl, pending |-> pending]))
    /\ UNCHANGED <<sv, cl, disk, pending, toClient>>

Next ==
    \/ \E late \in BOOLEAN : SV_SendClientIdle(late)
    \/ ServerReceives
    \/ SV_SpawnServer
    \/ \E i \in DOMAIN toClient, error \in BOOLEAN : CL_ParseServerMessage(i, error)
    \/ CL_WritePacket

Spec == Init /\ [][Next]_vars

\* Both programs run frame after frame, a second passes now and then, and of the
\* messages sent over and over, be it with a certain block, some arrive.
FairSpec ==
    /\ Spec
    /\ WF_vars(SV_SendClientIdle(TRUE)) /\ WF_vars(CL_WritePacket)
    /\ SF_vars(ServerReceives)
    /\ \A n \in 0 .. ShortMax :
          SF_vars(\E i \in DOMAIN toClient : /\ n \in { b.number : b \in ToSet(toClient[i].blocks) }
                                             /\ CL_ParseServerMessage(i, FALSE))
    /\ \A type \in {"idle", "gamestate"} :
          SF_vars(\E i \in DOMAIN toClient : /\ toClient[i].type = type
                                             /\ CL_ParseServerMessage(i, FALSE))
-----------------------------------------------------------------------------
Blocks == { Block(f, k) : f \in Files, k \in 0 .. ShortMax } \cup {NeverRead}

TypeOK ==
    /\ sv.state \in {"CONNECTED", "PRIMED", "ZOMBIE"} /\ sv.serverId \in 1 .. MaxSpawns + 1
    /\ sv.name \in Files \cup {NoFile} /\ sv.open \in BOOLEAN /\ sv.lastNextdl \in BOOLEAN
    /\ \A k \in DOMAIN sv.blocks : sv.blocks[k] \in Blocks
    /\ sv.open => /\ sv.name # NoFile
                  /\ sv.clientBlock <= sv.current
                  /\ sv.current - sv.clientBlock <= MAX_DOWNLOAD_WINDOW
                  /\ sv.xmit <= sv.current
    /\ cl.state \in {"DOWNLOADING", "LOADING", "error"} /\ cl.file \in Files \cup {NoFile}
    /\ cl.block \in 0 .. ShortMax /\ cl.number \in {BEFORE, AT, AFTER}
    /\ \A i \in DOMAIN toServer : toServer[i].upto \in 0 .. Len(pending)
    /\ \A i, j \in DOMAIN toServer : i < j => toServer[i].upto <= toServer[j].upto

\* A file the client has given its name is, block for block, the server's, however
\* many blocks and acknowledgements were lost and sent again and whichever file
\* the blocks in flight are of (SV_WriteDownloadToClient, CL_ParseDownload).
FilesIntact == \A f \in Files : disk[f] \in {MISSING, Content(f)}

\* "The argument will be the last acknowledged block from the client, it should be the
\* same as cl->downloadClientBlock" (sv_client.cpp, SV_NextDownload_f): no client is
\* dropped for a broken download.
NextdlIsExpected == sv.state # "ZOMBIE"

\* "Server sending download, but no download was requested ... Eat the packet anyway"
\* (cl_parse.cpp, CL_ParseDownload): a block that comes late does no harm.
UnrequestedIsEaten == cl.state # "error"

\* Every file the client asks for arrives, however often blocks and
\* acknowledgements are lost.
EveryFileArrives == <>(\A f \in Files : disk[f] # MISSING)

\* The gamestate "will be resent if the client acknowledges a later message but has the
\* wrong gamestate" (sv_client.cpp, SV_SendClientGameState): a client that has
\* downloaded all files gets the gamestate it asked for.
DroppedGamestateIsResent ==
    (\A f \in Files : disk[f] # MISSING) ~> cl.state # "DOWNLOADING"
=============================================================================
