-------------------------- MODULE ReliableCommands --------------------------
(***************************************************************************)
(* The two streams of reliable commands between one client and the server. *)
(* Each side numbers its commands, keeps the last MAX_RELIABLE_COMMANDS of *)
(* them in a ring, puts every command the other side has not acknowledged  *)
(* into every message, and acknowledges the other side's.                  *)
(*                                                                         *)
(* Messages travel as MessageChannel promises: some are lost, the others   *)
(* arrive whole, in order and once.  A command is the number it was issued *)
(* under, or DISCONNECT.                                                   *)
(***************************************************************************)
EXTENDS Integers, SequencesExt

CONSTANTS
    MAX_RELIABLE_COMMANDS,  \* size of the rings, a power of two
    MaxClientCommands,      \* bounds of the model: commands issued,
    MaxServerCommands,
    MaxInFlight             \* and messages on their way in one direction

ASSUME ConstantsAssumption ==
    /\ MAX_RELIABLE_COMMANDS \in Nat \ {0}
    /\ MaxClientCommands \in Nat
    /\ MaxServerCommands \in Nat
    /\ MaxInFlight \in Nat \ {0}

VARIABLES
    \* clientConnection_t clc; cl.state is what became of the connection,
    \* cl.snapshots the serverCommandNum of the snapshots cgame may still get
    cl,
    \* client_t
    sv,
    \* messages on their way
    toServer, toClient,
    \* history: commands SV_ExecuteClientCommand got, commands cgame got, and
    \* whether the client ever issued one with a full ring unacknowledged
    executed, ran, overran

vars == <<cl, sv, toServer, toClient, executed, ran, overran>>

DISCONNECT == 0
EMPTY == -1     \* a slot of the ring not written yet

Slot(n) == n % MAX_RELIABLE_COMMANDS
Slots == 0 .. MAX_RELIABLE_COMMANDS - 1

Init ==
    /\ cl = [state |-> "connected", reliableSequence |-> 0,
             reliableAcknowledge |-> 0, reliableCommands |-> [k \in Slots |-> EMPTY],
             serverCommandSequence |-> 0, serverCommands |-> [k \in Slots |-> EMPTY],
             snapshots |-> {}, lastExecutedServerCommand |-> 0]
    /\ sv = [state |-> "active", reliableSequence |-> 0,
             reliableAcknowledge |-> 0, reliableCommands |-> [k \in Slots |-> EMPTY],
             lastClientCommand |-> 0]
    /\ toServer = <<>> /\ toClient = <<>>
    /\ executed = <<>> /\ ran = <<>>
    /\ overran = FALSE

-----------------------------------------------------------------------------
\* Mutant: the last command is not written.
UnacknowledgedButLast(side) ==
    [i \in 1 .. side.reliableSequence - side.reliableAcknowledge - 1 |->
        LET n == side.reliableAcknowledge + i
        IN  [seq |-> n, cmd |-> side.reliableCommands[Slot(n)]]]

\* What both sides write into a message: every command not acknowledged.
Unacknowledged(side) ==
    [i \in 1 .. side.reliableSequence - side.reliableAcknowledge |->
        LET n == side.reliableAcknowledge + i
        IN  [seq |-> n, cmd |-> side.reliableCommands[Slot(n)]]]

\* Mutant: a ring full of unacknowledged commands is out of range already.
IllegibleEarly(side, ack) == ack <= side.reliableSequence - MAX_RELIABLE_COMMANDS

\* What both sides make of the acknowledgement in a message: one further back
\* than the ring is taken for all of it.
Illegible(side, ack) == ack < side.reliableSequence - MAX_RELIABLE_COMMANDS

TakenAck(side, ack) == IF Illegible(side, ack) THEN side.reliableSequence ELSE ack

\* A message joins those in flight; when there are too many the oldest is lost.
Send(channel, m) ==
    IF Len(channel) < MaxInFlight THEN Append(channel, m)
                                  ELSE Append(Tail(channel), m)

\* Messages before the i-th are lost, the i-th arrives.
After(channel, i) == SubSeq(channel, i + 1, Len(channel))

\* The commands of a message after the last one known.  They are numbered in a
\* row, so that all those before the first new one are old, and none after it.
Newer(cmds, last) ==
    LET new == { i \in DOMAIN cmds : cmds[i].seq > last }
    IN  IF new = {} THEN <<>> ELSE SubSeq(cmds, Min(new), Len(cmds))

Stored(side, cmd) ==
    [side EXCEPT !.reliableSequence = @ + 1,
                 !.reliableCommands[Slot(side.reliableSequence + 1)] = cmd]

-----------------------------------------------------------------------------
(* The server: SV_AddServerCommand and SV_DropClient call each other.      *)

Overflows(s) ==
    s.reliableSequence + 1 - s.reliableAcknowledge = MAX_RELIABLE_COMMANDS + 1

Numbered(s) == [s EXCEPT !.reliableSequence = @ + 1]

\* SV_DropClient on a client that is not a zombie.  The "disconnect" it adds may
\* itself overflow; SV_DropClient then returns at once and nothing is stored.
Dropped(s) ==
    LET z == [s EXCEPT !.state = "zombie"]
    IN  IF Overflows(z) THEN Numbered(z) ELSE Stored(z, DISCONNECT)

AddServerCommand(s, cmd) ==
    IF Overflows(s)
    THEN IF s.state = "zombie" THEN Numbered(s) ELSE Dropped(Numbered(s))
    ELSE Stored(s, cmd)

SV_AddServerCommand ==
    /\ sv.state = "active"
    /\ Overflows(sv) \/ sv.reliableSequence < MaxServerCommands
    /\ sv' = AddServerCommand(sv, sv.reliableSequence + 1)
    /\ UNCHANGED <<cl, toServer, toClient, executed, ran, overran>>

\* An operator or the game drops the client.
SV_DropClient ==
    /\ sv.state = "active"
    /\ sv' = Dropped(sv)
    /\ UNCHANGED <<cl, toServer, toClient, executed, ran, overran>>

\* A snapshot, also to a zombie: lastClientCommand and the pending commands.
SV_SendClientSnapshot ==
    /\ toClient' = Send(toClient, [ack |-> sv.lastClientCommand,
                                   cmds |-> Unacknowledged(sv)])
    /\ UNCHANGED <<cl, sv, toServer, executed, ran, overran>>

\* Mutant: the newest command is taken again.
NewCommandsAgain(m) == Newer(m.cmds, sv.lastClientCommand - 1)

\* SV_ClientCommand for each command of a message: old ones are skipped, a gap
\* drops the client, "disconnect" too and ends the message.
NewCommands(m) == Newer(m.cmds, sv.lastClientCommand)

UpToDisconnect(cmds) ==
    LET stops == { i \in DOMAIN cmds : cmds[i].cmd = DISCONNECT }
    IN  IF stops = {} THEN cmds
        ELSE SubSeq(cmds, 1, Min(stops))

ClientCommands(s, new) ==
    LET run  == UpToDisconnect(new)
        last == run[Len(run)]
        s1   == IF last.cmd = DISCONNECT THEN Dropped(s) ELSE s
    IN  [s1 EXCEPT !.lastClientCommand = last.seq]

Gap(new) == new # <<>> /\ new[1].seq > sv.lastClientCommand + 1

\* SV_ExecuteClientMessage, of a release build: the rest of an illegible message
\* is ignored.
SV_ExecuteClientMessage(m) ==
    LET acked == [sv EXCEPT !.reliableAcknowledge = TakenAck(sv, m.ack)]
        new   == IF Illegible(sv, m.ack) THEN <<>> ELSE NewCommands(m)
    IN  \/ /\ Gap(new)
           /\ sv' = Dropped(acked)
           /\ UNCHANGED executed
        \/ /\ ~Gap(new)
           /\ sv' = IF new = <<>> THEN acked ELSE ClientCommands(acked, new)
           /\ executed' = executed \o
                [i \in DOMAIN UpToDisconnect(new) |-> UpToDisconnect(new)[i].cmd]

\* SV_PacketEvent: messages of a zombie go no further than the channel.
ServerReceives(i) ==
    /\ toServer' = After(toServer, i)
    /\ \/ sv.state = "active" /\ SV_ExecuteClientMessage(toServer[i])
       \/ sv.state = "zombie" /\ UNCHANGED <<sv, executed>>
    /\ UNCHANGED <<cl, toClient, ran, overran>>

-----------------------------------------------------------------------------
(* The client.                                                             *)

\* The test of CL_AddReliableCommand, made before the command is numbered.
ClientOverflow == cl.reliableSequence - cl.reliableAcknowledge > MAX_RELIABLE_COMMANDS

Overruns == cl.reliableSequence - cl.reliableAcknowledge >= MAX_RELIABLE_COMMANDS

FromClient(c) ==
    [ack |-> c.serverCommandSequence, cmds |-> Unacknowledged(c)]

\* CL_Disconnect, called by the user and by the handler of every Com_Error:
\* queues "disconnect" and writes three packets.  The error CL_AddReliableCommand
\* may raise here is raised in the error handler, which ends the program.
Disconnected ==
    IF ClientOverflow
    THEN /\ cl' = [cl EXCEPT !.state = "fatal"]
         /\ UNCHANGED <<toServer, overran>>
    ELSE LET c == Stored(cl, DISCONNECT)
             m == FromClient(c)
         IN  /\ cl' = [c EXCEPT !.state = "disconnected"]
             /\ toServer' = Send(Send(Send(toServer, m), m), m)
             /\ overran' = (overran \/ Overruns)

CL_Disconnect ==
    /\ cl.state = "connected"
    /\ Disconnected
    /\ UNCHANGED <<sv, toClient, executed, ran>>

\* A full ring raises Com_Error, whose handler calls CL_Disconnect.
CL_AddReliableCommand ==
    /\ cl.state = "connected"
    /\ ClientOverflow \/ cl.reliableSequence < MaxClientCommands
    /\ \/ ClientOverflow /\ Disconnected
       \/ /\ ~ClientOverflow
          /\ cl' = Stored(cl, cl.reliableSequence + 1)
          /\ overran' = (overran \/ Overruns)
          /\ UNCHANGED toServer
    /\ UNCHANGED <<sv, toClient, executed, ran>>

CL_WritePacket ==
    /\ cl.state = "connected"
    /\ toServer' = Send(toServer, FromClient(cl))
    /\ UNCHANGED <<cl, sv, toClient, executed, ran, overran>>

\* The ring with commands put into it one after the other: a slot has the last
\* one that fell into it.
Filled(ring, cmds) ==
    [k \in Slots |->
        LET here == { i \in DOMAIN cmds : Slot(cmds[i].seq) = k }
        IN  IF here = {} THEN ring[k] ELSE cmds[Max(here)].cmd]

\* CL_ParseCommandString for each command of a message: those not seen before
\* go into the ring until cgame asks for them.
SavedCommands(m) ==
    LET new == Newer(m.cmds, cl.serverCommandSequence)
    IN  IF new = <<>> THEN cl
        ELSE [cl EXCEPT !.serverCommandSequence = new[Len(new)].seq,
                        !.serverCommands = Filled(@, new)]

\* CL_ParseServerMessage, then CL_ParseSnapshot: the snapshot remembers which
\* commands came before it.
CL_ParseServerMessage(m) ==
    LET c == SavedCommands(m)
    IN  cl' = [c EXCEPT !.reliableAcknowledge = TakenAck(cl, m.ack),
                        !.snapshots = @ \cup {c.serverCommandSequence}]

ClientReceives(i) ==
    /\ cl.state = "connected"
    /\ toClient' = After(toClient, i)
    /\ CL_ParseServerMessage(toClient[i])
    /\ UNCHANGED <<sv, toServer, executed, ran, overran>>

\* Mutant: the oldest slot, just overwritten, is still used.
CycledOutLate(start) == start < cl.serverCommandSequence - MAX_RELIABLE_COMMANDS

\* CL_GetSnapshot, for the next snapshot cgame wants: CL_FillServerCommands hands
\* over the commands up to it.  Commands the ring no longer holds, or a
\* "disconnect" among them, raise Com_Error.
CycledOut(start) == start <= cl.serverCommandSequence - MAX_RELIABLE_COMMANDS

Requested(n) ==
    [i \in 1 .. n - cl.lastExecutedServerCommand |->
        cl.serverCommands[Slot(cl.lastExecutedServerCommand + i)]]

CL_GetSnapshot(n) ==
    /\ cl.state = "connected"
    /\ \/ /\ \/ CycledOut(cl.lastExecutedServerCommand + 1)
             \/ DISCONNECT \in ToSet(Requested(n))
          /\ Disconnected
          /\ UNCHANGED ran
       \/ /\ ~CycledOut(cl.lastExecutedServerCommand + 1)
          /\ DISCONNECT \notin ToSet(Requested(n))
          /\ ran' = ran \o Requested(n)
          /\ cl' = [cl EXCEPT !.lastExecutedServerCommand = n,
                              !.snapshots = { k \in @ : k > n }]
          /\ UNCHANGED <<toServer, overran>>
    /\ UNCHANGED <<sv, toClient, executed>>

Next ==
    \/ SV_AddServerCommand
    \/ SV_DropClient
    \/ SV_SendClientSnapshot
    \/ \E i \in DOMAIN toServer : ServerReceives(i)
    \/ CL_Disconnect
    \/ CL_AddReliableCommand
    \/ CL_WritePacket
    \/ \E i \in DOMAIN toClient : ClientReceives(i)
    \/ \E n \in cl.snapshots : CL_GetSnapshot(n)

Spec == Init /\ [][Next]_vars

\* Both sides send as long as they are connected, cgame asks for snapshots every
\* frame, and a network that keeps being tried delivers now and then.
FairSpec ==
    /\ Spec
    /\ WF_vars(CL_WritePacket)
    /\ WF_vars(SV_SendClientSnapshot)
    /\ WF_vars(\E n \in cl.snapshots : CL_GetSnapshot(n))
    /\ SF_vars(\E i \in DOMAIN toServer : ServerReceives(i))
    /\ SF_vars(\E i \in DOMAIN toClient : ClientReceives(i))

-----------------------------------------------------------------------------
Commands == EMPTY .. MaxClientCommands + MaxServerCommands + 2

MessagesOn(channel) ==
    /\ Len(channel) <= MaxInFlight
    /\ \A i \in DOMAIN channel :
        /\ channel[i].ack \in Nat
        /\ channel[i].cmds \in Seq([seq : Nat \ {0}, cmd : Commands])

TypeOK ==
    /\ cl \in [state : {"connected", "disconnected", "fatal"},
               reliableSequence : Nat, reliableAcknowledge : Nat,
               reliableCommands : [Slots -> Commands],
               serverCommandSequence : Nat,
               serverCommands : [Slots -> Commands],
               snapshots : SUBSET (0 .. MaxServerCommands + 2),
               lastExecutedServerCommand : Nat]
    /\ sv \in [state : {"active", "zombie"}, reliableSequence : Nat,
               reliableAcknowledge : Nat,
               reliableCommands : [Slots -> Commands], lastClientCommand : Nat]
    /\ MessagesOn(toServer) /\ MessagesOn(toClient)
    /\ executed \in Seq(Commands) /\ ran \in Seq(Commands)
    /\ overran \in BOOLEAN
    /\ sv.state = "active" =>
        sv.reliableSequence - sv.reliableAcknowledge <= MAX_RELIABLE_COMMANDS
    /\ \A n \in cl.snapshots : n <= cl.serverCommandSequence

\* The numbers 1 .. Len(s) in order, the last one possibly a DISCONNECT instead.
InOrderUpToDisconnect(s) ==
    \A i \in DOMAIN s : s[i] = i \/ (i = Len(s) /\ s[i] = DISCONNECT)

\* As long as the client did not overrun its ring, the server executes each of
\* its commands exactly once and in the order they were issued, however many
\* messages are lost and repeated (CL_AddReliableCommand, SV_ClientCommand).
ServerExecutesOnceInOrder == ~overran => InOrderUpToDisconnect(executed)

\* As long as the server has not dropped it, cgame gets each server command
\* exactly once and in the order of SV_AddServerCommand, or none any more.
CgameRunsOnceInOrder ==
    sv.state = "active" =>
        /\ ran = [i \in 1 .. Len(ran) |-> i]
        /\ Len(ran) = cl.lastExecutedServerCommand

\* What one side has taken as acknowledged, the other side has; so the messages
\* sent from now on continue where the receiver stands.
AcknowledgedIsReceived ==
    /\ sv.state = "active" => sv.reliableAcknowledge <= cl.serverCommandSequence
    /\ ~overran => cl.reliableAcknowledge <= sv.lastClientCommand

\* Every command the client issues without overrunning its ring is executed in
\* the end, unless one of the two ends the connection: the server catches up with
\* the client again and again.
EveryClientCommandExecuted ==
    []<>(\/ Len(executed) >= cl.reliableSequence
         \/ overran \/ cl.state # "connected" \/ sv.state = "zombie")

\* Every command the server adds reaches cgame in the end, unless one of the two
\* ends the connection.
EveryServerCommandRuns ==
    []<>(\/ Len(ran) >= sv.reliableSequence
         \/ cl.state # "connected" \/ sv.state = "zombie")

\* "if we would be losing an old command that hasn't been acknowledged, we must
\* drop the connection" (cl_main.cpp, CL_AddReliableCommand): every command the
\* client still has to deliver is in its ring.
NoCommandLost ==
    cl.state = "connected" =>
        \A n \in cl.reliableAcknowledge + 1 .. cl.reliableSequence :
            cl.reliableCommands[Slot(n)] = n

\* "This is also called on Com_Error and Com_Quit, so it shouldn't cause any
\* errors" (cl_main.cpp, comment of CL_Disconnect).
DisconnectCausesNoError == cl.state # "fatal"

\* "zombie clients need full snaps so they can still process reliable commands
\* (eg so they can pick up the disconnect reason)" (sv_snapshot.cpp,
\* SV_SendClientSnapshot): one of the commands sent to a zombie is the
\* "disconnect" of SV_DropClient.
ZombieIsTold ==
    sv.state = "zombie" =>
        \E c \in ToSet(Unacknowledged(sv)) : c.cmd = DISCONNECT
=============================================================================
