----------------------------- MODULE Handshake -----------------------------
(***************************************************************************)
(* How a client and a server agree that there is a connection, without one *)
(* to agree over: getchallenge, challengeResponse, connect and             *)
(* connectResponse are out-of-band packets, which the network loses,       *)
(* repeats and reorders; and how each learns that the other one has gone.  *)
(*                                                                         *)
(* There is one client with a slot of its own (ClientSlots has the others, *)
(* who get which slot) and other addresses that use the table of           *)
(* challenges too.  Time passes in seconds; times are ages up to the       *)
(* largest one the code tells apart.  Sequenced packets have no numbers    *)
(* here: one the channel takes for too old is as good as lost.  They come  *)
(* at once or not at all, but for the last ones of a client that leaves.   *)
(***************************************************************************)
EXTENDS Integers, FiniteSetsExt

CONSTANTS
    Me,                 \* the client's address
    Others,             \* other addresses that ask for challenges
    MaxAttempts,        \* how often the user connects, at most
    MaxChallenges,      \* MAX_CHALLENGES
    MaxInFlight,        \* how many packets are on their way, at most
    Delay,              \* how old a packet may get before it arrives
    RetransmitTimeout,  \* RETRANSMIT_TIMEOUT
    ReconnectLimit,     \* sv_reconnectlimit
    ZombieTime,         \* sv_zombietime
    ServerTimeout,      \* sv_timeout
    ClientTimeout,      \* cl_timeout
    Silence             \* the three seconds of CL_DisconnectPacket

ASSUME TimesAssumption ==
    /\ {Delay, RetransmitTimeout, ReconnectLimit, ZombieTime,
        ServerTimeout, ClientTimeout, Silence} \subseteq Nat
    /\ ZombieTime <= ServerTimeout /\ Silence <= ClientTimeout

ASSUME AddressAssumption ==
    /\ Me \notin Others /\ 0 \notin Others \cup {Me}
    /\ {MaxChallenges, MaxAttempts, MaxInFlight} \subseteq Nat /\ MaxChallenges > 0

VARIABLES
    client,         \* cls.state and clc
    slot,           \* the client's client_t in svs.clients
    challenges,     \* svs.challenges
    net,            \* packets on their way, which may arrive again and again
    attempts        \* how often the user has connected

vars == <<client, slot, challenges, net, attempts>>

Entries == 0 .. MaxChallenges - 1

\* clc after CL_Disconnect has wiped it: no packet for as long as one can tell.
Wiped(state) == [state |-> state, challenge |-> 0,
                 connectTime |-> RetransmitTimeout, lastPacket |-> ClientTimeout + 1]

\* A client_t of zeroes.
Zeroed == [state |-> "FREE", lastConnect |-> ReconnectLimit, lastPacket |-> ServerTimeout + 1]

Init ==
    /\ client = Wiped("DISCONNECTED")
    /\ slot = Zeroed
    /\ challenges = [i \in Entries |-> [adr |-> 0, challenge |-> 0, time |-> 0, connected |-> FALSE]]
    /\ net = {}
    /\ attempts = 0

-----------------------------------------------------------------------------
\* Packets.  "quit" is a sequenced packet with the command of CL_SendDisconnect.
Packet(kind, n) == [kind |-> kind, challenge |-> n, age |-> 0]

Arrives(kind, n) == \E p \in net : p.kind = kind /\ p.challenge = n

\* There is room for MaxInFlight of them; the one sent first is lost then.
Send(ps) ==
    net' = ps \cup
        IF Cardinality(net \cup ps) <= MaxInFlight THEN net
        ELSE net \ {CHOOSE p \in net : \A q \in net : q.age <= p.age}

-----------------------------------------------------------------------------
(* The table of challenges. *)

First(S) == CHOOSE i \in S : \A j \in S : i <= j

Of(adr) == { i \in Entries : challenges[i].adr = adr }

Oldest == First({ i \in Entries : \A j \in Entries : challenges[i].time <= challenges[j].time })

\* rand(): a number that is nowhere else.
Random ==
    LET used == { challenges[i].challenge : i \in Entries } \cup { p.challenge : p \in net }
                \cup {client.challenge}
    IN  First((1 .. Cardinality(used) + 1) \ used)

\* The times of the entries as ranks, which is all that is asked of them.
Ranked(table) ==
    [i \in Entries |->
        [table[i] EXCEPT !.time = Cardinality({ table[j].time : j \in Entries } \cap (0 .. @ - 1))]]

NewEntry(adr) ==
    [adr |-> adr, challenge |-> IF adr = Me THEN Random ELSE 0,
     time |-> MaxChallenges + 1, connected |-> FALSE]

\* Entries a getchallenge is answered from again.
\* Mutant: every request gets an entry of its own.
NeverPending(adr) == {}

Pending(adr) == { i \in Of(adr) : ~challenges[i].connected }

\* The entry SV_GetChallenge uses, and the table it leaves.
EntryFor(adr) == IF Pending(adr) # {} THEN First(Pending(adr)) ELSE Oldest

TableFor(adr) ==
    IF Pending(adr) # {} THEN challenges
    ELSE Ranked([challenges EXCEPT ![Oldest] = NewEntry(adr)])

\* SV_FreeClient: the first entry with the address, whichever the client has used.
Released(adr) ==
    IF Of(adr) = {} THEN challenges
    ELSE [challenges EXCEPT ![First(Of(adr))].connected = FALSE]

-----------------------------------------------------------------------------
(* The client. *)

\* CL_SendDisconnect.
LastWords == IF client.state = "CONNECTED" THEN {Packet("quit", 0)} ELSE {}

\* CL_Disconnect, by the user or an error.
CL_Disconnect ==
    /\ client' = Wiped("DISCONNECTED")
    /\ Send(LastWords)

\* Fairness is stated of what the programs do by themselves, not of this.
CL_Disconnect_f ==
    /\ client.state # "DISCONNECTED"
    /\ CL_Disconnect
    /\ UNCHANGED <<slot, challenges, attempts>>

CL_Connect_f ==
    /\ attempts < MaxAttempts
    /\ attempts' = attempts + 1
    /\ client' = Wiped("CONNECTING")
    /\ Send(LastWords)
    /\ UNCHANGED <<slot, challenges>>

CL_CheckForResend ==
    /\ client.state \in {"CONNECTING", "CHALLENGING"}
    /\ client.connectTime >= RetransmitTimeout
    /\ client' = [client EXCEPT !.connectTime = 0]
    /\ Send(IF client.state = "CONNECTING" THEN {Packet("getchallenge", 0)}
            ELSE {Packet("connect", client.challenge)})
    /\ UNCHANGED <<slot, challenges, attempts>>

\* Six frames after cl_timeout.
CL_CheckTimeout ==
    /\ client.state = "CONNECTED"
    /\ client.lastPacket > ClientTimeout
    /\ CL_Disconnect
    /\ UNCHANGED <<slot, challenges, attempts>>

-----------------------------------------------------------------------------
(* CL_PacketEvent.  In state DISCONNECTED nothing comes of a packet. *)

\* Mutant: every packet counts, as it once did.
HeardAnything(p) == [client EXCEPT !.lastPacket = 0]

\* Only sequenced packets tell that the server is there.
Heard(p) ==
    IF p.kind \in {"packet", "dropped"} THEN [client EXCEPT !.lastPacket = 0] ELSE client

\* The state an answer is for.
Expected(kind) ==
    CASE kind = "challengeResponse" -> {"CONNECTING"}
      [] kind = "connectResponse" -> {"CHALLENGING"}
      [] kind = "disconnect" -> {"CONNECTED"}     \* the channel has an address
      [] OTHER -> {"CONNECTING", "CHALLENGING", "CONNECTED"}

\* What the packet p makes of the client cl.  Once it is connected, its challenge
\* and the time of its last request are not looked at any more.
Answered(cl, p) ==
    CASE p.kind = "challengeResponse" ->
            [cl EXCEPT !.state = "CHALLENGING", !.challenge = p.challenge,
                       !.connectTime = RetransmitTimeout]
      [] p.kind = "connectResponse" -> [Wiped("CONNECTED") EXCEPT !.lastPacket = cl.lastPacket]
      [] OTHER -> cl

\* The packets that end the connection: CL_DisconnectPacket, an [err_dialog], and
\* the disconnect command, which takes a running cgame to be executed.
Ends(cl, p) ==
    \/ p.kind = "disconnect" /\ cl.lastPacket >= Silence
    \/ p.kind = "err_dialog"
    \/ p.kind = "dropped" /\ cl.state = "CONNECTED"

Receives(p) ==
    /\ client.state \in Expected(p.kind)
    /\ \/ Ends(Heard(p), p) /\ CL_Disconnect
       \/ /\ ~Ends(Heard(p), p) \/ p.kind = "dropped"
          /\ client' = Answered(Heard(p), p)
          /\ UNCHANGED net
    /\ UNCHANGED <<slot, challenges, attempts>>

CL_PacketEvent(kind) == \E p \in net : p.kind = kind /\ Receives(p)

-----------------------------------------------------------------------------
(* The server. *)

SV_GetChallenge ==
    /\ Arrives("getchallenge", 0)
    /\ challenges' = TableFor(Me)
    /\ Send({Packet("challengeResponse", TableFor(Me)[EntryFor(Me)].challenge)})
    /\ UNCHANGED <<client, slot, attempts>>

\* Another address asks.
OtherAsks(o) ==
    /\ challenges' = TableFor(o)
    /\ UNCHANGED <<client, slot, net, attempts>>

\* Mutant: no limit.
NeverTooSoon == FALSE

\* "reconnect rejected: too soon", whatever the state of the slot.
TooSoon == slot.lastConnect < ReconnectLimit

ValidFor(n) == { i \in Of(Me) : challenges[i].challenge = n }

\* The answer to a connect that is accepted.
\* Mutant: only a new client is told.
AcceptedIfNew == IF slot.state = "FREE" THEN {Packet("connectResponse", 0)} ELSE {}

Accepted == {Packet("connectResponse", 0)}

SV_DirectConnect ==
    \E p \in net :
        /\ p.kind = "connect"
        /\ ~TooSoon
        /\ \/ /\ ValidFor(p.challenge) = {}
              /\ Send({Packet("err_dialog", 0)})
              /\ UNCHANGED <<slot, challenges>>
           \/ /\ ValidFor(p.challenge) # {}
              /\ challenges' = [challenges EXCEPT ![First(ValidFor(p.challenge))].connected = TRUE]
              /\ \/ /\ slot' = [Zeroed EXCEPT !.state = "CONNECTED", !.lastConnect = 0, !.lastPacket = 0]
                    /\ Send(Accepted)
                 \/ /\ slot' = Zeroed           \* the game denies it
                    /\ Send({Packet("err_dialog", 0)})
        /\ UNCHANGED <<client, attempts>>

\* SV_DropClient: by the game, an operator or the client itself.
Drop ==
    /\ slot.state = "CONNECTED"
    /\ slot' = [slot EXCEPT !.state = "ZOMBIE"]
    /\ challenges' = Released(Me)

SV_DropClient ==
    /\ Drop
    /\ UNCHANGED <<client, net, attempts>>

\* A sequenced packet of the connected client, and the last ones of one that goes.
SV_PacketEvent ==
    /\ client.state = "CONNECTED"
    /\ \/ /\ slot.state = "CONNECTED"
          /\ slot' = [slot EXCEPT !.lastPacket = 0]
          /\ UNCHANGED net
       \/ /\ slot.state = "FREE"
          /\ Send({Packet("disconnect", 0)})
          /\ UNCHANGED slot
    /\ UNCHANGED <<client, challenges, attempts>>

SV_PacketEventQuit ==
    /\ Arrives("quit", 0)
    /\ \/ Drop /\ UNCHANGED net
       \/ /\ slot.state = "FREE"
          /\ Send({Packet("disconnect", 0)})
          /\ UNCHANGED <<slot, challenges>>
    /\ UNCHANGED <<client, attempts>>

\* SV_SendClientMessages: a zombie is sent its "disconnect" command.
SV_SendClientMessages ==
    /\ slot.state # "FREE"
    /\ Receives(Packet(IF slot.state = "ZOMBIE" THEN "dropped" ELSE "packet", 0))

SV_CheckTimeouts ==
    /\ \/ /\ slot.state = "ZOMBIE" /\ slot.lastPacket > ZombieTime
          /\ slot' = [slot EXCEPT !.state = "FREE"]
          /\ UNCHANGED challenges
       \/ /\ slot.state = "CONNECTED" /\ slot.lastPacket > ServerTimeout
          /\ slot' = [slot EXCEPT !.state = "FREE"]
          /\ challenges' = Released(Me)
    /\ UNCHANGED <<client, net, attempts>>

-----------------------------------------------------------------------------
Older(age, oldest) == IF age < oldest THEN age + 1 ELSE oldest

\* A second passes.  What has been on its way for too long is lost.
Tick ==
    /\ client' = [client EXCEPT !.connectTime = Older(@, RetransmitTimeout),
                                !.lastPacket = Older(@, ClientTimeout + 1)]
    /\ slot' = [slot EXCEPT !.lastConnect = Older(@, ReconnectLimit),
                            !.lastPacket = Older(@, ServerTimeout + 1)]
    /\ net' = { [p EXCEPT !.age = @ + 1] : p \in { q \in net : q.age < Delay } }
    /\ UNCHANGED <<challenges, attempts>>

ServerKinds == {"challengeResponse", "connectResponse", "disconnect", "err_dialog"}

Next ==
    \/ CL_Connect_f \/ CL_Disconnect_f
    \/ CL_CheckForResend \/ CL_CheckTimeout
    \/ \E kind \in ServerKinds : CL_PacketEvent(kind)
    \/ SV_GetChallenge \/ SV_DirectConnect \/ SV_PacketEvent \/ SV_PacketEventQuit
    \/ SV_DropClient \/ SV_SendClientMessages \/ SV_CheckTimeouts
    \/ \E o \in Others : OtherAsks(o)
    \/ Tick

\* Both programs run their frames, and of packets sent over and over some arrive.
Fairness ==
    /\ WF_vars(Tick)
    /\ WF_vars(CL_CheckForResend)
    /\ SF_vars(SV_GetChallenge) /\ SF_vars(SV_DirectConnect) /\ SF_vars(SV_PacketEvent)
    /\ \A kind \in ServerKinds : SF_vars(CL_PacketEvent(kind))

Spec == Init /\ [][Next]_vars /\ Fairness

-----------------------------------------------------------------------------
(* Properties *)

\* The state is of its type.
TypeOK ==
    /\ client.state \in {"DISCONNECTED", "CONNECTING", "CHALLENGING", "CONNECTED"}
    /\ client.connectTime \in 0 .. RetransmitTimeout
    /\ client.lastPacket \in 0 .. ClientTimeout + 1
    /\ slot.state \in {"FREE", "CONNECTED", "ZOMBIE"}
    /\ slot.lastConnect \in 0 .. ReconnectLimit
    /\ slot.lastPacket \in 0 .. ServerTimeout + 1
    /\ \A i \in Entries : challenges[i].adr \in Others \cup {Me, 0}
    /\ \A p \in net : p.age \in 0 .. Delay

\* The table is not cycled out (server.h): while the client is connecting with a
\* challenge, the table holds it, however often others ask.  It takes an entry for
\* each other address, one for each attempt of the client, and one for a request of
\* the client that comes late.
ChallengeKept ==
    client.state = "CHALLENGING" => ValidFor(client.challenge) # {}

\* The server does not begin a connection anew (SV_DirectConnect, "reconnect") that
\* the client takes for established: a repeated connect is too soon as long as one
\* can come, with delays of less than half of sv_reconnectlimit.
Rebuilt == slot.lastConnect # 0 /\ slot'.lastConnect = 0

EstablishedIsNotRebuilt == [][client.state = "CONNECTED" => ~Rebuilt]_vars

\* A client that connects gets in, or is told that it will not.
AttemptEnds ==
    client.state \in {"CONNECTING", "CHALLENGING"} ~> client.state \in {"CONNECTED", "DISCONNECTED"}

\* A client that the server has forgotten finds out (CL_DisconnectPacket).
HalfOpenEnds ==
    (client.state = "CONNECTED" /\ slot.state = "FREE") ~> (client.state # "CONNECTED")

\* Expected, but not so: a client that gets in is not past cl_timeout already.  The
\* connection was wiped and out-of-band packets do not count, so that a first
\* sequenced packet that is six frames late ends it.
ConnectsFresh ==
    [][client.state = "CHALLENGING" /\ client'.state = "CONNECTED"
       => client'.lastPacket <= ClientTimeout]_vars

\* Expected, but not so: the "disconnect" that drops a client is of the connection
\* it drops.  Netchan_Setup begins every connection with the same numbers.
QuitIsOfThisConnection ==
    [][client.state = "CONNECTED" => ~(SV_PacketEventQuit /\ Drop)]_vars
=============================================================================
