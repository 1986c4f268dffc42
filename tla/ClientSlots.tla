---------------------------- MODULE ClientSlots ----------------------------
(***************************************************************************)
(* The server's client slots (svs.clients) and who the game module (sgame) *)
(* believes to be in each of them: connecting, reconnecting, dropping,     *)
(* timing out, bots, and a change of map.                                  *)
(*                                                                         *)
(* All clients are behind one router, so their base address is the same    *)
(* and only the qport and the port tell them apart: those are the clients  *)
(* the server could confuse.  The client itself stands for its qport.      *)
(* Times are ages, counted in steps of the clock up to the longest age any *)
(* test of the code distinguishes.                                         *)
(***************************************************************************)
EXTENDS Integers, FiniteSetsExt

CONSTANTS
    MaxClients,         \* sv_maxclients: the slots are 0 .. MaxClients - 1
    Clients,            \* human clients
    Ports,              \* ports the router may give them
    RouterReassigns,    \* whether the router changes port assignments
    ReconnectLimit,     \* sv_reconnectlimit
    ZombieTime,         \* sv_zombietime
    Timeout,            \* sv_timeout
    BOT, Nobody         \* what a slot may hold instead of a client

ASSUME ConstantsAssumption ==
    /\ MaxClients \in Nat \ {0}
    /\ ReconnectLimit \in Nat /\ ZombieTime \in Nat /\ Timeout \in Nat
    /\ ReconnectLimit <= Timeout /\ ZombieTime <= Timeout
    /\ RouterReassigns \in BOOLEAN
    /\ BOT # Nobody /\ {BOT, Nobody} \cap Clients = {}
    /\ Cardinality(Clients) <= Cardinality(Ports)

VARIABLES
    clients,    \* svs.clients: slot -> client_t
    game,       \* level.clients: slot -> whom ClientConnect let in
    port,       \* the router: client -> port of its packets
    mistaken    \* history: a client has been given the slot of another one

vars == <<clients, game, port, mistaken>>

Slots == 0 .. MaxClients - 1
Oldest == Timeout + 1

\* The only value without client data: memset gives the address type NA_BOT.
Empty == [state |-> "FREE", who |-> BOT, port |-> Nobody,
          lastPacket |-> Oldest, lastConnect |-> ReconnectLimit]

Init ==
    /\ clients = [s \in Slots |-> Empty]
    /\ game = [s \in Slots |-> Nobody]
    /\ port \in { f \in [Clients -> Ports] : \A c, d \in Clients : c # d => f[c] # f[d] }
    /\ mistaken = FALSE

-----------------------------------------------------------------------------
InUse(s) == clients[s].state \in {"CONNECTED", "ACTIVE"}   \* >= CS_CONNECTED

IsBot(cl) == cl.who = BOT /\ cl.state = "ACTIVE"

Lowest(S) == CHOOSE s \in S : \A t \in S : s <= t

\* SV_DropClient, for the slots S: the game is told and the slot is a zombie.
\* It asks SV_IsBot only after the state has changed, so a bot becomes a zombie
\* like everybody else.
DropFrom(cls, S) ==
    [s \in Slots |-> IF s \in S /\ cls[s].state \in {"CONNECTED", "ACTIVE"}
                     THEN [cls[s] EXCEPT !.state = "ZOMBIE"]
                     ELSE cls[s]]

Disconnect(S) == [s \in Slots |-> IF s \in S THEN Nobody ELSE game[s]]

\* The game, an operator, or a "disconnect" of the client.
SV_DropClient(s) ==
    /\ InUse(s)
    /\ clients' = DropFrom(clients, {s})
    /\ game' = Disconnect({s})
    /\ UNCHANGED <<port, mistaken>>

-----------------------------------------------------------------------------
\* Whether slot s looks like client c to SV_DirectConnect.
SameClient(s, c) ==
    /\ clients[s].who \in Clients
    /\ clients[s].who = c \/ clients[s].port = port[c]

\* Mutant: zombies are passed over.
ReusableOnlyInUse(c) == { s \in Slots : InUse(s) /\ SameClient(s, c) }

Reusable(c) == { s \in Slots : clients[s].state # "FREE" /\ SameClient(s, c) }

Free == { s \in Slots : clients[s].state = "FREE" }

\* "reconnect rejected: too soon" looks at free slots too, and at the first
\* slot like this client only.
TooSoon(c) ==
    LET like == { s \in Slots : SameClient(s, c) }
    IN  like # {} /\ clients[Lowest(like)].lastConnect < ReconnectLimit

NewClient(c, state) ==
    [Empty EXCEPT !.state = state, !.who = c, !.port = port[c]]

\* ClientConnect has nothing against a slot it takes for connected already.
\* Otherwise it may refuse (ban, password, the same GUID elsewhere), before it has
\* noted anything.  It also refuses a malformed userinfo, after it has; these
\* clients do not send one.
MayRefuse(s) == game[s] = Nobody

\* ... or let the client in, and drop a lagging ghost with the same GUID.
Ghosts(s, c) == IF game[s] # Nobody THEN {} ELSE { t \in Slots \ {s} : game[t] = c }

\* GameClientConnect, and what follows; a refusal leaves the slot free.
Join(s, c) ==
    \/ /\ MayRefuse(s)
       /\ clients' = [clients EXCEPT ![s] = NewClient(c, "FREE")]
       /\ UNCHANGED game
    \/ LET accepted == [NewClient(c, "CONNECTED") EXCEPT !.lastPacket = 0, !.lastConnect = 0]
       IN  /\ clients' = [DropFrom(clients, Ghosts(s, c)) EXCEPT ![s] = accepted]
           /\ game' = [Disconnect(Ghosts(s, c)) EXCEPT ![s] = IF @ = Nobody THEN c ELSE @]

\* A "connect" with a valid challenge.
SV_DirectConnect(c) ==
    /\ ~TooSoon(c)
    /\ \/ /\ Reusable(c) # {}
          /\ Join(Lowest(Reusable(c)), c)
          /\ mistaken' = (mistaken \/ clients[Lowest(Reusable(c))].who # c)
       \/ /\ Reusable(c) = {} /\ Free # {}
          /\ Join(Lowest(Free), c)
          /\ UNCHANGED mistaken
    /\ UNCHANGED port

-----------------------------------------------------------------------------
\* Mutant: what a zombie sends keeps its slot alive.
HeardFromAnyone(cl) == TRUE

HeardFrom(cl) == cl.state # "ZOMBIE"

\* A sequenced packet of client c: a translated port is fixed up and, but for a
\* zombie, the packet executed, which may bring the client into the game.
SV_PacketEvent(c) ==
    LET from == { s \in Slots : clients[s].state # "FREE" /\ clients[s].who = c }
        s    == Lowest(from)
        cl   == [clients[s] EXCEPT !.port = port[c],
                                   !.lastPacket = IF HeardFrom(clients[s]) THEN 0 ELSE @]
    IN  /\ from # {}
        /\ \/ clients' = [clients EXCEPT ![s] = cl]
           \/ /\ cl.state = "CONNECTED"
              /\ clients' = [clients EXCEPT ![s] = [cl EXCEPT !.state = "ACTIVE"]]
        /\ UNCHANGED <<game, port, mistaken>>

\* The game adds a bot.  SV_BotAllocateClient leaves the rest of the slot as the
\* last client left it; slot 0 is for a human.
SV_BotAllocateClient ==
    /\ Free \ {0} # {}
    /\ LET s == Lowest(Free \ {0})
       IN  /\ clients' = [clients EXCEPT ![s].state = "ACTIVE", ![s].who = BOT,
                                         ![s].lastPacket = 0]
           /\ game' = [game EXCEPT ![s] = BOT]
    /\ UNCHANGED <<port, mistaken>>

\* The game asks for a bot's messages.
SV_BotGetConsoleMessage(s) ==
    /\ IsBot(clients[s])
    /\ clients' = [clients EXCEPT ![s].lastPacket = 0]
    /\ UNCHANGED <<game, port, mistaken>>

-----------------------------------------------------------------------------
Older(age, oldest) == IF age < oldest THEN age + 1 ELSE age

Aged(cl) == [cl EXCEPT !.lastPacket = Older(@, Oldest),
                       !.lastConnect = Older(@, ReconnectLimit)]

\* SV_CheckTimeouts: zombies not heard of for ZombieTime are freed; of the clients
\* not heard of for Timeout those are dropped, and their slots freed, for which
\* this is the sixth frame in a row.  The age of a free slot's last packet is not
\* asked for.
Freed(cls) ==
    [s \in Slots |-> IF cls[s].state = "ZOMBIE" /\ cls[s].lastPacket > ZombieTime
                     THEN [cls[s] EXCEPT !.state = "FREE", !.lastPacket = Oldest] ELSE cls[s]]

Overdue(cls) == { s \in Slots : /\ cls[s].state \in {"CONNECTED", "ACTIVE"}
                                /\ cls[s].lastPacket > Timeout }

\* Mutant: a client that timed out is freed without being dropped.
TimedOutSilently(s) == game[s]

TimedOut(s) == Nobody

\* The slots SV_SendClientMessages does not skip.
Addressed == { s \in Slots : clients[s].state # "FREE" /\ ~IsBot(clients[s]) }

\* SV_Frame, with or without a step of the clock.
SV_Frame(ticks) ==
    LET cls == [s \in Slots |-> IF ticks THEN Aged(clients[s]) ELSE clients[s]]
    IN  \E late \in SUBSET Overdue(cls) :
        /\ clients' = [s \in Slots |-> IF s \in late
                                       THEN [cls[s] EXCEPT !.state = "FREE"]
                                       ELSE Freed(cls)[s]]
        /\ game' = [s \in Slots |-> IF s \in late THEN TimedOut(s) ELSE game[s]]
        /\ UNCHANGED <<port, mistaken>>

Readmitted(cl, state) == IF IsBot(cl) THEN cl ELSE [cl EXCEPT !.state = state]

\* SV_SpawnServer and SV_MapRestart_f: a new game connects those in use again,
\* and those it denies are dropped.  Human clients are CONNECTED until they ask
\* for the new gamestate, or ACTIVE at once after a map_restart.
ChangeLevel(state) ==
    LET used == { s \in Slots : InUse(s) }
    IN  \E denied \in SUBSET used :
        /\ clients' = [s \in Slots |-> IF s \in used \ denied
                                       THEN Readmitted(clients[s], state)
                                       ELSE DropFrom(clients, denied)[s]]
        /\ game' = [s \in Slots |-> IF s \in used \ denied THEN clients[s].who ELSE Nobody]
        /\ UNCHANGED <<port, mistaken>>

SV_SpawnServer == ChangeLevel("CONNECTED")
SV_MapRestart_f == ChangeLevel("ACTIVE")

\* The router gives client c another port.
TranslatePort(c, p) ==
    /\ RouterReassigns
    /\ \A d \in Clients : port[d] # p
    /\ port' = [port EXCEPT ![c] = p]
    /\ UNCHANGED <<clients, game, mistaken>>

Next ==
    \/ \E s \in Slots : SV_DropClient(s) \/ SV_BotGetConsoleMessage(s)
    \/ \E c \in Clients : SV_DirectConnect(c) \/ SV_PacketEvent(c)
    \/ SV_BotAllocateClient
    \/ \E ticks \in BOOLEAN : SV_Frame(ticks)
    \/ SV_SpawnServer \/ SV_MapRestart_f
    \/ \E c \in Clients, p \in Ports : TranslatePort(c, p)

Spec == Init /\ [][Next]_vars

\* The clock of the server goes on.
FairSpec == Spec /\ WF_vars(SV_Frame(TRUE))

-----------------------------------------------------------------------------
TypeOK ==
    /\ clients \in [Slots -> [state : {"FREE", "ZOMBIE", "CONNECTED", "ACTIVE"},
                              who : Clients \cup {BOT}, port : Ports \cup {Nobody},
                              lastPacket : 0 .. Oldest, lastConnect : 0 .. ReconnectLimit]]
    /\ game \in [Slots -> Clients \cup {BOT, Nobody}]
    /\ port \in [Clients -> Ports] /\ mistaken \in BOOLEAN
    \* a bot never waits for a gamestate
    /\ \A s \in Slots : clients[s].who = BOT => clients[s].state # "CONNECTED"

\* A client is in one slot at most, so that its packets have one place to go,
\* whatever reconnects, refusals, drops, translated ports and changes of level come
\* in between, until SV_DirectConnect takes a client for another one that had its
\* port before (SV_DirectConnect, SV_PacketEvent).
OneSlotPerClient ==
    ~mistaken =>
        \A s, t \in Slots :
            /\ s # t /\ clients[s].state # "FREE" /\ clients[t].state # "FREE"
            /\ clients[s].who \in Clients
            => clients[s].who # clients[t].who

\* The game and the server agree on which slots are in use: for every ClientConnect
\* let in there is one ClientDisconnect when the client goes.  They agree on who is
\* there, too, as long as no client was taken for another one.
GameAgrees ==
    \A s \in Slots :
        /\ InUse(s) <=> game[s] # Nobody
        /\ InUse(s) /\ ~mistaken => game[s] = clients[s].who

\* A slot is not left to zombies for good, even if the client goes on sending
\* (SV_CheckTimeouts, SV_PacketEvent).
ZombiesGo ==
    \A s \in Slots : []<>(clients[s].state # "ZOMBIE")

\* "it is possible to have multiple clients from a single IP address, so they are
\* differentiated by the qport variable" (sv_main.cpp, SV_PacketEvent): a client
\* does not come into the slot another one is using.
ClientsDifferentiated ==
    [][\A s \in Slots :
        InUse(s) /\ InUse(s)' => clients'[s].who = clients[s].who]_vars

\* "client has been disconnected, but don't reuse connection for a couple seconds"
\* (server.h, CS_ZOMBIE): one that has just been dropped is not
\* already due to be freed.
ZombiesLast ==
    [][\A s \in Slots :
        clients[s].state # "ZOMBIE" /\ clients'[s].state = "ZOMBIE"
            => clients'[s].lastPacket <= ZombieTime]_vars

\* "bots need to have their snapshots built, but those are queried directly
\* without needing to be sent" (sv_snapshot.cpp, SV_SendClientSnapshot).
BotsAreNotSent == \A s \in Addressed : clients[s].who # BOT
=============================================================================
