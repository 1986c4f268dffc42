---------------------------- MODULE LevelsProofs ----------------------------
(***************************************************************************)
(* Proofs about Levels: whatever is lost and however levels change, types  *)
(* are kept, a gamestate is sent again only when the last one was dropped  *)
(* (as long as no level was restarted), and, when a level is restarted     *)
(* only with the client in it, a usercmd is executed only in the level it  *)
(* was made for.                                                           *)
(*                                                                         *)
(* The server tells levels apart by comparing a server id, so the first    *)
(* invariants are about ids: those of the running level are the ids from   *)
(* restartedServerId to serverId, all others in the system are smaller.    *)
(***************************************************************************)
EXTENDS Levels, SequenceTheorems, TLAPS

Server ==
    [serverId : Ids, restartedServerId : Ids, systeminfo : Ids,
     state : {"CONNECTED", "PRIMED", "ACTIVE"}]

Numbers == {BEFORE, AT, AFTER}

Client ==
    [state : {"CONNECTED", "LOADING", "PRIMED", "ACTIVE"}, serverId : Ids,
     serverMessageSequence : Numbers, serverCommandSequence : Nat,
     lastExecutedServerCommand : Nat, snap : Nat \cup {None}]

ClientMessage == [serverId : Ids, number : Numbers, move : BOOLEAN]

ServerMessage ==
    [type : {"gamestate", "snapshot", "idle"}, number : Numbers, commands : Nat,
     serverId : Ids \cup {None}, level : Ids \cup {None}]

TypesInv ==
    /\ sv \in Server /\ cl \in Client
    /\ commands \in Seq(Ids)
    /\ toServer \in Seq(ClientMessage) /\ Len(toServer) <= MaxInFlight
    /\ toClient \in Seq(ServerMessage) /\ Len(toClient) <= MaxInFlight
    /\ spawns \in 0 .. MaxSpawns /\ restarts \in 0 .. MaxRestarts
    /\ loaded \in Ids
    /\ arrived \in BOOLEAN /\ wrongLevel \in BOOLEAN /\ needless \in BOOLEAN

IdsInv ==
    /\ sv.serverId = spawns + restarts + 1
    /\ sv.restartedServerId <= sv.systeminfo
    /\ sv.systeminfo <= sv.serverId

\* Message a was sent before message b.
InOrder(a, b) ==
    /\ a.number <= b.number
    /\ a.number = AT => b.number = AFTER
    /\ a.commands <= b.commands
    /\ a.type = "gamestate" /\ b.type = "gamestate" => a.level <= b.level

Ordered(channel) ==
    \A i, j \in DOMAIN channel : i < j => InOrder(channel[i], channel[j])

\* A message on its way to client c, n commands having been added.
ToClient(m, c, n) ==
    /\ c.serverCommandSequence <= m.commands /\ m.commands <= n
    /\ m.type = "gamestate" => m.number # AFTER
    /\ m.number = AT => m.type = "gamestate"
    /\ c.serverMessageSequence # BEFORE => m.number = AFTER

CommandsInv(c, n) ==
    /\ c.serverCommandSequence <= n
    /\ c.lastExecutedServerCommand <= c.serverCommandSequence
    /\ c.snap <= c.serverCommandSequence

OrderInv ==
    /\ Ordered(toClient)
    /\ \A i \in DOMAIN toClient : ToClient(toClient[i], cl, Len(commands))
    /\ \A i \in DOMAIN toServer : toServer[i].number <= cl.serverMessageSequence
    /\ CommandsInv(cl, Len(commands))

\* A gamestate on its way from server s to a client in level l: its id belongs to
\* its level.
Gamestate(m, s, l) ==
    m.type = "gamestate" =>
        /\ l <= m.level /\ m.level <= s.restartedServerId
        /\ m.serverId # None /\ m.level # None
        /\ m.serverId <= s.serverId
        /\ m.level # s.restartedServerId => m.serverId < s.restartedServerId

\* No command brings the first id of a level: that one comes with the gamestate.
LevelsInv ==
    /\ loaded <= sv.restartedServerId
    /\ cl.serverId <= sv.serverId
    /\ \A i \in DOMAIN toServer : toServer[i].serverId <= sv.serverId
    /\ \A i \in DOMAIN toClient : Gamestate(toClient[i], sv, loaded)
    /\ \A i \in DOMAIN commands :
         commands[i] <= sv.serverId /\ commands[i] # sv.restartedServerId

\* Until the client has loaded the running level nothing of the client carries an
\* id of it.
Outside ==
    /\ sv.state # "ACTIVE"
    /\ sv.serverId = sv.restartedServerId
    /\ cl.serverId < sv.restartedServerId
    /\ \A i \in DOMAIN toServer : toServer[i].serverId < sv.restartedServerId

LoadedInv ==
    RestartAnytime = FALSE =>
        ~wrongLevel /\ (loaded = sv.restartedServerId \/ Outside)

\* Once the gamestate sent last has arrived, whatever the client sends carries its
\* id.
ResentInv ==
    restarts = 0 =>
        /\ ~needless
        /\ sv.systeminfo = sv.serverId /\ commands = <<>>
        /\ sv.state # "CONNECTED" =>
             /\ \A i \in DOMAIN toClient :
                  toClient[i].number = AT => toClient[i].serverId = sv.serverId
             /\ arrived =>
                  /\ cl.serverId = sv.serverId
                  /\ cl.serverMessageSequence # BEFORE
                  /\ \A i \in DOMAIN toServer :
                       toServer[i].number # BEFORE => toServer[i].serverId = sv.serverId

IInv == TypesInv /\ IdsInv /\ OrderInv /\ LevelsInv /\ LoadedInv /\ ResentInv

-----------------------------------------------------------------------------
(* Channels.                                                               *)

\* Channel t holds messages of channel s, in the same order.
Of(t, s) ==
    /\ \A i \in DOMAIN t : \E k \in DOMAIN s : t[i] = s[k]
    /\ \A i, j \in DOMAIN t : i < j =>
         \E k, l \in DOMAIN s : k < l /\ t[i] = s[k] /\ t[j] = s[l]

\* Channel t holds messages of channel s, then perhaps m.
OfThen(t, s, m) ==
    /\ \A i \in DOMAIN t : t[i] = m \/ \E k \in DOMAIN s : t[i] = s[k]
    /\ \A i, j \in DOMAIN t : i < j =>
         \/ \E k, l \in DOMAIN s : k < l /\ t[i] = s[k] /\ t[j] = s[l]
         \/ t[j] = m /\ \E k \in DOMAIN s : t[i] = s[k]

LEMMA SeqFacts ==
    ASSUME NEW S, NEW s \in Seq(S)
    PROVE  /\ Len(s) \in Nat /\ DOMAIN s = 1 .. Len(s)
           /\ \A i \in DOMAIN s : s[i] \in S
           /\ \A i \in DOMAIN s : i \in Int /\ 1 <= i /\ i <= Len(s)
           /\ \A i \in Int : 1 <= i /\ i <= Len(s) => i \in DOMAIN s
  OBVIOUS

LEMMA ShiftedOf ==
    ASSUME NEW S, NEW s \in Seq(S), NEW t \in Seq(S), NEW d \in Nat,
           \A i \in DOMAIN t : i + d \in DOMAIN s /\ t[i] = s[i + d]
    PROVE  Of(t, s)
<1>1. \A i \in DOMAIN t : \E k \in DOMAIN s : t[i] = s[k]
  OBVIOUS
<1>2. ASSUME NEW i \in DOMAIN t, NEW j \in DOMAIN t, i < j
      PROVE  \E k, l \in DOMAIN s : k < l /\ t[i] = s[k] /\ t[j] = s[l]
  <2>1. i \in Int /\ j \in Int
    BY SeqFacts
  <2>2. i + d < j + d
    BY <1>2, <2>1
  <2> QED
    BY <2>2, Zenon
<1> QED
  BY <1>1, <1>2 DEF Of

LEMMA TailFacts ==
    ASSUME NEW S, NEW s \in Seq(S), s # <<>>
    PROVE  /\ Tail(s) \in Seq(S) /\ Len(Tail(s)) = Len(s) - 1
           /\ Of(Tail(s), s)
<1>1. /\ Tail(s) \in Seq(S) /\ Len(Tail(s)) = Len(s) - 1
      /\ \A i \in 1 .. Len(s) - 1 : Tail(s)[i] = s[i + 1]
  OBVIOUS
<1>2. \A i \in DOMAIN Tail(s) : i + 1 \in DOMAIN s /\ Tail(s)[i] = s[i + 1]
  BY <1>1
<1> QED
  BY <1>1, <1>2, ShiftedOf

LEMMA AfterFacts ==
    ASSUME NEW S, NEW s \in Seq(S), NEW i \in DOMAIN s
    PROVE  /\ After(s, i) \in Seq(S) /\ Len(After(s, i)) <= Len(s)
           /\ Of(After(s, i), s)
           /\ \A j \in DOMAIN After(s, i) :
                \E k \in DOMAIN s : i < k /\ After(s, i)[j] = s[k]
<1> DEFINE t == After(s, i)
<1>1. i \in 1 .. Len(s) /\ Len(s) \in Nat
  OBVIOUS
<1>2. /\ t \in Seq(S) /\ Len(t) = Len(s) - i
      /\ \A j \in 1 .. Len(s) - i : t[j] = s[i + j]
  BY <1>1 DEF After
<1> HIDE DEF t
<1>3. ASSUME NEW j \in DOMAIN t
      PROVE  j \in Int /\ j + i \in DOMAIN s /\ i < j + i /\ t[j] = s[j + i]
  <2>1. j \in Int /\ 1 <= j /\ j <= Len(s) - i
    BY <1>2, SeqFacts
  <2>2. \A x, y, n \in Int : 1 <= x /\ 1 <= y /\ x <= n - y =>
           x \in 1 .. n - y /\ x + y = y + x /\ 1 <= x + y /\ x + y <= n /\ y < x + y
    OBVIOUS
  <2>3. i \in Int /\ Len(s) \in Int /\ 1 <= i
    BY <1>1
  <2>4. /\ j \in 1 .. Len(s) - i /\ j + i = i + j /\ i < j + i
        /\ 1 <= j + i /\ j + i <= Len(s)
    BY <2>1, <2>2, <2>3, Zenon
  <2>5. t[j] = s[j + i]
    BY <1>2, <2>4, Zenon
  <2>6. j + i \in DOMAIN s
    BY <2>1, <2>3, <2>4, SeqFacts
  <2> QED
    BY <2>1, <2>4, <2>5, <2>6
<1>4. Of(t, s)
  <2>1. i \in Nat /\ \A j \in DOMAIN t : j + i \in DOMAIN s /\ t[j] = s[j + i]
    BY <1>1, <1>3
  <2> QED
    BY <1>2, <2>1, ShiftedOf
<1>5. \A j \in DOMAIN t : \E k \in DOMAIN s : i < k /\ t[j] = s[k]
  BY <1>3, Zenon
<1>6. Len(t) <= Len(s)
  BY <1>1, <1>2
<1> QED
  BY <1>2, <1>4, <1>5, <1>6 DEF t

LEMMA AppendOfThen ==
    ASSUME NEW S, NEW s \in Seq(S), NEW t \in Seq(S), NEW m \in S, Of(t, s)
    PROVE  /\ Append(t, m) \in Seq(S) /\ Len(Append(t, m)) = Len(t) + 1
           /\ OfThen(Append(t, m), s, m)
<1> DEFINE a == Append(t, m)
<1>1. /\ a \in Seq(S) /\ Len(a) = Len(t) + 1 /\ Len(t) \in Nat
      /\ \A i \in 1 .. Len(t) : a[i] = t[i]
      /\ a[Len(t) + 1] = m
  OBVIOUS
<1> HIDE DEF a
<1>2. ASSUME NEW i \in DOMAIN a
      PROVE  (i = Len(t) + 1 /\ a[i] = m) \/ (i \in DOMAIN t /\ a[i] = t[i])
  <2>1. i \in Int /\ 1 <= i /\ i <= Len(t) + 1
    BY <1>1, SeqFacts
  <2>2. i = Len(t) + 1 \/ i \in 1 .. Len(t)
    BY <1>1, <2>1
  <2>3. DOMAIN t = 1 .. Len(t)
    OBVIOUS
  <2> QED
    BY <1>1, <2>2, <2>3, Zenon
<1>3. \A i \in DOMAIN a : a[i] = m \/ \E k \in DOMAIN s : a[i] = s[k]
  BY <1>2, Zenon DEF Of
<1>4. ASSUME NEW i \in DOMAIN a, NEW j \in DOMAIN a, i < j
      PROVE  \/ \E k, l \in DOMAIN s : k < l /\ a[i] = s[k] /\ a[j] = s[l]
             \/ a[j] = m /\ \E k \in DOMAIN s : a[i] = s[k]
  <2>1. i \in DOMAIN t /\ a[i] = t[i]
    BY <1>1, <1>2, <1>4
  <2>2. \E k \in DOMAIN s : a[i] = s[k]
    BY <2>1, Zenon DEF Of
  <2>3. CASE j = Len(t) + 1 /\ a[j] = m
    BY <2>2, <2>3
  <2>4. CASE j \in DOMAIN t /\ a[j] = t[j]
    <3>1. \E k, l \in DOMAIN s : k < l /\ t[i] = s[k] /\ t[j] = s[l]
      BY <1>4, <2>1, <2>4, Zenon DEF Of
    <3> QED
      BY <2>1, <2>4, <3>1, Zenon
  <2> QED
    BY <1>2, <2>3, <2>4
<1>5. OfThen(a, s, m)
  BY <1>3, <1>4 DEF OfThen
<1> QED
  BY <1>1, <1>5 DEF a

LEMMA SendFacts ==
    ASSUME NEW S, NEW s \in Seq(S), Len(s) <= MaxInFlight, NEW m \in S
    PROVE  /\ Send(s, m) \in Seq(S) /\ Len(Send(s, m)) <= MaxInFlight
           /\ OfThen(Send(s, m), s, m)
<1>1. Len(s) \in Nat /\ MaxInFlight \in Nat \ {0}
  BY ConstantsAssumption
<1>2. CASE Len(s) < MaxInFlight
  <2>1. Of(s, s)
    BY Zenon DEF Of
  <2>2. Send(s, m) = Append(s, m)
    BY <1>2 DEF Send
  <2>3. /\ Append(s, m) \in Seq(S) /\ Len(Append(s, m)) = Len(s) + 1
        /\ OfThen(Append(s, m), s, m)
    BY <2>1, AppendOfThen
  <2>4. \A x, y \in Int : x < y => x + 1 <= y
    OBVIOUS
  <2> QED
    BY <1>1, <1>2, <2>2, <2>3, <2>4
<1>3. CASE Len(s) = MaxInFlight
  <2>1. Send(s, m) = Append(Tail(s), m)
    BY <1>1, <1>3 DEF Send
  <2>2. s # <<>>
    BY <1>1, <1>3
  <2>3. /\ Tail(s) \in Seq(S) /\ Len(Tail(s)) = Len(s) - 1
        /\ Of(Tail(s), s)
    BY <2>2, TailFacts
  <2>4. /\ Append(Tail(s), m) \in Seq(S) /\ Len(Append(Tail(s), m)) = Len(Tail(s)) + 1
        /\ OfThen(Append(Tail(s), m), s, m)
    BY <2>3, AppendOfThen
  <2>5. \A x \in Int : x - 1 + 1 <= x
    OBVIOUS
  <2>6. Len(s) - 1 + 1 <= MaxInFlight
    BY <1>1, <1>3, <2>5
  <2> QED
    BY <2>1, <2>3, <2>4, <2>6
<1> QED
  BY <1>1, <1>2, <1>3

\* The messages of a channel once a new gamestate is sent.
Older(channel) ==
    [i \in DOMAIN channel |-> [channel[i] EXCEPT !.number = BEFORE]]

LEMMA OlderFacts ==
    ASSUME NEW S, NEW s \in Seq(S), \A m \in S : [m EXCEPT !.number = BEFORE] \in S
    PROVE  /\ Older(s) \in Seq(S) /\ Len(Older(s)) = Len(s)
           /\ DOMAIN Older(s) = DOMAIN s
           /\ \A i \in DOMAIN s : Older(s)[i] = [s[i] EXCEPT !.number = BEFORE]
<1>1. Len(s) \in Nat /\ DOMAIN s = 1 .. Len(s) /\ \A i \in DOMAIN s : s[i] \in S
  OBVIOUS
<1>2. Older(s) \in [1 .. Len(s) -> S]
  BY <1>1 DEF Older
<1>3. /\ DOMAIN Older(s) = DOMAIN s
      /\ \A i \in DOMAIN s : Older(s)[i] = [s[i] EXCEPT !.number = BEFORE]
  BY DEF Older
<1> HIDE DEF Older
<1>4. Older(s) \in Seq(S) /\ Len(Older(s)) = Len(s)
  BY <1>1, <1>2
<1> QED
  BY <1>3, <1>4

LEMMA OlderToServer ==
    ASSUME NEW s \in Seq(ClientMessage)
    PROVE  /\ Older(s) \in Seq(ClientMessage) /\ Len(Older(s)) = Len(s)
           /\ DOMAIN Older(s) = DOMAIN s
           /\ \A i \in DOMAIN s : /\ Older(s)[i].number = BEFORE
                                  /\ Older(s)[i].serverId = s[i].serverId
<1>1. \A m \in ClientMessage : /\ [m EXCEPT !.number = BEFORE] \in ClientMessage
                               /\ [m EXCEPT !.number = BEFORE].number = BEFORE
                               /\ [m EXCEPT !.number = BEFORE].serverId = m.serverId
  BY DEF ClientMessage, Numbers
<1>2. /\ Older(s) \in Seq(ClientMessage) /\ Len(Older(s)) = Len(s)
      /\ DOMAIN Older(s) = DOMAIN s
      /\ \A i \in DOMAIN s : Older(s)[i] = [s[i] EXCEPT !.number = BEFORE]
  <2>1. \A m \in ClientMessage : [m EXCEPT !.number = BEFORE] \in ClientMessage
    BY <1>1
  <2> QED
    BY <2>1, OlderFacts
<1>3. ASSUME NEW i \in DOMAIN s
      PROVE  /\ Older(s)[i].number = BEFORE
             /\ Older(s)[i].serverId = s[i].serverId
  <2>1. s[i] \in ClientMessage
    BY SeqFacts
  <2>2. Older(s)[i] = [s[i] EXCEPT !.number = BEFORE]
    BY <1>2
  <2> QED
    BY <1>1, <2>1, <2>2
<1> QED
  BY <1>2, <1>3

LEMMA OlderToClient ==
    ASSUME NEW s \in Seq(ServerMessage)
    PROVE  /\ Older(s) \in Seq(ServerMessage) /\ Len(Older(s)) = Len(s)
           /\ DOMAIN Older(s) = DOMAIN s
           /\ \A i \in DOMAIN s :
                /\ Older(s)[i].number = BEFORE /\ Older(s)[i].type = s[i].type
                /\ Older(s)[i].commands = s[i].commands
                /\ Older(s)[i].serverId = s[i].serverId /\ Older(s)[i].level = s[i].level
<1>1. \A m \in ServerMessage :
        /\ [m EXCEPT !.number = BEFORE] \in ServerMessage
        /\ [m EXCEPT !.number = BEFORE].number = BEFORE
        /\ [m EXCEPT !.number = BEFORE].type = m.type
        /\ [m EXCEPT !.number = BEFORE].commands = m.commands
        /\ [m EXCEPT !.number = BEFORE].serverId = m.serverId
        /\ [m EXCEPT !.number = BEFORE].level = m.level
  BY DEF ServerMessage, Numbers
<1>2. /\ Older(s) \in Seq(ServerMessage) /\ Len(Older(s)) = Len(s)
      /\ DOMAIN Older(s) = DOMAIN s
      /\ \A i \in DOMAIN s : Older(s)[i] = [s[i] EXCEPT !.number = BEFORE]
  <2>1. \A m \in ServerMessage : [m EXCEPT !.number = BEFORE] \in ServerMessage
    BY <1>1
  <2> QED
    BY <2>1, OlderFacts
<1>3. ASSUME NEW i \in DOMAIN s
      PROVE  /\ Older(s)[i].number = BEFORE
             /\ Older(s)[i].type = s[i].type
             /\ Older(s)[i].commands = s[i].commands
             /\ Older(s)[i].serverId = s[i].serverId
             /\ Older(s)[i].level = s[i].level
  <2>1. s[i] \in ServerMessage
    BY SeqFacts
  <2>2. Older(s)[i] = [s[i] EXCEPT !.number = BEFORE]
    BY <1>2
  <2> QED
    BY <1>1, <2>1, <2>2
<1> QED
  BY <1>2, <1>3

LEMMA OrderedOf ==
    ASSUME NEW s, NEW t, Ordered(s), Of(t, s)
    PROVE  Ordered(t)
  BY Zenon DEF Ordered, Of

LEMMA OrderedThen ==
    ASSUME NEW s, NEW t, NEW m, Ordered(s), OfThen(t, s, m),
           \A k \in DOMAIN s : InOrder(s[k], m)
    PROVE  Ordered(t)
  BY Zenon DEF Ordered, OfThen

-----------------------------------------------------------------------------
(* The steps of the server.                                                *)

LEMMA StateFacts ==
    ASSUME IInv
    PROVE  /\ sv \in Server /\ cl \in Client /\ Len(commands) \in Nat
           /\ \A i \in DOMAIN toServer : toServer[i] \in ClientMessage
           /\ \A i \in DOMAIN toClient : toClient[i] \in ServerMessage
           /\ \A i \in DOMAIN commands : commands[i] \in Ids
           /\ MaxSpawns \in Nat /\ MaxRestarts \in Nat
           /\ sv.serverId \in Int /\ sv.restartedServerId \in Int /\ sv.systeminfo \in Int
           /\ cl.serverId \in Int /\ cl.serverMessageSequence \in Numbers
           /\ cl.serverCommandSequence \in Nat /\ cl.lastExecutedServerCommand \in Nat
           /\ cl.snap \in Int /\ loaded \in Int
<1>1. Ids \subseteq Int /\ MaxSpawns \in Nat /\ MaxRestarts \in Nat /\ None \in Int
  BY ConstantsAssumption DEF Ids, None
<1>2. /\ \A i \in DOMAIN toServer : toServer[i] \in ClientMessage
      /\ \A i \in DOMAIN toClient : toClient[i] \in ServerMessage
      /\ \A i \in DOMAIN commands : commands[i] \in Ids
      /\ Len(commands) \in Nat
  BY DEF IInv, TypesInv
<1>3. sv \in Server /\ cl \in Client /\ loaded \in Ids
  BY DEF IInv, TypesInv
<1>4. /\ sv.serverId \in Int /\ sv.restartedServerId \in Int /\ sv.systeminfo \in Int
      /\ cl.serverId \in Int /\ cl.serverMessageSequence \in Numbers
      /\ cl.serverCommandSequence \in Nat /\ cl.lastExecutedServerCommand \in Nat
      /\ cl.snap \in Int /\ loaded \in Int
  <2>1. /\ sv.serverId \in Ids /\ sv.restartedServerId \in Ids /\ sv.systeminfo \in Ids
    BY <1>3 DEF Server
  <2>2. /\ cl.serverId \in Ids /\ cl.serverMessageSequence \in Numbers
        /\ cl.serverCommandSequence \in Nat /\ cl.lastExecutedServerCommand \in Nat
        /\ cl.snap \in Nat \cup {None}
    BY <1>3 DEF Client
  <2>3. cl.snap \in Int
    BY <1>1, <2>2
  <2> QED
    BY <1>1, <1>3, <2>1, <2>2, <2>3
<1> QED
  BY <1>1, <1>2, <1>3, <1>4

\* The message the server takes from its channel, and the others.
LEMMA HeadFacts ==
    ASSUME IInv, toServer # <<>>
    PROVE  /\ \E i \in DOMAIN toServer : Head(toServer) = toServer[i]
           /\ Tail(toServer) \in Seq(ClientMessage) /\ Len(Tail(toServer)) <= MaxInFlight
           /\ \A i \in DOMAIN Tail(toServer) : \E k \in DOMAIN toServer :
                Tail(toServer)[i] = toServer[k]
<1>1. toServer \in Seq(ClientMessage) /\ Len(toServer) \in Nat /\ Len(toServer) <= MaxInFlight
      /\ MaxInFlight \in Nat
  BY ConstantsAssumption DEF IInv, TypesInv
<1>2. /\ Tail(toServer) \in Seq(ClientMessage) /\ Len(Tail(toServer)) = Len(toServer) - 1
      /\ Of(Tail(toServer), toServer)
  BY <1>1, TailFacts
<1>3. 1 \in DOMAIN toServer /\ Head(toServer) = toServer[1]
  BY <1>1
<1>4. Len(Tail(toServer)) <= MaxInFlight
  BY <1>1, <1>2
<1> QED
  BY <1>2, <1>3, <1>4 DEF Of

\* A message that is ignored, or brings no usercmd.
LEMMA IgnoreStep ==
    ASSUME IInv, toServer # <<>>, toServer' = Tail(toServer),
           UNCHANGED <<sv, cl, commands, toClient, history>>
    PROVE  IInv'
<1>1. /\ Tail(toServer) \in Seq(ClientMessage) /\ Len(Tail(toServer)) <= MaxInFlight
      /\ \A i \in DOMAIN toServer' : \E k \in DOMAIN toServer : toServer'[i] = toServer[k]
  BY HeadFacts
<1>2. TypesInv' /\ IdsInv'
  BY <1>1 DEF IInv, TypesInv, IdsInv, history
<1>3. OrderInv'
  BY <1>1 DEF IInv, OrderInv
<1>4. LevelsInv'
  BY <1>1 DEF IInv, LevelsInv, history
<1>5. LoadedInv'
  BY <1>1 DEF IInv, LoadedInv, Outside, history
<1>6. ResentInv'
  BY <1>1 DEF IInv, ResentInv, history
<1> QED
  BY <1>2, <1>3, <1>4, <1>5, <1>6 DEF IInv

\* A usercmd of the level the server takes for its own.
LEMMA MoveStep ==
    ASSUME IInv, toServer # <<>>, Head(toServer).serverId = sv.serverId,
           SV_UserMove, toServer' = Tail(toServer),
           UNCHANGED <<cl, commands, toClient, spawns, restarts, loaded, arrived, needless>>
    PROVE  IInv'
<1>1. /\ Tail(toServer) \in Seq(ClientMessage) /\ Len(Tail(toServer)) <= MaxInFlight
      /\ \A i \in DOMAIN toServer' : \E k \in DOMAIN toServer : toServer'[i] = toServer[k]
      /\ \E i \in DOMAIN toServer : Head(toServer) = toServer[i]
  BY HeadFacts
<1>2. /\ sv' \in Server /\ sv'.serverId = sv.serverId
      /\ sv'.restartedServerId = sv.restartedServerId /\ sv'.systeminfo = sv.systeminfo
      /\ sv'.state # "CONNECTED" <=> sv.state # "CONNECTED"
  BY StateFacts DEF SV_UserMove, Server
<1>3. TypesInv' /\ IdsInv'
  BY <1>1, <1>2 DEF IInv, TypesInv, IdsInv, SV_UserMove
<1>4. OrderInv'
  BY <1>1 DEF IInv, OrderInv
<1>5. LevelsInv'
  BY <1>1, <1>2 DEF IInv, LevelsInv, Gamestate
<1>6. LoadedInv'
  <2>1. ~Outside
    BY <1>1, StateFacts DEF Outside
  <2>2. RestartAnytime = FALSE => ~wrongLevel /\ loaded = sv.restartedServerId
    BY <2>1 DEF IInv, LoadedInv
  <2> QED
    BY <1>2, <2>2 DEF LoadedInv, SV_UserMove
<1>7. ResentInv'
  BY <1>1, <1>2 DEF IInv, ResentInv
<1> QED
  BY <1>3, <1>4, <1>5, <1>6, <1>7 DEF IInv

\* SV_SendClientGameState, in answer to message m.
LEMMA GamestateStep ==
    ASSUME IInv, toServer # <<>>, Head(toServer).serverId # sv.serverId,
           DroppedGamestate(Head(toServer)), SV_SendClientGameState,
           needless' = (needless \/ (sv.state # "CONNECTED" /\ arrived)),
           UNCHANGED <<commands, spawns, restarts, loaded, wrongLevel>>
    PROVE  IInv'
<1> DEFINE g == [type |-> "gamestate", number |-> AT, commands |-> Len(commands),
                 serverId |-> sv.systeminfo, level |-> sv.restartedServerId]
           old == Older(toClient)
           rest == Tail(toServer)
<1>1. /\ toClient' = Send(old, g) /\ toServer' = Older(rest)
      /\ sv' = [sv EXCEPT !.state = "PRIMED"]
      /\ cl' = [cl EXCEPT !.serverMessageSequence = BEFORE]
      /\ arrived' = FALSE
  BY DEF SV_SendClientGameState, Older
<1>2. /\ sv' \in Server /\ sv'.serverId = sv.serverId
      /\ sv'.restartedServerId = sv.restartedServerId /\ sv'.systeminfo = sv.systeminfo
      /\ sv'.state = "PRIMED"
  BY <1>1, StateFacts DEF Server
<1>3. /\ cl' \in Client /\ cl'.serverId = cl.serverId
      /\ cl'.serverMessageSequence = BEFORE
      /\ cl'.serverCommandSequence = cl.serverCommandSequence
      /\ cl'.lastExecutedServerCommand = cl.lastExecutedServerCommand
      /\ cl'.snap = cl.snap
  BY <1>1, StateFacts DEF Client, Numbers
<1>4. /\ rest \in Seq(ClientMessage) /\ Len(rest) <= MaxInFlight
      /\ \A i \in DOMAIN rest : \E k \in DOMAIN toServer : rest[i] = toServer[k]
      /\ \E i \in DOMAIN toServer : Head(toServer) = toServer[i]
  BY HeadFacts
<1>5. /\ toClient \in Seq(ServerMessage) /\ Len(toClient) <= MaxInFlight
  BY DEF IInv, TypesInv
<1>6. g \in ServerMessage
  <2>1. sv.systeminfo \in Ids /\ sv.restartedServerId \in Ids /\ Len(commands) \in Nat
    BY StateFacts DEF Server
  <2> QED
    BY <2>1 DEF ServerMessage, Numbers
<1>7. /\ g.type = "gamestate" /\ g.number = AT /\ g.commands = Len(commands)
      /\ g.serverId = sv.systeminfo /\ g.level = sv.restartedServerId
  OBVIOUS
<1> HIDE DEF g, old, rest
<1>8. /\ toServer' \in Seq(ClientMessage) /\ Len(toServer') <= MaxInFlight
      /\ \A i \in DOMAIN toServer' : /\ toServer'[i].number = BEFORE
                                     /\ \E k \in DOMAIN toServer :
                                          toServer'[i].serverId = toServer[k].serverId
  <2>1. /\ Older(rest) \in Seq(ClientMessage) /\ Len(Older(rest)) = Len(rest)
        /\ DOMAIN Older(rest) = DOMAIN rest
        /\ \A i \in DOMAIN rest : /\ Older(rest)[i].number = BEFORE
                                  /\ Older(rest)[i].serverId = rest[i].serverId
    BY <1>4, OlderToServer
  <2> QED
    BY <1>1, <1>4, <2>1
<1>9. /\ old \in Seq(ServerMessage) /\ Len(old) <= MaxInFlight
      /\ DOMAIN old = DOMAIN toClient
      /\ \A i \in DOMAIN toClient :
           /\ old[i].number = BEFORE /\ old[i].type = toClient[i].type
           /\ old[i].commands = toClient[i].commands
           /\ old[i].serverId = toClient[i].serverId /\ old[i].level = toClient[i].level
  BY <1>5, OlderToClient DEF old
<1>10. /\ toClient' \in Seq(ServerMessage) /\ Len(toClient') <= MaxInFlight
       /\ OfThen(toClient', old, g)
  BY <1>1, <1>6, <1>9, SendFacts
<1>11. \A i \in DOMAIN toClient' : toClient'[i] = g
                                   \/ \E k \in DOMAIN toClient : toClient'[i] = old[k]
  BY <1>9, <1>10 DEF OfThen
<1>12. TypesInv' /\ IdsInv'
  <2>1. needless' \in BOOLEAN
    BY DEF IInv, TypesInv
  <2> QED
    BY <1>1, <1>2, <1>3, <1>8, <1>10, <2>1 DEF IInv, TypesInv, IdsInv
<1>13. OrderInv'
  <2>1. Ordered(old)
    <3> SUFFICES ASSUME NEW i \in DOMAIN toClient, NEW j \in DOMAIN toClient, i < j
                 PROVE  InOrder(old[i], old[j])
      BY <1>9 DEF Ordered
    <3>1. InOrder(toClient[i], toClient[j])
      BY DEF IInv, OrderInv, Ordered
    <3> QED
      BY <1>9, <3>1 DEF InOrder, BEFORE, AT
  <2>2. ASSUME NEW k \in DOMAIN old
        PROVE  InOrder(old[k], g)
    <3>1. ToClient(toClient[k], cl, Len(commands)) /\ Gamestate(toClient[k], sv, loaded)
      BY <1>9 DEF IInv, OrderInv, LevelsInv
    <3> QED
      BY <1>7, <1>9, <3>1 DEF InOrder, BEFORE, AT, ToClient, Gamestate
  <2>3. Ordered(toClient')
    BY <1>10, <2>1, <2>2, OrderedThen
  <2>4. ASSUME NEW i \in DOMAIN toClient'
        PROVE  ToClient(toClient'[i], cl', Len(commands))
    <3>1. CASE toClient'[i] = g
      BY <1>3, <1>7, <3>1, StateFacts DEF IInv, OrderInv, CommandsInv, ToClient, AT, AFTER
    <3>2. CASE \E k \in DOMAIN toClient : toClient'[i] = old[k]
      <4>1. PICK k \in DOMAIN toClient : toClient'[i] = old[k]
        BY <3>2
      <4>2. ToClient(toClient[k], cl, Len(commands))
        BY DEF IInv, OrderInv
      <4> QED
        BY <1>3, <1>9, <4>1, <4>2 DEF ToClient, BEFORE, AT, AFTER
    <3> QED
      BY <1>11, <3>1, <3>2
  <2>5. CommandsInv(cl', Len(commands))
    BY <1>3 DEF IInv, OrderInv, CommandsInv
  <2>6. \A i \in DOMAIN toServer' : toServer'[i].number <= cl'.serverMessageSequence
    BY <1>3, <1>8 DEF BEFORE
  <2> QED
    BY <2>3, <2>4, <2>5, <2>6 DEF OrderInv
<1>14. LevelsInv'
  <2>1. ASSUME NEW i \in DOMAIN toClient'
        PROVE  Gamestate(toClient'[i], sv', loaded)
    <3>1. CASE toClient'[i] = g
      <4>1. sv.systeminfo # None /\ sv.restartedServerId # None
        BY StateFacts DEF Server, Ids, None
      <4>2. loaded <= sv.restartedServerId /\ sv.systeminfo <= sv.serverId
        BY DEF IInv, IdsInv, LevelsInv
      <4>3. sv.restartedServerId <= sv.restartedServerId
        BY StateFacts
      <4> QED
        BY <1>2, <1>7, <3>1, <4>1, <4>2, <4>3, Zenon DEF Gamestate
    <3>2. CASE \E k \in DOMAIN toClient : toClient'[i] = old[k]
      <4>1. PICK k \in DOMAIN toClient : toClient'[i] = old[k]
        BY <3>2
      <4>2. Gamestate(toClient[k], sv, loaded)
        BY DEF IInv, LevelsInv
      <4> QED
        BY <1>2, <1>9, <4>1, <4>2 DEF Gamestate
    <3> QED
      BY <1>11, <3>1, <3>2
  <2> QED
    BY <1>2, <1>3, <1>8, <2>1 DEF IInv, LevelsInv
<1>15. LoadedInv'
  BY <1>2, <1>3, <1>8 DEF IInv, LoadedInv, Outside
<1>16. ResentInv'
  <2> SUFFICES ASSUME restarts = 0
               PROVE  /\ ~needless' /\ sv'.systeminfo = sv'.serverId /\ commands = <<>>
                      /\ \A i \in DOMAIN toClient' :
                           toClient'[i].number = AT => toClient'[i].serverId = sv'.serverId
    BY <1>1 DEF ResentInv
  <2>1. ~needless /\ sv.systeminfo = sv.serverId /\ commands = <<>>
    BY DEF IInv, ResentInv
  <2>2. Head(toServer).number # BEFORE
    BY DEF DroppedGamestate, BEFORE, AFTER
  <2>3. ~(sv.state # "CONNECTED" /\ arrived)
    BY <1>4, <2>2 DEF IInv, ResentInv
  <2>4. \A i \in DOMAIN toClient' :
           toClient'[i].number = AT => toClient'[i].serverId = sv'.serverId
    BY <1>2, <1>7, <1>9, <1>11, <2>1 DEF BEFORE, AT
  <2> QED
    BY <1>2, <2>1, <2>3, <2>4
<1> QED
  BY <1>12, <1>13, <1>14, <1>15, <1>16 DEF IInv

LEMMA FrameStep ==
    ASSUME IInv, SV_Frame
    PROVE  IInv'
<1> DEFINE cs == SV_UpdateConfigStrings
           m == [type |-> IF sv.state = "ACTIVE" THEN "snapshot" ELSE "idle",
                 number |-> AFTER, commands |-> Len(cs), serverId |-> None, level |-> None]
<1>1. /\ sv' = [sv EXCEPT !.systeminfo = sv.serverId] /\ commands' = cs
      /\ toClient' = Send(toClient, m)
      /\ UNCHANGED <<cl, toServer, spawns, restarts, loaded, arrived, wrongLevel, needless>>
  BY DEF SV_Frame, history
<1>2. /\ sv' \in Server /\ sv'.serverId = sv.serverId /\ sv'.systeminfo = sv.serverId
      /\ sv'.restartedServerId = sv.restartedServerId /\ sv'.state = sv.state
  BY <1>1, StateFacts DEF Server
<1>3. /\ cs \in Seq(Ids) /\ Len(commands) <= Len(cs)
      /\ \A i \in DOMAIN cs : \/ i \in DOMAIN commands /\ cs[i] = commands[i]
                              \/ cs[i] = sv.serverId /\ sv.systeminfo # sv.serverId
      /\ sv.systeminfo = sv.serverId => cs = commands
  <2>1. commands \in Seq(Ids) /\ sv.serverId \in Ids /\ Len(commands) \in Nat
    BY StateFacts DEF IInv, TypesInv, Server
  <2>2. CASE cs = commands
    BY <2>1, <2>2
  <2>3. CASE cs = Append(commands, sv.serverId) /\ sv.systeminfo # sv.serverId
    <3>1. /\ cs \in Seq(Ids) /\ Len(cs) = Len(commands) + 1
          /\ \A i \in 1 .. Len(commands) : cs[i] = commands[i]
          /\ cs[Len(commands) + 1] = sv.serverId
      BY <2>1, <2>3
    <3> HIDE DEF cs
    <3>2. ASSUME NEW i \in DOMAIN cs
          PROVE  i = Len(commands) + 1 \/ i \in 1 .. Len(commands)
      BY <2>1, <3>1
    <3>3. DOMAIN commands = 1 .. Len(commands)
      BY <2>1
    <3>4. \A i \in DOMAIN cs : \/ i \in DOMAIN commands /\ cs[i] = commands[i]
                               \/ cs[i] = sv.serverId /\ sv.systeminfo # sv.serverId
      BY <2>3, <3>1, <3>2, <3>3, Zenon
    <3>5. Len(commands) <= Len(cs)
      BY <2>1, <3>1
    <3> QED
      BY <2>3, <3>1, <3>4, <3>5, Zenon
  <2> QED
    BY <2>2, <2>3 DEF SV_UpdateConfigStrings
<1>4. m \in ServerMessage
  BY <1>3 DEF ServerMessage, Numbers
<1>5. m.number = AFTER /\ m.commands = Len(cs) /\ m.type # "gamestate"
  OBVIOUS
<1> HIDE DEF m, cs
<1>6. /\ toClient' \in Seq(ServerMessage) /\ Len(toClient') <= MaxInFlight
      /\ OfThen(toClient', toClient, m)
  BY <1>1, <1>4, SendFacts DEF IInv, TypesInv
<1>7. \A i \in DOMAIN toClient' :
        toClient'[i] = m \/ \E k \in DOMAIN toClient : toClient'[i] = toClient[k]
  BY <1>6 DEF OfThen
<1>8. Len(commands) \in Nat /\ Len(cs) \in Nat
  BY <1>3, StateFacts
<1>9. TypesInv' /\ IdsInv'
  <2>1. sv.systeminfo <= sv.serverId /\ sv.restartedServerId <= sv.serverId
    BY StateFacts DEF IInv, IdsInv
  <2> QED
    BY <1>1, <1>2, <1>3, <1>6, <2>1, StateFacts DEF IInv, TypesInv, IdsInv
<1>10. OrderInv'
  <2>1. ASSUME NEW k \in DOMAIN toClient
        PROVE  /\ InOrder(toClient[k], m)
               /\ ToClient(toClient[k], cl, Len(cs))
    <3>1. ToClient(toClient[k], cl, Len(commands))
      BY DEF IInv, OrderInv
    <3>2. toClient[k].number \in Numbers /\ toClient[k].commands \in Nat
      BY StateFacts DEF ServerMessage
    <3>3. toClient[k].commands <= Len(cs)
      BY <1>3, <1>8, <3>1, <3>2 DEF ToClient
    <3> QED
      BY <1>5, <3>1, <3>2, <3>3 DEF InOrder, ToClient, Numbers, BEFORE, AT, AFTER
  <2>2. Ordered(toClient')
    BY <1>6, <2>1, OrderedThen DEF IInv, OrderInv
  <2>3. /\ cl.serverCommandSequence <= Len(cs) /\ CommandsInv(cl, Len(cs))
    BY <1>3, <1>8, StateFacts DEF IInv, OrderInv, CommandsInv
  <2>4. ToClient(m, cl, Len(cs))
    BY <1>5, <1>8, <2>3 DEF ToClient, AT, AFTER
  <2>5. \A i \in DOMAIN toClient' : ToClient(toClient'[i], cl, Len(cs))
    BY <1>7, <2>1, <2>4
  <2> QED
    BY <1>1, <2>2, <2>3, <2>5 DEF IInv, OrderInv
<1>11. LevelsInv'
  <2>1. \A i \in DOMAIN toClient' : Gamestate(toClient'[i], sv', loaded)
    BY <1>2, <1>5, <1>7 DEF IInv, LevelsInv, Gamestate
  <2>2. \A i \in DOMAIN cs : cs[i] <= sv.serverId /\ cs[i] # sv.restartedServerId
    <3>1. sv.serverId <= sv.serverId
      BY StateFacts
    <3>2. sv.systeminfo # sv.serverId => sv.serverId # sv.restartedServerId
      BY StateFacts DEF IInv, IdsInv
    <3> QED
      BY <1>3, <3>1, <3>2 DEF IInv, LevelsInv
  <2> QED
    BY <1>1, <1>2, <2>1, <2>2 DEF IInv, LevelsInv
<1>12. LoadedInv'
  BY <1>1, <1>2 DEF IInv, LoadedInv, Outside
<1>13. ResentInv'
  <2>1. m.number # AT
    BY <1>5 DEF AT, AFTER
  <2> QED
    BY <1>1, <1>2, <1>3, <1>7, <2>1 DEF IInv, ResentInv
<1> QED
  BY <1>9, <1>10, <1>11, <1>12, <1>13 DEF IInv

LEMMA SpawnStep ==
    ASSUME IInv, SV_SpawnServer
    PROVE  IInv'
<1>1. /\ sv' = [serverId |-> sv.serverId + 1, restartedServerId |-> sv.serverId + 1,
                systeminfo |-> sv.serverId + 1, state |-> "CONNECTED"]
      /\ spawns < MaxSpawns /\ spawns' = spawns + 1
      /\ UNCHANGED <<cl, commands, toServer, toClient,
                     restarts, loaded, arrived, wrongLevel, needless>>
  BY DEF SV_SpawnServer
<1>2. /\ sv'.serverId = sv.serverId + 1 /\ sv'.restartedServerId = sv.serverId + 1
      /\ sv'.systeminfo = sv.serverId + 1 /\ sv'.state = "CONNECTED"
  BY <1>1
<1>3. sv.serverId + 1 \in Ids /\ spawns + 1 \in 0 .. MaxSpawns
  BY <1>1, ConstantsAssumption DEF IInv, TypesInv, IdsInv, Ids
<1>4. \A x, y \in Int : x <= y => x < y + 1 /\ x <= y + 1 /\ x # y + 1
  OBVIOUS
<1>5. sv.restartedServerId <= sv.serverId
  BY StateFacts DEF IInv, IdsInv
<1>6. TypesInv'
  <2>1. sv' \in Server
    BY <1>1, <1>3 DEF Server
  <2> QED
    BY <1>1, <1>3, <2>1 DEF IInv, TypesInv
<1>7. IdsInv'
  BY <1>1, <1>2, <1>3 DEF IInv, TypesInv, IdsInv
<1>8. OrderInv'
  BY <1>1 DEF IInv, OrderInv
<1>9. /\ loaded < sv.serverId + 1 /\ cl.serverId < sv.serverId + 1
      /\ \A i \in DOMAIN toServer : toServer[i].serverId < sv.serverId + 1
      /\ \A i \in DOMAIN commands : commands[i] < sv.serverId + 1
  <2>1. loaded <= sv.serverId
    BY <1>5, StateFacts DEF IInv, LevelsInv
  <2>2. \A i \in DOMAIN toServer : toServer[i].serverId \in Int
    BY StateFacts DEF ClientMessage, Ids
  <2>3. \A i \in DOMAIN commands : commands[i] \in Int
    BY StateFacts DEF Ids
  <2> QED
    BY <1>4, <2>1, <2>2, <2>3, StateFacts DEF IInv, LevelsInv
<1>10. LevelsInv'
  <2>1. ASSUME NEW i \in DOMAIN toClient, toClient[i].type = "gamestate"
        PROVE  Gamestate(toClient[i], sv', loaded)
    <3>1. Gamestate(toClient[i], sv, loaded)
      BY DEF IInv, LevelsInv
    <3>2. toClient[i].level \in Int /\ toClient[i].serverId \in Int
      BY StateFacts, ConstantsAssumption DEF ServerMessage, Ids, None
    <3>3. toClient[i].level <= sv.serverId /\ toClient[i].serverId <= sv.serverId
      BY <1>5, <2>1, <3>1, <3>2, StateFacts DEF Gamestate
    <3>4. /\ toClient[i].level <= sv.serverId + 1 /\ toClient[i].serverId < sv.serverId + 1
          /\ toClient[i].serverId <= sv.serverId + 1
      BY <1>4, <3>2, <3>3, StateFacts
    <3> QED
      BY <1>2, <2>1, <3>1, <3>4 DEF Gamestate
  <2>2. \A i \in DOMAIN toClient : Gamestate(toClient[i], sv', loaded)
    BY <2>1 DEF Gamestate
  <2>3. \A i \in DOMAIN commands :
           commands[i] <= sv.serverId + 1 /\ commands[i] # sv.serverId + 1
    BY <1>4, StateFacts DEF IInv, LevelsInv, Ids
  <2>4. /\ loaded <= sv.serverId + 1 /\ cl.serverId <= sv.serverId + 1
        /\ \A i \in DOMAIN toServer : toServer[i].serverId <= sv.serverId + 1
    BY <1>9, StateFacts DEF ClientMessage, Ids
  <2> QED
    BY <1>1, <1>2, <2>2, <2>3, <2>4 DEF LevelsInv
<1>11. LoadedInv'
  BY <1>1, <1>2, <1>9 DEF IInv, LoadedInv, Outside
<1>12. ResentInv'
  BY <1>1, <1>2 DEF IInv, ResentInv
<1> QED
  BY <1>6, <1>7, <1>8, <1>10, <1>11, <1>12 DEF IInv

LEMMA RestartStep ==
    ASSUME IInv, SV_MapRestart_f
    PROVE  IInv'
<1>1. /\ sv' = [sv EXCEPT !.serverId = @ + 1, !.state = "ACTIVE"]
      /\ restarts < MaxRestarts /\ restarts' = restarts + 1
      /\ RestartAnytime \/ sv.state = "ACTIVE"
      /\ UNCHANGED <<cl, commands, toServer, toClient,
                     spawns, loaded, arrived, wrongLevel, needless>>
  BY DEF SV_MapRestart_f
<1>2. sv.serverId + 1 \in Ids /\ restarts + 1 \in 0 .. MaxRestarts /\ restarts + 1 # 0
  BY <1>1, ConstantsAssumption DEF IInv, TypesInv, IdsInv, Ids
<1>3. /\ sv' \in Server /\ sv'.serverId = sv.serverId + 1
      /\ sv'.restartedServerId = sv.restartedServerId /\ sv'.systeminfo = sv.systeminfo
      /\ sv'.state = "ACTIVE"
  BY <1>1, <1>2, StateFacts DEF Server
<1>4. TypesInv'
  BY <1>1, <1>2, <1>3 DEF IInv, TypesInv
<1>5. IdsInv'
  <2>1. sv.systeminfo <= sv.serverId + 1
    BY StateFacts DEF IInv, IdsInv
  <2> QED
    BY <1>1, <1>3, <2>1 DEF IInv, TypesInv, IdsInv
<1>6. OrderInv'
  BY <1>1 DEF IInv, OrderInv
<1>7. LevelsInv'
  <2>1. \A x, y \in Int : x <= y => x <= y + 1
    OBVIOUS
  <2>2. ASSUME NEW i \in DOMAIN toClient
        PROVE  Gamestate(toClient[i], sv', loaded)
    <3>1. Gamestate(toClient[i], sv, loaded)
      BY DEF IInv, LevelsInv
    <3>2. toClient[i].serverId \in Int
      BY StateFacts, ConstantsAssumption DEF ServerMessage, Ids, None
    <3> QED
      BY <1>3, <2>1, <3>1, <3>2, StateFacts DEF Gamestate
  <2>3. \A i \in DOMAIN toServer : toServer[i].serverId <= sv.serverId + 1
    BY <2>1, StateFacts DEF IInv, LevelsInv, ClientMessage, Ids
  <2>4. cl.serverId <= sv.serverId + 1
    BY <2>1, StateFacts DEF IInv, LevelsInv
  <2>5. \A i \in DOMAIN commands : commands[i] <= sv.serverId + 1
    BY <2>1, StateFacts DEF IInv, LevelsInv, Ids
  <2> QED
    BY <1>1, <1>3, <2>2, <2>3, <2>4, <2>5 DEF IInv, LevelsInv
<1>8. LoadedInv'
  BY <1>1, <1>3 DEF IInv, LoadedInv, Outside
<1>9. ResentInv'
  BY <1>1, <1>2 DEF ResentInv
<1> QED
  BY <1>4, <1>5, <1>6, <1>7, <1>8, <1>9 DEF IInv

-----------------------------------------------------------------------------
(* The steps of the client.                                                *)

\* A message leaves; the client may come out of loading with it.
LEMMA PacketStep ==
    ASSUME IInv, cl' \in Client,
           cl'.serverId = cl.serverId,
           cl'.serverMessageSequence = cl.serverMessageSequence,
           cl'.serverCommandSequence = cl.serverCommandSequence,
           cl'.lastExecutedServerCommand = cl.lastExecutedServerCommand,
           cl'.snap = cl.snap,
           toServer' = Send(toServer, Packet(cl')),
           UNCHANGED <<sv, commands, toClient, history>>
    PROVE  IInv'
<1> DEFINE m == Packet(cl')
<1>1. /\ m \in ClientMessage /\ m.serverId = cl.serverId
      /\ m.number = cl.serverMessageSequence
  <2>1. cl'.serverId \in Ids /\ cl'.serverMessageSequence \in Numbers
    BY DEF Client
  <2> QED
    BY <2>1 DEF Packet, ClientMessage
<1> HIDE DEF m
<1>2. /\ toServer' \in Seq(ClientMessage) /\ Len(toServer') <= MaxInFlight
      /\ OfThen(toServer', toServer, m)
  BY <1>1, SendFacts DEF IInv, TypesInv, m
<1>3. \A i \in DOMAIN toServer' :
        toServer'[i] = m \/ \E k \in DOMAIN toServer : toServer'[i] = toServer[k]
  BY <1>2 DEF OfThen
<1>4. TypesInv' /\ IdsInv'
  BY <1>2 DEF IInv, TypesInv, IdsInv, history
<1>5. OrderInv'
  <2>1. m.number <= cl.serverMessageSequence
    BY <1>1, StateFacts DEF Numbers, BEFORE, AT, AFTER
  <2>2. \A i \in DOMAIN toServer' : toServer'[i].number <= cl'.serverMessageSequence
    BY <1>3, <2>1 DEF IInv, OrderInv
  <2>3. \A i \in DOMAIN toClient : ToClient(toClient[i], cl', Len(commands))
    BY DEF IInv, OrderInv, ToClient
  <2> QED
    BY <2>2, <2>3 DEF IInv, OrderInv, CommandsInv
<1>6. LevelsInv'
  BY <1>1, <1>3 DEF IInv, LevelsInv, history
<1>7. LoadedInv'
  BY <1>1, <1>3 DEF IInv, LoadedInv, Outside, history
<1>8. ResentInv'
  BY <1>1, <1>3 DEF IInv, ResentInv, history
<1> QED
  BY <1>4, <1>5, <1>6, <1>7, <1>8 DEF IInv

LEMMA GetSnapshotStep ==
    ASSUME IInv, CL_GetSnapshot
    PROVE  IInv'
<1> DEFINE id == CL_SystemInfoChanged(cl.snap)
<1>1. /\ cl' = [cl EXCEPT !.state = "ACTIVE", !.snap = None, !.serverId = id,
                          !.lastExecutedServerCommand = cl.snap]
      /\ cl.snap # None
      /\ UNCHANGED <<sv, commands, toServer, toClient, history>>
  BY DEF CL_GetSnapshot, CL_SetCGameTime
<1>2. cl.snap \in Nat /\ cl.snap <= cl.serverCommandSequence
  BY <1>1, StateFacts DEF Client, IInv, OrderInv, CommandsInv
<1>3. \/ id = cl.serverId
      \/ commands # <<>> /\ \E i \in DOMAIN commands : id = commands[i]
  <2>1. CASE cl.snap > cl.lastExecutedServerCommand
    <3>1. commands \in Seq(Ids) /\ cl.serverCommandSequence <= Len(commands)
      BY DEF IInv, TypesInv, OrderInv, CommandsInv
    <3>2. 1 <= cl.snap /\ cl.snap <= Len(commands)
      BY <1>2, <2>1, <3>1, StateFacts
    <3>3. cl.snap \in DOMAIN commands
      BY <1>2, <3>1, <3>2, SeqFacts
    <3>4. commands # <<>>
      BY <3>3
    <3>5. id = commands[cl.snap]
      BY <2>1 DEF CL_SystemInfoChanged
    <3> QED
      BY <3>3, <3>4, <3>5
  <2>2. CASE ~(cl.snap > cl.lastExecutedServerCommand)
    BY <2>2 DEF CL_SystemInfoChanged
  <2> QED
    BY <2>1, <2>2
<1>4. id \in Ids
  BY <1>3, StateFacts DEF Client
<1> HIDE DEF id
<1>5. /\ cl' \in Client /\ cl'.serverId = id
      /\ cl'.serverMessageSequence = cl.serverMessageSequence
      /\ cl'.serverCommandSequence = cl.serverCommandSequence
      /\ cl'.lastExecutedServerCommand = cl.snap /\ cl'.snap = None
  BY <1>1, <1>2, <1>4, StateFacts DEF Client
<1>6. TypesInv' /\ IdsInv'
  BY <1>1, <1>5 DEF IInv, TypesInv, IdsInv, history
<1>7. OrderInv'
  <2>1. None <= cl.serverCommandSequence
    BY StateFacts DEF None
  <2>2. CommandsInv(cl', Len(commands))
    BY <1>2, <1>5, <2>1 DEF IInv, OrderInv, CommandsInv
  <2>3. \A i \in DOMAIN toClient : ToClient(toClient[i], cl', Len(commands))
    BY <1>5 DEF IInv, OrderInv, ToClient
  <2> QED
    BY <1>1, <1>5, <2>2, <2>3 DEF IInv, OrderInv
<1>8. LevelsInv'
  BY <1>1, <1>3, <1>5 DEF IInv, LevelsInv, history
<1>9. LoadedInv'
  <2>1. ASSUME Outside
        PROVE  id < sv.restartedServerId
    <3>1. CASE id = cl.serverId
      BY <2>1, <3>1 DEF Outside
    <3>2. CASE \E i \in DOMAIN commands : id = commands[i]
      <4>1. id <= sv.restartedServerId /\ id # sv.restartedServerId
        BY <2>1, <3>2 DEF Outside, IInv, LevelsInv
      <4> QED
        BY <1>4, <4>1, StateFacts, ConstantsAssumption DEF Ids
    <3> QED
      BY <1>3, <3>1, <3>2
  <2> QED
    BY <1>1, <1>5, <2>1 DEF IInv, LoadedInv, Outside, history
<1>10. ResentInv'
  BY <1>1, <1>3, <1>5 DEF IInv, ResentInv, history
<1> QED
  BY <1>6, <1>7, <1>8, <1>9, <1>10 DEF IInv

LEMMA ReceiveStep ==
    ASSUME IInv, NEW i \in DOMAIN toClient, ClientReceives(i)
    PROVE  IInv'
<1> DEFINE m == toClient[i]
<1>1. /\ toClient' = After(toClient, i)
      /\ \/ m.type = "gamestate" /\ CL_ParseGamestate(m)
         \/ /\ m.type # "gamestate"
            /\ cl' = [cl EXCEPT !.serverMessageSequence = m.number,
                                !.serverCommandSequence = Latest(m),
                                !.snap = IF m.type = "snapshot" THEN Latest(m) ELSE @]
            /\ UNCHANGED <<loaded, arrived>>
      /\ UNCHANGED <<sv, commands, toServer, spawns, restarts, wrongLevel, needless>>
  BY DEF ClientReceives
<1>2. /\ m \in ServerMessage /\ m.number \in Numbers /\ m.commands \in Nat
  BY StateFacts DEF ServerMessage
<1>3. /\ ToClient(m, cl, Len(commands)) /\ Gamestate(m, sv, loaded)
      /\ cl.serverCommandSequence <= m.commands /\ m.commands <= Len(commands)
  BY DEF IInv, OrderInv, LevelsInv, ToClient
<1>4. Latest(m) = m.commands
  BY <1>2, <1>3, StateFacts DEF Latest
<1>5. /\ cl' \in Client
      /\ cl'.serverMessageSequence = m.number /\ cl'.serverCommandSequence = m.commands
      /\ cl'.lastExecutedServerCommand = cl.lastExecutedServerCommand
      /\ cl'.snap \in {None, cl.snap, m.commands}
      /\ m.type = "gamestate" => cl'.serverId = m.serverId /\ loaded' = m.level
                                 /\ arrived' = (arrived \/ m.number = AT)
      /\ m.type # "gamestate" => cl'.serverId = cl.serverId /\ loaded' = loaded
                                 /\ arrived' = arrived
  <2>1. CASE m.type = "gamestate"
    <3>1. m.serverId \in Ids
      BY <1>2, <1>3, <2>1 DEF ServerMessage, Gamestate
    <3> HIDE DEF m
    <3>2. /\ cl' = [cl EXCEPT !.state = "LOADING", !.serverId = m.serverId,
                              !.serverMessageSequence = m.number,
                              !.serverCommandSequence = m.commands, !.snap = None]
          /\ loaded' = m.level /\ arrived' = (arrived \/ m.number = AT)
      BY <1>1, <2>1 DEF CL_ParseGamestate
    <3> QED
      BY <1>2, <2>1, <3>1, <3>2, StateFacts DEF Client
  <2>2. CASE m.type # "gamestate"
    <3> HIDE DEF m
    <3>1. /\ cl' = [cl EXCEPT !.serverMessageSequence = m.number,
                              !.serverCommandSequence = m.commands,
                              !.snap = IF m.type = "snapshot" THEN m.commands ELSE @]
          /\ loaded' = loaded /\ arrived' = arrived
      BY <1>1, <1>4, <2>2
    <3> QED
      BY <1>2, <2>2, <3>1, StateFacts DEF Client
  <2> QED
    BY <2>1, <2>2
<1>6. /\ toClient' \in Seq(ServerMessage) /\ Len(toClient') <= MaxInFlight
      /\ Of(toClient', toClient)
      /\ \A j \in DOMAIN toClient' :
           \E k \in DOMAIN toClient : i < k /\ toClient'[j] = toClient[k]
  <2>1. /\ toClient \in Seq(ServerMessage) /\ Len(toClient) <= MaxInFlight
        /\ Len(toClient) \in Nat /\ MaxInFlight \in Nat
    BY ConstantsAssumption DEF IInv, TypesInv
  <2>2. /\ After(toClient, i) \in Seq(ServerMessage)
        /\ Len(After(toClient, i)) <= Len(toClient)
        /\ Of(After(toClient, i), toClient)
        /\ \A j \in DOMAIN After(toClient, i) :
             \E k \in DOMAIN toClient : i < k /\ After(toClient, i)[j] = toClient[k]
    BY <2>1, AfterFacts
  <2>3. Len(After(toClient, i)) <= MaxInFlight
    BY <2>1, <2>2
  <2> QED
    BY <1>1, <2>2, <2>3, Zenon
<1>7. ASSUME NEW j \in DOMAIN toClient'
      PROVE  \E k \in DOMAIN toClient : toClient'[j] = toClient[k] /\ InOrder(m, toClient[k])
  BY <1>6 DEF IInv, OrderInv, Ordered
<1> HIDE DEF m
<1>8. TypesInv' /\ IdsInv'
  <2>1. loaded' \in Ids
    BY <1>2, <1>3, <1>5 DEF IInv, TypesInv, ServerMessage, Gamestate
  <2>2. arrived' \in BOOLEAN
    BY <1>5 DEF IInv, TypesInv
  <2> QED
    BY <1>1, <1>5, <1>6, <2>1, <2>2 DEF IInv, TypesInv, IdsInv
<1>9. OrderInv'
  <2>1. Ordered(toClient')
    BY <1>6, OrderedOf DEF IInv, OrderInv
  <2>2. ASSUME NEW j \in DOMAIN toClient'
        PROVE  ToClient(toClient'[j], cl', Len(commands))
    <3>1. PICK k \in DOMAIN toClient : toClient'[j] = toClient[k] /\ InOrder(m, toClient[k])
      BY <1>7
    <3>2. ToClient(toClient[k], cl, Len(commands)) /\ toClient[k].number \in Numbers
      BY StateFacts DEF IInv, OrderInv, ServerMessage
    <3>3. m.number # BEFORE => toClient[k].number = AFTER
      BY <1>2, <3>1, <3>2 DEF InOrder, Numbers, BEFORE, AT, AFTER
    <3> QED
      BY <1>5, <3>1, <3>2, <3>3 DEF ToClient, InOrder
  <2>3. ASSUME NEW j \in DOMAIN toServer
        PROVE  toServer[j].number <= m.number
    <3>1. /\ toServer[j].number <= cl.serverMessageSequence
          /\ toServer[j].number \in Numbers /\ cl.serverMessageSequence \in Numbers
      BY StateFacts DEF IInv, OrderInv, ClientMessage
    <3>2. cl.serverMessageSequence # BEFORE => m.number = AFTER
      BY <1>3 DEF ToClient
    <3> QED
      BY <1>2, <3>1, <3>2 DEF Numbers, BEFORE, AT, AFTER
  <2>4. CommandsInv(cl', Len(commands))
    BY <1>2, <1>3, <1>5, StateFacts DEF IInv, OrderInv, CommandsInv, None
  <2> QED
    BY <1>1, <1>5, <2>1, <2>2, <2>3, <2>4 DEF OrderInv
<1>10. LevelsInv'
  <2>1. /\ loaded' <= sv.restartedServerId /\ cl'.serverId <= sv.serverId
    BY <1>3, <1>5 DEF IInv, LevelsInv, Gamestate
  <2>2. ASSUME NEW j \in DOMAIN toClient'
        PROVE  Gamestate(toClient'[j], sv, loaded')
    <3>1. PICK k \in DOMAIN toClient : toClient'[j] = toClient[k] /\ InOrder(m, toClient[k])
      BY <1>7
    <3>2. Gamestate(toClient[k], sv, loaded)
      BY DEF IInv, LevelsInv
    <3> QED
      BY <1>5, <3>1, <3>2 DEF Gamestate, InOrder
  <2> QED
    BY <1>1, <2>1, <2>2 DEF IInv, LevelsInv
<1>11. LoadedInv'
  <2>1. CASE m.type # "gamestate"
    BY <1>1, <1>5, <2>1 DEF IInv, LoadedInv, Outside
  <2>2. CASE m.type = "gamestate"
    <3>1. CASE loaded = sv.restartedServerId
      <4>1. loaded <= m.level /\ m.level <= sv.restartedServerId /\ m.level \in Int
        BY <1>2, <1>3, <2>2, ConstantsAssumption DEF Gamestate, ServerMessage, Ids, None
      <4>2. m.level = sv.restartedServerId
        BY <3>1, <4>1, StateFacts
      <4> QED
        BY <1>1, <1>5, <2>2, <3>1, <4>2 DEF IInv, LoadedInv
    <3>2. CASE Outside
      <4>1. m.level = sv.restartedServerId \/ m.serverId < sv.restartedServerId
        BY <1>3, <2>2 DEF Gamestate
      <4> QED
        BY <1>1, <1>5, <2>2, <3>2, <4>1 DEF IInv, LoadedInv, Outside
    <3> QED
      BY <1>1, <3>1, <3>2 DEF IInv, LoadedInv
  <2> QED
    BY <2>1, <2>2
<1>12. ResentInv'
  <2> SUFFICES ASSUME restarts = 0
               PROVE  ResentInv'
    BY <1>1 DEF ResentInv
  <2>1. /\ ~needless /\ sv.systeminfo = sv.serverId /\ commands = <<>>
        /\ sv.state # "CONNECTED" =>
             /\ \A j \in DOMAIN toClient :
                  toClient[j].number = AT => toClient[j].serverId = sv.serverId
             /\ arrived =>
                  /\ cl.serverId = sv.serverId
                  /\ cl.serverMessageSequence # BEFORE
                  /\ \A j \in DOMAIN toServer :
                       toServer[j].number # BEFORE => toServer[j].serverId = sv.serverId
    BY DEF IInv, ResentInv
  <2>2. sv.state # "CONNECTED" => \A j \in DOMAIN toClient' :
           toClient'[j].number = AT => toClient'[j].serverId = sv.serverId
    BY <1>7, <2>1
  <2>3. ASSUME sv.state # "CONNECTED", arrived'
        PROVE  /\ cl'.serverId = sv.serverId
               /\ cl'.serverMessageSequence # BEFORE
               /\ \A j \in DOMAIN toServer :
                    toServer[j].number # BEFORE => toServer[j].serverId = sv.serverId
    <3>1. CASE arrived
      <4>1. m.number = AFTER /\ m.type # "gamestate"
        BY <1>3, <2>1, <2>3, <3>1 DEF ToClient
      <4> QED
        BY <1>5, <2>1, <2>3, <3>1, <4>1 DEF BEFORE, AFTER
    <3>2. CASE ~arrived
      <4>1. m.number = AT /\ m.type = "gamestate"
        BY <1>5, <2>3, <3>2
      <4>2. m.serverId = sv.serverId
        BY <2>1, <2>3, <4>1 DEF m
      <4>3. cl.serverMessageSequence = BEFORE
        BY <1>3, <4>1 DEF ToClient, AT, AFTER
      <4>4. \A j \in DOMAIN toServer : toServer[j].number = BEFORE
        BY <4>3, StateFacts DEF IInv, OrderInv, ClientMessage, Numbers, BEFORE, AT, AFTER
      <4> QED
        BY <1>5, <4>1, <4>2, <4>4 DEF BEFORE, AT
    <3> QED
      BY <3>1, <3>2
  <2> QED
    BY <1>1, <2>1, <2>2, <2>3 DEF ResentInv
<1> QED
  BY <1>8, <1>9, <1>10, <1>11, <1>12 DEF IInv

-----------------------------------------------------------------------------
(* Initial states, all steps, and the theorems.                            *)

\* The initial states satisfy the inductive invariant.
LEMMA InitIInv == Init => IInv
<1> SUFFICES ASSUME Init PROVE IInv
  OBVIOUS
<1>1. 0 \in Ids /\ 1 \in Ids /\ 0 \in 0 .. MaxSpawns /\ 0 \in 0 .. MaxRestarts
      /\ MaxInFlight \in Nat
  BY ConstantsAssumption DEF Ids
<1>2. /\ sv = [serverId |-> 1, restartedServerId |-> 1, systeminfo |-> 1,
               state |-> "CONNECTED"]
      /\ cl = [state |-> "CONNECTED", serverId |-> 0, serverMessageSequence |-> AFTER,
               serverCommandSequence |-> 0, lastExecutedServerCommand |-> 0,
               snap |-> None]
      /\ commands = <<>> /\ toServer = <<>> /\ toClient = <<>>
      /\ spawns = 0 /\ restarts = 0
      /\ loaded = 0 /\ arrived = TRUE /\ wrongLevel = FALSE /\ needless = FALSE
  BY DEF Init
<1>3. TypesInv
  <2>1. sv \in Server
    BY <1>1, <1>2 DEF Server
  <2>2. cl \in Client
    BY <1>1, <1>2 DEF Client, Numbers
  <2>3. /\ commands \in Seq(Ids)
        /\ toServer \in Seq(ClientMessage) /\ Len(toServer) = 0
        /\ toClient \in Seq(ServerMessage) /\ Len(toClient) = 0
    BY <1>2
  <2>4. 0 <= MaxInFlight
    BY <1>1
  <2> QED
    BY <1>1, <1>2, <2>1, <2>2, <2>3, <2>4 DEF TypesInv
<1>4. IdsInv
  BY <1>2 DEF IdsInv
<1>5. DOMAIN commands = {} /\ DOMAIN toServer = {} /\ DOMAIN toClient = {} /\ Len(commands) = 0
  BY <1>2
<1>6. OrderInv
  BY <1>2, <1>5 DEF OrderInv, Ordered, CommandsInv, None
<1>7. LevelsInv
  BY <1>2, <1>5 DEF LevelsInv
<1>8. LoadedInv
  BY <1>2, <1>5 DEF LoadedInv, Outside
<1>9. ResentInv
  BY <1>2 DEF ResentInv
<1> QED
  BY <1>3, <1>4, <1>6, <1>7, <1>8, <1>9 DEF IInv

LEMMA ServerStep ==
    ASSUME IInv, ServerReceives
    PROVE  IInv'
<1> DEFINE m == Head(toServer)
<1>1. toServer # <<>> /\ SV_ExecuteClientMessage(m)
  BY DEF ServerReceives
<1> HIDE DEF m
<1>2. CASE /\ m.serverId # sv.serverId /\ ~FromBeforeRestart(m) /\ DroppedGamestate(m)
           /\ SV_SendClientGameState
           /\ needless' = (needless \/ (sv.state # "CONNECTED" /\ arrived))
           /\ UNCHANGED <<commands, spawns, restarts, loaded, wrongLevel>>
  BY <1>1, <1>2, GamestateStep DEF m
<1>3. CASE /\ toServer' = Tail(toServer)
           /\ UNCHANGED <<sv, cl, commands, toClient, history>>
  BY <1>1, <1>3, IgnoreStep
<1>4. CASE /\ m.serverId = sv.serverId /\ m.move
           /\ SV_UserMove
           /\ toServer' = Tail(toServer)
           /\ UNCHANGED <<cl, commands, toClient, spawns, restarts, loaded, arrived, needless>>
  BY <1>1, <1>4, MoveStep DEF m
<1> QED
  BY <1>1, <1>2, <1>3, <1>4 DEF SV_ExecuteClientMessage

\* Every step, and a stutter, keeps it.
LEMMA NextIInv == IInv /\ [Next]_vars => IInv'
<1> SUFFICES ASSUME IInv, [Next]_vars PROVE IInv'
  OBVIOUS
<1>1. CASE ServerReceives
  BY <1>1, ServerStep
<1>2. CASE SV_Frame
  BY <1>2, FrameStep
<1>3. CASE SV_SpawnServer
  BY <1>3, SpawnStep
<1>4. CASE SV_MapRestart_f
  BY <1>4, RestartStep
<1>5. CASE CL_WritePacket
  <2>1. /\ cl' = cl /\ toServer' = Send(toServer, Packet(cl))
        /\ UNCHANGED <<sv, commands, toClient, history>>
    BY <1>5 DEF CL_WritePacket
  <2>2. cl' \in Client /\ Packet(cl') = Packet(cl)
    BY <2>1, StateFacts
  <2> QED
    BY <2>1, <2>2, PacketStep
<1>6. CASE \E i \in DOMAIN toClient : ClientReceives(i)
  BY <1>6, ReceiveStep
<1>7. CASE CL_InitCGame
  <2>1. /\ cl' = [cl EXCEPT !.state = "PRIMED"]
        /\ toServer' = Send(toServer, Packet(cl'))
        /\ UNCHANGED <<sv, commands, toClient, history>>
    BY <1>7 DEF CL_InitCGame
  <2>2. /\ cl' \in Client
        /\ cl'.serverId = cl.serverId
        /\ cl'.serverMessageSequence = cl.serverMessageSequence
        /\ cl'.serverCommandSequence = cl.serverCommandSequence
        /\ cl'.lastExecutedServerCommand = cl.lastExecutedServerCommand
        /\ cl'.snap = cl.snap
    BY <2>1, StateFacts DEF Client
  <2> QED
    BY <2>1, <2>2, PacketStep
<1>8. CASE CL_GetSnapshot
  BY <1>8, GetSnapshotStep
<1>9. CASE UNCHANGED vars
  <2>1. UNCHANGED <<sv, cl, commands, toServer, toClient,
                    spawns, restarts, loaded, arrived, wrongLevel, needless>>
    BY <1>9 DEF vars
  <2>2. TypesInv' /\ IdsInv'
    BY <2>1 DEF IInv, TypesInv, IdsInv
  <2>3. OrderInv' /\ LevelsInv'
    BY <2>1 DEF IInv, OrderInv, LevelsInv
  <2>4. LoadedInv' /\ ResentInv'
    BY <2>1 DEF IInv, LoadedInv, Outside, ResentInv
  <2> QED
    BY <2>2, <2>3, <2>4 DEF IInv
<1> QED
  BY <1>1, <1>2, <1>3, <1>4, <1>5, <1>6, <1>7, <1>8, <1>9 DEF Next

\* So it holds in every behaviour.
LEMMA Invariant == Spec => []IInv
  BY InitIInv, NextIInv, PTL DEF Spec

\* Both sides keep their types, and the numbers they keep of server commands stay
\* within the commands there are: SV_ExecuteClientMessage, CL_ParseServerMessage.
THEOREM TypeCorrect == Spec => []TypeOK
<1>1. ASSUME IInv PROVE TypeOK
  <2>1. sv \in Server /\ cl \in Client
    BY <1>1, StateFacts
  <2>2. /\ cl.state \in {"CONNECTED", "LOADING", "PRIMED", "ACTIVE"}
        /\ cl.serverId \in Ids /\ cl.serverMessageSequence \in {BEFORE, AT, AFTER}
        /\ cl.serverCommandSequence \in Nat /\ cl.lastExecutedServerCommand \in Nat
        /\ cl.snap \in Nat \cup {None}
    BY <2>1 DEF Client, Numbers
  <2>3. CommandsInv(cl, Len(commands)) /\ Len(commands) \in Nat
    BY <1>1, StateFacts DEF IInv, OrderInv
  <2>4. /\ cl.serverCommandSequence \in 0 .. Len(commands)
        /\ cl.lastExecutedServerCommand \in 0 .. cl.serverCommandSequence
        /\ cl.snap \in 0 .. cl.serverCommandSequence \cup {None}
    BY <2>2, <2>3 DEF CommandsInv
  <2>5. sv.restartedServerId <= sv.serverId
    BY <1>1, StateFacts DEF IInv, IdsInv
  <2>6. \A i, j \in DOMAIN toClient : i < j => toClient[i].number <= toClient[j].number
    BY <1>1 DEF IInv, OrderInv, Ordered, InOrder
  <2>7. /\ commands \in Seq(Ids)
        /\ Len(toServer) <= MaxInFlight /\ Len(toClient) <= MaxInFlight
    BY <1>1 DEF IInv, TypesInv
  <2> QED
    BY <2>1, <2>2, <2>4, <2>5, <2>6, <2>7 DEF TypeOK, Server
<1> QED
  BY <1>1, Invariant, PTL

\* As long as levels are restarted only with the client in them, no usercmd is
\* executed in another level than the one it was made for, whatever was lost and
\* however often the level changed in between: SV_ExecuteClientMessage compares the
\* server id of the message, and that is enough.
THEOREM UsercmdsInTheirLevel ==
    ASSUME RestartAnytime = FALSE
    PROVE  Spec => []UsercmdsFromCurrentLevel
<1>1. IInv => UsercmdsFromCurrentLevel
  BY DEF IInv, LoadedInv, UsercmdsFromCurrentLevel
<1> QED
  BY <1>1, Invariant, PTL

\* As long as no level was restarted, SV_ExecuteClientMessage sends a gamestate
\* again only to a client that did not get the last one.
THEOREM ResentOnlyIfDropped == Spec => []GamestateResentOnlyIfDropped
<1>1. IInv => GamestateResentOnlyIfDropped
  BY DEF IInv, ResentInv, GamestateResentOnlyIfDropped
<1> QED
  BY <1>1, Invariant, PTL
=============================================================================
