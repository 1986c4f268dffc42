-------------------------- MODULE HandshakeProofs --------------------------
(***************************************************************************)
(* For all delays of less than half of sv_reconnectlimit, and any number   *)
(* of packets, attempts, addresses and challenges: the server does not     *)
(* begin a connection anew that the client takes for established.          *)
(*                                                                         *)
(* The argument is about ages.  A connectResponse is as old as the         *)
(* connection it is of (RESPONSES), since a connection is begun anew only  *)
(* after the limit, when every answer is too old to be on its way.  So a   *)
(* client that has just taken one knows a connection no older than the     *)
(* delay, and as it sends no connect any more, the connection is at no     *)
(* later time older than a connect on its way by more than that (REPEATS). *)
(*                                                                         *)
(* And for all delays: a table with room enough keeps the challenge with   *)
(* which the client connects, see TableInv.                                *)
(***************************************************************************)
EXTENDS Handshake, TLAPS, FiniteSetTheorems, WellFoundedInduction

\* The fields of the three kinds of record, and the ranges of those that matter.
ClientRecords(challenge) ==
    [state : {"DISCONNECTED", "CONNECTING", "CHALLENGING", "CONNECTED"},
     challenge : {challenge},
     connectTime : 0 .. RetransmitTimeout, lastPacket : 0 .. ClientTimeout + 1]

ClientShape == client \in ClientRecords(client.challenge)

SlotRecords == [state : {"FREE", "CONNECTED", "ZOMBIE"},
                lastConnect : 0 .. ReconnectLimit, lastPacket : 0 .. ServerTimeout + 1]

PacketShape(p) ==
    /\ p = [kind |-> p.kind, challenge |-> p.challenge, age |-> p.age]
    /\ p.age \in 0 .. Delay

EntryShape(e) ==
    /\ e = [adr |-> e.adr, challenge |-> e.challenge, time |-> e.time, connected |-> e.connected]
    /\ e.adr \in Others \cup {Me, 0}

Shapes ==
    /\ ClientShape
    /\ slot \in SlotRecords
    /\ \A p \in net : PacketShape(p)
    /\ challenges = [i \in Entries |-> challenges[i]]
    /\ \A i \in Entries : EntryShape(challenges[i])

\* RESPONSES
AnswersAreAsOld ==
    \A p \in net : p.kind = "connectResponse" => slot.lastConnect <= p.age

\* REPEATS
RepeatsAreTooSoon ==
    client.state = "CONNECTED" =>
        \A p \in net : p.kind = "connect" => slot.lastConnect <= Delay + p.age

IInv == Shapes /\ AnswersAreAsOld /\ RepeatsAreTooSoon

-----------------------------------------------------------------------------
LEMMA WipedFacts ==
    /\ \A state \in {"DISCONNECTED", "CONNECTING", "CHALLENGING", "CONNECTED"} :
            Wiped(state) \in ClientRecords(0) /\ Wiped(state).state = state
            /\ Wiped(state).challenge = 0
    /\ RetransmitTimeout \in 0 .. RetransmitTimeout /\ 0 \in 0 .. RetransmitTimeout
    /\ 0 \in 0 .. ClientTimeout + 1 /\ 0 \in 0 .. ServerTimeout + 1
    /\ 0 \in 0 .. ReconnectLimit
  BY TimesAssumption DEF Wiped, ClientRecords

LEMMA ZeroedFacts ==
    /\ Zeroed \in SlotRecords /\ Zeroed.state = "FREE" /\ Zeroed.lastConnect = ReconnectLimit
    /\ LET new == [Zeroed EXCEPT !.state = "CONNECTED", !.lastConnect = 0, !.lastPacket = 0]
       IN  new \in SlotRecords /\ new.lastConnect = 0
<1>1. Zeroed \in SlotRecords /\ Zeroed.state = "FREE" /\ Zeroed.lastConnect = ReconnectLimit
  BY TimesAssumption DEF Zeroed, SlotRecords
<1> DEFINE new(r) == [r EXCEPT !.state = "CONNECTED", !.lastConnect = 0, !.lastPacket = 0]
<1>2. ASSUME NEW r \in SlotRecords PROVE new(r) \in SlotRecords /\ new(r).lastConnect = 0
  BY <1>2, WipedFacts DEF SlotRecords
<1>3. new(Zeroed) \in SlotRecords /\ new(Zeroed).lastConnect = 0
  BY <1>1, <1>2
<1> QED
  BY <1>1, <1>3

LEMMA PacketFacts ==
    ASSUME NEW kind, NEW n
    PROVE  /\ PacketShape(Packet(kind, n))
           /\ Packet(kind, n).kind = kind /\ Packet(kind, n).age = 0
  BY TimesAssumption DEF PacketShape, Packet

\* What is on its way after a packet is sent was on its way before, or is that packet.
LEMMA SendFacts ==
    ASSUME NEW ps, Send(ps)
    PROVE  net' \subseteq net \cup ps
  BY DEF Send

\* The initial states satisfy the inductive invariant.
LEMMA InitIInv == Init => IInv
<1> SUFFICES ASSUME Init PROVE IInv
  OBVIOUS
<1>1. ClientShape
  BY WipedFacts DEF Init, ClientShape
<1>2. slot \in SlotRecords
  BY ZeroedFacts DEF Init
<1>3. challenges = [i \in Entries |-> challenges[i]] /\ \A i \in Entries : EntryShape(challenges[i])
  BY DEF Init, EntryShape
<1> QED
  BY <1>1, <1>2, <1>3 DEF Init, IInv, Shapes, AnswersAreAsOld, RepeatsAreTooSoon, Wiped

-----------------------------------------------------------------------------
(* The table of challenges keeps its shape, whatever is done to it. *)

LEMMA TableKeeps ==
    ASSUME Shapes, NEW adr \in Others \cup {Me}
    PROVE  /\ TableFor(adr) = [i \in Entries |-> TableFor(adr)[i]]
           /\ \A i \in Entries : EntryShape(TableFor(adr)[i])
<1> DEFINE table == [challenges EXCEPT ![Oldest] = NewEntry(adr)]
<1>1. EntryShape(NewEntry(adr))
  BY DEF EntryShape, NewEntry
<1>2. table = [i \in Entries |-> table[i]] /\ \A i \in Entries : EntryShape(table[i])
  BY <1>1 DEF Shapes
<1> HIDE DEF table
<1>3. /\ Ranked(table) = [i \in Entries |-> Ranked(table)[i]]
      /\ \A i \in Entries : EntryShape(Ranked(table)[i])
  BY <1>2 DEF Ranked, EntryShape
<1> QED
  BY <1>3 DEF TableFor, table, Shapes

LEMMA MarkKeeps ==
    ASSUME Shapes, NEW i, NEW b
    PROVE  LET table == [challenges EXCEPT ![i].connected = b]
           IN  /\ table = [j \in Entries |-> table[j]]
               /\ \A j \in Entries : EntryShape(table[j])
<1> DEFINE marked(e) == [e EXCEPT !.connected = b]
<1>1. ASSUME NEW e, EntryShape(e) PROVE EntryShape(marked(e))
  <2>1. marked(e) = [adr |-> e.adr, challenge |-> e.challenge, time |-> e.time, connected |-> b]
    BY <1>1 DEF EntryShape
  <2> QED
    BY <1>1, <2>1 DEF EntryShape
<1>2. [challenges EXCEPT ![i].connected = b] = [challenges EXCEPT ![i] = marked(challenges[i])]
  BY DEF Shapes
<1> HIDE DEF marked
<1> DEFINE table == [challenges EXCEPT ![i] = marked(challenges[i])]
<1>3. table = [j \in Entries |-> table[j]]
  BY DEF Shapes
<1>4. ASSUME NEW j \in Entries PROVE EntryShape(table[j])
  <2>1. EntryShape(challenges[j])
    BY DEF Shapes
  <2>2. table[j] = IF j = i THEN marked(challenges[j]) ELSE challenges[j]
    BY DEF Shapes
  <2> QED
    BY <1>1, <2>1, <2>2
<1> QED
  BY <1>2, <1>3, <1>4

LEMMA ReleasedKeeps ==
    ASSUME Shapes, NEW adr
    PROVE  /\ Released(adr) = [i \in Entries |-> Released(adr)[i]]
           /\ \A i \in Entries : EntryShape(Released(adr)[i])
  BY MarkKeeps DEF Released, Shapes

-----------------------------------------------------------------------------
(* Steps of the client. *)

LEMMA DisconnectStep ==
    ASSUME IInv, NEW state \in {"DISCONNECTED", "CONNECTING"},
           client' = Wiped(state), Send(LastWords), UNCHANGED <<slot, challenges>>
    PROVE  IInv'
<1>1. net' \subseteq net \cup {Packet("quit", 0)}
  BY SendFacts DEF LastWords
<1>2. ClientShape' /\ client'.state # "CONNECTED"
  BY WipedFacts DEF ClientShape
<1>3. \A p \in net' : PacketShape(p) /\ (p.kind = "connectResponse" => p \in net)
  BY <1>1, PacketFacts DEF IInv, Shapes
<1> QED
  BY <1>2, <1>3 DEF IInv, Shapes, AnswersAreAsOld, RepeatsAreTooSoon

LEMMA ResendStep ==
    ASSUME IInv, CL_CheckForResend
    PROVE  IInv'
<1>1. \E n : \E kind \in {"getchallenge", "connect"} : Send({Packet(kind, n)})
  BY DEF CL_CheckForResend
<1>2. ClientShape' /\ client'.state = client.state
  BY WipedFacts DEF CL_CheckForResend, IInv, Shapes, ClientShape, ClientRecords
<1>3. PICK n : \E kind \in {"getchallenge", "connect"} : Send({Packet(kind, n)})
  BY <1>1
<1>4. PICK kind \in {"getchallenge", "connect"} : Send({Packet(kind, n)})
  BY <1>3
<1>5. net' \subseteq net \cup {Packet(kind, n)}
  BY <1>4, SendFacts
<1>6. \A p \in net' : PacketShape(p) /\ (p.kind = "connectResponse" => p \in net)
  BY <1>5, PacketFacts DEF IInv, Shapes
<1>7. client.state # "CONNECTED"
  BY DEF CL_CheckForResend
<1> QED
  BY <1>2, <1>6, <1>7 DEF CL_CheckForResend, IInv, Shapes, AnswersAreAsOld, RepeatsAreTooSoon

LEMMA HeardFacts ==
    ASSUME ClientShape, NEW p
    PROVE  /\ Heard(p) \in ClientRecords(client.challenge)
           /\ Heard(p).state = client.state
  BY WipedFacts DEF ClientShape, ClientRecords, Heard

\* A client that takes a connectResponse has sent its last connect.
LEMMA ReceiveStep ==
    ASSUME IInv, NEW p, Receives(p), p \in net \/ p.kind \in {"packet", "dropped"}
    PROVE  IInv'
<1>1. CASE CL_Disconnect
  BY <1>1, DisconnectStep DEF CL_Disconnect, Receives
<1>2. CASE /\ client' = Answered(Heard(p), p)
           /\ UNCHANGED net
  <2>1. ClientShape /\ UNCHANGED <<slot, challenges>>
    BY DEF IInv, Shapes, Receives
  <2>2. ClientShape' /\ (client'.state = "CONNECTED" => client.state = "CONNECTED"
                                                        \/ p.kind = "connectResponse")
    <3>1. CASE p.kind = "challengeResponse"
      <4> DEFINE answered(h) == [h EXCEPT !.state = "CHALLENGING", !.challenge = p.challenge,
                                          !.connectTime = RetransmitTimeout]
      <4>1. ASSUME NEW h \in ClientRecords(client.challenge)
            PROVE  answered(h) \in ClientRecords(p.challenge) /\ answered(h).state = "CHALLENGING"
                   /\ answered(h).challenge = p.challenge
        BY <4>1, WipedFacts DEF ClientRecords
      <4>2. client' = answered(Heard(p))
        BY <1>2, <3>1 DEF Answered
      <4> HIDE DEF answered
      <4> QED
        BY <2>1, <4>1, <4>2, HeardFacts DEF ClientShape
    <3>2. CASE p.kind = "connectResponse"
      <4>1. client' = [Wiped("CONNECTED") EXCEPT !.lastPacket = Heard(p).lastPacket]
        BY <1>2, <3>2 DEF Answered
      <4>2. Heard(p).lastPacket \in 0 .. ClientTimeout + 1
        BY <2>1, HeardFacts DEF ClientRecords
      <4>3. Wiped("CONNECTED") \in ClientRecords(0)
        BY WipedFacts
      <4>4. client' \in ClientRecords(0) /\ client'.challenge = 0
        BY <4>1, <4>2, <4>3 DEF ClientRecords
      <4> QED
        BY <3>2, <4>4 DEF ClientShape
    <3>3. CASE p.kind \notin {"challengeResponse", "connectResponse"}
      <4>1. client' = Heard(p)
        BY <1>2, <3>3 DEF Answered
      <4>2. client'.challenge = client.challenge
        BY <2>1, <4>1, HeardFacts DEF ClientRecords
      <4> QED
        BY <2>1, <4>1, <4>2, HeardFacts DEF ClientShape
    <3> QED
      BY <3>1, <3>2, <3>3
  <2>3. RepeatsAreTooSoon'
    <3>1. CASE client.state = "CONNECTED"
      BY <1>2, <2>1, <3>1 DEF IInv, RepeatsAreTooSoon
    <3>2. CASE client.state # "CONNECTED" /\ client'.state = "CONNECTED"
      <4>1. p \in net /\ p.kind = "connectResponse" /\ p.age \in 0 .. Delay
        BY <2>2, <3>2 DEF IInv, Shapes, PacketShape
      <4>2. slot.lastConnect <= p.age
        BY <4>1 DEF IInv, AnswersAreAsOld
      <4>3. \A q \in net : q.age \in 0 .. Delay
        BY DEF IInv, Shapes, PacketShape
      <4>4. slot.lastConnect \in Nat /\ Delay \in Nat
        BY TimesAssumption DEF IInv, Shapes, SlotRecords
      <4> QED
        BY <1>2, <2>1, <4>1, <4>2, <4>3, <4>4 DEF RepeatsAreTooSoon
    <3> QED
      BY <3>1, <3>2 DEF RepeatsAreTooSoon
  <2> QED
    BY <1>2, <2>1, <2>2, <2>3 DEF IInv, Shapes, AnswersAreAsOld
<1> QED
  BY <1>1, <1>2 DEF Receives

-----------------------------------------------------------------------------
(* Steps of the server. *)

\* The server sends something, and the connection remains as old as it is.
LEMMA ServerSends ==
    ASSUME IInv, UNCHANGED client, slot' \in SlotRecords, slot'.lastConnect = slot.lastConnect,
           NEW ps, net' \subseteq net \cup ps,
           \A p \in ps : PacketShape(p) /\ p.kind \notin {"connect", "connectResponse"},
           challenges' = [i \in Entries |-> challenges'[i]],
           \A i \in Entries : EntryShape(challenges'[i])
    PROVE  IInv'
  BY DEF IInv, Shapes, ClientShape, AnswersAreAsOld, RepeatsAreTooSoon

\* A connect that is not too soon does not meet a client that is connected, nor an
\* answer to an earlier one.
LEMMA NoLateConnect ==
    ASSUME IInv, 2 * Delay < ReconnectLimit, ~TooSoon, NEW p \in net, p.kind = "connect"
    PROVE  client.state # "CONNECTED" /\ \A q \in net : q.kind # "connectResponse"
<1>1. slot.lastConnect \in Nat /\ Delay \in Nat /\ ReconnectLimit \in Nat
      /\ \A q \in net : q.age \in 0 .. Delay
  BY TimesAssumption DEF IInv, Shapes, SlotRecords, PacketShape
<1>2. slot.lastConnect >= ReconnectLimit
  BY <1>1 DEF TooSoon
<1> QED
  BY <1>1, <1>2 DEF IInv, AnswersAreAsOld, RepeatsAreTooSoon

LEMMA ConnectStep ==
    ASSUME IInv, 2 * Delay < ReconnectLimit, SV_DirectConnect
    PROVE  IInv'
<1>1. PICK p \in net :
        /\ p.kind = "connect" /\ ~TooSoon
        /\ \/ /\ Send({Packet("err_dialog", 0)})
              /\ UNCHANGED <<slot, challenges>>
           \/ /\ challenges' = [challenges EXCEPT ![First(ValidFor(p.challenge))].connected = TRUE]
              /\ \/ /\ slot' = [Zeroed EXCEPT !.state = "CONNECTED", !.lastConnect = 0, !.lastPacket = 0]
                    /\ Send({Packet("connectResponse", 0)})
                 \/ /\ slot' = Zeroed
                    /\ Send({Packet("err_dialog", 0)})
  BY DEF SV_DirectConnect, Accepted
<1>2. client' = client
  BY DEF SV_DirectConnect
<1>3. client.state # "CONNECTED" /\ \A q \in net : q.kind # "connectResponse"
  BY <1>1, NoLateConnect
<1>4. PICK kind \in {"err_dialog", "connectResponse"} :
        /\ net' \subseteq net \cup {Packet(kind, 0)}
        /\ kind = "connectResponse" => slot'.lastConnect = 0
  BY <1>1, SendFacts, ZeroedFacts
<1>5. slot' \in SlotRecords
  BY <1>1, ZeroedFacts DEF IInv, Shapes
<1>6. challenges' = [i \in Entries |-> challenges'[i]] /\ \A i \in Entries : EntryShape(challenges'[i])
  BY <1>1, MarkKeeps DEF IInv, Shapes
<1>7. \A q \in net' : PacketShape(q) /\ (q.kind = "connectResponse" => q.age = 0 /\ slot'.lastConnect = 0)
  BY <1>3, <1>4, PacketFacts DEF IInv, Shapes
<1>8. Shapes'
  BY <1>2, <1>5, <1>6, <1>7 DEF IInv, Shapes, ClientShape
<1>9. AnswersAreAsOld' /\ RepeatsAreTooSoon'
  BY <1>2, <1>3, <1>7 DEF AnswersAreAsOld, RepeatsAreTooSoon
<1> QED
  BY <1>8, <1>9 DEF IInv

LEMMA SlotFacts ==
    ASSUME slot \in SlotRecords, NEW state \in {"FREE", "CONNECTED", "ZOMBIE"}
    PROVE  LET new == [slot EXCEPT !.state = state]
           IN  new \in SlotRecords /\ new.lastConnect = slot.lastConnect
  BY DEF SlotRecords

LEMMA DropStep ==
    ASSUME IInv, Drop
    PROVE  /\ slot' \in SlotRecords /\ slot'.lastConnect = slot.lastConnect
           /\ challenges' = [i \in Entries |-> challenges'[i]]
           /\ \A i \in Entries : EntryShape(challenges'[i])
  BY SlotFacts, ReleasedKeeps DEF Drop, IInv, Shapes

LEMMA ServerStep ==
    ASSUME IInv,
           \/ SV_GetChallenge \/ SV_PacketEvent \/ SV_PacketEventQuit \/ SV_DropClient
           \/ SV_CheckTimeouts \/ \E o \in Others : OtherAsks(o)
    PROVE  IInv'
<1> DEFINE Table == /\ challenges' = [i \in Entries |-> challenges'[i]]
                    /\ \A i \in Entries : EntryShape(challenges'[i])
           Same == slot' \in SlotRecords /\ slot'.lastConnect = slot.lastConnect
           Sent == \E n : \E kind \in {"challengeResponse", "disconnect"} :
                        net' \subseteq net \cup {Packet(kind, n)}
<1>1. slot \in SlotRecords /\ Shapes
  BY DEF IInv, Shapes
<1>2. UNCHANGED slot => Same
  BY <1>1
<1>3. UNCHANGED challenges => Table
  BY <1>1 DEF Shapes
<1>4. client' = client
  BY DEF SV_GetChallenge, SV_PacketEvent, SV_PacketEventQuit, SV_DropClient, SV_CheckTimeouts, OtherAsks
<1>5. Same /\ Table
  <2>1. CASE SV_GetChallenge
    BY <1>1, <1>2, <2>1, TableKeeps DEF SV_GetChallenge
  <2>2. CASE SV_PacketEvent
    BY <1>1, <1>2, <1>3, <2>2, WipedFacts DEF SV_PacketEvent, SlotRecords
  <2>3. CASE SV_PacketEventQuit \/ SV_DropClient
    BY <1>2, <1>3, <2>3, DropStep DEF SV_PacketEventQuit, SV_DropClient
  <2>4. CASE SV_CheckTimeouts
    BY <1>1, <1>3, <2>4, SlotFacts, ReleasedKeeps DEF SV_CheckTimeouts
  <2>5. CASE \E o \in Others : OtherAsks(o)
    BY <1>1, <1>2, <2>5, TableKeeps DEF OtherAsks
  <2> QED
    BY <2>1, <2>2, <2>3, <2>4, <2>5
<1>6. Sent
  BY SendFacts DEF SV_GetChallenge, SV_PacketEvent, SV_PacketEventQuit, SV_DropClient,
                   SV_CheckTimeouts, OtherAsks
<1>7. PICK n : \E kind \in {"challengeResponse", "disconnect"} :
                    net' \subseteq net \cup {Packet(kind, n)}
  BY <1>6
<1>8. PICK kind \in {"challengeResponse", "disconnect"} : net' \subseteq net \cup {Packet(kind, n)}
  BY <1>7
<1>9. \A p \in {Packet(kind, n)} : PacketShape(p) /\ p.kind \notin {"connect", "connectResponse"}
  BY PacketFacts
<1> QED
  BY <1>4, <1>5, <1>8, <1>9, ServerSends

LEMMA SnapshotStep ==
    ASSUME IInv, SV_SendClientMessages
    PROVE  IInv'
<1> DEFINE p == Packet(IF slot.state = "ZOMBIE" THEN "dropped" ELSE "packet", 0)
<1>1. p.kind \in {"packet", "dropped"}
  BY PacketFacts
<1> QED
  BY <1>1, ReceiveStep DEF SV_SendClientMessages

-----------------------------------------------------------------------------
LEMMA OlderFacts ==
    ASSUME NEW oldest \in Nat, NEW age \in 0 .. oldest
    PROVE  Older(age, oldest) \in 0 .. oldest /\ Older(age, oldest) <= age + 1
  BY DEF Older

\* Everything grows older together, but for what is as old as one can tell.
LEMMA TickStep ==
    ASSUME IInv, Tick
    PROVE  IInv'
<1>1. /\ {RetransmitTimeout, ClientTimeout + 1, ReconnectLimit, ServerTimeout + 1} \subseteq Nat
      /\ Delay \in Nat
  BY TimesAssumption
<1>2. ClientShape' /\ client'.state = client.state
  <2>1. /\ Older(client.connectTime, RetransmitTimeout) \in 0 .. RetransmitTimeout
        /\ Older(client.lastPacket, ClientTimeout + 1) \in 0 .. ClientTimeout + 1
    BY <1>1, OlderFacts DEF IInv, Shapes, ClientShape, ClientRecords
  <2> QED
    BY <2>1 DEF Tick, IInv, Shapes, ClientShape, ClientRecords
<1>3. slot' \in SlotRecords /\ slot'.lastConnect <= slot.lastConnect + 1
  <2>1. /\ Older(slot.lastConnect, ReconnectLimit) \in 0 .. ReconnectLimit
        /\ Older(slot.lastConnect, ReconnectLimit) <= slot.lastConnect + 1
        /\ Older(slot.lastPacket, ServerTimeout + 1) \in 0 .. ServerTimeout + 1
    BY <1>1, OlderFacts DEF IInv, Shapes, SlotRecords
  <2> QED
    BY <2>1 DEF Tick, IInv, Shapes, SlotRecords
<1>4. \A p \in net' : \E q \in net : q.age < Delay /\ p = [q EXCEPT !.age = @ + 1]
  BY DEF Tick
<1>5. \A p \in net' : PacketShape(p) /\ \E q \in net : p.kind = q.kind /\ p.age = q.age + 1
  BY <1>1, <1>4 DEF IInv, Shapes, PacketShape
<1>6. slot.lastConnect \in Nat /\ slot'.lastConnect \in Nat
      /\ \A q \in net : q.age \in Nat
  BY <1>3 DEF IInv, Shapes, SlotRecords, PacketShape
<1>7. Shapes'
  BY <1>2, <1>3, <1>5 DEF IInv, Shapes, Tick
<1>8. AnswersAreAsOld' /\ RepeatsAreTooSoon'
  BY <1>1, <1>2, <1>3, <1>5, <1>6 DEF IInv, AnswersAreAsOld, RepeatsAreTooSoon
<1> QED
  BY <1>7, <1>8 DEF IInv

-----------------------------------------------------------------------------
\* Every step, and a stutter, keeps it.
LEMMA NextIInv ==
    ASSUME 2 * Delay < ReconnectLimit
    PROVE  IInv /\ [Next]_vars => IInv'
<1> SUFFICES ASSUME IInv, [Next]_vars PROVE IInv'
  OBVIOUS
<1>1. CASE CL_Connect_f \/ CL_Disconnect_f \/ CL_CheckTimeout
  BY <1>1, DisconnectStep DEF CL_Connect_f, CL_Disconnect_f, CL_CheckTimeout, CL_Disconnect
<1>2. CASE CL_CheckForResend
  BY <1>2, ResendStep
<1>3. CASE \E kind \in ServerKinds : CL_PacketEvent(kind)
  BY <1>3, ReceiveStep DEF CL_PacketEvent
<1>4. CASE \/ SV_GetChallenge \/ SV_PacketEvent \/ SV_PacketEventQuit \/ SV_DropClient
           \/ SV_CheckTimeouts \/ \E o \in Others : OtherAsks(o)
  BY <1>4, ServerStep
<1>5. CASE SV_DirectConnect
  BY <1>5, ConnectStep
<1>6. CASE SV_SendClientMessages
  BY <1>6, SnapshotStep
<1>7. CASE Tick
  BY <1>7, TickStep
<1>8. CASE UNCHANGED vars
  BY <1>8 DEF vars, IInv, Shapes, ClientShape, AnswersAreAsOld, RepeatsAreTooSoon
<1> QED
  BY <1>1, <1>2, <1>3, <1>4, <1>5, <1>6, <1>7, <1>8 DEF Next

\* So it holds in every behaviour.
LEMMA Invariant ==
    ASSUME 2 * Delay < ReconnectLimit
    PROVE  Spec => []IInv
  BY InitIInv, NextIInv, PTL DEF Spec

-----------------------------------------------------------------------------
\* The client, its slot, the packets and the table are of their types; the part that
\* is not obvious is that no packet is older than the delay.
THEOREM TypeCorrect ==
    ASSUME 2 * Delay < ReconnectLimit
    PROVE  Spec => []TypeOK
<1>1. IInv => TypeOK
  BY DEF IInv, Shapes, ClientShape, ClientRecords, SlotRecords, PacketShape, EntryShape, TypeOK
<1> QED
  BY <1>1, Invariant, PTL

\* Whatever the network does with the packets, as long as none is on its way for half
\* of sv_reconnectlimit or more: a connect that arrives while the client takes the
\* connection for established is rejected as "too soon" (SV_DirectConnect).
THEOREM NotRebuilt ==
    ASSUME 2 * Delay < ReconnectLimit
    PROVE  Spec => EstablishedIsNotRebuilt
<1>1. IInv /\ [Next]_vars => [client.state = "CONNECTED" => ~Rebuilt]_vars
  <2> SUFFICES ASSUME IInv, Next, client.state = "CONNECTED", Rebuilt PROVE FALSE
    BY DEF Rebuilt, vars
  <2>1. slot \in SlotRecords
    BY DEF IInv, Shapes
  <2>2. CASE SV_DirectConnect
    BY <2>2, NoLateConnect DEF SV_DirectConnect
  <2>3. CASE Tick
    <3>1. Older(slot.lastConnect, ReconnectLimit) = 0 => slot.lastConnect = 0
      BY <2>1, TimesAssumption DEF SlotRecords, Older
    <3> QED
      BY <2>1, <2>3, <3>1 DEF Tick, Rebuilt, SlotRecords
  <2>4. ASSUME slot' = slot \/ slot'.lastConnect = slot.lastConnect PROVE FALSE
    BY <2>4 DEF Rebuilt
  <2>5. CASE \/ SV_PacketEvent \/ SV_PacketEventQuit \/ SV_DropClient \/ SV_CheckTimeouts
    BY <2>1, <2>4, <2>5, SlotFacts DEF SV_PacketEvent, SV_PacketEventQuit, SV_DropClient, Drop,
        SV_CheckTimeouts, SlotRecords
  <2> QED
    BY <2>2, <2>3, <2>4, <2>5 DEF Next, CL_Connect_f, CL_Disconnect_f, CL_CheckForResend,
        CL_CheckTimeout, CL_PacketEvent, Receives, SV_GetChallenge, SV_SendClientMessages, OtherAsks
<1> QED
  BY <1>1, Invariant, PTL DEF Spec, EstablishedIsNotRebuilt

-----------------------------------------------------------------------------
(***************************************************************************)
(* The table is not cycled out if it has room for an entry of each other   *)
(* address, one for each attempt of the client, and one more.  Another     *)
(* address has one entry at most, for it is answered from that one again.  *)
(* The client gets a new one when all it has are marked as connected, and  *)
(* only a challenge is so marked that the client has used: one in each     *)
(* attempt (Kept).  So an entry that nobody has is left whenever one is    *)
(* needed, and it is older than all that are used (TableGood).             *)
(***************************************************************************)
Room ==
    /\ IsFiniteSet(Others)
    /\ Cardinality(Others) + MaxAttempts < MaxChallenges

Kinds == {"quit", "getchallenge", "connect", "challengeResponse", "connectResponse",
          "disconnect", "err_dialog"}

ClientType ==
    [state : {"DISCONNECTED", "CONNECTING", "CHALLENGING", "CONNECTED"}, challenge : Nat,
     connectTime : Nat, lastPacket : Nat]

PacketType == [kind : Kinds, challenge : Nat, age : Nat]

EntryType ==
    [adr : Others \cup {Me, 0}, challenge : Nat, time : Nat, connected : BOOLEAN]

Unused(table) == { i \in Entries : table[i].adr = 0 }

\* As long as there are entries that nobody has, they are the oldest; the challenges of an
\* address differ, and those of others, of which the number is not kept, are one at most.
TableGood(table) ==
    /\ table \in [Entries -> EntryType]
    /\ \A i \in Entries : table[i].adr = 0 => table[i].time = 0
    /\ \A i, j \in Entries : table[i].adr = 0 /\ table[j].adr # 0 => table[j].time > 0
    /\ \A i, j \in Entries : table[i].adr = table[j].adr /\ table[i].challenge = table[j].challenge
                                => i = j \/ table[i].adr = 0
    /\ \A i \in Entries : table[i].adr \in Others => ~table[i].connected /\ table[i].challenge = 0

Known(table, n) == \E i \in Entries : table[i].adr = Me /\ table[i].challenge = n

\* Answers are from the table, and connects have challenges that the client has used.
PacketsGood(ps, used, table) ==
    /\ IsFiniteSet(ps) /\ ps \in SUBSET PacketType
    /\ \A p \in ps :
        /\ p.kind = "connect" => p.challenge \in used
        /\ p.kind = "challengeResponse" => Known(table, p.challenge)

Marked(table, used) ==
    \A i \in Entries : table[i].adr = Me /\ table[i].connected => table[i].challenge \in used

\* The client has used these challenges, one in each attempt.
Kept(used) ==
    /\ IsFiniteSet(used)
    /\ Cardinality(used) + (IF client.state = "CONNECTING" THEN 1 ELSE 0) <= attempts
    /\ client.state = "CHALLENGING" =>
            client.challenge \in used /\ Known(challenges, client.challenge)
    /\ PacketsGood(net, used, challenges)
    /\ Marked(challenges, used)

TableInv ==
    /\ client \in ClientType
    /\ TableGood(challenges)
    /\ attempts \in 0 .. MaxAttempts
    /\ Cardinality(Of(Me)) <= attempts + 1
    /\ \E used : Kept(used)

-----------------------------------------------------------------------------
(* Numbers and entries *)

\* A set of numbers has a least one, for less than is well-founded.
LEMMA FirstFacts ==
    ASSUME NEW S \in SUBSET Nat, S # {}
    PROVE  First(S) \in S /\ \A j \in S : First(S) <= j
<1>1. PICK s \in S : \A t \in S : ~ (<<t, s>> \in OpToRel(<, Nat))
  BY NatLessThanWellFounded, WFMin, Zenon
<1>2. ASSUME NEW t \in S, t < s PROVE <<t, s>> \in OpToRel(<, Nat)
  BY <1>2, Zenon DEF OpToRel
<1>3. \A t \in S : ~(t < s)
  BY <1>1, <1>2
<1>4. \A t \in S : s <= t
  BY <1>3
<1> QED
  BY <1>4 DEF First

LEMMA EntriesFacts ==
    /\ Entries \in SUBSET Nat /\ Entries # {}
    /\ IsFiniteSet(Entries) /\ Cardinality(Entries) = MaxChallenges
<1>1. MaxChallenges \in Nat /\ MaxChallenges > 0
  BY AddressAssumption
<1>2. 0 \in Entries
  BY <1>1 DEF Entries
<1>3. 0 \in Int /\ MaxChallenges - 1 \in Int
  BY <1>1
<1>4. IsFiniteSet(Entries) /\ Cardinality(Entries) = MaxChallenges
  <2>1. /\ IsFiniteSet(0 .. MaxChallenges - 1)
        /\ Cardinality(0 .. MaxChallenges - 1)
             = IF 0 > MaxChallenges - 1 THEN 0 ELSE (MaxChallenges - 1) - 0 + 1
    BY <1>3, FS_Interval
  <2> QED
    BY <1>1, <2>1 DEF Entries
<1>5. Entries \in SUBSET Nat
  BY <1>1 DEF Entries
<1> QED
  BY <1>2, <1>4, <1>5

LEMMA EntriesOf ==
    ASSUME NEW S \in SUBSET Entries
    PROVE  /\ IsFiniteSet(S) /\ Cardinality(S) \in Nat
           /\ S # {} => First(S) \in S
  BY EntriesFacts, FS_Subset, FS_CardinalityType, FirstFacts

LEMMA ImageIsFinite ==
    ASSUME NEW S, IsFiniteSet(S), NEW f
    PROVE  IsFiniteSet({ f[x] : x \in S })
<1> DEFINE T == { f[x] : x \in S }
           g == [x \in S |-> f[x]]
<1>1. g \in Surjection(S, T)
  BY DEF Surjection
<1> HIDE DEF g, T
<1>2. IsFiniteSet(T)
  BY <1>1, FS_Surjection
<1> QED
  BY <1>2 DEF T

\* rand() gives a challenge that the table does not have.
LEMMA RandomFacts ==
    ASSUME IsFiniteSet(net)
    PROVE  Random \in Nat /\ \A i \in Entries : challenges[i].challenge # Random
<1> DEFINE table == { challenges[i].challenge : i \in Entries }
           packets == { p.challenge : p \in net }
           used == table \cup packets \cup {client.challenge}
           new == (1 .. Cardinality(used) + 1) \ used
<1>1. IsFiniteSet(table)
  <2> DEFINE f == [i \in Entries |-> challenges[i].challenge]
  <2>1. table = { f[i] : i \in Entries }
    OBVIOUS
  <2> HIDE DEF f
  <2> QED
    BY <2>1, EntriesFacts, ImageIsFinite
<1>2. IsFiniteSet(packets)
  <2> DEFINE f == [p \in net |-> p.challenge]
  <2>1. packets = { f[p] : p \in net }
    OBVIOUS
  <2> HIDE DEF f
  <2> QED
    BY <2>1, ImageIsFinite
<1> HIDE DEF table, packets
<1>3. IsFiniteSet(used)
  BY <1>1, <1>2, FS_Union, FS_Singleton
<1>4. \A i \in Entries : challenges[i].challenge \in used
  BY DEF table
<1>5. Random = First(new)
  BY Zenon DEF Random, table, packets
<1> HIDE DEF used
<1>6. Cardinality(used) \in Nat
  BY <1>3, FS_CardinalityType
<1>7. new # {}
  <2> SUFFICES ASSUME new = {} PROVE FALSE
    OBVIOUS
  <2>1. 1 .. Cardinality(used) + 1 \in SUBSET used
    OBVIOUS
  <2>2. Cardinality(1 .. Cardinality(used) + 1) <= Cardinality(used)
    BY <1>3, <2>1, FS_Subset
  <2>3. Cardinality(1 .. Cardinality(used) + 1) = Cardinality(used) + 1
    BY <1>6, FS_Interval
  <2> QED
    BY <1>6, <2>2, <2>3
<1>8. new \in SUBSET Nat /\ new \cap used = {}
  BY <1>6
<1> HIDE DEF new
<1>9. Random \in new
  BY <1>5, <1>7, <1>8, FirstFacts
<1> QED
  BY <1>4, <1>8, <1>9

\* The entry that is used next is one that nobody has, if there is one.
LEMMA OldestFacts ==
    ASSUME TableGood(challenges)
    PROVE  /\ Oldest \in Entries
           /\ Unused(challenges) # {} => challenges[Oldest].adr = 0
<1> DEFINE times == { challenges[i].time : i \in Entries }
           old == { i \in Entries : \A j \in Entries : challenges[i].time <= challenges[j].time }
<1>1. \A i \in Entries : challenges[i] \in EntryType
  BY DEF TableGood
<1>2. times \in SUBSET Nat /\ times # {}
  BY <1>1, EntriesFacts DEF EntryType
<1>3. First(times) \in times /\ \A n \in times : First(times) <= n
  BY <1>2, FirstFacts
<1>4. PICK i \in Entries : challenges[i].time = First(times)
  BY <1>3
<1>5. i \in old
  BY <1>3, <1>4
<1>6. Oldest = First(old)
  BY DEF Oldest
<1>7. First(old) \in old
  BY <1>5, EntriesOf
<1>8. Oldest \in Entries /\ \A j \in Entries : challenges[Oldest].time <= challenges[j].time
  BY <1>6, <1>7
<1>9. ASSUME NEW j \in Unused(challenges) PROVE challenges[Oldest].adr = 0
  <2>1. j \in Entries /\ challenges[j].adr = 0 /\ challenges[j].time = 0
    BY DEF Unused, TableGood
  <2>2. challenges[Oldest].time <= 0
    BY <1>8, <2>1
  <2>3. challenges[Oldest].time \in Nat
    BY <1>1, <1>8 DEF EntryType
  <2>4. challenges[Oldest].adr # 0 => challenges[Oldest].time > 0
    BY <1>8, <2>1 DEF TableGood
  <2> QED
    BY <2>2, <2>3, <2>4
<1> QED
  BY <1>8, <1>9

\* The ranks of the times: nothing else is changed, and what was the oldest still is.
LEMMA RankedFacts ==
    ASSUME NEW table \in [Entries -> EntryType], NEW r, r = Ranked(table)
    PROVE  /\ r \in [Entries -> EntryType]
           /\ \A i \in Entries :
                /\ r[i].adr = table[i].adr /\ r[i].challenge = table[i].challenge
                /\ r[i].connected <=> table[i].connected
                /\ table[i].time = 0 => r[i].time = 0
                /\ table[i].time > 0 /\ (\E j \in Entries : table[j].time = 0) => r[i].time > 0
<1> DEFINE times == { table[j].time : j \in Entries }
           below(i) == times \cap (0 .. table[i].time - 1)
<1>1. \A i \in Entries : table[i] \in EntryType /\ table[i].time \in Nat
  BY DEF EntryType
<1>2. ASSUME NEW i \in Entries
      PROVE  /\ IsFiniteSet(below(i)) /\ Cardinality(below(i)) \in Nat
             /\ table[i].time = 0 => Cardinality(below(i)) = 0
             /\ 0 \in below(i) => Cardinality(below(i)) > 0
  <2>1. IsFiniteSet(0 .. table[i].time - 1)
    BY <1>1, FS_Interval
  <2>2. below(i) \in SUBSET (0 .. table[i].time - 1)
    OBVIOUS
  <2>3. table[i].time = 0 => below(i) = {}
    BY <2>2
  <2> HIDE DEF below
  <2>4. IsFiniteSet(below(i)) /\ Cardinality(below(i)) \in Nat
    BY <2>1, <2>2, FS_Subset, FS_CardinalityType
  <2>5. Cardinality(below(i)) = 0 <=> below(i) = {}
    BY <2>4, FS_EmptySet
  <2> QED
    BY <2>3, <2>4, <2>5
<1>3. ASSUME NEW i \in Entries, table[i].time > 0, NEW j \in Entries, table[j].time = 0
      PROVE  0 \in below(i)
  BY <1>1, <1>3
<1>4. \A i \in Entries : r[i] = [table[i] EXCEPT !.time = Cardinality(below(i))]
  BY DEF Ranked
<1>5. r = [i \in Entries |-> r[i]]
  BY DEF Ranked
<1> HIDE DEF below
<1>6. ASSUME NEW i \in Entries
      PROVE  /\ r[i] \in EntryType
             /\ r[i].adr = table[i].adr /\ r[i].challenge = table[i].challenge
             /\ r[i].connected <=> table[i].connected
             /\ r[i].time = Cardinality(below(i))
  <2>1. r[i] = [table[i] EXCEPT !.time = Cardinality(below(i))] /\ Cardinality(below(i)) \in Nat
    BY <1>2, <1>4
  <2> QED
    BY <1>1, <2>1 DEF EntryType
<1> QED
  BY <1>2, <1>3, <1>5, <1>6

-----------------------------------------------------------------------------
(* SV_GetChallenge *)

\* Another address has one entry at most, and the client one for each challenge.
LEMMA CountsOf ==
    ASSUME TableGood(challenges), IsFiniteSet(Others)
    PROVE  /\ Cardinality({ i \in Entries : challenges[i].adr \in Others }) <= Cardinality(Others)
           /\ \A o \in Others : Of(o) = {} =>
                Cardinality({ i \in Entries : challenges[i].adr \in Others }) <= Cardinality(Others) - 1
<1> DEFINE OO == { i \in Entries : challenges[i].adr \in Others }
           f == [i \in OO |-> challenges[i].adr]
<1>1. ASSUME NEW i \in OO, NEW j \in OO, challenges[i].adr = challenges[j].adr PROVE i = j
  BY <1>1, AddressAssumption DEF TableGood
<1>2. ASSUME NEW T, IsFiniteSet(T), \A i \in OO : challenges[i].adr \in T
      PROVE  Cardinality(OO) <= Cardinality(T)
  <2>1. f \in [OO -> T]
    BY <1>2
  <2>2. f \in Injection(OO, T)
    BY <1>1, <2>1 DEF Injection, IsInjective
  <2> HIDE DEF f, OO
  <2> QED
    BY <1>2, <2>2, FS_Injection
<1>3. ASSUME NEW o \in Others, Of(o) = {}
      PROVE  Cardinality(OO) <= Cardinality(Others) - 1
  <2>1. \A i \in OO : challenges[i].adr \in Others \ {o}
    BY <1>3 DEF Of
  <2>2. IsFiniteSet(Others \ {o}) /\ Cardinality(Others \ {o}) = Cardinality(Others) - 1
    BY FS_RemoveElement
  <2> HIDE DEF OO
  <2> QED
    BY <1>2, <2>1, <2>2
<1>4. Cardinality(OO) <= Cardinality(Others)
  BY <1>2
<1> QED
  BY <1>3, <1>4

LEMMA CountOfMine ==
    ASSUME TableGood(challenges), NEW used, IsFiniteSet(used), Marked(challenges, used),
           Pending(Me) = {}
    PROVE  Cardinality(Of(Me)) <= Cardinality(used)
<1> DEFINE f == [i \in Of(Me) |-> challenges[i].challenge]
<1>1. f \in [Of(Me) -> used]
  BY DEF Pending, Of, Marked
<1>2. \A i, j \in Of(Me) : challenges[i].challenge = challenges[j].challenge => i = j
  BY AddressAssumption DEF TableGood, Of
<1>3. f \in Injection(Of(Me), used)
  BY <1>1, <1>2 DEF Injection, IsInjective
<1> HIDE DEF f
<1> QED
  BY <1>3, FS_Injection

\* When a new entry is needed, there is one that nobody has.
LEMMA UnusedLeft ==
    ASSUME Room, TableInv, NEW adr \in Others \cup {Me}, Pending(adr) = {}
    PROVE  /\ Unused(challenges) # {}
           /\ adr = Me => Cardinality(Of(Me)) <= attempts
           /\ adr \in Others => Of(adr) = {}
<1> DEFINE OO == { i \in Entries : challenges[i].adr \in Others }
<1>1. TableGood(challenges) /\ attempts \in Nat /\ attempts <= MaxAttempts
      /\ Cardinality(Of(Me)) <= attempts + 1
  BY AddressAssumption DEF TableInv
<1>2. PICK used : Kept(used)
  BY DEF TableInv
<1>3. Of(Me) \in SUBSET Entries /\ OO \in SUBSET Entries
  BY DEF Of
<1>4. /\ Cardinality(Of(Me)) \in Nat /\ IsFiniteSet(Of(Me))
      /\ Cardinality(OO) \in Nat /\ IsFiniteSet(OO)
      /\ Cardinality(Others) \in Nat /\ MaxAttempts \in Nat /\ MaxChallenges \in Nat
  BY <1>3, EntriesOf, FS_CardinalityType, AddressAssumption DEF Room
<1>5. adr = Me => Cardinality(Of(Me)) <= attempts
  <2> SUFFICES ASSUME adr = Me PROVE Cardinality(Of(Me)) <= attempts
    OBVIOUS
  <2>1. Cardinality(Of(Me)) <= Cardinality(used) /\ Cardinality(used) \in Nat
    BY <1>1, <1>2, CountOfMine, FS_CardinalityType DEF Kept
  <2>2. Cardinality(used) <= attempts
    BY <1>1, <1>2, <2>1 DEF Kept
  <2> QED
    BY <1>1, <1>4, <2>1, <2>2
<1>6. adr \in Others => Of(adr) = {}
  BY <1>1 DEF Pending, Of, TableGood
<1>7. Unused(challenges) # {}
  <2> SUFFICES ASSUME Unused(challenges) = {} PROVE FALSE
    OBVIOUS
  <2>1. \A i \in Entries : challenges[i].adr \in Others \cup {Me, 0}
    BY <1>1 DEF TableGood, EntryType
  <2>2. Entries \in SUBSET (Of(Me) \cup OO)
    BY <2>1 DEF Unused, Of
  <2>3. IsFiniteSet(Of(Me) \cup OO) /\ Cardinality(Of(Me) \cap OO) \in Nat
        /\ Cardinality(Of(Me) \cup OO)
             = Cardinality(Of(Me)) + Cardinality(OO) - Cardinality(Of(Me) \cap OO)
    <3>1. Of(Me) \cap OO \in SUBSET Entries
      BY <1>3
    <3> HIDE DEF OO
    <3> QED
      BY <1>4, <3>1, FS_Union, EntriesOf
  <2>4. MaxChallenges <= Cardinality(Of(Me) \cup OO)
    BY <2>2, <2>3, EntriesFacts, FS_Subset
  <2>5. Cardinality(OO) <= Cardinality(Others)
        /\ (adr \in Others => Cardinality(OO) <= Cardinality(Others) - 1)
    BY <1>1, <1>6, CountsOf DEF Room
  <2> HIDE DEF OO
  <2>6. Cardinality(Of(Me)) + Cardinality(OO) <= Cardinality(Others) + attempts
    BY <1>1, <1>4, <1>5, <2>5
  <2> QED
    BY <1>1, <1>4, <2>3, <2>4, <2>6 DEF Room
<1> QED
  BY <1>5, <1>6, <1>7

\* What is in the table stays there, but for what is marked or released.
Stays(table) ==
    \A i \in Entries : challenges[i].adr # 0 =>
        table[i].adr = challenges[i].adr /\ table[i].challenge = challenges[i].challenge

TableWithNew(adr) == Ranked([challenges EXCEPT ![Oldest] = NewEntry(adr)])

\* A new entry takes the place of one that nobody has.
LEMMA NewEntryFacts ==
    ASSUME TableGood(challenges), IsFiniteSet(net), Unused(challenges) # {},
           NEW adr \in Others \cup {Me}, adr \in Others => Of(adr) = {},
           NEW r, r = TableWithNew(adr)
    PROVE  /\ TableGood(r) /\ Stays(r)
           /\ \A used : Marked(challenges, used) => Marked(r, used)
           /\ Oldest \in Entries /\ r[Oldest].adr = adr
           /\ \A i \in Entries \ {Oldest} : r[i].adr = challenges[i].adr
<1> PICK o : o = Oldest
  OBVIOUS
<1>1. o \in Entries /\ challenges[o].adr = 0
  BY OldestFacts
<1> PICK new : new = NewEntry(adr)
  OBVIOUS
<1>2. MaxChallenges \in Nat /\ 0 \notin Others /\ Me \notin Others /\ Me # 0
  BY AddressAssumption
<1>3. /\ new \in EntryType /\ new.adr = adr /\ ~new.connected /\ new.time > 0
      /\ adr \in Others => new.challenge = 0
      /\ adr = Me => \A i \in Entries : challenges[i].challenge # new.challenge
  BY <1>2, RandomFacts DEF NewEntry, EntryType
<1> PICK table : table = [challenges EXCEPT ![o] = new]
  OBVIOUS
<1>4. challenges \in [Entries -> EntryType]
  BY DEF TableGood
<1>5. /\ table \in [Entries -> EntryType] /\ table[o] = new
      /\ \A i \in Entries \ {o} : table[i] = challenges[i]
  BY <1>1, <1>3, <1>4
<1>6. r = Ranked(table)
  BY Zenon DEF TableWithNew
<1>7. /\ r \in [Entries -> EntryType]
      /\ \A i \in Entries :
            /\ r[i].adr = table[i].adr /\ r[i].challenge = table[i].challenge
            /\ r[i].connected <=> table[i].connected
            /\ table[i].time = 0 => r[i].time = 0
            /\ table[i].time > 0 /\ (\E j \in Entries : table[j].time = 0) => r[i].time > 0
  BY <1>5, <1>6, RankedFacts
<1>8. \A i \in Entries : table[i].adr = 0 => i # o /\ challenges[i].adr = 0 /\ table[i].time = 0
  BY <1>2, <1>3, <1>5 DEF TableGood
<1>9. \A i \in Entries : r[i].adr = 0 => r[i].time = 0
  BY <1>7, <1>8
<1>10. ASSUME NEW i \in Entries, NEW j \in Entries, r[i].adr = 0, r[j].adr # 0
       PROVE  r[j].time > 0
  <2>1. table[i].time = 0 /\ challenges[i].adr = 0
    BY <1>7, <1>8, <1>10
  <2>2. table[j].time > 0
    <3>1. CASE j = o
      BY <1>3, <1>5, <3>1
    <3>2. CASE j # o
      <4>1. table[j] = challenges[j]
        BY <1>5, <3>2
      <4>2. challenges[j].adr # 0
        BY <1>7, <1>10, <4>1
      <4>3. challenges[j].time > 0
        BY <2>1, <4>2 DEF TableGood
      <4> QED
        BY <4>1, <4>3
    <3> QED
      BY <3>1, <3>2
  <2> QED
    BY <1>7, <2>1, <2>2
<1>11. ASSUME NEW i \in Entries, NEW j \in Entries, r[i].adr = r[j].adr,
              r[i].challenge = r[j].challenge, r[i].adr # 0
       PROVE  i = j
  <2>1. /\ table[i].adr = table[j].adr /\ table[i].challenge = table[j].challenge
        /\ table[i].adr # 0
    BY <1>7, <1>11
  <2>2. ASSUME NEW k \in Entries \ {o}, challenges[k].adr = adr, challenges[k].challenge = new.challenge
        PROVE  FALSE
    BY <1>3, <2>2 DEF Of
  <2>3. CASE i # o /\ j # o
    BY <1>5, <2>1, <2>3 DEF TableGood
  <2>4. CASE i = o /\ j # o
    BY <1>3, <1>5, <2>1, <2>2, <2>4
  <2>5. CASE i # o /\ j = o
    BY <1>3, <1>5, <2>1, <2>2, <2>5
  <2> QED
    BY <2>3, <2>4, <2>5
<1>12. \A i \in Entries : r[i].adr \in Others => ~r[i].connected /\ r[i].challenge = 0
  <2> SUFFICES ASSUME NEW i \in Entries, r[i].adr \in Others
               PROVE  ~r[i].connected /\ r[i].challenge = 0
    OBVIOUS
  <2>1. /\ r[i].adr = table[i].adr /\ r[i].challenge = table[i].challenge
        /\ r[i].connected <=> table[i].connected
    BY <1>7
  <2>2. CASE i = o
    <3>1. table[i] = new
      BY <1>5, <2>2
    <3>2. adr \in Others
      BY <1>3, <2>1, <3>1
    <3> QED
      BY <1>3, <2>1, <3>1, <3>2
  <2>3. CASE i # o
    <3>1. table[i] = challenges[i]
      BY <1>5, <2>3
    <3> QED
      BY <2>1, <3>1 DEF TableGood
  <2> QED
    BY <2>2, <2>3
<1>13. TableGood(r)
  <2>1. \A i, j \in Entries : r[i].adr = 0 /\ r[j].adr # 0 => r[j].time > 0
    BY <1>10
  <2>2. \A i, j \in Entries : r[i].adr = r[j].adr /\ r[i].challenge = r[j].challenge
                                => i = j \/ r[i].adr = 0
    BY <1>11
  <2> QED
    BY <1>7, <1>9, <1>12, <2>1, <2>2 DEF TableGood
<1>14. Stays(r)
  BY <1>1, <1>5, <1>7 DEF Stays
<1>15. \A used : Marked(challenges, used) => Marked(r, used)
  BY <1>3, <1>5, <1>7 DEF Marked
<1> QED
  BY <1>1, <1>3, <1>5, <1>7, <1>13, <1>14, <1>15

\* A request makes a table from which it is answered.
LEMMA TableForFacts ==
    ASSUME Room, TableInv, NEW adr \in Others \cup {Me}, NEW r, r = TableFor(adr)
    PROVE  /\ TableGood(r) /\ Stays(r)
           /\ \A used : Marked(challenges, used) => Marked(r, used)
           /\ Cardinality({ i \in Entries : r[i].adr = Me }) <= attempts + 1
           /\ adr = Me => Known(r, r[EntryFor(adr)].challenge) /\ r[EntryFor(adr)].challenge \in Nat
<1>1. TableGood(challenges) /\ IsFiniteSet(net) /\ attempts \in Nat
      /\ Cardinality(Of(Me)) <= attempts + 1
  BY AddressAssumption DEF TableInv, Kept, PacketsGood
<1>2. CASE Pending(adr) # {}
  <2>1. r = challenges /\ EntryFor(adr) = First(Pending(adr))
    BY <1>2 DEF TableFor, EntryFor
  <2>2. First(Pending(adr)) \in Pending(adr)
    BY <1>2, EntriesOf DEF Pending, Of
  <2>3. adr = Me => Known(r, r[EntryFor(adr)].challenge) /\ r[EntryFor(adr)].challenge \in Nat
    BY <1>1, <2>1, <2>2 DEF Pending, Of, Known, TableGood, EntryType
  <2>4. { i \in Entries : r[i].adr = Me } = Of(Me)
    BY <2>1 DEF Of
  <2> QED
    BY <1>1, <2>1, <2>3, <2>4 DEF Stays
<1>3. CASE Pending(adr) = {}
  <2>1. /\ Unused(challenges) # {}
        /\ adr = Me => Cardinality(Of(Me)) <= attempts
        /\ adr \in Others => Of(adr) = {}
    BY <1>3, UnusedLeft
  <2>2. r = TableWithNew(adr) /\ EntryFor(adr) = Oldest
    BY <1>3, Zenon DEF TableFor, EntryFor, TableWithNew
  <2>3. /\ TableGood(r) /\ Stays(r)
        /\ \A used : Marked(challenges, used) => Marked(r, used)
        /\ Oldest \in Entries /\ r[Oldest].adr = adr
        /\ \A i \in Entries \ {Oldest} : r[i].adr = challenges[i].adr
    BY <1>1, <2>1, <2>2, NewEntryFacts
  <2>4. challenges[Oldest].adr # Me
    BY <1>1, <2>1, OldestFacts, AddressAssumption
  <2>5. Cardinality({ i \in Entries : r[i].adr = Me }) <= attempts + 1
    <3>1. CASE adr = Me
      <4>1. { i \in Entries : r[i].adr = Me } = Of(Me) \cup {Oldest}
        BY <2>3, <3>1 DEF Of
      <4>2. IsFiniteSet(Of(Me)) /\ Cardinality(Of(Me)) \in Nat
        BY EntriesOf DEF Of
      <4>3. Oldest \notin Of(Me)
        BY <2>4 DEF Of
      <4>4. Cardinality(Of(Me) \cup {Oldest}) = Cardinality(Of(Me)) + 1
        BY <4>2, <4>3, FS_AddElement
      <4>5. Cardinality(Of(Me) \cup {Oldest}) <= attempts + 1
        BY <1>1, <2>1, <3>1, <4>2, <4>4
      <4> QED
        BY <4>1, <4>5, Zenon
    <3>2. CASE adr # Me
      <4>1. { i \in Entries : r[i].adr = Me } = Of(Me)
        BY <2>3, <2>4, <3>2 DEF Of
      <4> QED
        BY <1>1, <4>1
    <3> QED
      BY <3>1, <3>2
  <2>6. adr = Me => Known(r, r[EntryFor(adr)].challenge) /\ r[EntryFor(adr)].challenge \in Nat
    BY <2>2, <2>3 DEF Known, TableGood, EntryType
  <2> QED
    BY <2>3, <2>5, <2>6
<1> QED
  BY <1>2, <1>3

\* SV_DirectConnect and SV_FreeClient mark an entry of the client, and that is all.
LEMMA MarkFacts ==
    ASSUME TableGood(challenges), NEW i \in Of(Me), NEW b \in BOOLEAN,
           NEW r, r = [challenges EXCEPT ![i].connected = b]
    PROVE  /\ TableGood(r) /\ Stays(r)
           /\ { j \in Entries : r[j].adr = Me } = Of(Me)
           /\ \A used : Marked(challenges, used) /\ (b => challenges[i].challenge \in used)
                            => Marked(r, used)
<1> PICK new : new = [challenges[i] EXCEPT !.connected = b]
  OBVIOUS
<1>1. i \in Entries /\ challenges[i] \in EntryType /\ challenges[i].adr = Me
      /\ challenges \in [Entries -> EntryType]
  BY DEF TableGood, Of
<1>2. /\ new \in EntryType /\ new.adr = Me /\ new.challenge = challenges[i].challenge
      /\ new.time = challenges[i].time /\ (new.connected <=> b)
  BY <1>1 DEF EntryType
<1>3. r = [challenges EXCEPT ![i] = new]
  OBVIOUS
<1>4. /\ r \in [Entries -> EntryType] /\ r[i] = new
      /\ \A j \in Entries \ {i} : r[j] = challenges[j]
  BY <1>1, <1>2, <1>3
<1>5. \A j \in Entries : /\ r[j].adr = challenges[j].adr /\ r[j].time = challenges[j].time
                         /\ r[j].challenge = challenges[j].challenge
                         /\ r[j].connected => challenges[j].connected \/ (j = i /\ b)
  BY <1>1, <1>2, <1>4
<1>6. \A j \in Entries : r[j].adr \in Others => ~r[j].connected /\ r[j].challenge = 0
  BY <1>1, <1>5, AddressAssumption DEF TableGood
<1>7. TableGood(r)
  BY <1>4, <1>5, <1>6 DEF TableGood
<1> QED
  BY <1>5, <1>7 DEF Stays, Of, Marked

LEMMA ReleasedFacts ==
    ASSUME TableGood(challenges), NEW r, r = Released(Me)
    PROVE  /\ TableGood(r) /\ Stays(r)
           /\ { j \in Entries : r[j].adr = Me } = Of(Me)
           /\ \A used : Marked(challenges, used) => Marked(r, used)
<1>1. CASE Of(Me) = {}
  BY <1>1 DEF Released, Stays, Of
<1>2. CASE Of(Me) # {}
  <2>1. First(Of(Me)) \in Of(Me)
    BY <1>2, EntriesOf DEF Of
  <2>2. r = [challenges EXCEPT ![First(Of(Me))].connected = FALSE]
    BY <1>2 DEF Released
  <2> QED
    BY <2>1, <2>2, MarkFacts
<1> QED
  BY <1>1, <1>2

-----------------------------------------------------------------------------
(* Packets *)

LEMMA KnownStays ==
    ASSUME NEW table, Stays(table), NEW n, Known(challenges, n)
    PROVE  Known(table, n)
  BY AddressAssumption DEF Known, Stays

LEMMA NoneStays ==
    Stays(challenges)
  BY DEF Stays

\* One packet is sent, if at all: of another kind, or with a challenge that is good.
LEMMA SendOne ==
    ASSUME NEW used, PacketsGood(net, used, challenges), NEW table, Stays(table),
           NEW kind \in Kinds, NEW n \in Nat,
           kind = "connect" => n \in used, kind = "challengeResponse" => Known(table, n),
           net' \subseteq net \cup {Packet(kind, n)}
    PROVE  PacketsGood(net', used, table)
<1> PICK new : new = Packet(kind, n)
  OBVIOUS
<1>1. new \in PacketType /\ new.kind = kind /\ new.challenge = n
  BY DEF PacketType, Packet
<1>2. IsFiniteSet(net \cup {new})
  BY FS_Union, FS_Singleton DEF PacketsGood
<1>3. net' \in SUBSET (net \cup {new})
  OBVIOUS
<1>4. IsFiniteSet(net')
  BY <1>2, <1>3, FS_Subset
<1>5. \A p \in net : /\ p.kind = "connect" => p.challenge \in used
                     /\ p.kind = "challengeResponse" => Known(table, p.challenge)
  BY KnownStays DEF PacketsGood
<1> QED
  BY <1>1, <1>3, <1>4, <1>5 DEF PacketsGood

LEMMA SendNone ==
    ASSUME NEW used, PacketsGood(net, used, challenges), NEW table, Stays(table), net' = net
    PROVE  PacketsGood(net', used, table)
  BY KnownStays DEF PacketsGood

-----------------------------------------------------------------------------
(* Steps *)

\* A step of the server that sends nothing for which the client would have to have asked.
LEMMA ServerKeeps ==
    ASSUME TableInv, UNCHANGED <<client, attempts>>, TableGood(challenges'), Stays(challenges'),
           Cardinality(Of(Me)') <= attempts + 1, NEW used, Kept(used), Marked(challenges', used),
           PacketsGood(net', used, challenges')
    PROVE  TableInv'
<1>1. Kept(used)'
  BY KnownStays DEF Kept
<1> QED
  BY <1>1 DEF TableInv

\* The user or the time ends an attempt, or another one begins.
LEMMA DisconnectKeeps ==
    ASSUME TableInv, NEW state \in {"DISCONNECTED", "CONNECTING"}, client' = Wiped(state),
           Send(LastWords), UNCHANGED challenges,
           attempts' = IF state = "CONNECTING" THEN attempts + 1 ELSE attempts,
           attempts' <= MaxAttempts
    PROVE  TableInv'
<1>1. PICK used : Kept(used)
  BY DEF TableInv
<1>2. client' \in ClientType /\ client'.state = state
  BY TimesAssumption DEF Wiped, ClientType
<1>3. net' \subseteq net \cup {Packet("quit", 0)}
  BY SendFacts DEF LastWords
<1>4. PacketsGood(net', used, challenges)
  BY <1>1, <1>3, SendOne, NoneStays DEF Kept, Kinds
<1>5. attempts \in Nat /\ attempts' \in 0 .. MaxAttempts /\ Cardinality(used) \in Nat
      /\ Cardinality(Of(Me)) \in Nat
  BY <1>1, FS_CardinalityType, EntriesOf, AddressAssumption DEF TableInv, Kept, Of
<1>6. Cardinality(used) + (IF client'.state = "CONNECTING" THEN 1 ELSE 0) <= attempts'
  BY <1>1, <1>2, <1>5 DEF Kept
<1>7. Kept(used)'
  BY <1>1, <1>2, <1>4, <1>6 DEF Kept
<1>8. Of(Me)' = Of(Me)
  BY DEF Of
<1>9. Cardinality(Of(Me)') <= attempts' + 1
  BY <1>5, <1>8 DEF TableInv
<1> QED
  BY <1>2, <1>5, <1>7, <1>9 DEF TableInv

LEMMA ResendKeeps ==
    ASSUME TableInv, CL_CheckForResend
    PROVE  TableInv'
<1>1. PICK used : Kept(used)
  BY DEF TableInv
<1>2. client' \in ClientType /\ client'.state = client.state /\ client'.challenge = client.challenge
  BY DEF CL_CheckForResend, TableInv, ClientType
<1>3. PacketsGood(net', used, challenges)
  <2>1. CASE client.state = "CONNECTING"
    <3>1. net' \subseteq net \cup {Packet("getchallenge", 0)}
      BY <2>1, SendFacts DEF CL_CheckForResend
    <3> QED
      BY <1>1, <3>1, SendOne, NoneStays DEF Kept, Kinds
  <2>2. CASE client.state = "CHALLENGING"
    <3>1. net' \subseteq net \cup {Packet("connect", client.challenge)}
      BY <2>2, SendFacts DEF CL_CheckForResend
    <3>2. client.challenge \in used /\ client.challenge \in Nat
      BY <1>1, <2>2 DEF Kept, TableInv, ClientType
    <3> QED
      BY <1>1, <3>1, <3>2, SendOne, NoneStays DEF Kept, Kinds
  <2> QED
    BY <2>1, <2>2 DEF CL_CheckForResend
<1>4. Kept(used)'
  BY <1>1, <1>2, <1>3 DEF Kept, CL_CheckForResend
<1> QED
  BY <1>2, <1>4 DEF TableInv, CL_CheckForResend, Of

\* A challenge is used when its answer is taken, which ends the search for one.
LEMMA ReceiveKeeps ==
    ASSUME TableInv, NEW p, Receives(p), p \in net \/ p.kind \in {"packet", "dropped"}
    PROVE  TableInv'
<1>1. PICK used : Kept(used)
  BY DEF TableInv
<1>2. UNCHANGED <<challenges, attempts>> /\ attempts \in Nat /\ attempts <= MaxAttempts
  BY AddressAssumption DEF Receives, TableInv
<1>3. CASE CL_Disconnect
  BY <1>2, <1>3, DisconnectKeeps DEF CL_Disconnect
<1>4. CASE client' = Answered(Heard(p), p) /\ UNCHANGED net
  <2> PICK h : h = Heard(p)
    OBVIOUS
  <2>1. h \in ClientType /\ h.state = client.state /\ h.challenge = client.challenge
    BY DEF Heard, TableInv, ClientType
  <2>2. PacketsGood(net', used, challenges)
    BY <1>1, <1>4 DEF Kept
  <2>3. CASE p.kind = "challengeResponse"
    <3>1. client' = [h EXCEPT !.state = "CHALLENGING", !.challenge = p.challenge,
                              !.connectTime = RetransmitTimeout]
      BY <1>4, <2>3 DEF Answered
    <3>2. p \in net /\ p.challenge \in Nat /\ Known(challenges, p.challenge)
      BY <1>1, <2>3 DEF Kept, PacketsGood, PacketType
    <3>3. client' \in ClientType /\ client'.state = "CHALLENGING" /\ client'.challenge = p.challenge
      BY <2>1, <3>1, <3>2, TimesAssumption DEF ClientType
    <3>4. client.state = "CONNECTING"
      BY <2>3 DEF Receives, Expected
    <3> PICK now : now = used \cup {p.challenge}
      OBVIOUS
    <3>5. IsFiniteSet(now) /\ Cardinality(now) <= attempts
      <4>1. IsFiniteSet(used) /\ Cardinality(used) \in Nat /\ Cardinality(used) + 1 <= attempts
        BY <1>1, <3>4, FS_CardinalityType DEF Kept
      <4>2. Cardinality(now) = IF p.challenge \in used THEN Cardinality(used) ELSE Cardinality(used) + 1
        BY <4>1, FS_AddElement
      <4> QED
        BY <1>2, <4>1, <4>2, FS_AddElement
    <3>6. Kept(now)'
      <4>1. PacketsGood(net', now, challenges) /\ Marked(challenges, now)
        BY <1>1, <2>2 DEF Kept, PacketsGood, Marked
      <4>2. Cardinality(now) + (IF client'.state = "CONNECTING" THEN 1 ELSE 0) <= attempts'
        BY <1>2, <3>3, <3>5, FS_CardinalityType
      <4> QED
        BY <1>2, <3>2, <3>3, <3>5, <4>1, <4>2 DEF Kept
    <3> QED
      BY <1>2, <3>3, <3>6 DEF TableInv, Of
  <2>4. CASE p.kind # "challengeResponse"
    <3>1. /\ client' \in ClientType
          /\ \/ client'.state = "CONNECTED"
             \/ client'.state = client.state /\ client'.challenge = client.challenge
      <4>1. CASE p.kind = "connectResponse"
        <5>1. client' = [Wiped("CONNECTED") EXCEPT !.lastPacket = h.lastPacket]
          BY <1>4, <4>1 DEF Answered
        <5>2. Wiped("CONNECTED") \in ClientType /\ Wiped("CONNECTED").state = "CONNECTED"
          BY TimesAssumption DEF Wiped, ClientType
        <5> QED
          BY <2>1, <5>1, <5>2 DEF ClientType
      <4>2. CASE p.kind # "connectResponse"
        <5>1. client' = h
          BY <1>4, <2>4, <4>2 DEF Answered
        <5> QED
          BY <2>1, <5>1
      <4> QED
        BY <4>1, <4>2
    <3>2. Cardinality(used) + (IF client'.state = "CONNECTING" THEN 1 ELSE 0) <= attempts'
      <4>1. IsFiniteSet(used) /\ Cardinality(used) \in Nat
        BY <1>1, FS_CardinalityType DEF Kept
      <4>2. Cardinality(used) + (IF client.state = "CONNECTING" THEN 1 ELSE 0) <= attempts
        BY <1>1 DEF Kept
      <4> QED
        BY <1>2, <3>1, <4>1, <4>2
    <3>3. Kept(used)'
      BY <1>1, <1>2, <2>2, <3>1, <3>2 DEF Kept
    <3> QED
      BY <1>2, <3>1, <3>3 DEF TableInv, Of
  <2> QED
    BY <2>3, <2>4
<1> QED
  BY <1>3, <1>4 DEF Receives

LEMMA GetChallengeKeeps ==
    ASSUME Room, TableInv, SV_GetChallenge
    PROVE  TableInv'
<1>1. PICK used : Kept(used)
  BY DEF TableInv
<1> PICK r : r = TableFor(Me)
  OBVIOUS
<1> PICK n : n = r[EntryFor(Me)].challenge
  OBVIOUS
<1>2. /\ TableGood(r) /\ Stays(r)
      /\ \A ns : Marked(challenges, ns) => Marked(r, ns)
      /\ Cardinality({ i \in Entries : r[i].adr = Me }) <= attempts + 1
      /\ Known(r, n) /\ n \in Nat
  BY TableForFacts
<1>3. /\ challenges' = r /\ UNCHANGED <<client, attempts>>
      /\ net' \subseteq net \cup {Packet("challengeResponse", n)}
  BY SendFacts DEF SV_GetChallenge
<1>4. PacketsGood(net', used, r)
  BY <1>1, <1>2, <1>3, SendOne DEF Kept, Kinds
<1>5. Of(Me)' = { i \in Entries : r[i].adr = Me }
  BY <1>3 DEF Of
<1> QED
  BY <1>1, <1>2, <1>3, <1>4, <1>5, ServerKeeps DEF Kept

LEMMA OtherAsksKeeps ==
    ASSUME Room, TableInv, NEW o \in Others, OtherAsks(o)
    PROVE  TableInv'
<1>1. PICK used : Kept(used)
  BY DEF TableInv
<1> PICK r : r = TableFor(o)
  OBVIOUS
<1>2. /\ TableGood(r) /\ Stays(r)
      /\ \A ns : Marked(challenges, ns) => Marked(r, ns)
      /\ Cardinality({ i \in Entries : r[i].adr = Me }) <= attempts + 1
  BY TableForFacts
<1>3. challenges' = r /\ UNCHANGED <<client, net, attempts>>
  BY DEF OtherAsks
<1>4. PacketsGood(net', used, r)
  BY <1>1, <1>2, <1>3, SendNone DEF Kept
<1>5. Of(Me)' = { i \in Entries : r[i].adr = Me }
  BY <1>3 DEF Of
<1> QED
  BY <1>1, <1>2, <1>3, <1>4, <1>5, ServerKeeps DEF Kept

\* Only a challenge is marked that the client has used.
LEMMA ConnectKeeps ==
    ASSUME TableInv, SV_DirectConnect
    PROVE  TableInv'
<1>1. PICK used : Kept(used)
  BY DEF TableInv
<1>2. PICK p \in net :
        /\ p.kind = "connect"
        /\ \E kind \in {"err_dialog", "connectResponse"} : Send({Packet(kind, 0)})
        /\ \/ UNCHANGED challenges
           \/ /\ ValidFor(p.challenge) # {}
              /\ challenges' = [challenges EXCEPT ![First(ValidFor(p.challenge))].connected = TRUE]
  BY DEF SV_DirectConnect, Accepted
<1>3. PICK kind \in {"err_dialog", "connectResponse"} : net' \subseteq net \cup {Packet(kind, 0)}
  BY <1>2, SendFacts
<1>4. UNCHANGED <<client, attempts>> /\ TableGood(challenges)
  BY DEF SV_DirectConnect, TableInv
<1>5. /\ TableGood(challenges') /\ Stays(challenges')
      /\ { j \in Entries : challenges'[j].adr = Me } = Of(Me)
      /\ Marked(challenges', used)
  <2>1. CASE UNCHANGED challenges
    BY <1>1, <1>4, <2>1 DEF Kept, Stays, Of
  <2>2. CASE /\ ValidFor(p.challenge) # {}
             /\ challenges' = [challenges EXCEPT ![First(ValidFor(p.challenge))].connected = TRUE]
    <3> PICK i : i = First(ValidFor(p.challenge))
      OBVIOUS
    <3>1. i \in ValidFor(p.challenge)
      BY <2>2, EntriesOf DEF ValidFor, Of
    <3>2. i \in Of(Me) /\ challenges[i].challenge = p.challenge
      BY <3>1 DEF ValidFor
    <3>3. challenges[i].challenge \in used /\ Marked(challenges, used)
      BY <1>1, <1>2, <3>2 DEF Kept, PacketsGood
    <3> QED
      BY <1>4, <2>2, <3>2, <3>3, MarkFacts
  <2> QED
    BY <1>2, <2>1, <2>2
<1>6. PacketsGood(net', used, challenges')
  BY <1>1, <1>3, <1>5, SendOne DEF Kept, Kinds
<1>7. Cardinality(Of(Me)') <= attempts + 1
  BY <1>5 DEF Of, TableInv
<1> QED
  BY <1>1, <1>4, <1>5, <1>6, <1>7, ServerKeeps

\* The other steps of the server release an entry, or leave the table alone.
LEMMA ServerStepKeeps ==
    ASSUME TableInv, SV_PacketEvent \/ SV_PacketEventQuit \/ SV_DropClient \/ SV_CheckTimeouts
    PROVE  TableInv'
<1>1. PICK used : Kept(used)
  BY DEF TableInv
<1>2. UNCHANGED <<client, attempts>> /\ TableGood(challenges)
  BY DEF SV_PacketEvent, SV_PacketEventQuit, SV_DropClient, SV_CheckTimeouts, TableInv
<1>3. UNCHANGED challenges \/ challenges' = Released(Me)
  BY DEF SV_PacketEvent, SV_PacketEventQuit, SV_DropClient, SV_CheckTimeouts, Drop
<1>4. /\ TableGood(challenges') /\ Stays(challenges')
      /\ { j \in Entries : challenges'[j].adr = Me } = Of(Me)
      /\ Marked(challenges', used)
  <2>1. CASE UNCHANGED challenges
    BY <1>1, <1>2, <2>1 DEF Kept, Stays, Of
  <2>2. CASE challenges' = Released(Me)
    BY <1>1, <1>2, <2>2, ReleasedFacts DEF Kept
  <2> QED
    BY <1>3, <2>1, <2>2
<1>5. net' = net \/ net' \subseteq net \cup {Packet("disconnect", 0)}
  BY SendFacts DEF SV_PacketEvent, SV_PacketEventQuit, SV_DropClient, SV_CheckTimeouts
<1>6. PacketsGood(net', used, challenges')
  BY <1>1, <1>4, <1>5, SendOne, SendNone DEF Kept, Kinds
<1>7. Cardinality(Of(Me)') <= attempts + 1
  BY <1>4 DEF Of, TableInv
<1> QED
  BY <1>1, <1>2, <1>4, <1>6, <1>7, ServerKeeps

LEMMA TickKeeps ==
    ASSUME TableInv, Tick
    PROVE  TableInv'
<1>1. PICK used : Kept(used)
  BY DEF TableInv
<1>2. client' \in ClientType /\ client'.state = client.state /\ client'.challenge = client.challenge
  <2>1. /\ Older(client.connectTime, RetransmitTimeout) \in Nat
        /\ Older(client.lastPacket, ClientTimeout + 1) \in Nat
    BY TimesAssumption DEF Older, TableInv, ClientType
  <2> QED
    BY <2>1 DEF Tick, TableInv, ClientType
<1> DEFINE early == { q \in net : q.age < Delay }
           older == [p \in early |-> [p EXCEPT !.age = @ + 1]]
<1>3. net' = { older[p] : p \in early }
  BY DEF Tick
<1>4. ASSUME NEW p \in early
      PROVE  older[p] \in PacketType /\ older[p].kind = p.kind /\ older[p].challenge = p.challenge
  BY <1>1 DEF Kept, PacketsGood, PacketType
<1>5. early \in SUBSET net
  OBVIOUS
<1> HIDE DEF early, older
<1>6. IsFiniteSet(net')
  <2>1. IsFiniteSet(net)
    BY <1>1, Zenon DEF Kept, PacketsGood
  <2>2. IsFiniteSet(early)
    BY <2>1, <1>5, FS_Subset
  <2>3. IsFiniteSet({ older[p] : p \in early })
    BY <2>2, ImageIsFinite, Zenon
  <2> QED
    BY <2>3, <1>3, Zenon
<1>7. PacketsGood(net', used, challenges)
  BY <1>1, <1>3, <1>4, <1>5, <1>6 DEF Kept, PacketsGood
<1>8. Kept(used)'
  BY <1>1, <1>2, <1>7 DEF Kept, Tick
<1> QED
  BY <1>2, <1>8 DEF TableInv, Tick, Of

-----------------------------------------------------------------------------
LEMMA InitTableInv ==
    Init => TableInv
<1> SUFFICES ASSUME Init PROVE TableInv
  OBVIOUS
<1>1. client \in ClientType /\ client.state = "DISCONNECTED"
  BY TimesAssumption DEF Init, Wiped, ClientType
<1>2. \A i \in Entries : /\ challenges[i] \in EntryType /\ challenges[i].adr = 0
                         /\ challenges[i].time = 0
  BY DEF Init, EntryType
<1>3. TableGood(challenges)
  BY <1>2, AddressAssumption DEF TableGood, Init
<1>4. attempts \in 0 .. MaxAttempts
  BY AddressAssumption DEF Init
<1>5. Of(Me) = {} /\ Cardinality({}) = 0 /\ IsFiniteSet({})
  BY <1>2, AddressAssumption, FS_EmptySet DEF Of
<1>6. Kept({})
  <2>1. PacketsGood(net, {}, challenges)
    BY <1>5 DEF Init, PacketsGood
  <2>2. Marked(challenges, {})
    BY <1>2, AddressAssumption DEF Marked
  <2>3. Cardinality({}) + (IF client.state = "CONNECTING" THEN 1 ELSE 0) <= attempts
    BY <1>1, <1>5 DEF Init
  <2> QED
    BY <1>1, <1>5, <2>1, <2>2, <2>3 DEF Kept
<1> QED
  BY <1>1, <1>3, <1>4, <1>5, <1>6 DEF TableInv, Init

LEMMA NextTableInv ==
    ASSUME Room
    PROVE  TableInv /\ [Next]_vars => TableInv'
<1> SUFFICES ASSUME TableInv, [Next]_vars PROVE TableInv'
  OBVIOUS
<1>1. attempts \in Nat /\ attempts <= MaxAttempts /\ MaxAttempts \in Nat
  BY AddressAssumption DEF TableInv
<1>2. CASE CL_Connect_f
  <2>1. attempts' = attempts + 1 /\ attempts' <= MaxAttempts
    BY <1>1, <1>2 DEF CL_Connect_f
  <2> QED
    BY <1>2, <2>1, DisconnectKeeps DEF CL_Connect_f
<1>3. CASE CL_Disconnect_f \/ CL_CheckTimeout
  BY <1>1, <1>3, DisconnectKeeps DEF CL_Disconnect_f, CL_CheckTimeout, CL_Disconnect
<1>4. CASE CL_CheckForResend
  BY <1>4, ResendKeeps
<1>5. CASE \E kind \in ServerKinds : CL_PacketEvent(kind)
  BY <1>5, ReceiveKeeps DEF CL_PacketEvent
<1>6. CASE SV_SendClientMessages
  <2> DEFINE p == Packet(IF slot.state = "ZOMBIE" THEN "dropped" ELSE "packet", 0)
  <2>1. p.kind \in {"packet", "dropped"}
    BY PacketFacts
  <2> QED
    BY <1>6, <2>1, ReceiveKeeps DEF SV_SendClientMessages
<1>7. CASE SV_GetChallenge \/ \E o \in Others : OtherAsks(o)
  BY <1>7, GetChallengeKeeps, OtherAsksKeeps
<1>8. CASE SV_DirectConnect
  BY <1>8, ConnectKeeps
<1>9. CASE SV_PacketEvent \/ SV_PacketEventQuit \/ SV_DropClient \/ SV_CheckTimeouts
  BY <1>9, ServerStepKeeps
<1>10. CASE Tick
  BY <1>10, TickKeeps
<1>11. CASE UNCHANGED vars
  BY <1>11 DEF vars, TableInv, Kept, Of
<1> QED
  BY <1>2, <1>3, <1>4, <1>5, <1>6, <1>7, <1>8, <1>9, <1>10, <1>11 DEF Next

\* The table is not cycled out (the comment on MAX_CHALLENGES in server.h): whatever the
\* network does, and however often others ask, the challenge with which a client connects is in
\* the table, if that has room for one entry of each other address, one for each attempt of the
\* client, and one more, which a getchallenge gets that comes when all are marked.
THEOREM ChallengeStays ==
    ASSUME Room
    PROVE  Spec => []ChallengeKept
<1>1. TableInv => ChallengeKept
  BY DEF TableInv, Kept, Known, ChallengeKept, ValidFor, Of
<1> QED
  BY <1>1, InitTableInv, NextTableInv, PTL DEF Spec
=============================================================================
