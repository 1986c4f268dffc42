----------------------------- MODULE Snapshots ------------------------------
(***************************************************************************)
(* Snapshots and their delta compression.  The server keeps the frames of  *)
(* the last PACKET_BACKUP messages and sends a snapshot as the difference  *)
(* to the frame the client acknowledged last; the client keeps as many and *)
(* puts the snapshot together again.  The entities of all frames are in a  *)
(* ring on each side; the server's is shared by all its clients.           *)
(*                                                                         *)
(* Messages travel as MessageChannel promises: some are lost, the others   *)
(* arrive in order and once.  An entity is a number and a value; a frame   *)
(* is the sequence of its entities in increasing number.                   *)
(***************************************************************************)
EXTENDS Integers, SequencesExt

CONSTANTS
    PACKET_BACKUP,
    DeltaMargin,            \* how many of these are too old for a delta: 3
    NumSnapshotEntities,    \* size of the server's ring
    MAX_PARSE_ENTITIES,     \* size of the client's ring
    ParseMargin,            \* and how much of it a snapshot may need: 128
    Worlds,                 \* what may be visible to the client
    Others,                 \* how many entities a frame of another client may have
    MaxMessages, MaxInFlight, MaxOther, MaxLevel    \* bounds of the model

Entity(n, v) == [number |-> n, value |-> v]

ASSUME ConstantsAssumption ==
    /\ PACKET_BACKUP \in Nat \ {0} /\ DeltaMargin \in 0 .. PACKET_BACKUP
    /\ NumSnapshotEntities \in Nat \ {0}
    /\ MAX_PARSE_ENTITIES \in Nat \ {0} /\ ParseMargin \in 0 .. MAX_PARSE_ENTITIES
    /\ MaxMessages \in Nat /\ MaxInFlight \in Nat \ {0}
    /\ Others \subseteq 1 .. NumSnapshotEntities
    /\ MaxOther \in Nat /\ MaxLevel \in Nat

ASSUME WorldsAssumption ==
    \A w \in Worlds :
        /\ Len(w) <= NumSnapshotEntities
        /\ \A i, j \in DOMAIN w : i < j => w[i].number < w[j].number

VARIABLES
    sv,                 \* server_t and client_t
    frames,             \* client_t.frames
    snapshotEntities,   \* svs.snapshotEntities
    cl,                 \* clientActive_t, and clc.serverMessageSequence
    snapshots,          \* cl.snapshots
    parseEntities,      \* cl.parseEntities
    toServer, toClient,
    unexpected          \* history: the base of the last delta was not there

vars == <<sv, frames, snapshotEntities, cl, snapshots, parseEntities,
          toServer, toClient, unexpected>>
serverVars == <<sv, frames, snapshotEntities>>
clientVars == <<cl, snapshots, parseEntities, unexpected>>

Nothing == Entity(0, 0)
EmptyFrame == [first |-> 0, num |-> 0]
\* world is history: the frame the server built for that message.
EmptySnap == [valid |-> FALSE, messageNum |-> 0, first |-> 0, num |-> 0, world |-> <<>>]
EmptyRing(size) == [k \in 0 .. size - 1 |-> Nothing]

\* The client has got its gamestate, which was message 1, and is in the game.
Init ==
    /\ sv = [outgoingSequence |-> 2, deltaMessage |-> -1, state |-> "ACTIVE",
             level |-> 1, gamestateMessageNum |-> 1, nextSnapshotEntities |-> 0]
    /\ frames = [k \in 0 .. PACKET_BACKUP - 1 |-> EmptyFrame]
    /\ snapshotEntities = EmptyRing(NumSnapshotEntities)
    /\ cl = [level |-> 1, serverMessageSequence |-> 1, snap |-> EmptySnap,
             parseEntitiesNum |-> 0]
    /\ snapshots = [k \in 0 .. PACKET_BACKUP - 1 |-> EmptySnap]
    /\ parseEntities = EmptyRing(MAX_PARSE_ENTITIES)
    /\ toServer = <<>> /\ toClient = <<>>
    /\ unexpected = FALSE

\* The entities of a frame in a ring.
InRing(ring, size, frame) ==
    [i \in 1 .. frame.num |-> ring[(frame.first + i - 1) % size]]

\* A message joins those in flight; when there are too many the oldest is lost.
Send(channel, m) ==
    IF Len(channel) < MaxInFlight THEN Append(channel, m)
                                  ELSE Append(Tail(channel), m)

-----------------------------------------------------------------------------
(* Server.                                                                 *)

\* SV_BuildClientSnapshot.
Built(world) == [first |-> sv.nextSnapshotEntities, num |-> Len(world)]

RingWith(world) ==
    LET at(k) == ((k - sv.nextSnapshotEntities) % NumSnapshotEntities) + 1
    IN  [k \in DOMAIN snapshotEntities |->
            IF at(k) <= Len(world) THEN world[at(k)] ELSE snapshotEntities[k]]

Age == sv.outgoingSequence - sv.deltaMessage

\* Mutants: the frames of the last PACKET_BACKUP + 1 messages are used; it is
\* not tested whether the entities have been overwritten.
UsableLonger(fs, next) ==
    /\ sv.deltaMessage > 0 /\ sv.state = "ACTIVE"
    /\ Age <= PACKET_BACKUP
    /\ fs[sv.deltaMessage % PACKET_BACKUP].first > next - NumSnapshotEntities

UsableRolledOff(fs, next) ==
    /\ sv.deltaMessage > 0 /\ sv.state = "ACTIVE"
    /\ Age < PACKET_BACKUP - DeltaMargin

\* SV_WriteSnapshotToClient: whether the frame the client asks for can be the base
\* of a delta, once the new frame is built among the frames fs.
Usable(fs, next) ==
    /\ sv.deltaMessage > 0 /\ sv.state = "ACTIVE"
    /\ Age < PACKET_BACKUP - DeltaMargin
    /\ fs[sv.deltaMessage % PACKET_BACKUP].first > next - NumSnapshotEntities

\* SV_EmitPacketEntities: the entities that are new or changed, and the numbers of
\* those that are gone, in increasing number.
GONE == -1

Difference(old, new) ==
    LET kept    == { e.number : e \in ToSet(new) }
        changes == (ToSet(new) \ ToSet(old)) \cup
                   { Entity(e.number, GONE) : e \in { o \in ToSet(old) : o.number \notin kept } }
    IN  SetToSortSeq(changes, LAMBDA d, e : d.number < e.number)

Transmit(m) ==
    /\ sv.outgoingSequence <= MaxMessages
    /\ toClient' = Send(toClient, m)

\* SV_SendClientSnapshot, of a client in the game.
SV_SendClientSnapshot(world) ==
    LET next   == sv.nextSnapshotEntities + Len(world)
        ring   == RingWith(world)
        fs     == [frames EXCEPT ![sv.outgoingSequence % PACKET_BACKUP] = Built(world)]
        usable == Usable(fs, next)
        old    == IF usable
                  THEN InRing(ring, NumSnapshotEntities, fs[sv.deltaMessage % PACKET_BACKUP])
                  ELSE <<>>
    IN  /\ sv.state = "ACTIVE"
        /\ Transmit([type |-> "snapshot", number |-> sv.outgoingSequence,
                     delta |-> IF usable THEN Age ELSE 0,
                     changes |-> Difference(old, world), world |-> world])
        /\ snapshotEntities' = ring
        /\ frames' = fs
        /\ sv' = [sv EXCEPT !.outgoingSequence = @ + 1, !.nextSnapshotEntities = next]
        /\ UNCHANGED <<toServer, clientVars>>

\* SV_SendClientIdle, to a client that has not come into the level.
SV_SendClientIdle ==
    /\ sv.state # "ACTIVE"
    /\ Transmit([type |-> "idle", number |-> sv.outgoingSequence])
    /\ sv' = [sv EXCEPT !.outgoingSequence = @ + 1]
    /\ UNCHANGED <<frames, snapshotEntities, toServer, clientVars>>

\* The snapshot of another client takes n entities of the ring.
OtherClient(n) ==
    LET overwritten == [i \in 1 .. n |-> Nothing]
    IN  /\ sv.nextSnapshotEntities + n <= MaxOther
        /\ snapshotEntities' = RingWith(overwritten)
        /\ sv' = [sv EXCEPT !.nextSnapshotEntities = @ + n]
        /\ UNCHANGED <<frames, toServer, toClient, clientVars>>

\* SV_SpawnServer allocates the ring anew; the client has to ask for the level.
SV_SpawnServer ==
    /\ sv.level < MaxLevel
    /\ sv' = [sv EXCEPT !.level = @ + 1, !.state = "CONNECTED", !.nextSnapshotEntities = 0]
    /\ snapshotEntities' = EmptyRing(NumSnapshotEntities)
    /\ UNCHANGED <<frames, toServer, toClient, clientVars>>

\* SV_SendClientGameState.
SV_SendClientGameState ==
    /\ Transmit([type |-> "gamestate", number |-> sv.outgoingSequence, level |-> sv.level])
    /\ sv' = [sv EXCEPT !.state = "PRIMED", !.outgoingSequence = @ + 1,
                        !.gamestateMessageNum = sv.outgoingSequence]

\* Mutant: the base of the level before stays when the client enters.
SV_UserMoveKeeps(m) ==
    sv' = [sv EXCEPT !.state = IF @ = "PRIMED" THEN "ACTIVE" ELSE @,
                     !.deltaMessage = IF sv.state = "PRIMED" THEN @
                                      ELSE IF m.delta THEN m.ack ELSE -1]

\* SV_UserMove: the base of the next delta; none for a client that only enters.
SV_UserMove(m) ==
    sv' = [sv EXCEPT !.state = IF @ = "PRIMED" THEN "ACTIVE" ELSE @,
                     !.deltaMessage = IF m.delta /\ sv.state = "ACTIVE" THEN m.ack ELSE -1]

\* SV_ExecuteClientMessage; a client that seems to have dropped its gamestate gets
\* it again.
SV_ExecuteClientMessage ==
    LET m == Head(toServer)
    IN  /\ toServer # <<>>
        /\ toServer' = Tail(toServer)
        /\ \/ m.level = sv.level /\ SV_UserMove(m) /\ UNCHANGED toClient
           \/ /\ m.level # sv.level /\ m.ack > sv.gamestateMessageNum
              /\ SV_SendClientGameState
           \/ /\ m.level # sv.level /\ m.ack <= sv.gamestateMessageNum
              /\ UNCHANGED <<sv, toClient>>
        /\ UNCHANGED <<frames, snapshotEntities, clientVars>>

-----------------------------------------------------------------------------
(* Client.                                                                 *)

\* Mutant: any valid snapshot will do, not only the last message.
AsksAnyway == cl.snap.valid

\* CL_WritePacket: whether the snapshot got last can be the base of a delta.
AsksForDelta == cl.snap.valid /\ cl.serverMessageSequence = cl.snap.messageNum

CL_WritePacket ==
    /\ toServer' = Send(toServer, [level |-> cl.level, ack |-> cl.serverMessageSequence,
                                   delta |-> AsksForDelta])
    /\ UNCHANGED <<serverVars, toClient, clientVars>>

\* CL_DeltaEntity: an entity joins the snapshot that is being put together; one
\* that is gone is written to the ring too, but the next one over it.
Put(p, e) ==
    [ring |-> [p.ring EXCEPT ![p.next % MAX_PARSE_ENTITIES] = e],
     next |-> IF e.value = GONE THEN p.next ELSE p.next + 1]

\* CL_ParsePacketEntities: the merge of the changes with what remains of the old
\* frame from entity o on.  The old entities are read from the ring as they are
\* needed, while the new ones are written to it.
RECURSIVE ParsePacketEntities(_, _, _, _)
ParsePacketEntities(p, old, o, changes) ==
    LET more    == o < old.num
        current == p.ring[(old.first + o) % MAX_PARSE_ENTITIES]
        change  == Head(changes)
        Rest(q) == ParsePacketEntities(q, old, o + 1, changes)
    IN  CASE changes = <<>> /\ ~more -> p
          [] more /\ (changes = <<>> \/ current.number < change.number) ->
                Rest(Put(p, current))
          [] changes # <<>> /\ ~(more /\ current.number < change.number) ->
                ParsePacketEntities(Put(p, change), old,
                                    IF more /\ current.number = change.number THEN o + 1 ELSE o,
                                    Tail(changes))

\* CL_ParseSnapshot: whether the snapshot can be put together from the old one.
Valid(old, m) ==
    \/ m.delta = 0
    \/ /\ old.valid
       /\ old.messageNum = m.number - m.delta
       /\ cl.parseEntitiesNum - old.first <= MAX_PARSE_ENTITIES - ParseMargin

\* Mutant: snapshots that were not received keep what was there before.
NoneSkipped(n) == {}

\* Snapshots between the last one and this one no longer count.
Skipped(n) ==
    { k % PACKET_BACKUP : k \in { j \in cl.snap.messageNum + 1 .. n - 1 : j > n - PACKET_BACKUP } }

Base(m) == IF m.delta = 0 THEN EmptySnap ELSE snapshots[(m.number - m.delta) % PACKET_BACKUP]

CL_ParseSnapshot(m) ==
    LET old    == Base(m)
        parsed == ParsePacketEntities([ring |-> parseEntities, next |-> cl.parseEntitiesNum],
                                      old, 0, m.changes)
        snap   == [valid |-> TRUE, messageNum |-> m.number, first |-> cl.parseEntitiesNum,
                   num |-> parsed.next - cl.parseEntitiesNum, world |-> m.world]
    IN  /\ parseEntities' = parsed.ring
        /\ unexpected' = (m.delta # 0 /\ ~old.valid)
        /\ cl' = [cl EXCEPT !.serverMessageSequence = m.number, !.parseEntitiesNum = parsed.next,
                            !.snap = IF Valid(old, m) THEN snap ELSE @]
        /\ \/ /\ Valid(old, m)
              /\ snapshots' = [k \in DOMAIN snapshots |->
                                CASE k = m.number % PACKET_BACKUP -> snap
                                  [] k \in Skipped(m.number) /\ k # m.number % PACKET_BACKUP ->
                                        [snapshots[k] EXCEPT !.valid = FALSE]
                                  [] OTHER -> snapshots[k]]
           \/ ~Valid(old, m) /\ UNCHANGED snapshots

\* CL_ParseGamestate: the old level is forgotten.
CL_ParseGamestate(m) ==
    /\ cl' = [level |-> m.level, serverMessageSequence |-> m.number, snap |-> EmptySnap,
              parseEntitiesNum |-> 0]
    /\ snapshots' = [k \in DOMAIN snapshots |-> EmptySnap]
    /\ parseEntities' = EmptyRing(MAX_PARSE_ENTITIES)
    /\ unexpected' = FALSE

\* CL_ParseServerMessage, of the i-th message in flight; those before are lost.
CL_ParseServerMessage(i) ==
    LET m == toClient[i]
    IN  /\ toClient' = SubSeq(toClient, i + 1, Len(toClient))
        /\ \/ m.type = "snapshot" /\ CL_ParseSnapshot(m)
           \/ m.type = "gamestate" /\ CL_ParseGamestate(m)
           \/ /\ m.type = "idle"
              /\ cl' = [cl EXCEPT !.serverMessageSequence = m.number]
              /\ UNCHANGED <<snapshots, parseEntities, unexpected>>
        /\ UNCHANGED <<serverVars, toServer>>

\* Mutant: it is not tested whether the entities have been overwritten.
GettableRolledOff(n) ==
    /\ n <= cl.snap.messageNum /\ cl.snap.messageNum - n < PACKET_BACKUP
    /\ snapshots[n % PACKET_BACKUP].valid

\* CL_GetSnapshot: whether cgame gets snapshot n.
Gettable(n) ==
    /\ n <= cl.snap.messageNum /\ cl.snap.messageNum - n < PACKET_BACKUP
    /\ snapshots[n % PACKET_BACKUP].valid
    /\ cl.parseEntitiesNum - snapshots[n % PACKET_BACKUP].first < MAX_PARSE_ENTITIES

Next ==
    \/ \E world \in Worlds : SV_SendClientSnapshot(world)
    \/ SV_SendClientIdle
    \/ \E n \in Others : OtherClient(n)
    \/ SV_SpawnServer
    \/ SV_ExecuteClientMessage
    \/ CL_WritePacket
    \/ \E i \in DOMAIN toClient : CL_ParseServerMessage(i)

Spec == Init /\ [][Next]_vars

-----------------------------------------------------------------------------
Entities ==
    LET seen == UNION { ToSet(w) : w \in Worlds }
    IN  seen \cup { Entity(e.number, GONE) : e \in seen } \cup {Nothing}

TypeOK ==
    /\ sv \in [outgoingSequence : 2 .. MaxMessages + 1, deltaMessage : -1 .. MaxMessages,
               state : {"CONNECTED", "PRIMED", "ACTIVE"}, level : 1 .. MaxLevel,
               gamestateMessageNum : 1 .. MaxMessages, nextSnapshotEntities : Nat]
    /\ \A f \in ToSet(frames) : f.first \in Nat /\ f.num \in 0 .. NumSnapshotEntities
    /\ \A k \in DOMAIN snapshotEntities : snapshotEntities[k] \in Entities
    /\ \A k \in DOMAIN parseEntities : parseEntities[k] \in Entities
    /\ cl.serverMessageSequence < sv.outgoingSequence
    /\ cl.snap.messageNum <= cl.serverMessageSequence
    /\ sv.deltaMessage <= cl.serverMessageSequence

\* Every snapshot cgame can get is, entity for entity, the frame the server built
\* for the message of that number, however many snapshots and acknowledgements were
\* lost in between and whoever used the rings (SV_WriteSnapshotToClient,
\* CL_ParseSnapshot, CL_GetSnapshot).
SnapshotsIntact ==
    \A n \in 1 .. MaxMessages :
        LET snap == snapshots[n % PACKET_BACKUP]
        IN  Gettable(n) => /\ snap.messageNum = n
                           /\ InRing(parseEntities, MAX_PARSE_ENTITIES, snap) = snap.world

\* "Delta from invalid frame (not supposed to happen!)" (cl_parse.cpp): the server
\* deltas only from what the client told it to have.
DeltaFromValidFrame == ~unexpected

\* "If the snapshot is invalid for any reason, no changes to the state will be made
\* at all" (cl_parse.cpp, CL_ParseSnapshot).
InvalidSnapshotChangesNothing ==
    [][\A i \in DOMAIN toClient :
        /\ toClient[i].type = "snapshot" /\ CL_ParseServerMessage(i)
        /\ ~Valid(Base(toClient[i]), toClient[i])
        => UNCHANGED <<parseEntities, cl.parseEntitiesNum>>]_vars
=============================================================================
