----------------------- MODULE ReliableCommandsProofs -----------------------
(***************************************************************************)
(* Theorems about ReliableCommands, for rings of every size, every number  *)
(* of commands and every number of messages on their way.                  *)
(*                                                                         *)
(* Both directions have the same reason.  What a message carries is        *)
(* numbered in a row from what its sender took for acknowledged, which     *)
(* the receiver had by then; messages arrive in the order they were sent,  *)
(* so that acknowledgements never go back and none is out of the ring's    *)
(* range; and a ring that is not overfull holds what was not acknowledged. *)
(***************************************************************************)
EXTENDS ReliableCommands, WellFoundedInduction, SequenceTheorems, TLAPS

Command == [seq : Nat \ {0}, cmd : Commands]

Message == [ack : Nat, cmds : Seq(Command)]

\* Commands numbered one after the other.
InARow(cmds) == \A i \in DOMAIN cmds : cmds[i].seq = cmds[1].seq + i - 1

InAckOrder(channel) ==
    \A i, j \in DOMAIN channel : i <= j => channel[i].ack <= channel[j].ack

-----------------------------------------------------------------------------
Client == [state : {"connected", "disconnected", "fatal"},
           reliableSequence : Nat, reliableAcknowledge : Nat,
           reliableCommands : [Slots -> Commands],
           serverCommandSequence : Nat,
           serverCommands : [Slots -> Commands],
           snapshots : SUBSET Nat,
           lastExecutedServerCommand : Nat]

Server == [state : {"active", "zombie"}, reliableSequence : Nat,
           reliableAcknowledge : Nat,
           reliableCommands : [Slots -> Commands], lastClientCommand : Nat]

TypesInv ==
    /\ cl \in Client /\ sv \in Server
    /\ toServer \in Seq(Message) /\ Len(toServer) <= MaxInFlight
    /\ toClient \in Seq(Message) /\ Len(toClient) <= MaxInFlight
    /\ executed \in Seq(Commands) /\ ran \in Seq(Commands)
    /\ overran \in BOOLEAN

\* Nobody has more than was sent, or is said to have more than it has; a side
\* that is not overfull has at most a ring of commands to deliver.
NumbersInv ==
    /\ cl.reliableAcknowledge <= cl.reliableSequence
    /\ sv.lastClientCommand <= cl.reliableSequence
    /\ ~overran => /\ cl.reliableAcknowledge <= sv.lastClientCommand
                   /\ cl.reliableSequence - cl.reliableAcknowledge <= MAX_RELIABLE_COMMANDS
    /\ sv.reliableAcknowledge <= cl.serverCommandSequence
    /\ cl.serverCommandSequence <= sv.reliableSequence
    /\ cl.lastExecutedServerCommand <= cl.serverCommandSequence
    /\ \A n \in cl.snapshots : /\ cl.lastExecutedServerCommand <= n
                               /\ n <= cl.serverCommandSequence
    /\ sv.reliableSequence <= MaxServerCommands + 2
    /\ sv.state = "active" =>
        /\ sv.reliableSequence <= MaxServerCommands
        /\ sv.reliableSequence - sv.reliableAcknowledge <= MAX_RELIABLE_COMMANDS

\* Of client c: its command n, or the "disconnect" that was its last one.
ClientIssued(n, cmd, c) ==
    \/ cmd = n
    \/ cmd = DISCONNECT /\ n = c.reliableSequence /\ c.state # "connected"

\* The rings hold what they are asked for.
RingsInv ==
    /\ ~overran =>
        \A n \in cl.reliableAcknowledge + 1 .. cl.reliableSequence :
            ClientIssued(n, cl.reliableCommands[Slot(n)], cl)
    /\ sv.state = "active" =>
        /\ \A n \in sv.reliableAcknowledge + 1 .. sv.reliableSequence :
            sv.reliableCommands[Slot(n)] = n
        /\ \A n \in 1 .. cl.serverCommandSequence :
            n > cl.serverCommandSequence - MAX_RELIABLE_COMMANDS =>
                cl.serverCommands[Slot(n)] = n

\* What was executed is what came first of what was issued.
HistoryInv ==
    /\ ~overran =>
        /\ Len(executed) = sv.lastClientCommand
        /\ \A i \in DOMAIN executed :
            \/ executed[i] = i
            \/ executed[i] = DISCONNECT /\ i = Len(executed) /\ sv.state = "zombie"
    /\ sv.state = "active" =>
        /\ Len(ran) = cl.lastExecutedServerCommand
        /\ \A i \in DOMAIN ran : ran[i] = i

\* A message on its way to server s acknowledges what client c has and no less
\* than s was told before, and its commands go on from those s has.
ForServer(m, c, s, overrun) ==
    /\ s.reliableAcknowledge <= m.ack /\ m.ack <= c.serverCommandSequence
    /\ InARow(m.cmds)
    /\ \A i \in DOMAIN m.cmds : m.cmds[i].seq <= c.reliableSequence
    /\ ~overrun =>
        /\ m.cmds # <<>> => m.cmds[1].seq <= s.lastClientCommand + 1
        /\ \A i \in DOMAIN m.cmds : ClientIssued(m.cmds[i].seq, m.cmds[i].cmd, c)

\* The same in the other direction.
ForClient(m, c, s, overrun) ==
    /\ m.ack <= s.lastClientCommand
    /\ ~overrun => c.reliableAcknowledge <= m.ack
    /\ InARow(m.cmds)
    /\ \A i \in DOMAIN m.cmds : m.cmds[i].seq <= s.reliableSequence
    /\ s.state = "active" =>
        /\ m.cmds # <<>> => m.cmds[1].seq <= c.serverCommandSequence + 1
        /\ Len(m.cmds) <= MAX_RELIABLE_COMMANDS
        /\ \A i \in DOMAIN m.cmds : m.cmds[i].cmd = m.cmds[i].seq

ChannelsInv ==
    /\ InAckOrder(toServer)
    /\ \A i \in DOMAIN toServer : ForServer(toServer[i], cl, sv, overran)
    /\ InAckOrder(toClient)
    /\ \A i \in DOMAIN toClient : ForClient(toClient[i], cl, sv, overran)

IInv == TypesInv /\ NumbersInv /\ RingsInv /\ HistoryInv /\ ChannelsInv

-----------------------------------------------------------------------------
\* A set of numbers has a least one, for less than is well-founded.
LEMMA LeastExists ==
    ASSUME NEW S \in SUBSET Nat, S # {}
    PROVE  \E s \in S : \A t \in S : s <= t
<1>1. PICK s \in S : \A t \in S : ~ (<<t, s>> \in OpToRel(<, Nat))
  BY NatLessThanWellFounded, WFMin, Zenon
<1>2. ASSUME NEW t \in S, t < s PROVE <<t, s>> \in OpToRel(<, Nat)
  BY <1>2, Zenon DEF OpToRel
<1>3. \A t \in S : ~(t < s)
  BY <1>1, <1>2
<1> QED
  BY <1>3

\* A set of numbers that has a bound has a greatest one: the one that is least
\* below the bound.
LEMMA GreatestExists ==
    ASSUME NEW bound \in Nat, NEW S \in SUBSET (0 .. bound), S # {}
    PROVE  \E s \in S : \A t \in S : s >= t
<1> DEFINE below == { bound - s : s \in S }
<1>1. below \in SUBSET Nat /\ below # {}
  <2>1. \A s \in S : s \in Int /\ 0 <= s /\ s <= bound
    OBVIOUS
  <2>2. \A s \in S : bound - s \in Nat
    BY <2>1
  <2> QED
    BY <2>2
<1>2. PICK b \in below : \A c \in below : b <= c
  <2> HIDE DEF below
  <2> QED
    BY <1>1, LeastExists
<1>3. PICK s \in S : b = bound - s
  OBVIOUS
<1>4. \A t \in S : b <= bound - t
  BY <1>2
<1> QED
  BY <1>3, <1>4

(* Rings.                                                                  *)

LEMMA SlotInRing == ASSUME NEW n \in Int PROVE Slot(n) \in Slots
  BY ConstantsAssumption DEF Slot, Slots

\* Numbers that are less than a ring apart fall into different slots.
LEMMA SlotsApart ==
    ASSUME NEW a \in Int, NEW b \in Int, a < b, b - a < MAX_RELIABLE_COMMANDS
    PROVE  Slot(a) # Slot(b)
<1> DEFINE q == a \div MAX_RELIABLE_COMMANDS
           r == b \div MAX_RELIABLE_COMMANDS
<1> SUFFICES ASSUME Slot(a) = Slot(b) PROVE FALSE
  OBVIOUS
<1>1. /\ a = MAX_RELIABLE_COMMANDS * q + Slot(a)
      /\ b = MAX_RELIABLE_COMMANDS * r + Slot(b)
  BY ConstantsAssumption DEF Slot
<1>2. q \in Int /\ r \in Int
  BY ConstantsAssumption
<1> HIDE DEF q, r
<1>3. b - a = MAX_RELIABLE_COMMANDS * (r - q)
  BY <1>1, <1>2, SlotInRing, ConstantsAssumption DEF Slots
<1>4. CASE r - q <= 0
  BY <1>2, <1>3, <1>4, ConstantsAssumption
<1>5. CASE r - q >= 1
  BY <1>2, <1>3, <1>5, ConstantsAssumption
<1> QED
  BY <1>2, <1>4, <1>5

\* A ring that is filled has commands in all its slots; a slot into which none of
\* them fell is as it was, one into which a single one fell holds that one.
LEMMA FilledFacts ==
    ASSUME NEW ring \in [Slots -> Commands], NEW cmds \in Seq(Command)
    PROVE  /\ Filled(ring, cmds) \in [Slots -> Commands]
           /\ \A k \in Slots :
                (\A i \in DOMAIN cmds : Slot(cmds[i].seq) # k) =>
                    Filled(ring, cmds)[k] = ring[k]
           /\ \A k \in Slots, i \in DOMAIN cmds :
                (\A j \in DOMAIN cmds : Slot(cmds[j].seq) = k <=> j = i) =>
                    Filled(ring, cmds)[k] = cmds[i].cmd
<1> DEFINE here(k) == { i \in DOMAIN cmds : Slot(cmds[i].seq) = k }
<1>1. ASSUME NEW k \in Slots, here(k) # {}
      PROVE  Max(here(k)) \in here(k) /\ Max(here(k)) \in DOMAIN cmds
  <2>1. DOMAIN cmds = 1 .. Len(cmds) /\ Len(cmds) \in Nat
    OBVIOUS
  <2>2. here(k) \in SUBSET (0 .. Len(cmds))
    BY <2>1
  <2> HIDE DEF here
  <2>3. \E i \in here(k) : \A j \in here(k) : i >= j
    BY <1>1, <2>1, <2>2, GreatestExists
  <2>4. Max(here(k)) \in here(k)
    BY <2>3 DEF Max
  <2> QED
    BY <2>4 DEF here
<1>2. ASSUME NEW k \in Slots
      PROVE  /\ here(k) = {} => Filled(ring, cmds)[k] = ring[k]
             /\ here(k) # {} => Filled(ring, cmds)[k] = cmds[Max(here(k))].cmd
  BY DEF Filled
<1>3. \A i \in DOMAIN cmds : cmds[i].cmd \in Commands
  <2>1. \A i \in DOMAIN cmds : cmds[i] \in Command
    OBVIOUS
  <2> QED
    BY <2>1 DEF Command
<1>4. Filled(ring, cmds) \in [Slots -> Commands]
  <2>1. ASSUME NEW k \in Slots PROVE Filled(ring, cmds)[k] \in Commands
    <3>1. CASE here(k) = {}
      BY <1>2, <3>1
    <3>2. CASE here(k) # {}
      BY <1>1, <1>2, <1>3, <3>2
    <3> QED
      BY <3>1, <3>2
  <2> QED
    BY <2>1 DEF Filled
<1>5. ASSUME NEW k \in Slots, \A i \in DOMAIN cmds : Slot(cmds[i].seq) # k
      PROVE  Filled(ring, cmds)[k] = ring[k]
  BY <1>2, <1>5
<1>6. ASSUME NEW k \in Slots, NEW i \in DOMAIN cmds,
             \A j \in DOMAIN cmds : Slot(cmds[j].seq) = k <=> j = i
      PROVE  Filled(ring, cmds)[k] = cmds[i].cmd
  <2>1. here(k) = {i}
    BY <1>6
  <2> QED
    BY <1>1, <1>2, <2>1
<1> QED
  BY <1>4, <1>5, <1>6

-----------------------------------------------------------------------------
(* Sequences of commands.                                                  *)

\* What a side writes into a message is in a row from what was acknowledged.
LEMMA UnacknowledgedFacts ==
    ASSUME NEW side, side.reliableSequence \in Nat,
           side.reliableAcknowledge \in Nat,
           side.reliableAcknowledge <= side.reliableSequence,
           side.reliableCommands \in [Slots -> Commands]
    PROVE  /\ Unacknowledged(side) \in Seq(Command)
           /\ Len(Unacknowledged(side)) =
                side.reliableSequence - side.reliableAcknowledge
           /\ \A i \in DOMAIN Unacknowledged(side) :
                LET n == side.reliableAcknowledge + i
                IN  /\ n \in side.reliableAcknowledge + 1 .. side.reliableSequence
                    /\ Unacknowledged(side)[i].seq = n
                    /\ Unacknowledged(side)[i].cmd = side.reliableCommands[Slot(n)]
           /\ InARow(Unacknowledged(side))
<1> DEFINE length == side.reliableSequence - side.reliableAcknowledge
           first == side.reliableAcknowledge
           element(i) == [seq |-> first + i,
                          cmd |-> side.reliableCommands[Slot(first + i)]]
<1>1. length \in Nat /\ first \in Nat
  OBVIOUS
<1>2. Unacknowledged(side) = [i \in 1 .. length |-> element(i)]
  BY DEF Unacknowledged
<1>3. \A i \in 1 .. length : element(i) \in Command
  <2> SUFFICES ASSUME NEW i \in 1 .. length PROVE element(i) \in Command
    OBVIOUS
  <2>1. first + i \in Nat \ {0}
    BY <1>1
  <2>2. side.reliableCommands[Slot(first + i)] \in Commands
    BY <2>1, SlotInRing
  <2> QED
    BY <2>1, <2>2 DEF Command
<1>4. /\ Unacknowledged(side) \in Seq(Command)
      /\ Len(Unacknowledged(side)) = length
      /\ DOMAIN Unacknowledged(side) = 1 .. length
  BY <1>1, <1>2, <1>3
<1>5. ASSUME NEW i \in DOMAIN Unacknowledged(side)
      PROVE  /\ first + i \in first + 1 .. side.reliableSequence
             /\ Unacknowledged(side)[i].seq = first + i
             /\ Unacknowledged(side)[i].cmd = side.reliableCommands[Slot(first + i)]
  BY <1>1, <1>2, <1>4, <1>5
<1>6. InARow(Unacknowledged(side))
  <2> SUFFICES ASSUME NEW i \in DOMAIN Unacknowledged(side)
               PROVE  Unacknowledged(side)[i].seq = Unacknowledged(side)[1].seq + i - 1
    BY DEF InARow
  <2>1. 1 \in DOMAIN Unacknowledged(side) /\ i \in Int
    BY <1>1, <1>4
  <2> QED
    BY <1>1, <1>5, <2>1
<1> QED
  BY <1>4, <1>5, <1>6

\* The new commands of a message are its last ones, in a row as well; if the
\* message goes on from the last one known, they do.
LEMMA NewerFacts ==
    ASSUME NEW cmds \in Seq(Command), InARow(cmds), NEW last \in Nat
    PROVE  LET new == Newer(cmds, last)
           IN  /\ new \in Seq(Command) /\ InARow(new) /\ Len(new) <= Len(cmds)
               /\ \A i \in DOMAIN new :
                    /\ new[i].seq > last
                    /\ \E j \in DOMAIN cmds : new[i] = cmds[j]
               /\ new # <<>> =>
                    /\ cmds # <<>> /\ new[Len(new)] = cmds[Len(cmds)]
                    /\ cmds[1].seq <= last + 1 => new[1].seq = last + 1
<1> DEFINE is == { i \in DOMAIN cmds : cmds[i].seq > last }
           new == Newer(cmds, last)
<1>1. /\ DOMAIN cmds = 1 .. Len(cmds) /\ Len(cmds) \in Nat
      /\ \A i \in DOMAIN cmds : cmds[i] \in Command /\ cmds[i].seq \in Nat \ {0}
  <2>1. /\ DOMAIN cmds = 1 .. Len(cmds) /\ Len(cmds) \in Nat
        /\ \A i \in DOMAIN cmds : cmds[i] \in Command
    OBVIOUS
  <2> QED
    BY <2>1 DEF Command
<1>2. CASE is = {}
  <2>1. new = <<>>
    BY <1>2 DEF Newer
  <2> QED
    BY <2>1, <1>1 DEF InARow
<1>3. CASE is # {}
  <2> DEFINE f == Min(is)
  <2>1. f \in is /\ \A i \in is : f <= i
    <3>1. is \in SUBSET Nat
      BY <1>1
    <3> HIDE DEF is
    <3> QED
      BY <3>1, <1>3, LeastExists DEF Min
  <2>2. new = SubSeq(cmds, f, Len(cmds))
    BY <1>3 DEF Newer
  <2> HIDE DEF new
  <2>3. f \in 1 .. Len(cmds) /\ cmds[f].seq > last
    BY <1>1, <2>1
  <2>4. ASSUME NEW i \in 1 .. f - 1 PROVE cmds[i].seq <= last
    <3>1. i \in DOMAIN cmds /\ i \in Int /\ ~(f <= i)
      BY <1>1, <2>3
    <3>2. ~(cmds[i].seq > last)
      BY <2>1, <3>1
    <3> QED
      BY <1>1, <3>1, <3>2
  <2> HIDE DEF f, is
  <2>5. /\ new \in Seq(Command) /\ Len(new) = Len(cmds) - f + 1
        /\ DOMAIN new = 1 .. Len(cmds) - f + 1
        /\ \A i \in 1 .. Len(cmds) - f + 1 : new[i] = cmds[f + i - 1]
    BY <1>1, <2>2, <2>3
  <2>6. \A i \in DOMAIN cmds : cmds[i].seq = cmds[1].seq + i - 1
    BY DEF InARow
  <2>7. \A i \in DOMAIN new :
            /\ f + i - 1 \in DOMAIN cmds /\ new[i] = cmds[f + i - 1]
            /\ new[i].seq = cmds[f].seq + i - 1
    <3> SUFFICES ASSUME NEW i \in DOMAIN new
                 PROVE  /\ f + i - 1 \in DOMAIN cmds /\ new[i] = cmds[f + i - 1]
                        /\ new[i].seq = cmds[f].seq + i - 1
      OBVIOUS
    <3>1. /\ i \in 1 .. Len(cmds) - f + 1 /\ f + i - 1 \in DOMAIN cmds
          /\ f \in DOMAIN cmds /\ 1 \in DOMAIN cmds
      BY <1>1, <2>3, <2>5
    <3>2. /\ cmds[f + i - 1].seq = cmds[1].seq + (f + i - 1) - 1
          /\ cmds[f].seq = cmds[1].seq + f - 1
      BY <2>6, <3>1
    <3>3. cmds[f].seq \in Nat /\ cmds[1].seq \in Nat /\ i \in Int /\ f \in Int
      BY <1>1, <2>3, <3>1
    <3>4. PICK a \in Nat, b \in Nat : a = cmds[1].seq /\ b = cmds[f].seq
      BY <3>3
    <3>5. ASSUME NEW x \in Int, NEW y \in Int, b = a + y - 1
          PROVE  a + (y + x - 1) - 1 = b + x - 1
      BY <3>5
    <3>6. cmds[f + i - 1].seq = cmds[f].seq + i - 1
      BY <3>2, <3>3, <3>4, <3>5, Zenon
    <3> QED
      BY <2>5, <3>1, <3>6
  <2>8. InARow(new)
    <3> SUFFICES ASSUME NEW i \in DOMAIN new PROVE new[i].seq = new[1].seq + i - 1
      BY DEF InARow
    <3>1. 1 \in DOMAIN new /\ i \in Int
      BY <2>3, <2>5
    <3>2. f \in DOMAIN cmds /\ cmds[f].seq \in Nat
      BY <1>1, <2>3
    <3>3. new[1].seq = cmds[f].seq + 1 - 1 /\ new[i].seq = cmds[f].seq + i - 1
      BY <2>7, <3>1
    <3>4. \A x \in Nat : x + 1 - 1 = x
      OBVIOUS
    <3>5. cmds[f].seq + 1 - 1 = cmds[f].seq
      BY <3>2, <3>4
    <3>6. new[1].seq = cmds[f].seq
      BY <3>3, <3>5, Zenon
    <3> QED
      BY <3>3, <3>6, Zenon
  <2>9. \A i \in DOMAIN new : new[i].seq > last
    <3> SUFFICES ASSUME NEW i \in DOMAIN new PROVE new[i].seq > last
      OBVIOUS
    <3>1. i \in Nat \ {0}
      BY <2>3, <2>5
    <3>2. cmds[f].seq \in Nat /\ cmds[f].seq > last
      BY <1>1, <2>3
    <3>3. new[i].seq = cmds[f].seq + i - 1
      BY <2>7
    <3>4. \A x \in Nat, y \in Nat \ {0} : x > last => x + y - 1 > last
      BY <1>1
    <3>5. cmds[f].seq + i - 1 > last
      BY <3>1, <3>2, <3>4
    <3> QED
      BY <3>3, <3>5, Zenon
  <2>10. new[Len(new)] = cmds[Len(cmds)]
    BY <1>1, <2>3, <2>5
  <2>11. ASSUME cmds[1].seq <= last + 1 PROVE new[1].seq = last + 1
    <3>1. CASE f = 1
      BY <1>1, <2>3, <2>5, <2>7, <2>11, <3>1
    <3>2. CASE f > 1
      <4>1. /\ f - 1 \in DOMAIN cmds /\ f \in DOMAIN cmds /\ 1 \in DOMAIN cmds
            /\ 1 \in DOMAIN new
        BY <1>1, <2>3, <2>5, <3>2
      <4>2. cmds[f - 1].seq <= last
        BY <2>3, <2>4, <3>2
      <4>3. /\ cmds[f - 1].seq = cmds[1].seq + (f - 1) - 1
            /\ cmds[f].seq = cmds[1].seq + f - 1
            /\ new[1].seq = cmds[f].seq + 1 - 1
        BY <2>6, <2>7, <4>1
      <4> QED
        BY <1>1, <2>3, <4>1, <4>2, <4>3
    <3> QED
      BY <3>1, <3>2, <2>3
  <2>12. cmds # <<>> /\ Len(new) <= Len(cmds)
    BY <1>1, <2>3, <2>5
  <2> QED
    BY <2>5, <2>7, <2>8, <2>9, <2>10, <2>11, <2>12 DEF new
<1> QED
  BY <1>2, <1>3

\* What is executed of the commands of a message is its beginning, and all of it
\* if the only "disconnect" is the last.
LEMMA UpToDisconnectFacts ==
    ASSUME NEW cmds \in Seq(Command), cmds # <<>>
    PROVE  LET run == UpToDisconnect(cmds)
           IN  /\ run \in Seq(Command) /\ run # <<>>
               /\ Len(run) <= Len(cmds)
               /\ \A i \in DOMAIN run : run[i] = cmds[i]
               /\ (\A i \in DOMAIN cmds : cmds[i].cmd = DISCONNECT => i = Len(cmds))
                    => run = cmds
<1> DEFINE stops == { i \in DOMAIN cmds : cmds[i].cmd = DISCONNECT }
           run == UpToDisconnect(cmds)
<1>1. DOMAIN cmds = 1 .. Len(cmds) /\ Len(cmds) \in Nat \ {0}
  OBVIOUS
<1>2. CASE stops = {}
  BY <1>2 DEF UpToDisconnect
<1>3. CASE stops # {}
  <2>1. Min(stops) \in stops
    <3>1. stops \in SUBSET Nat
      BY <1>1
    <3> HIDE DEF stops
    <3> QED
      BY <3>1, <1>3, LeastExists DEF Min
  <2>2. run = SubSeq(cmds, 1, Min(stops)) /\ Min(stops) \in 1 .. Len(cmds)
    BY <1>1, <1>3, <2>1 DEF UpToDisconnect
  <2>3. ASSUME \A i \in DOMAIN cmds : cmds[i].cmd = DISCONNECT => i = Len(cmds)
        PROVE  Min(stops) = Len(cmds)
    BY <2>1, <2>3
  <2> HIDE DEF stops, run
  <2>4. /\ run \in Seq(Command) /\ Len(run) = Min(stops)
        /\ \A i \in DOMAIN run : run[i] = cmds[i]
    BY <1>1, <2>2
  <2>5. Min(stops) = Len(cmds) => run = cmds
    BY <1>1, <2>2, <2>4
  <2>6. run # <<>> /\ Len(run) <= Len(cmds)
    BY <1>1, <2>2, <2>4
  <2> QED
    BY <2>3, <2>4, <2>5, <2>6 DEF run
<1> QED
  BY <1>2, <1>3

-----------------------------------------------------------------------------
(* Channels.                                                               *)

LEMMA SendFacts ==
    ASSUME NEW channel \in Seq(Message), Len(channel) <= MaxInFlight,
           NEW m \in Message
    PROVE  LET sent == Send(channel, m)
           IN  /\ sent \in Seq(Message) /\ Len(sent) <= MaxInFlight
               /\ \A j \in DOMAIN sent :
                    sent[j] = m \/ \E i \in DOMAIN channel : sent[j] = channel[i]
               /\ InAckOrder(channel) /\ (\A i \in DOMAIN channel : channel[i].ack <= m.ack)
                    => InAckOrder(sent) /\ \A j \in DOMAIN sent : sent[j].ack <= m.ack
<1> DEFINE sent == Send(channel, m)
<1>1. /\ DOMAIN channel = 1 .. Len(channel) /\ Len(channel) \in Nat
      /\ m.ack \in Nat /\ \A i \in DOMAIN channel : channel[i].ack \in Nat
      /\ MaxInFlight \in Nat \ {0}
  <2>1. /\ DOMAIN channel = 1 .. Len(channel) /\ Len(channel) \in Nat
        /\ \A i \in DOMAIN channel : channel[i] \in Message
    OBVIOUS
  <2> QED
    BY <2>1, ConstantsAssumption DEF Message
<1>2. PICK d \in {0, 1} :
        /\ sent \in Seq(Message) /\ Len(sent) = Len(channel) + 1 - d
        /\ Len(sent) <= MaxInFlight
        /\ \A j \in 1 .. Len(channel) - d : sent[j] = channel[j + d]
        /\ sent[Len(channel) + 1 - d] = m
  <2>1. CASE Len(channel) < MaxInFlight
    <3>1. sent = Append(channel, m)
      BY <2>1 DEF Send
    <3> HIDE DEF sent
    <3>2. /\ sent \in Seq(Message) /\ Len(sent) = Len(channel) + 1
          /\ \A j \in 1 .. Len(channel) : sent[j] = channel[j]
          /\ sent[Len(channel) + 1] = m
      BY <3>1
    <3>3. /\ sent \in Seq(Message) /\ Len(sent) = Len(channel) + 1 - 0
          /\ Len(sent) <= MaxInFlight
          /\ \A j \in 1 .. Len(channel) - 0 : sent[j] = channel[j + 0]
          /\ sent[Len(channel) + 1 - 0] = m
      BY <1>1, <2>1, <3>2
    <3> QED
      BY <3>3
  <2>2. CASE Len(channel) = MaxInFlight
    <3>1. sent = Append(Tail(channel), m)
      BY <1>1, <2>2 DEF Send
    <3> HIDE DEF sent
    <3>4. channel # <<>>
      <4>1. Len(channel) # 0
        BY <1>1, <2>2
      <4> QED
        BY <4>1
    <3>2. /\ Tail(channel) \in Seq(Message) /\ Len(Tail(channel)) = Len(channel) - 1
          /\ \A j \in 1 .. Len(channel) - 1 : Tail(channel)[j] = channel[j + 1]
      BY <3>4
    <3>3. /\ sent \in Seq(Message) /\ Len(sent) = Len(channel) + 1 - 1
          /\ Len(sent) <= MaxInFlight
          /\ \A j \in 1 .. Len(channel) - 1 : sent[j] = channel[j + 1]
          /\ sent[Len(channel) + 1 - 1] = m
      BY <1>1, <2>2, <3>1, <3>2
    <3> QED
      BY <3>3
  <2>3. Len(channel) < MaxInFlight \/ Len(channel) = MaxInFlight
    BY ConstantsAssumption
  <2> QED
    BY <2>1, <2>2, <2>3
<1> HIDE DEF sent
<1>3. \A j \in DOMAIN sent :
        \/ j = Len(channel) + 1 - d /\ sent[j] = m
        \/ j < Len(channel) + 1 - d /\ j + d \in DOMAIN channel /\ sent[j] = channel[j + d]
  BY <1>1, <1>2
<1>4. ASSUME InAckOrder(channel), \A i \in DOMAIN channel : channel[i].ack <= m.ack
      PROVE  InAckOrder(sent) /\ \A j \in DOMAIN sent : sent[j].ack <= m.ack
  <2>1. \A j \in DOMAIN sent : sent[j].ack <= m.ack
    BY <1>1, <1>3, <1>4
  <2>2. ASSUME NEW i \in DOMAIN sent, NEW j \in DOMAIN sent, i <= j
        PROVE  sent[i].ack <= sent[j].ack
    <3>1. CASE j = Len(channel) + 1 - d
      BY <1>1, <1>2, <2>1, <3>1
    <3>2. CASE j # Len(channel) + 1 - d
      <4>1. i \in Int /\ j \in Int /\ d \in Int /\ Len(channel) \in Int
        BY <1>1, <1>2
      <4>2. j < Len(channel) + 1 - d /\ j + d \in DOMAIN channel /\ sent[j] = channel[j + d]
        BY <1>3, <3>2, Zenon
      <4>3. \A x, y, z, l \in Int :
              x <= y /\ y < l + 1 - z => x # l + 1 - z /\ x + z <= y + z
        OBVIOUS
      <4>4. i # Len(channel) + 1 - d /\ i + d <= j + d
        BY <2>2, <4>1, <4>2, <4>3, Zenon
      <4>5. i + d \in DOMAIN channel /\ sent[i] = channel[i + d]
        BY <1>3, <4>4, Zenon
      <4>6. channel[i + d].ack <= channel[j + d].ack
        BY <1>4, <4>2, <4>4, <4>5, Zenon DEF InAckOrder
      <4> QED
        BY <4>2, <4>5, <4>6, Zenon
    <3> QED
      BY <3>1, <3>2
  <2> QED
    BY <2>1, <2>2 DEF InAckOrder
<1> QED
  BY <1>2, <1>3, <1>4 DEF sent

LEMMA AfterFacts ==
    ASSUME NEW channel \in Seq(Message), Len(channel) <= MaxInFlight,
           NEW i \in DOMAIN channel
    PROVE  LET left == After(channel, i)
           IN  /\ left \in Seq(Message) /\ Len(left) <= MaxInFlight
               /\ \A j \in DOMAIN left : \E k \in DOMAIN channel :
                    i <= k /\ left[j] = channel[k]
               /\ InAckOrder(channel) => InAckOrder(left)
<1> DEFINE left == After(channel, i)
<1>1. /\ DOMAIN channel = 1 .. Len(channel) /\ Len(channel) \in Nat
      /\ i \in 1 .. Len(channel) /\ MaxInFlight \in Nat
  BY ConstantsAssumption
<1>2. /\ left \in Seq(Message) /\ Len(left) = Len(channel) - i
      /\ DOMAIN left = 1 .. Len(channel) - i
      /\ \A j \in 1 .. Len(channel) - i : left[j] = channel[i + j]
  BY <1>1 DEF After
<1> HIDE DEF left
<1>3. \A j \in DOMAIN left : i + j \in DOMAIN channel /\ left[j] = channel[i + j] /\ j \in Nat
  BY <1>1, <1>2
<1>4. InAckOrder(channel) => InAckOrder(left)
  BY <1>1, <1>3 DEF InAckOrder
<1>5. \A j \in DOMAIN left : \E k \in DOMAIN channel : i <= k /\ left[j] = channel[k]
  BY <1>1, <1>3
<1>6. Len(left) <= MaxInFlight
  BY <1>1, <1>2
<1> QED
  BY <1>2, <1>4, <1>5, <1>6 DEF left

\* What a step of the client, and of the server, leaves true.
ClientGrown(c, d) ==
    /\ c.serverCommandSequence <= d.serverCommandSequence
    /\ c.reliableSequence <= d.reliableSequence
    /\ d.state = "connected" => c.state = "connected"
    /\ c.state = "connected" \/ d.reliableSequence = c.reliableSequence

ServerGrown(s, t) ==
    /\ s.lastClientCommand <= t.lastClientCommand
    /\ s.reliableSequence <= t.reliableSequence
    /\ t.state = "active" => s.state = "active"

LEMMA ForServerKept ==
    ASSUME NEW m \in Message, NEW c \in Client, NEW d \in Client,
           NEW s \in Server, NEW t \in Server, NEW o \in BOOLEAN, NEW p \in BOOLEAN,
           ForServer(m, c, s, o), ClientGrown(c, d), ServerGrown(s, t), o => p,
           t.reliableAcknowledge <= m.ack
    PROVE  ForServer(m, d, t, p)
<1>1. \A i \in DOMAIN m.cmds : m.cmds[i].seq \in Nat \ {0}
  <2>1. \A i \in DOMAIN m.cmds : m.cmds[i] \in Command
    BY DEF Message
  <2> QED
    BY <2>1 DEF Command
<1>2. /\ m.ack \in Nat /\ m.cmds \in Seq(Command)
      /\ c.serverCommandSequence \in Nat /\ d.serverCommandSequence \in Nat
      /\ c.reliableSequence \in Nat /\ d.reliableSequence \in Nat
      /\ s.lastClientCommand \in Nat /\ t.lastClientCommand \in Nat
  BY DEF Message, Client, Server
<1>3. m.ack <= d.serverCommandSequence /\ InARow(m.cmds)
  BY <1>2 DEF ForServer, ClientGrown
<1>4. \A i \in DOMAIN m.cmds : m.cmds[i].seq <= d.reliableSequence
  BY <1>1, <1>2 DEF ForServer, ClientGrown
<1>5. ASSUME ~p, m.cmds # <<>> PROVE m.cmds[1].seq <= t.lastClientCommand + 1
  <2>1. 1 \in DOMAIN m.cmds
    BY <1>2, <1>5
  <2> QED
    BY <1>1, <1>2, <1>5, <2>1 DEF ForServer, ServerGrown
<1>6. ASSUME ~p, NEW i \in DOMAIN m.cmds
      PROVE  ClientIssued(m.cmds[i].seq, m.cmds[i].cmd, d)
  <2>1. /\ ClientIssued(m.cmds[i].seq, m.cmds[i].cmd, c)
        /\ m.cmds[i].seq <= c.reliableSequence
    BY <1>6 DEF ForServer
  <2> QED
    BY <2>1 DEF ClientIssued, ClientGrown
<1> QED
  BY <1>3, <1>4, <1>5, <1>6 DEF ForServer

LEMMA ForClientKept ==
    ASSUME NEW m \in Message, NEW c \in Client, NEW d \in Client,
           NEW s \in Server, NEW t \in Server, NEW o \in BOOLEAN, NEW p \in BOOLEAN,
           ForClient(m, c, s, o), ClientGrown(c, d), ServerGrown(s, t), o => p,
           ~p => d.reliableAcknowledge <= m.ack
    PROVE  ForClient(m, d, t, p)
<1>1. \A i \in DOMAIN m.cmds : m.cmds[i].seq \in Nat \ {0}
  <2>1. \A i \in DOMAIN m.cmds : m.cmds[i] \in Command
    BY DEF Message
  <2> QED
    BY <2>1 DEF Command
<1>2. /\ m.ack \in Nat /\ m.cmds \in Seq(Command)
      /\ c.serverCommandSequence \in Nat /\ d.serverCommandSequence \in Nat
      /\ s.reliableSequence \in Nat /\ t.reliableSequence \in Nat
      /\ s.lastClientCommand \in Nat /\ t.lastClientCommand \in Nat
  BY DEF Message, Client, Server
<1>3. m.ack <= t.lastClientCommand /\ InARow(m.cmds)
  BY <1>2 DEF ForClient, ServerGrown
<1>4. \A i \in DOMAIN m.cmds : m.cmds[i].seq <= t.reliableSequence
  BY <1>1, <1>2 DEF ForClient, ServerGrown
<1>5. ASSUME t.state = "active", m.cmds # <<>>
      PROVE  m.cmds[1].seq <= d.serverCommandSequence + 1
  <2>1. 1 \in DOMAIN m.cmds
    BY <1>2, <1>5
  <2> QED
    BY <1>1, <1>2, <1>5, <2>1 DEF ForClient, ClientGrown, ServerGrown
<1>6. ASSUME t.state = "active"
      PROVE  /\ Len(m.cmds) <= MAX_RELIABLE_COMMANDS
             /\ \A i \in DOMAIN m.cmds : m.cmds[i].cmd = m.cmds[i].seq
  BY <1>6 DEF ForClient, ServerGrown
<1> QED
  BY <1>3, <1>4, <1>5, <1>6 DEF ForClient

\* Messages that stay on their way, and those that are not older.
LEMMA ToServerKept ==
    ASSUME TypesInv, TypesInv', ChannelsInv,
           ClientGrown(cl, cl'), ServerGrown(sv, sv'), overran => overran',
           \A j \in DOMAIN toServer' :
                \/ ForServer(toServer'[j], cl', sv', overran')
                \/ \E i \in DOMAIN toServer :
                    /\ toServer'[j] = toServer[i]
                    /\ sv'.reliableAcknowledge <= toServer[i].ack
    PROVE  \A j \in DOMAIN toServer' : ForServer(toServer'[j], cl', sv', overran')
<1> SUFFICES ASSUME NEW i \in DOMAIN toServer,
                    sv'.reliableAcknowledge <= toServer[i].ack
             PROVE  ForServer(toServer[i], cl', sv', overran')
  OBVIOUS
<1>1. toServer[i] \in Message /\ ForServer(toServer[i], cl, sv, overran)
  BY DEF TypesInv, ChannelsInv
<1>2. /\ cl \in Client /\ cl' \in Client /\ sv \in Server /\ sv' \in Server
      /\ overran \in BOOLEAN /\ overran' \in BOOLEAN
  BY DEF TypesInv
<1> QED
  BY <1>1, <1>2, ForServerKept

LEMMA ToClientKept ==
    ASSUME TypesInv, TypesInv', ChannelsInv,
           ClientGrown(cl, cl'), ServerGrown(sv, sv'), overran => overran',
           \A j \in DOMAIN toClient' :
                \/ ForClient(toClient'[j], cl', sv', overran')
                \/ \E i \in DOMAIN toClient :
                    /\ toClient'[j] = toClient[i]
                    /\ ~overran' => cl'.reliableAcknowledge <= toClient[i].ack
    PROVE  \A j \in DOMAIN toClient' : ForClient(toClient'[j], cl', sv', overran')
<1> SUFFICES ASSUME NEW i \in DOMAIN toClient,
                    ~overran' => cl'.reliableAcknowledge <= toClient[i].ack
             PROVE  ForClient(toClient[i], cl', sv', overran')
  OBVIOUS
<1>1. toClient[i] \in Message /\ ForClient(toClient[i], cl, sv, overran)
  BY DEF TypesInv, ChannelsInv
<1>2. /\ cl \in Client /\ cl' \in Client /\ sv \in Server /\ sv' \in Server
      /\ overran \in BOOLEAN /\ overran' \in BOOLEAN
  BY DEF TypesInv
<1> QED
  BY <1>1, <1>2, ForClientKept

-----------------------------------------------------------------------------
(* A command is stored; the server drops the client.                       *)

LEMMA StoredServer ==
    ASSUME NEW s \in Server, NEW cmd \in Commands
    PROVE  LET t == Stored(s, cmd)
               k == Slot(s.reliableSequence + 1)
           IN  /\ t \in Server /\ t.state = s.state
               /\ t.reliableSequence = s.reliableSequence + 1
               /\ t.reliableAcknowledge = s.reliableAcknowledge
               /\ t.lastClientCommand = s.lastClientCommand
               /\ t.reliableCommands[k] = cmd
               /\ \A l \in Slots : l # k => t.reliableCommands[l] = s.reliableCommands[l]
<1> DEFINE k == Slot(s.reliableSequence + 1)
<1>1. k \in Slots /\ s.reliableCommands \in [Slots -> Commands]
  BY SlotInRing DEF Server
<1> DEFINE ring == [s.reliableCommands EXCEPT ![k] = cmd]
           stored == Stored(s, cmd)
<1>2. stored = [s EXCEPT !.reliableSequence = s.reliableSequence + 1,
                         !.reliableCommands = ring]
  BY DEF Stored, Server
<1>3. /\ ring \in [Slots -> Commands] /\ ring[k] = cmd
      /\ \A l \in Slots : l # k => ring[l] = s.reliableCommands[l]
  BY <1>1
<1> HIDE DEF ring, stored, k
<1>4. stored \in Server /\ stored.reliableCommands = ring
  <2>1. s.reliableSequence + 1 \in Nat /\ ring \in [Slots -> Commands]
    BY <1>3 DEF Server
  <2>2. stored \in Server
    BY <1>2, <2>1 DEF Server
  <2>3. stored.reliableCommands = ring
    BY <1>2, <2>1 DEF Server
  <2> QED
    BY <2>2, <2>3
<1>5. /\ stored.reliableSequence = s.reliableSequence + 1
      /\ stored.state = s.state
      /\ stored.reliableAcknowledge = s.reliableAcknowledge
      /\ stored.lastClientCommand = s.lastClientCommand
  BY <1>2 DEF Server
<1> QED
  BY <1>3, <1>4, <1>5 DEF stored, k

LEMMA StoredClient ==
    ASSUME NEW c \in Client, NEW cmd \in Commands
    PROVE  LET d == Stored(c, cmd)
               k == Slot(c.reliableSequence + 1)
           IN  /\ d \in Client /\ d.state = c.state
               /\ d.reliableSequence = c.reliableSequence + 1
               /\ d.reliableAcknowledge = c.reliableAcknowledge
               /\ d.serverCommandSequence = c.serverCommandSequence
               /\ d.serverCommands = c.serverCommands
               /\ d.snapshots = c.snapshots
               /\ d.lastExecutedServerCommand = c.lastExecutedServerCommand
               /\ d.reliableCommands[k] = cmd
               /\ \A l \in Slots : l # k => d.reliableCommands[l] = c.reliableCommands[l]
<1> DEFINE k == Slot(c.reliableSequence + 1)
<1>1. k \in Slots /\ c.reliableCommands \in [Slots -> Commands]
  BY SlotInRing DEF Client
<1> DEFINE ring == [c.reliableCommands EXCEPT ![k] = cmd]
           stored == Stored(c, cmd)
<1>2. stored = [c EXCEPT !.reliableSequence = c.reliableSequence + 1,
                         !.reliableCommands = ring]
  BY DEF Stored, Client
<1>3. /\ ring \in [Slots -> Commands] /\ ring[k] = cmd
      /\ \A l \in Slots : l # k => ring[l] = c.reliableCommands[l]
  BY <1>1
<1> HIDE DEF ring, stored, k
<1>4. stored \in Client /\ stored.reliableCommands = ring
  <2>1. c.reliableSequence + 1 \in Nat /\ ring \in [Slots -> Commands]
    BY <1>3 DEF Client
  <2>2. stored \in Client
    BY <1>2, <2>1 DEF Client
  <2>3. stored.reliableCommands = ring
    BY <1>2, <2>1 DEF Client
  <2> QED
    BY <2>2, <2>3
<1>5. /\ stored.reliableSequence = c.reliableSequence + 1
      /\ stored.state = c.state
      /\ stored.reliableAcknowledge = c.reliableAcknowledge
      /\ stored.serverCommandSequence = c.serverCommandSequence
      /\ stored.serverCommands = c.serverCommands
      /\ stored.snapshots = c.snapshots
      /\ stored.lastExecutedServerCommand = c.lastExecutedServerCommand
  BY <1>2 DEF Client
<1> QED
  BY <1>3, <1>4, <1>5 DEF stored, k

LEMMA DroppedFacts ==
    ASSUME NEW s \in Server
    PROVE  LET t == Dropped(s)
           IN  /\ t \in Server /\ t.state = "zombie"
               /\ t.reliableSequence = s.reliableSequence + 1
               /\ t.reliableAcknowledge = s.reliableAcknowledge
               /\ t.lastClientCommand = s.lastClientCommand
<1> DEFINE z == [s EXCEPT !.state = "zombie"]
<1>1. /\ z \in Server /\ z.state = "zombie" /\ z.reliableSequence = s.reliableSequence
      /\ z.reliableAcknowledge = s.reliableAcknowledge
      /\ z.lastClientCommand = s.lastClientCommand
  BY DEF Server
<1>2. DISCONNECT \in Commands
  BY ConstantsAssumption DEF DISCONNECT, Commands, EMPTY
<1>3. Dropped(s) = IF Overflows(z) THEN Numbered(z) ELSE Stored(z, DISCONNECT)
  BY DEF Dropped
<1> HIDE DEF z
<1>4. CASE Overflows(z)
  BY <1>1, <1>3, <1>4 DEF Numbered, Server
<1>5. CASE ~Overflows(z)
  BY <1>1, <1>2, <1>3, <1>5, StoredServer
<1> QED
  BY <1>4, <1>5

LEMMA AcksOnTheWay ==
    ASSUME ChannelsInv
    PROVE  /\ \A i \in DOMAIN toServer :
                /\ sv.reliableAcknowledge <= toServer[i].ack
                /\ toServer[i].ack <= cl.serverCommandSequence
           /\ \A i \in DOMAIN toClient :
                /\ toClient[i].ack <= sv.lastClientCommand
                /\ ~overran => cl.reliableAcknowledge <= toClient[i].ack
  BY DEF ChannelsInv, ForServer, ForClient

-----------------------------------------------------------------------------
(* The actions.                                                            *)

\* The initial states satisfy the inductive invariant.
LEMMA InitIInv == Init => IInv
<1> SUFFICES ASSUME Init PROVE IInv
  OBVIOUS
<1>1. EMPTY \in Commands
  BY ConstantsAssumption DEF Commands, EMPTY
<1>2. [k \in Slots |-> EMPTY] \in [Slots -> Commands]
  BY <1>1
<1>3. TypesInv
  <2>1. cl \in Client
    BY <1>2 DEF Init, Client
  <2>2. sv \in Server
    BY <1>2 DEF Init, Server
  <2>3. /\ <<>> \in Seq(Message) /\ Len(<<>>) <= MaxInFlight
        /\ <<>> \in Seq(Commands)
    BY ConstantsAssumption
  <2> QED
    BY <2>1, <2>2, <2>3 DEF Init, TypesInv
<1>4. NumbersInv
  BY ConstantsAssumption DEF Init, NumbersInv
<1>5. RingsInv
  BY DEF Init, RingsInv
<1>6. HistoryInv
  BY DEF Init, HistoryInv
<1>7. ChannelsInv
  BY DEF Init, ChannelsInv, InAckOrder
<1> QED
  BY <1>3, <1>4, <1>5, <1>6, <1>7 DEF IInv

\* The server adds a command or drops the client, and nothing else changes.
LEMMA ServerAlone ==
    ASSUME IInv, sv.state = "active", sv' \in Server,
           sv'.reliableAcknowledge = sv.reliableAcknowledge,
           sv'.lastClientCommand = sv.lastClientCommand,
           sv.reliableSequence <= sv'.reliableSequence,
           sv'.reliableSequence <= MaxServerCommands + 2,
           sv'.state = "active" =>
            /\ sv'.reliableSequence <= MaxServerCommands
            /\ sv'.reliableSequence - sv'.reliableAcknowledge <= MAX_RELIABLE_COMMANDS
            /\ \A n \in sv'.reliableAcknowledge + 1 .. sv'.reliableSequence :
                sv'.reliableCommands[Slot(n)] = n,
           UNCHANGED <<cl, toServer, toClient, executed, ran, overran>>
    PROVE  IInv'
<1>1. TypesInv'
  BY DEF IInv, TypesInv
<1>2. NumbersInv'
  <2>1. /\ sv.reliableSequence \in Nat /\ sv'.reliableSequence \in Nat
        /\ cl.serverCommandSequence \in Nat
    BY DEF IInv, TypesInv, Server, Client
  <2>2. cl.serverCommandSequence <= sv'.reliableSequence
    BY <2>1 DEF IInv, NumbersInv
  <2> QED
    BY <2>2 DEF IInv, NumbersInv
<1>3. RingsInv'
  BY DEF IInv, RingsInv
<1>4. HistoryInv'
  BY DEF IInv, HistoryInv
<1>5. ClientGrown(cl, cl') /\ ServerGrown(sv, sv')
  BY DEF ClientGrown, ServerGrown, IInv, TypesInv, Client, Server
<1>6. ChannelsInv'
  <2>1. \A j \in DOMAIN toServer' : ForServer(toServer'[j], cl', sv', overran')
    BY <1>1, <1>5, ToServerKept, AcksOnTheWay DEF IInv
  <2>2. \A j \in DOMAIN toClient' : ForClient(toClient'[j], cl', sv', overran')
    BY <1>1, <1>5, ToClientKept, AcksOnTheWay DEF IInv
  <2>3. InAckOrder(toServer') /\ InAckOrder(toClient')
    BY DEF IInv, ChannelsInv
  <2> QED
    BY <2>1, <2>2, <2>3 DEF ChannelsInv
<1> QED
  BY <1>1, <1>2, <1>3, <1>4, <1>6 DEF IInv

LEMMA AddServerCommandStep ==
    ASSUME IInv, SV_AddServerCommand PROVE IInv'
<1> DEFINE n == sv.reliableSequence + 1
<1>1. /\ sv \in Server /\ sv.reliableSequence \in Nat /\ sv.reliableAcknowledge \in Nat
      /\ sv.state = "active" /\ sv' = AddServerCommand(sv, n)
      /\ sv.reliableSequence <= MaxServerCommands
      /\ sv.reliableSequence - sv.reliableAcknowledge <= MAX_RELIABLE_COMMANDS
      /\ UNCHANGED <<cl, toServer, toClient, executed, ran, overran>>
  BY DEF SV_AddServerCommand, IInv, TypesInv, NumbersInv, Server
<1>2. CASE Overflows(sv)
  <2>1. PICK t \in Server : /\ t = sv' /\ t.state = "zombie"
                            /\ sv.reliableSequence <= t.reliableSequence
                            /\ t.reliableSequence <= sv.reliableSequence + 2
                            /\ t.reliableAcknowledge = sv.reliableAcknowledge
                            /\ t.lastClientCommand = sv.lastClientCommand
    <3>1. CASE sv.state = "zombie"
      BY <1>1, <3>1
    <3>2. CASE sv.state # "zombie"
      <4>1. Numbered(sv) \in Server
        BY <1>1 DEF Numbered, Server
      <4>2. /\ Numbered(sv).reliableSequence = sv.reliableSequence + 1
            /\ Numbered(sv).reliableAcknowledge = sv.reliableAcknowledge
            /\ Numbered(sv).lastClientCommand = sv.lastClientCommand
        BY <1>1 DEF Numbered, Server
      <4>3. sv' = Dropped(Numbered(sv))
        BY <1>1, <1>2, <3>2 DEF AddServerCommand
      <4> QED
        BY <1>1, <4>1, <4>2, <4>3, DroppedFacts
    <3> QED
      BY <3>1, <3>2
  <2>2. t.reliableSequence \in Nat /\ t.reliableSequence <= MaxServerCommands + 2
    BY <1>1, <2>1, ConstantsAssumption DEF Server
  <2> QED
    BY <1>1, <2>1, <2>2, ServerAlone
<1>3. CASE ~Overflows(sv)
  <2>1. sv.reliableSequence < MaxServerCommands
    BY <1>3 DEF SV_AddServerCommand
  <2>2. n \in Commands /\ n \in Nat
    BY <1>1, <2>1, ConstantsAssumption DEF Commands, EMPTY
  <2>3. sv' = Stored(sv, n)
    BY <1>1, <1>3 DEF AddServerCommand
  <2>4. /\ sv' \in Server /\ sv'.state = sv.state
        /\ sv'.reliableSequence = n
        /\ sv'.reliableAcknowledge = sv.reliableAcknowledge
        /\ sv'.lastClientCommand = sv.lastClientCommand
        /\ sv'.reliableCommands[Slot(n)] = n
        /\ \A l \in Slots : l # Slot(n) => sv'.reliableCommands[l] = sv.reliableCommands[l]
    BY <1>1, <2>2, <2>3, StoredServer
  <2> HIDE DEF n
  <2>5. n - sv.reliableAcknowledge <= MAX_RELIABLE_COMMANDS
    BY <1>1, <1>3, ConstantsAssumption DEF Overflows, n
  <2>6. ASSUME NEW l \in sv.reliableAcknowledge + 1 .. n
        PROVE  sv'.reliableCommands[Slot(l)] = l
    <3>1. CASE l = n
      BY <2>4, <3>1
    <3>2. CASE l # n
      <4>1. /\ l \in Int /\ l < n /\ n - l < MAX_RELIABLE_COMMANDS
            /\ l \in sv.reliableAcknowledge + 1 .. sv.reliableSequence
        BY <1>1, <2>2, <2>5, <3>2, ConstantsAssumption DEF n
      <4>2. Slot(l) # Slot(n) /\ Slot(l) \in Slots
        BY <2>2, <4>1, SlotsApart, SlotInRing
      <4>3. sv.reliableCommands[Slot(l)] = l
        BY <1>1, <4>1 DEF IInv, RingsInv
      <4> QED
        BY <2>4, <4>2, <4>3
    <3> QED
      BY <3>1, <3>2
  <2>7. n <= MaxServerCommands /\ n <= MaxServerCommands + 2 /\ sv.reliableSequence <= n
    BY <1>1, <2>1, ConstantsAssumption DEF n
  <2> QED
    BY <1>1, <2>4, <2>5, <2>6, <2>7, ServerAlone
<1> QED
  BY <1>2, <1>3

LEMMA DropClientStep ==
    ASSUME IInv, SV_DropClient PROVE IInv'
<1>1. /\ sv \in Server /\ sv.reliableSequence \in Nat /\ sv.state = "active"
      /\ sv' = Dropped(sv) /\ sv.reliableSequence <= MaxServerCommands
      /\ UNCHANGED <<cl, toServer, toClient, executed, ran, overran>>
  BY DEF SV_DropClient, IInv, TypesInv, NumbersInv, Server
<1>2. /\ sv' \in Server /\ sv'.state = "zombie"
      /\ sv'.reliableSequence = sv.reliableSequence + 1
      /\ sv'.reliableAcknowledge = sv.reliableAcknowledge
      /\ sv'.lastClientCommand = sv.lastClientCommand
  BY <1>1, DroppedFacts
<1>3. /\ sv.reliableSequence <= sv'.reliableSequence
      /\ sv'.reliableSequence <= MaxServerCommands + 2
  BY <1>1, <1>2, ConstantsAssumption
<1> QED
  BY <1>1, <1>2, <1>3, ServerAlone

\* A snapshot joins those on their way.
LEMMA SendClientSnapshotStep ==
    ASSUME IInv, SV_SendClientSnapshot PROVE IInv'
<1> DEFINE u == Unacknowledged(sv)
           m == [ack |-> sv.lastClientCommand, cmds |-> u]
<1>1. /\ toClient' = Send(toClient, m)
      /\ UNCHANGED <<cl, sv, toServer, executed, ran, overran>>
  BY DEF SV_SendClientSnapshot
<1>2. /\ sv.reliableSequence \in Nat /\ sv.reliableAcknowledge \in Nat
      /\ sv.reliableCommands \in [Slots -> Commands] /\ sv.lastClientCommand \in Nat
      /\ sv.reliableAcknowledge <= sv.reliableSequence
      /\ sv.reliableAcknowledge <= cl.serverCommandSequence
      /\ cl.serverCommandSequence \in Nat
  BY DEF IInv, TypesInv, NumbersInv, Server, Client
<1>3. /\ u \in Seq(Command) /\ InARow(u)
      /\ Len(u) = sv.reliableSequence - sv.reliableAcknowledge
      /\ \A i \in DOMAIN u :
            LET n == sv.reliableAcknowledge + i
            IN  /\ n \in sv.reliableAcknowledge + 1 .. sv.reliableSequence
                /\ u[i].seq = n /\ u[i].cmd = sv.reliableCommands[Slot(n)]
  BY <1>2, UnacknowledgedFacts
<1> HIDE DEF u
<1>4. m \in Message /\ m.ack = sv.lastClientCommand /\ m.cmds = u
  BY <1>2, <1>3 DEF Message
<1> HIDE DEF m
<1>5. ForClient(m, cl, sv, overran)
  <2>1. ~overran => cl.reliableAcknowledge <= sv.lastClientCommand
    BY DEF IInv, NumbersInv
  <2>2. \A i \in DOMAIN u : u[i].seq <= sv.reliableSequence
    BY <1>2, <1>3
  <2>3. ASSUME u # <<>> PROVE u[1].seq <= cl.serverCommandSequence + 1
    <3>1. 1 \in DOMAIN u
      BY <1>3, <2>3
    <3> QED
      BY <1>2, <1>3, <3>1
  <2>4. ASSUME sv.state = "active"
        PROVE  /\ Len(u) <= MAX_RELIABLE_COMMANDS
               /\ \A i \in DOMAIN u : u[i].cmd = u[i].seq
    BY <1>3, <2>4 DEF IInv, NumbersInv, RingsInv
  <2>5. sv.lastClientCommand <= sv.lastClientCommand
    BY <1>2
  <2> QED
    BY <1>3, <1>4, <2>1, <2>2, <2>3, <2>4, <2>5 DEF ForClient
<1>6. /\ toClient \in Seq(Message) /\ Len(toClient) <= MaxInFlight
      /\ InAckOrder(toClient) /\ \A i \in DOMAIN toClient : toClient[i].ack <= m.ack
  BY <1>4, AcksOnTheWay DEF IInv, TypesInv, ChannelsInv
<1>7. /\ toClient' \in Seq(Message) /\ Len(toClient') <= MaxInFlight
      /\ InAckOrder(toClient')
      /\ \A j \in DOMAIN toClient' :
            toClient'[j] = m \/ \E i \in DOMAIN toClient : toClient'[j] = toClient[i]
  BY <1>1, <1>4, <1>6, SendFacts
<1>8. \A j \in DOMAIN toClient' : ForClient(toClient'[j], cl, sv, overran)
  BY <1>5, <1>7 DEF IInv, ChannelsInv
<1>9. TypesInv' /\ NumbersInv' /\ RingsInv' /\ HistoryInv'
  BY <1>1, <1>7 DEF IInv, TypesInv, NumbersInv, RingsInv, HistoryInv
<1>10. ChannelsInv'
  BY <1>1, <1>7, <1>8 DEF IInv, ChannelsInv
<1> QED
  BY <1>9, <1>10 DEF IInv

\* What a client sends goes on from what the server has.
LEMMA FromClientFacts ==
    ASSUME NEW c \in Client, NEW s \in Server, NEW o \in BOOLEAN,
           c.reliableAcknowledge <= c.reliableSequence,
           s.reliableAcknowledge <= c.serverCommandSequence,
           ~o => /\ c.reliableAcknowledge <= s.lastClientCommand
                 /\ \A n \in c.reliableAcknowledge + 1 .. c.reliableSequence :
                        ClientIssued(n, c.reliableCommands[Slot(n)], c)
    PROVE  /\ FromClient(c) \in Message /\ FromClient(c).ack = c.serverCommandSequence
           /\ \A d \in Client :
                /\ d.reliableSequence = c.reliableSequence
                /\ d.serverCommandSequence = c.serverCommandSequence
                /\ d.state # c.state => c.state = "connected"
                => ForServer(FromClient(c), d, s, o)
<1> DEFINE u == Unacknowledged(c)
           m == FromClient(c)
<1>1. /\ c.reliableSequence \in Nat /\ c.reliableAcknowledge \in Nat
      /\ c.reliableCommands \in [Slots -> Commands] /\ c.serverCommandSequence \in Nat
      /\ s.lastClientCommand \in Nat
  BY DEF Client, Server
<1>2. /\ u \in Seq(Command) /\ InARow(u)
      /\ \A i \in DOMAIN u :
            LET n == c.reliableAcknowledge + i
            IN  /\ n \in c.reliableAcknowledge + 1 .. c.reliableSequence
                /\ u[i].seq = n /\ u[i].cmd = c.reliableCommands[Slot(n)]
  BY <1>1, UnacknowledgedFacts
<1>3. m = [ack |-> c.serverCommandSequence, cmds |-> u]
  BY DEF FromClient
<1> HIDE DEF u, m
<1>4. m \in Message /\ m.ack = c.serverCommandSequence /\ m.cmds = u
  BY <1>1, <1>2, <1>3 DEF Message
<1>5. ASSUME NEW d \in Client, d.reliableSequence = c.reliableSequence,
             d.serverCommandSequence = c.serverCommandSequence,
             d.state # c.state => c.state = "connected"
      PROVE  ForServer(m, d, s, o)
  <2>1. \A i \in DOMAIN u : u[i].seq <= d.reliableSequence
    BY <1>1, <1>2, <1>5
  <2>2. ASSUME ~o, u # <<>> PROVE u[1].seq <= s.lastClientCommand + 1
    <3>1. 1 \in DOMAIN u
      BY <1>2, <2>2
    <3> QED
      BY <1>1, <1>2, <2>2, <3>1
  <2>3. ASSUME ~o, NEW i \in DOMAIN u PROVE ClientIssued(u[i].seq, u[i].cmd, d)
    <3>1. ClientIssued(u[i].seq, u[i].cmd, c)
      BY <1>2, <2>3
    <3> QED
      BY <1>5, <3>1 DEF ClientIssued
  <2>4. m.ack <= d.serverCommandSequence /\ s.reliableAcknowledge <= m.ack
    BY <1>1, <1>4, <1>5
  <2> QED
    BY <1>2, <1>4, <2>1, <2>2, <2>3, <2>4 DEF ForServer
<1> QED
  BY <1>4, <1>5 DEF m

LEMMA WritePacketStep ==
    ASSUME IInv, CL_WritePacket PROVE IInv'
<1> DEFINE m == FromClient(cl)
<1>1. /\ toServer' = Send(toServer, m)
      /\ UNCHANGED <<cl, sv, toClient, executed, ran, overran>>
  BY DEF CL_WritePacket
<1>2. m \in Message /\ m.ack = cl.serverCommandSequence /\ ForServer(m, cl, sv, overran)
  BY FromClientFacts DEF IInv, TypesInv, NumbersInv, RingsInv
<1> HIDE DEF m
<1>3. /\ toServer \in Seq(Message) /\ Len(toServer) <= MaxInFlight
      /\ InAckOrder(toServer) /\ \A i \in DOMAIN toServer : toServer[i].ack <= m.ack
  BY <1>2, AcksOnTheWay DEF IInv, TypesInv, ChannelsInv
<1>4. /\ toServer' \in Seq(Message) /\ Len(toServer') <= MaxInFlight
      /\ InAckOrder(toServer')
      /\ \A j \in DOMAIN toServer' :
            toServer'[j] = m \/ \E i \in DOMAIN toServer : toServer'[j] = toServer[i]
  BY <1>2, <1>1, <1>3, SendFacts
<1>5. \A j \in DOMAIN toServer' : ForServer(toServer'[j], cl, sv, overran)
  BY <1>2, <1>4 DEF IInv, ChannelsInv
<1>6. TypesInv' /\ NumbersInv' /\ RingsInv' /\ HistoryInv'
  BY <1>1, <1>4 DEF IInv, TypesInv, NumbersInv, RingsInv, HistoryInv
<1>7. ChannelsInv'
  BY <1>1, <1>4, <1>5 DEF IInv, ChannelsInv
<1> QED
  BY <1>6, <1>7 DEF IInv

\* The client issues a command, whether or not that is its last one: what changes
\* but the channel.
LEMMA IssuedFacts ==
    ASSUME IInv, cl.state = "connected", NEW cmd \in Commands,
           NEW d \in Client,
           d.reliableSequence = cl.reliableSequence + 1,
           d.reliableAcknowledge = cl.reliableAcknowledge,
           d.reliableCommands = Stored(cl, cmd).reliableCommands,
           \/ cmd = cl.reliableSequence + 1
           \/ cmd = DISCONNECT /\ d.state # "connected",
           ~(overran \/ Overruns)
    PROVE  /\ d.reliableSequence - d.reliableAcknowledge <= MAX_RELIABLE_COMMANDS
           /\ \A n \in d.reliableAcknowledge + 1 .. d.reliableSequence :
                ClientIssued(n, d.reliableCommands[Slot(n)], d)
<1> DEFINE n == cl.reliableSequence + 1
<1>1. /\ cl \in Client /\ cl.reliableSequence \in Nat /\ cl.reliableAcknowledge \in Nat
      /\ ~overran
  BY DEF IInv, TypesInv, Client
<1>2. /\ d.reliableCommands[Slot(n)] = cmd
      /\ \A l \in Slots : l # Slot(n) => d.reliableCommands[l] = cl.reliableCommands[l]
  BY <1>1, StoredClient
<1>3. n - cl.reliableAcknowledge <= MAX_RELIABLE_COMMANDS /\ n \in Nat
  BY <1>1, ConstantsAssumption DEF Overruns
<1>4. ASSUME NEW l \in cl.reliableAcknowledge + 1 .. n
      PROVE  ClientIssued(l, d.reliableCommands[Slot(l)], d)
  <2>1. CASE l = n
    BY <1>2, <2>1 DEF ClientIssued
  <2>2. CASE l # n
    <3>1. /\ l \in Int /\ l < n /\ n - l < MAX_RELIABLE_COMMANDS
          /\ l \in cl.reliableAcknowledge + 1 .. cl.reliableSequence
      BY <1>1, <1>3, <2>2, ConstantsAssumption
    <3>2. Slot(l) # Slot(n) /\ Slot(l) \in Slots
      BY <1>3, <3>1, SlotsApart, SlotInRing
    <3>3. ClientIssued(l, cl.reliableCommands[Slot(l)], cl)
      BY <1>1, <3>1 DEF IInv, RingsInv
    <3>4. cl.reliableCommands[Slot(l)] = l
      BY <3>3 DEF ClientIssued
    <3> QED
      BY <1>2, <3>2, <3>4 DEF ClientIssued
  <2> QED
    BY <2>1, <2>2
<1> QED
  BY <1>3, <1>4

\* The rest of the invariant after a step of a connected client that issues a
\* command, once what it sends is seen to.
LEMMA ClientIssues ==
    ASSUME IInv, cl.state = "connected", cl' \in Client,
           cl.reliableSequence <= cl'.reliableSequence,
           cl'.reliableAcknowledge = cl.reliableAcknowledge,
           cl'.serverCommandSequence = cl.serverCommandSequence,
           cl'.serverCommands = cl.serverCommands,
           cl'.snapshots = cl.snapshots,
           cl'.lastExecutedServerCommand = cl.lastExecutedServerCommand,
           overran' \in BOOLEAN, overran => overran',
           ~overran' =>
            /\ cl'.reliableSequence - cl'.reliableAcknowledge <= MAX_RELIABLE_COMMANDS
            /\ \A n \in cl'.reliableAcknowledge + 1 .. cl'.reliableSequence :
                ClientIssued(n, cl'.reliableCommands[Slot(n)], cl'),
           toServer' \in Seq(Message), Len(toServer') <= MaxInFlight,
           InAckOrder(toServer'),
           \A j \in DOMAIN toServer' :
                \/ ForServer(toServer'[j], cl', sv', overran')
                \/ \E i \in DOMAIN toServer : toServer'[j] = toServer[i],
           UNCHANGED <<sv, toClient, executed, ran>>
    PROVE  IInv'
<1>1. TypesInv'
  BY DEF IInv, TypesInv
<1>2. NumbersInv'
  <2>1. /\ cl.reliableSequence \in Nat /\ cl'.reliableSequence \in Nat
        /\ cl.reliableAcknowledge \in Nat /\ sv.lastClientCommand \in Nat
    BY DEF IInv, TypesInv, Client, Server
  <2>2. /\ cl'.reliableAcknowledge <= cl'.reliableSequence
        /\ sv.lastClientCommand <= cl'.reliableSequence
    BY <2>1 DEF IInv, NumbersInv
  <2> QED
    BY <2>2 DEF IInv, NumbersInv
<1>3. RingsInv'
  BY DEF IInv, RingsInv
<1>4. HistoryInv'
  BY DEF IInv, HistoryInv
<1>5. ClientGrown(cl, cl') /\ ServerGrown(sv, sv')
  BY DEF ClientGrown, ServerGrown, IInv, TypesInv, Client, Server
<1>6. ChannelsInv'
  <2>1. \A i \in DOMAIN toServer : sv'.reliableAcknowledge <= toServer[i].ack
    BY AcksOnTheWay DEF IInv
  <2>2. \A j \in DOMAIN toServer' : ForServer(toServer'[j], cl', sv', overran')
    BY <1>1, <1>5, <2>1, ToServerKept DEF IInv
  <2>3. \A j \in DOMAIN toClient' : ForClient(toClient'[j], cl', sv', overran')
    BY <1>1, <1>5, ToClientKept, AcksOnTheWay DEF IInv
  <2>4. InAckOrder(toClient')
    BY DEF IInv, ChannelsInv
  <2> QED
    BY <2>2, <2>3, <2>4 DEF ChannelsInv
<1> QED
  BY <1>1, <1>2, <1>3, <1>4, <1>6 DEF IInv

LEMMA DisconnectedStep ==
    ASSUME IInv, cl.state = "connected", Disconnected,
           UNCHANGED <<sv, toClient, executed, ran>>
    PROVE  IInv'
<1>1. /\ cl \in Client /\ overran \in BOOLEAN /\ sv \in Server
      /\ cl.reliableSequence \in Nat /\ cl.reliableAcknowledge \in Nat
      /\ cl.reliableAcknowledge <= cl.reliableSequence
      /\ sv.reliableAcknowledge <= cl.serverCommandSequence
      /\ ~overran => cl.reliableAcknowledge <= sv.lastClientCommand
      /\ toServer \in Seq(Message) /\ Len(toServer) <= MaxInFlight
      /\ InAckOrder(toServer)
  BY DEF IInv, TypesInv, NumbersInv, ChannelsInv, Client
<1>2. CASE ClientOverflow
  <2>1. cl' = [cl EXCEPT !.state = "fatal"] /\ UNCHANGED <<toServer, overran>>
    BY <1>2 DEF Disconnected
  <2>2. /\ cl' \in Client /\ cl'.state = "fatal"
        /\ cl'.reliableSequence = cl.reliableSequence
        /\ cl'.reliableAcknowledge = cl.reliableAcknowledge
        /\ cl'.reliableCommands = cl.reliableCommands
        /\ cl'.serverCommandSequence = cl.serverCommandSequence
        /\ cl'.serverCommands = cl.serverCommands
        /\ cl'.snapshots = cl.snapshots
        /\ cl'.lastExecutedServerCommand = cl.lastExecutedServerCommand
    BY <1>1, <2>1 DEF Client
  <2>3. ASSUME ~overran
        PROVE  /\ cl.reliableSequence - cl.reliableAcknowledge <= MAX_RELIABLE_COMMANDS
               /\ \A n \in cl.reliableAcknowledge + 1 .. cl.reliableSequence :
                    ClientIssued(n, cl'.reliableCommands[Slot(n)], cl')
    BY <2>2, <2>3 DEF IInv, NumbersInv, RingsInv, ClientIssued
  <2>4. cl.reliableSequence <= cl'.reliableSequence
    BY <1>1, <2>2
  <2> QED
    BY <1>1, <2>1, <2>2, <2>3, <2>4, ClientIssues
<1>3. CASE ~ClientOverflow
  <2> DEFINE c == Stored(cl, DISCONNECT)
             m == FromClient(c)
  <2>1. /\ cl' = [c EXCEPT !.state = "disconnected"]
        /\ toServer' = Send(Send(Send(toServer, m), m), m)
        /\ overran' = (overran \/ Overruns)
    BY <1>3 DEF Disconnected
  <2>2. DISCONNECT \in Commands
    BY ConstantsAssumption DEF DISCONNECT, Commands, EMPTY
  <2>3. /\ c \in Client /\ c.state = "connected"
        /\ c.reliableSequence = cl.reliableSequence + 1
        /\ c.reliableAcknowledge = cl.reliableAcknowledge
        /\ c.serverCommandSequence = cl.serverCommandSequence
        /\ c.serverCommands = cl.serverCommands
        /\ c.snapshots = cl.snapshots
        /\ c.lastExecutedServerCommand = cl.lastExecutedServerCommand
    BY <1>1, <2>2, StoredClient
  <2>4. /\ cl' \in Client /\ cl'.state = "disconnected"
        /\ cl'.reliableSequence = c.reliableSequence
        /\ cl'.reliableAcknowledge = c.reliableAcknowledge
        /\ cl'.reliableCommands = c.reliableCommands
        /\ cl'.serverCommandSequence = c.serverCommandSequence
        /\ cl'.serverCommands = c.serverCommands
        /\ cl'.snapshots = c.snapshots
        /\ cl'.lastExecutedServerCommand = c.lastExecutedServerCommand
    <3> HIDE DEF c
    <3> QED
      BY <2>1, <2>3 DEF Client
  <2>5. ASSUME ~overran'
        PROVE  /\ cl'.reliableSequence - cl'.reliableAcknowledge <= MAX_RELIABLE_COMMANDS
               /\ \A n \in cl'.reliableAcknowledge + 1 .. cl'.reliableSequence :
                    ClientIssued(n, cl'.reliableCommands[Slot(n)], cl')
    <3>1. ~(overran \/ Overruns)
      BY <2>1, <2>5
    <3> QED
      BY <2>2, <2>3, <2>4, <3>1, IssuedFacts
  <2>6. overran' \in BOOLEAN /\ (overran => overran')
    BY <2>1
  <2>7. /\ m \in Message /\ m.ack = cl.serverCommandSequence
        /\ ForServer(m, cl', sv, overran')
    <3> DEFINE s == sv
    <3>1. m = FromClient(cl')
      <4> HIDE DEF c
      <4> QED
        BY <2>4 DEF m, FromClient, Unacknowledged
    <3>2. ~overran' => ~overran
      BY <2>1
    <3>3. cl'.reliableAcknowledge <= cl'.reliableSequence
      BY <1>1, <2>3, <2>4
    <3> HIDE DEF m, c
    <3>4. /\ FromClient(cl') \in Message
          /\ FromClient(cl').ack = cl'.serverCommandSequence
          /\ ForServer(FromClient(cl'), cl', sv, overran')
      BY <1>1, <2>3, <2>4, <2>5, <2>6, <3>2, <3>3, FromClientFacts
    <3> QED
      BY <2>3, <2>4, <3>1, <3>4
  <2> HIDE DEF m, c
  <2>8. \A i \in DOMAIN toServer : toServer[i].ack <= m.ack
    BY <2>7, AcksOnTheWay DEF IInv
  <2> DEFINE s1 == Send(toServer, m)
             s2 == Send(s1, m)
  <2>9. /\ s1 \in Seq(Message) /\ Len(s1) <= MaxInFlight /\ InAckOrder(s1)
        /\ \A j \in DOMAIN s1 : s1[j].ack <= m.ack
        /\ \A j \in DOMAIN s1 :
              s1[j] = m \/ \E i \in DOMAIN toServer : s1[j] = toServer[i]
    BY <1>1, <2>7, <2>8, SendFacts
  <2> HIDE DEF s1
  <2>10. /\ s2 \in Seq(Message) /\ Len(s2) <= MaxInFlight /\ InAckOrder(s2)
         /\ \A j \in DOMAIN s2 : s2[j].ack <= m.ack
         /\ \A j \in DOMAIN s2 : s2[j] = m \/ \E i \in DOMAIN s1 : s2[j] = s1[i]
    BY <2>7, <2>9, SendFacts
  <2> HIDE DEF s2
  <2>11. /\ toServer' \in Seq(Message) /\ Len(toServer') <= MaxInFlight
         /\ InAckOrder(toServer')
         /\ \A j \in DOMAIN toServer' :
              toServer'[j] = m \/ \E i \in DOMAIN s2 : toServer'[j] = s2[i]
    BY <2>1, <2>7, <2>10, SendFacts DEF s1, s2
  <2>12. \A j \in DOMAIN toServer' :
            \/ ForServer(toServer'[j], cl', sv', overran')
            \/ \E i \in DOMAIN toServer : toServer'[j] = toServer[i]
    BY <2>7, <2>9, <2>10, <2>11
  <2>13. cl.reliableSequence <= cl'.reliableSequence
    BY <1>1, <2>3, <2>4
  <2> QED
    BY <2>3, <2>4, <2>5, <2>6, <2>11, <2>12, <2>13, ClientIssues
<1> QED
  BY <1>2, <1>3

LEMMA DisconnectStep ==
    ASSUME IInv, CL_Disconnect PROVE IInv'
  BY DisconnectedStep DEF CL_Disconnect

LEMMA AddReliableCommandStep ==
    ASSUME IInv, CL_AddReliableCommand PROVE IInv'
<1>1. cl.state = "connected" /\ UNCHANGED <<sv, toClient, executed, ran>>
  BY DEF CL_AddReliableCommand
<1>2. CASE Disconnected
  BY <1>1, <1>2, DisconnectedStep
<1>3. CASE /\ ~ClientOverflow
           /\ cl' = Stored(cl, cl.reliableSequence + 1)
           /\ overran' = (overran \/ Overruns)
           /\ UNCHANGED toServer
  <2> DEFINE n == cl.reliableSequence + 1
  <2>1. /\ cl \in Client /\ overran \in BOOLEAN /\ cl.reliableSequence \in Nat
        /\ toServer \in Seq(Message) /\ Len(toServer) <= MaxInFlight
        /\ InAckOrder(toServer)
    BY DEF IInv, TypesInv, ChannelsInv, Client
  <2>2. cl.reliableSequence < MaxClientCommands
    BY <1>3 DEF CL_AddReliableCommand
  <2>3. n \in Commands
    BY <2>1, <2>2, ConstantsAssumption DEF Commands, EMPTY
  <2>4. /\ cl' \in Client /\ cl'.state = cl.state
        /\ cl'.reliableSequence = cl.reliableSequence + 1
        /\ cl'.reliableAcknowledge = cl.reliableAcknowledge
        /\ cl'.serverCommandSequence = cl.serverCommandSequence
        /\ cl'.serverCommands = cl.serverCommands
        /\ cl'.snapshots = cl.snapshots
        /\ cl'.lastExecutedServerCommand = cl.lastExecutedServerCommand
    BY <1>3, <2>1, <2>3, StoredClient
  <2>5. ASSUME ~overran'
        PROVE  /\ cl'.reliableSequence - cl'.reliableAcknowledge <= MAX_RELIABLE_COMMANDS
               /\ \A l \in cl'.reliableAcknowledge + 1 .. cl'.reliableSequence :
                    ClientIssued(l, cl'.reliableCommands[Slot(l)], cl')
    <3>1. ~(overran \/ Overruns)
      BY <1>3, <2>5
    <3>2. cl'.reliableCommands = Stored(cl, n).reliableCommands
      BY <1>3
    <3> HIDE DEF n
    <3>3. n = cl.reliableSequence + 1
      BY DEF n
    <3> QED
      BY <1>1, <2>3, <2>4, <3>1, <3>2, <3>3, IssuedFacts
  <2>6. /\ overran' \in BOOLEAN /\ (overran => overran')
        /\ cl.reliableSequence <= cl'.reliableSequence
    BY <1>3, <2>1, <2>4
  <2>7. /\ toServer' \in Seq(Message) /\ Len(toServer') <= MaxInFlight
        /\ InAckOrder(toServer')
        /\ \A j \in DOMAIN toServer' : \E i \in DOMAIN toServer : toServer'[j] = toServer[i]
    BY <1>3, <2>1
  <2> QED
    BY <1>1, <2>4, <2>5, <2>6, <2>7, ClientIssues
<1> QED
  BY <1>2, <1>3 DEF CL_AddReliableCommand

\* A message reaches the server: the invariant holds after it if the server takes
\* its acknowledgement, and if what it executes goes on with what it has executed.
LEMMA ServerTakes ==
    ASSUME IInv, NEW i \in DOMAIN toServer, toServer' = After(toServer, i),
           sv' \in Server, executed' \in Seq(Commands),
           sv'.reliableAcknowledge <= toServer[i].ack,
           sv.lastClientCommand <= sv'.lastClientCommand,
           sv'.lastClientCommand <= cl.reliableSequence,
           sv.reliableSequence <= sv'.reliableSequence,
           sv'.reliableSequence <= MaxServerCommands + 2,
           sv'.state = "active" =>
            /\ sv.state = "active" /\ sv'.reliableSequence = sv.reliableSequence
            /\ sv.reliableAcknowledge <= sv'.reliableAcknowledge
            /\ sv'.reliableCommands = sv.reliableCommands,
           ~overran =>
            /\ Len(executed') = sv'.lastClientCommand
            /\ \A j \in DOMAIN executed' :
                \/ executed'[j] = j
                \/ /\ executed'[j] = DISCONNECT /\ j = Len(executed')
                   /\ sv'.state = "zombie",
           UNCHANGED <<cl, toClient, ran, overran>>
    PROVE  IInv'
<1>1. /\ toServer \in Seq(Message) /\ Len(toServer) <= MaxInFlight /\ InAckOrder(toServer)
      /\ \A k \in DOMAIN toServer :
            /\ toServer[k].ack \in Nat /\ toServer[k].ack <= cl.serverCommandSequence
  <2>1. \A k \in DOMAIN toServer : toServer[k] \in Message
    BY DEF IInv, TypesInv
  <2> QED
    BY <2>1, AcksOnTheWay DEF IInv, TypesInv, ChannelsInv, Message
<1>2. /\ toServer' \in Seq(Message) /\ Len(toServer') <= MaxInFlight
      /\ InAckOrder(toServer')
      /\ \A j \in DOMAIN toServer' : \E k \in DOMAIN toServer :
            i <= k /\ toServer'[j] = toServer[k]
  BY <1>1, AfterFacts
<1>3. TypesInv'
  BY <1>2 DEF IInv, TypesInv
<1>4. /\ sv.reliableSequence \in Nat /\ sv'.reliableSequence \in Nat
      /\ sv.reliableAcknowledge \in Nat /\ sv'.reliableAcknowledge \in Nat
      /\ sv.lastClientCommand \in Nat /\ sv'.lastClientCommand \in Nat
      /\ cl.serverCommandSequence \in Nat /\ cl.reliableAcknowledge \in Nat
  BY DEF IInv, TypesInv, Client, Server
<1>5. NumbersInv'
  <2>1. sv'.reliableAcknowledge <= cl.serverCommandSequence
    BY <1>1, <1>4
  <2>2. cl.serverCommandSequence <= sv'.reliableSequence
    BY <1>4 DEF IInv, NumbersInv
  <2>3. ~overran => cl.reliableAcknowledge <= sv'.lastClientCommand
    BY <1>4 DEF IInv, NumbersInv
  <2>4. sv'.state = "active" =>
            /\ sv'.reliableSequence <= MaxServerCommands
            /\ sv'.reliableSequence - sv'.reliableAcknowledge <= MAX_RELIABLE_COMMANDS
    BY <1>4, ConstantsAssumption DEF IInv, NumbersInv
  <2> QED
    BY <2>1, <2>2, <2>3, <2>4 DEF IInv, NumbersInv
<1>6. RingsInv'
  <2>1. ASSUME sv'.state = "active",
               NEW n \in sv'.reliableAcknowledge + 1 .. sv'.reliableSequence
        PROVE  sv'.reliableCommands[Slot(n)] = n
    <3>1. n \in sv.reliableAcknowledge + 1 .. sv.reliableSequence
      BY <1>4, <2>1
    <3> QED
      BY <2>1, <3>1 DEF IInv, RingsInv
  <2> QED
    BY <2>1 DEF IInv, RingsInv
<1>7. HistoryInv'
  BY DEF IInv, HistoryInv
<1>8. ClientGrown(cl, cl') /\ ServerGrown(sv, sv')
  BY DEF ClientGrown, ServerGrown, IInv, TypesInv, Client
<1>9. ChannelsInv'
  <2>1. \A k \in DOMAIN toServer : i <= k => sv'.reliableAcknowledge <= toServer[k].ack
    BY <1>1, <1>4 DEF InAckOrder
  <2>2. \A j \in DOMAIN toServer' : ForServer(toServer'[j], cl', sv', overran')
    BY <1>2, <1>3, <1>8, <2>1, ToServerKept DEF IInv
  <2>3. \A j \in DOMAIN toClient' : ForClient(toClient'[j], cl', sv', overran')
    BY <1>3, <1>8, ToClientKept, AcksOnTheWay DEF IInv
  <2>4. InAckOrder(toClient')
    BY DEF IInv, ChannelsInv
  <2> QED
    BY <1>2, <2>2, <2>3, <2>4 DEF ChannelsInv
<1> QED
  BY <1>3, <1>5, <1>6, <1>7, <1>9 DEF IInv

LEMMA ServerReceivesStep ==
    ASSUME IInv, NEW i \in DOMAIN toServer, ServerReceives(i) PROVE IInv'
<1> DEFINE m == toServer[i]
<1>1. toServer' = After(toServer, i) /\ UNCHANGED <<cl, toClient, ran, overran>>
  BY DEF ServerReceives
<1>2. /\ m \in Message /\ ForServer(m, cl, sv, overran) /\ sv \in Server
      /\ sv.reliableAcknowledge <= m.ack
  BY DEF IInv, TypesInv, ChannelsInv, ForServer
<1>3. /\ m.ack \in Nat /\ m.cmds \in Seq(Command) /\ InARow(m.cmds)
      /\ sv.reliableSequence \in Nat /\ sv.reliableAcknowledge \in Nat
      /\ sv.lastClientCommand \in Nat /\ cl.reliableSequence \in Nat
      /\ sv.lastClientCommand <= cl.reliableSequence
      /\ sv.reliableSequence <= MaxServerCommands + 2
      /\ executed \in Seq(Commands)
  BY <1>2 DEF Message, ForServer, Server, Client, IInv, TypesInv, NumbersInv
<1>4. CASE sv.state = "zombie"
  <2>1. UNCHANGED <<sv, executed>>
    BY <1>4 DEF ServerReceives
  <2>2. ~overran =>
            /\ Len(executed') = sv'.lastClientCommand
            /\ \A j \in DOMAIN executed' :
                \/ executed'[j] = j
                \/ /\ executed'[j] = DISCONNECT /\ j = Len(executed')
                   /\ sv'.state = "zombie"
    BY <2>1 DEF IInv, HistoryInv
  <2> QED
    BY <1>1, <1>2, <1>3, <1>4, <2>1, <2>2, ServerTakes
<1>5. CASE sv.state = "active"
  <2> DEFINE acked == [sv EXCEPT !.reliableAcknowledge = TakenAck(sv, m.ack)]
             new == Newer(m.cmds, sv.lastClientCommand)
             run == UpToDisconnect(new)
             done == [j \in DOMAIN run |-> run[j].cmd]
             z == Dropped(acked)
  <2>1. /\ ~Illegible(sv, m.ack) /\ sv.reliableSequence <= MaxServerCommands
    BY <1>2, <1>3, <1>5, ConstantsAssumption DEF Illegible, IInv, NumbersInv
  <2>2. /\ acked \in Server /\ acked.state = "active" /\ acked.reliableAcknowledge = m.ack
        /\ acked.reliableSequence = sv.reliableSequence
        /\ acked.lastClientCommand = sv.lastClientCommand
        /\ acked.reliableCommands = sv.reliableCommands
    BY <1>2, <1>3, <1>5, <2>1 DEF TakenAck, Server
  <2>3. \/ /\ Gap(new) /\ sv' = z /\ UNCHANGED executed
        \/ /\ ~Gap(new)
           /\ sv' = IF new = <<>> THEN acked ELSE ClientCommands(acked, new)
           /\ executed' = executed \o done
    BY <1>5, <2>1 DEF ServerReceives, SV_ExecuteClientMessage, NewCommands
  <2> HIDE DEF acked
  <2>4. /\ z \in Server /\ z.state = "zombie"
        /\ z.reliableSequence = sv.reliableSequence + 1
        /\ z.reliableAcknowledge = m.ack
        /\ z.lastClientCommand = sv.lastClientCommand
        /\ z.reliableSequence <= MaxServerCommands + 2
        /\ sv.reliableSequence <= z.reliableSequence
    <3>1. /\ z \in Server /\ z.state = "zombie"
          /\ z.reliableSequence = sv.reliableSequence + 1
          /\ z.reliableAcknowledge = m.ack
          /\ z.lastClientCommand = sv.lastClientCommand
      BY <2>2, DroppedFacts
    <3> QED
      BY <1>3, <2>1, <3>1, ConstantsAssumption
  <2> HIDE DEF z
  <2>5. /\ new \in Seq(Command) /\ InARow(new)
        /\ \A j \in DOMAIN new : /\ new[j].seq > sv.lastClientCommand
                                 /\ \E k \in DOMAIN m.cmds : new[j] = m.cmds[k]
        /\ new # <<>> /\ ~overran => new[1].seq = sv.lastClientCommand + 1
    BY <1>2, <1>3, NewerFacts DEF ForServer
  <2>6. /\ \A j \in DOMAIN new : /\ new[j] \in Command /\ new[j].seq \in Nat \ {0}
                                 /\ new[j].seq <= cl.reliableSequence
        /\ ~overran => \A j \in DOMAIN new : ClientIssued(new[j].seq, new[j].cmd, cl)
    <3>1. \A j \in DOMAIN new : new[j] \in Command
      BY <2>5
    <3>2. \A j \in DOMAIN new : new[j].seq <= cl.reliableSequence
      BY <1>2, <2>5 DEF ForServer
    <3>3. ~overran => \A j \in DOMAIN new : ClientIssued(new[j].seq, new[j].cmd, cl)
      BY <1>2, <2>5 DEF ForServer
    <3> QED
      BY <3>1, <3>2, <3>3 DEF Command
  <2> HIDE DEF new
  <2>7. CASE Gap(new)
    <3>1. sv' = z /\ UNCHANGED executed
      BY <2>3, <2>7
    <3>2. overran
      BY <1>3, <2>5, <2>7 DEF Gap
    <3>3. z.reliableAcknowledge <= m.ack /\ sv.lastClientCommand <= sv.lastClientCommand
      BY <1>3, <2>4
    <3> QED
      BY <1>1, <1>3, <2>4, <3>1, <3>2, <3>3, ServerTakes
  <2>8. CASE ~Gap(new) /\ new = <<>>
    <3>1. sv' = acked /\ executed' = executed \o done
      BY <2>3, <2>8
    <3>2. run = <<>>
      BY <2>8 DEF UpToDisconnect
    <3> HIDE DEF run
    <3>3. done \in Seq(Commands) /\ Len(done) = 0
      BY <3>2
    <3> HIDE DEF done
    <3>4. /\ executed' \in Seq(Commands) /\ Len(executed') = Len(executed)
          /\ \A j \in DOMAIN executed' : j \in DOMAIN executed /\ executed'[j] = executed[j]
      BY <1>3, <3>1, <3>3
    <3>5. ~overran =>
            /\ Len(executed') = sv'.lastClientCommand
            /\ \A j \in DOMAIN executed' : executed'[j] = j
      BY <1>5, <2>2, <3>1, <3>4 DEF IInv, HistoryInv
    <3>6. /\ acked.reliableAcknowledge <= m.ack
          /\ sv.lastClientCommand <= acked.lastClientCommand
          /\ sv.reliableSequence <= acked.reliableSequence
      BY <1>3, <2>2
    <3> QED
      BY <1>1, <1>2, <1>3, <1>5, <2>2, <3>1, <3>4, <3>5, <3>6, ServerTakes
  <2>9. CASE ~Gap(new) /\ new # <<>>
    <3> DEFINE last == run[Len(run)]
               s1 == IF last.cmd = DISCONNECT THEN z ELSE acked
    <3>1. /\ sv' = [s1 EXCEPT !.lastClientCommand = last.seq]
          /\ executed' = executed \o done
      BY <2>3, <2>9 DEF ClientCommands, z
    <3>2. /\ run \in Seq(Command) /\ run # <<>> /\ Len(run) <= Len(new)
          /\ \A j \in DOMAIN run : run[j] = new[j]
          /\ (\A j \in DOMAIN new : new[j].cmd = DISCONNECT => j = Len(new)) => run = new
      BY <2>5, <2>9, UpToDisconnectFacts
    <3> HIDE DEF run
    <3>3. /\ done \in Seq(Commands) /\ Len(done) = Len(run)
          /\ \A j \in DOMAIN run : done[j] = run[j].cmd
      <4>1. \A j \in DOMAIN run : run[j] \in Command
        BY <3>2
      <4>2. \A j \in DOMAIN run : run[j].cmd \in Commands
        BY <4>1 DEF Command
      <4> QED
        BY <3>2, <4>2
    <3> HIDE DEF done
    <3>4. Len(run) \in DOMAIN run /\ Len(run) \in DOMAIN new /\ last = new[Len(run)]
      BY <2>5, <3>2
    <3>5. /\ last \in Command /\ last.seq \in Nat \ {0}
          /\ sv.lastClientCommand < last.seq /\ last.seq <= cl.reliableSequence
      BY <1>3, <2>5, <2>6, <3>4
    <3> HIDE DEF last
    <3>6. /\ s1 \in Server /\ s1.reliableAcknowledge = m.ack
          /\ s1.reliableSequence \in Nat
          /\ sv.reliableSequence <= s1.reliableSequence
          /\ s1.reliableSequence <= MaxServerCommands + 2
          /\ s1.state = "active" => s1 = acked
          /\ last.cmd = DISCONNECT => s1.state = "zombie"
      <4>1. CASE last.cmd = DISCONNECT
        BY <2>4, <4>1 DEF Server
      <4>2. CASE last.cmd # DISCONNECT
        BY <1>3, <2>2, <4>2
      <4> QED
        BY <4>1, <4>2
    <3> HIDE DEF s1
    <3>7. /\ sv' \in Server /\ sv'.reliableAcknowledge = m.ack
          /\ sv'.lastClientCommand = last.seq /\ sv'.state = s1.state
          /\ sv'.reliableSequence = s1.reliableSequence
          /\ sv'.reliableCommands = s1.reliableCommands
      BY <3>1, <3>5, <3>6 DEF Server
    <3>8. /\ executed' \in Seq(Commands) /\ Len(executed') = Len(executed) + Len(run)
          /\ \A j \in 1 .. Len(executed) : executed'[j] = executed[j]
          /\ \A j \in DOMAIN run : executed'[Len(executed) + j] = run[j].cmd
      <4>1. /\ executed' \in Seq(Commands) /\ Len(executed') = Len(executed) + Len(done)
            /\ \A j \in 1 .. Len(executed) + Len(done) :
                executed'[j] = IF j <= Len(executed) THEN executed[j]
                               ELSE done[j - Len(executed)]
        BY <1>3, <3>1, <3>3, ConcatProperties
      <4>2. /\ Len(executed) \in Nat /\ Len(done) \in Nat
            /\ \A j \in DOMAIN run : j \in 1 .. Len(done)
        BY <1>3, <3>2, <3>3
      <4>3. \A j \in 1 .. Len(executed) : executed'[j] = executed[j]
        BY <4>1, <4>2
      <4>4. ASSUME NEW j \in 1 .. Len(done)
            PROVE  executed'[Len(executed) + j] = done[j]
        <5>1. /\ Len(executed) + j \in 1 .. Len(executed) + Len(done)
              /\ ~(Len(executed) + j <= Len(executed))
              /\ (Len(executed) + j) - Len(executed) = j
          BY <4>2
        <5> QED
          BY <4>1, <5>1
      <4> QED
        BY <3>3, <4>1, <4>2, <4>3, <4>4
    <3>9. ASSUME ~overran
          PROVE  /\ Len(executed') = sv'.lastClientCommand
                 /\ \A j \in DOMAIN executed' :
                        \/ executed'[j] = j
                        \/ /\ executed'[j] = DISCONNECT /\ j = Len(executed')
                           /\ sv'.state = "zombie"
      <4>1. \A j \in DOMAIN new : new[j].seq = sv.lastClientCommand + j
        <5>1. new[1].seq = sv.lastClientCommand + 1
          BY <2>5, <2>9, <3>9
        <5>2. ASSUME NEW j \in DOMAIN new PROVE new[j].seq = sv.lastClientCommand + j
          <6>1. new[j].seq = new[1].seq + j - 1 /\ j \in Int
            BY <2>5 DEF InARow
          <6>2. \A x, y \in Int : (x + 1) + y - 1 = x + y
            OBVIOUS
          <6>3. sv.lastClientCommand \in Int
            BY <1>3
          <6> QED
            BY <5>1, <6>1, <6>2, <6>3, Zenon
        <5> QED
          BY <5>2
      <4>2. ASSUME NEW j \in DOMAIN new, new[j].cmd # new[j].seq
            PROVE  new[j].cmd = DISCONNECT /\ j = Len(new)
        <5>1. new[j].cmd = DISCONNECT /\ new[j].seq = cl.reliableSequence
          BY <2>6, <3>9, <4>2 DEF ClientIssued
        <5>2. Len(new) \in DOMAIN new /\ j \in Int /\ j <= Len(new)
          BY <2>5, <2>9
        <5>3. sv.lastClientCommand + Len(new) <= sv.lastClientCommand + j
          BY <2>6, <4>1, <5>1, <5>2
        <5> QED
          BY <1>3, <5>1, <5>2, <5>3
      <4>3. run = new
        <5>1. \A j \in DOMAIN new : new[j].cmd = DISCONNECT => j = Len(new)
          BY <2>6, <4>2 DEF DISCONNECT
        <5> QED
          BY <3>2, <5>1
      <4>4. Len(executed) = sv.lastClientCommand /\ \A j \in DOMAIN executed : executed[j] = j
        BY <1>5, <3>9 DEF IInv, HistoryInv
      <4>5. last.seq = sv.lastClientCommand + Len(run)
        BY <3>4, <4>1, <4>3
      <4>6. ASSUME NEW j \in DOMAIN executed', executed'[j] # j
            PROVE  /\ executed'[j] = DISCONNECT /\ j = Len(executed')
                   /\ sv'.state = "zombie"
        <5>1. j \in Int /\ 1 <= j /\ j <= sv.lastClientCommand + Len(run)
          BY <3>8, <4>4
        <5>2. ~(j <= sv.lastClientCommand)
          BY <1>3, <3>8, <4>4, <4>6, <5>1
        <5>3. PICK k \in DOMAIN run : j = sv.lastClientCommand + k
          <6>1. j - sv.lastClientCommand \in DOMAIN run
            BY <1>3, <3>2, <5>1, <5>2
          <6> QED
            BY <1>3, <5>1, <6>1
        <5>4. executed'[j] = new[k].cmd /\ new[k].seq = j /\ k \in DOMAIN new
          BY <3>8, <4>1, <4>3, <4>4, <5>3
        <5>5. new[k].cmd = DISCONNECT /\ k = Len(new)
          BY <4>2, <4>6, <5>4
        <5>6. last.cmd = DISCONNECT
          BY <3>4, <4>3, <5>5
        <5> QED
          BY <3>6, <3>7, <3>8, <4>3, <4>4, <5>3, <5>4, <5>5, <5>6
      <4> QED
        BY <3>7, <3>8, <4>4, <4>5, <4>6
    <3>10. sv'.state = "active" =>
            /\ sv.state = "active" /\ sv'.reliableSequence = sv.reliableSequence
            /\ sv.reliableAcknowledge <= sv'.reliableAcknowledge
            /\ sv'.reliableCommands = sv.reliableCommands
      BY <1>2, <1>5, <2>2, <3>6, <3>7
    <3>11. /\ sv'.reliableAcknowledge <= m.ack
           /\ sv.lastClientCommand <= sv'.lastClientCommand
           /\ sv'.lastClientCommand <= cl.reliableSequence
           /\ sv.reliableSequence <= sv'.reliableSequence
           /\ sv'.reliableSequence <= MaxServerCommands + 2
      BY <1>3, <3>5, <3>6, <3>7
    <3> QED
      BY <1>1, <3>7, <3>8, <3>9, <3>10, <3>11, ServerTakes
  <2> QED
    BY <2>7, <2>8, <2>9
<1> QED
  BY <1>2, <1>4, <1>5 DEF Server

LEMMA ClientReceivesStep ==
    ASSUME IInv, NEW i \in DOMAIN toClient, ClientReceives(i) PROVE IInv'
<1> DEFINE m == toClient[i]
           new == Newer(m.cmds, cl.serverCommandSequence)
           c == SavedCommands(m)
<1>1. /\ cl.state = "connected" /\ toClient' = After(toClient, i)
      /\ cl' = [c EXCEPT !.reliableAcknowledge = TakenAck(cl, m.ack),
                         !.snapshots = c.snapshots \cup {c.serverCommandSequence}]
      /\ UNCHANGED <<sv, toServer, executed, ran, overran>>
  BY DEF ClientReceives, CL_ParseServerMessage
<1>2. /\ m \in Message /\ ForClient(m, cl, sv, overran) /\ cl \in Client /\ sv \in Server
      /\ toClient \in Seq(Message) /\ Len(toClient) <= MaxInFlight
      /\ InAckOrder(toClient)
  BY DEF IInv, TypesInv, ChannelsInv
<1>3. /\ m.ack \in Nat /\ m.cmds \in Seq(Command) /\ InARow(m.cmds)
      /\ m.ack <= sv.lastClientCommand /\ sv.lastClientCommand <= cl.reliableSequence
      /\ cl.serverCommandSequence \in Nat /\ cl.reliableSequence \in Nat
      /\ cl.reliableAcknowledge \in Nat /\ cl.lastExecutedServerCommand \in Nat
      /\ cl.serverCommands \in [Slots -> Commands] /\ cl.snapshots \in SUBSET Nat
      /\ sv.reliableSequence \in Nat /\ sv.reliableAcknowledge \in Nat
      /\ sv.lastClientCommand \in Nat
  BY <1>2 DEF Message, ForClient, Server, Client, IInv, NumbersInv
<1>4. /\ new \in Seq(Command) /\ InARow(new) /\ Len(new) <= Len(m.cmds)
      /\ \A j \in DOMAIN new : /\ new[j].seq > cl.serverCommandSequence
                               /\ \E k \in DOMAIN m.cmds : new[j] = m.cmds[k]
      /\ new # <<>> => m.cmds # <<>>
      /\ new # <<>> /\ m.cmds[1].seq <= cl.serverCommandSequence + 1
            => new[1].seq = cl.serverCommandSequence + 1
  BY <1>3, NewerFacts
<1>5. c = IF new = <<>> THEN cl
          ELSE [cl EXCEPT !.serverCommandSequence = new[Len(new)].seq,
                          !.serverCommands = Filled(cl.serverCommands, new)]
  BY DEF SavedCommands
<1> HIDE DEF new, c
<1>6. \A j \in DOMAIN new : /\ new[j] \in Command /\ new[j].seq \in Nat \ {0}
                            /\ new[j].seq <= sv.reliableSequence
  <2>1. \A j \in DOMAIN new : new[j] \in Command
    BY <1>4
  <2>2. \A j \in DOMAIN new : new[j].seq <= sv.reliableSequence
    BY <1>2, <1>4 DEF ForClient
  <2> QED
    BY <2>1, <2>2 DEF Command
<1>7. /\ c \in Client /\ c.state = cl.state
      /\ c.reliableSequence = cl.reliableSequence
      /\ c.reliableAcknowledge = cl.reliableAcknowledge
      /\ c.reliableCommands = cl.reliableCommands
      /\ c.snapshots = cl.snapshots
      /\ c.lastExecutedServerCommand = cl.lastExecutedServerCommand
      /\ c.serverCommandSequence \in Nat
      /\ cl.serverCommandSequence <= c.serverCommandSequence
      /\ c.serverCommandSequence <= sv.reliableSequence
  <2>1. CASE new = <<>>
    BY <1>2, <1>3, <1>5, <2>1 DEF IInv, NumbersInv
  <2>2. CASE new # <<>>
    <3> DEFINE last == new[Len(new)].seq
               ring == Filled(cl.serverCommands, new)
    <3>1. Len(new) \in DOMAIN new
      BY <1>4, <2>2
    <3>2. /\ last \in Nat /\ cl.serverCommandSequence < last
          /\ last <= sv.reliableSequence
      BY <1>3, <1>4, <1>6, <3>1
    <3>3. ring \in [Slots -> Commands]
      BY <1>3, <1>4, FilledFacts
    <3>4. c = [cl EXCEPT !.serverCommandSequence = last, !.serverCommands = ring]
      BY <1>5, <2>2
    <3> HIDE DEF last, ring
    <3>5. c \in Client
      BY <1>2, <3>2, <3>3, <3>4 DEF Client
    <3>6. /\ c.state = cl.state
          /\ c.reliableSequence = cl.reliableSequence
          /\ c.reliableAcknowledge = cl.reliableAcknowledge
          /\ c.reliableCommands = cl.reliableCommands
          /\ c.snapshots = cl.snapshots
          /\ c.lastExecutedServerCommand = cl.lastExecutedServerCommand
          /\ c.serverCommandSequence = last
      BY <1>2, <3>4 DEF Client
    <3> QED
      BY <1>3, <3>2, <3>5, <3>6
  <2> QED
    BY <2>1, <2>2
\* The ring holds the last commands, if the server is still there.
<1>8. ASSUME sv.state = "active", NEW n \in 1 .. c.serverCommandSequence,
             n > c.serverCommandSequence - MAX_RELIABLE_COMMANDS
      PROVE  c.serverCommands[Slot(n)] = n
  <2>1. CASE new = <<>>
    BY <1>5, <1>8, <2>1 DEF IInv, RingsInv
  <2>2. CASE new # <<>>
    <3> DEFINE first == cl.serverCommandSequence
    <3>1. /\ Len(new) <= MAX_RELIABLE_COMMANDS /\ Len(new) \in Nat \ {0}
          /\ new[1].seq = first + 1
          /\ \A j \in DOMAIN new : new[j].cmd = new[j].seq
      <4>1. /\ m.cmds[1].seq <= first + 1 /\ Len(m.cmds) <= MAX_RELIABLE_COMMANDS
            /\ \A j \in DOMAIN m.cmds : m.cmds[j].cmd = m.cmds[j].seq
        BY <1>2, <1>4, <1>8, <2>2 DEF ForClient
      <4>2. Len(new) <= MAX_RELIABLE_COMMANDS
        BY <1>3, <1>4, <4>1, ConstantsAssumption
      <4>3. Len(new) \in Nat \ {0}
        BY <1>4, <2>2
      <4> QED
        BY <1>4, <2>2, <4>1, <4>2, <4>3
    <3>2. ASSUME NEW j \in DOMAIN new PROVE new[j].seq = first + j /\ j \in 1 .. Len(new)
      <4>1. new[j].seq = new[1].seq + j - 1
        BY <1>4 DEF InARow
      <4>4. DOMAIN new = 1 .. Len(new) /\ Len(new) \in Nat
        BY <1>4
      <4>5. j \in 1 .. Len(new)
        BY <4>4, Zenon
      <4>6. first \in Int
        BY <1>3
      <4>3. j \in Int /\ first \in Int /\ j \in 1 .. Len(new)
        BY <4>5, <4>6
      <4>2. \A x, y \in Int : (x + 1) + y - 1 = x + y
        OBVIOUS
      <4> HIDE DEF first
      <4> QED
        BY <3>1, <4>1, <4>2, <4>3, Zenon
    <3>3. /\ c.serverCommandSequence = first + Len(new)
          /\ c.serverCommands = Filled(cl.serverCommands, new)
      <4>1. Len(new) \in DOMAIN new
        BY <1>4, <2>2
      <4>2. /\ c.serverCommandSequence = new[Len(new)].seq
            /\ c.serverCommands = Filled(cl.serverCommands, new)
        BY <1>2, <1>5, <2>2 DEF Client
      <4> QED
        BY <3>2, <4>1, <4>2
    <3>4. n \in Int /\ Slot(n) \in Slots /\ first \in Nat
      BY <1>3, SlotInRing
    <3>7. /\ \A k \in Slots :
                (\A j \in DOMAIN new : Slot(new[j].seq) # k) =>
                    c.serverCommands[k] = cl.serverCommands[k]
          /\ \A k \in Slots, j \in DOMAIN new :
                (\A l \in DOMAIN new : Slot(new[l].seq) = k <=> l = j) =>
                    c.serverCommands[k] = new[j].cmd
      <4> DEFINE ring == Filled(cl.serverCommands, new)
      <4>1. cl.serverCommands \in [Slots -> Commands] /\ new \in Seq(Command)
        BY <1>3, <1>4
      <4>2. /\ \A k \in Slots :
                (\A j \in DOMAIN new : Slot(new[j].seq) # k) =>
                    ring[k] = cl.serverCommands[k]
            /\ \A k \in Slots, j \in DOMAIN new :
                (\A l \in DOMAIN new : Slot(new[l].seq) = k <=> l = j) =>
                    ring[k] = new[j].cmd
        BY <4>1, FilledFacts
      <4>3. c.serverCommands = ring
        BY <3>3
      <4> HIDE DEF ring
      <4> QED
        BY <4>2, <4>3
    <3> HIDE DEF first
    <3>5. CASE n <= first
      <4>1. ASSUME NEW j \in DOMAIN new PROVE Slot(new[j].seq) # Slot(n)
        <5>1. /\ first + j \in Int /\ n < first + j
              /\ (first + j) - n < MAX_RELIABLE_COMMANDS
          BY <1>8, <3>1, <3>2, <3>3, <3>4, <3>5, ConstantsAssumption
        <5>2. Slot(n) # Slot(first + j)
          BY <3>4, <5>1, SlotsApart
        <5> QED
          BY <3>2, <5>2
      <4>2. c.serverCommands[Slot(n)] = cl.serverCommands[Slot(n)]
        BY <3>4, <3>7, <4>1
      <4>3. n \in 1 .. first /\ n > first - MAX_RELIABLE_COMMANDS
        BY <1>8, <3>1, <3>3, <3>4, <3>5, ConstantsAssumption
      <4> QED
        BY <1>8, <4>2, <4>3 DEF IInv, RingsInv, first
    <3>6. CASE n > first
      <4>1. PICK j \in 1 .. Len(new) : n = first + j
        <5>1. n - first \in 1 .. Len(new) /\ n = first + (n - first)
          BY <1>8, <3>1, <3>3, <3>4, <3>6
        <5> QED
          BY <5>1
      <4>2. j \in DOMAIN new /\ DOMAIN new = 1 .. Len(new)
        BY <1>4, <4>1
      <4>3. ASSUME NEW k \in DOMAIN new, Slot(new[k].seq) = Slot(n) PROVE k = j
        <5>1. new[k].seq = first + k /\ k \in 1 .. Len(new)
          BY <3>2
        <5>2. CASE k < j
          <6>1. /\ first + k \in Int /\ first + k < n
                /\ n - (first + k) < MAX_RELIABLE_COMMANDS
            BY <3>1, <3>4, <4>1, <5>1, <5>2, ConstantsAssumption
          <6> QED
            BY <3>4, <4>3, <5>1, <6>1, SlotsApart
        <5>3. CASE j < k
          <6>1. /\ first + k \in Int /\ n < first + k
                /\ (first + k) - n < MAX_RELIABLE_COMMANDS
            BY <3>1, <3>4, <4>1, <5>1, <5>3, ConstantsAssumption
          <6> QED
            BY <3>4, <4>3, <5>1, <6>1, SlotsApart
        <5> QED
          BY <4>1, <5>1, <5>2, <5>3
      <4>4. Slot(new[j].seq) = Slot(n)
        BY <3>2, <4>1, <4>2
      <4>5. c.serverCommands[Slot(n)] = new[j].cmd
        BY <3>4, <3>7, <4>2, <4>3, <4>4
      <4> QED
        BY <3>1, <3>2, <4>1, <4>2, <4>5
    <3> QED
      BY <3>4, <3>5, <3>6
  <2> QED
    BY <2>1, <2>2
<1>9. /\ TakenAck(cl, m.ack) \in Nat /\ TakenAck(cl, m.ack) <= cl.reliableSequence
      /\ ~overran => TakenAck(cl, m.ack) = m.ack /\ cl.reliableAcknowledge <= m.ack
  <2>1. ASSUME ~overran PROVE ~Illegible(cl, m.ack) /\ cl.reliableAcknowledge <= m.ack
    <3>1. /\ cl.reliableAcknowledge <= m.ack
          /\ cl.reliableSequence - cl.reliableAcknowledge <= MAX_RELIABLE_COMMANDS
      BY <1>2, <2>1 DEF ForClient, IInv, NumbersInv
    <3> QED
      BY <1>3, <3>1, ConstantsAssumption DEF Illegible
  <2>2. CASE Illegible(cl, m.ack)
    BY <1>3, <2>1, <2>2 DEF TakenAck
  <2>3. CASE ~Illegible(cl, m.ack)
    BY <1>3, <2>1, <2>3 DEF TakenAck
  <2> QED
    BY <2>2, <2>3
<1>10. /\ cl' \in Client /\ cl'.state = cl.state
       /\ cl'.reliableSequence = cl.reliableSequence
       /\ cl'.reliableAcknowledge = TakenAck(cl, m.ack)
       /\ cl'.reliableCommands = cl.reliableCommands
       /\ cl'.serverCommandSequence = c.serverCommandSequence
       /\ cl'.serverCommands = c.serverCommands
       /\ cl'.snapshots = cl.snapshots \cup {c.serverCommandSequence}
       /\ cl'.lastExecutedServerCommand = cl.lastExecutedServerCommand
  <2> DEFINE ack == TakenAck(cl, m.ack)
             snapshots == cl.snapshots \cup {c.serverCommandSequence}
  <2>1. snapshots \in SUBSET Nat /\ ack \in Nat
    BY <1>3, <1>7, <1>9
  <2>2. cl' = [c EXCEPT !.reliableAcknowledge = ack, !.snapshots = snapshots]
    BY <1>1, <1>7
  <2> HIDE DEF ack, snapshots
  <2>3. cl' \in Client
    BY <1>7, <2>1, <2>2 DEF Client
  <2>4. /\ cl'.state = c.state /\ cl'.reliableSequence = c.reliableSequence
        /\ cl'.reliableAcknowledge = ack
        /\ cl'.reliableCommands = c.reliableCommands
        /\ cl'.serverCommandSequence = c.serverCommandSequence
        /\ cl'.serverCommands = c.serverCommands
        /\ cl'.snapshots = snapshots
        /\ cl'.lastExecutedServerCommand = c.lastExecutedServerCommand
    BY <1>7, <2>2 DEF Client
  <2> QED
    BY <1>7, <2>3, <2>4 DEF ack, snapshots
<1>11. \A k \in DOMAIN toClient : toClient[k].ack \in Nat
  <2>1. \A k \in DOMAIN toClient : toClient[k] \in Message
    BY <1>2
  <2> QED
    BY <2>1 DEF Message
<1>12. /\ toClient' \in Seq(Message) /\ Len(toClient') <= MaxInFlight
       /\ InAckOrder(toClient')
       /\ \A j \in DOMAIN toClient' : \E k \in DOMAIN toClient :
            i <= k /\ toClient'[j] = toClient[k]
  BY <1>1, <1>2, AfterFacts
<1> HIDE DEF m
<1>13. TypesInv'
  BY <1>1, <1>10, <1>12 DEF IInv, TypesInv
<1>14. NumbersInv'
  <2>1. ~overran =>
            /\ m.ack <= sv.lastClientCommand
            /\ cl.reliableSequence - m.ack <= MAX_RELIABLE_COMMANDS
    BY <1>3, <1>9, ConstantsAssumption DEF IInv, NumbersInv
  <2>2. /\ sv.reliableAcknowledge <= c.serverCommandSequence
        /\ cl.lastExecutedServerCommand <= c.serverCommandSequence
    BY <1>3, <1>7 DEF IInv, NumbersInv
  <2>3. \A n \in cl'.snapshots : /\ cl.lastExecutedServerCommand <= n
                                 /\ n <= c.serverCommandSequence
    <3>1. \A n \in cl.snapshots : /\ n \in Nat /\ cl.lastExecutedServerCommand <= n
                                  /\ n <= cl.serverCommandSequence
      BY <1>3 DEF IInv, NumbersInv
    <3>2. \A n \in cl.snapshots : n <= c.serverCommandSequence
      BY <1>3, <1>7, <3>1
    <3>3. c.serverCommandSequence <= c.serverCommandSequence
      BY <1>7
    <3> QED
      BY <1>10, <2>2, <3>1, <3>2, <3>3
  <2>4. UNCHANGED <<sv, overran>>
    BY <1>1
  <2>5. TakenAck(cl, m.ack) <= cl.reliableSequence
        /\ (~overran => TakenAck(cl, m.ack) = m.ack)
    BY <1>9
  <2> QED
    BY <1>7, <1>10, <2>1, <2>2, <2>3, <2>4, <2>5 DEF IInv, NumbersInv
<1>15. RingsInv'
  <2>1. ASSUME ~overran, NEW n \in cl'.reliableAcknowledge + 1 .. cl'.reliableSequence
        PROVE  ClientIssued(n, cl'.reliableCommands[Slot(n)], cl')
    <3>1. n \in cl.reliableAcknowledge + 1 .. cl.reliableSequence
      BY <1>3, <1>9, <1>10, <2>1
    <3>2. ClientIssued(n, cl.reliableCommands[Slot(n)], cl)
      BY <2>1, <3>1 DEF IInv, RingsInv
    <3> QED
      BY <1>10, <3>2 DEF ClientIssued
  <2> QED
    BY <1>1, <1>8, <1>10, <2>1 DEF IInv, RingsInv
<1>16. HistoryInv'
  BY <1>1, <1>10 DEF IInv, HistoryInv
<1>17. ClientGrown(cl, cl') /\ ServerGrown(sv, sv')
  BY <1>1, <1>3, <1>7, <1>10 DEF ClientGrown, ServerGrown
<1>18. ChannelsInv'
  <2>1. ASSUME ~overran', NEW k \in DOMAIN toClient, i <= k
        PROVE  cl'.reliableAcknowledge <= toClient[k].ack
    BY <1>1, <1>2, <1>9, <1>10, <2>1 DEF InAckOrder, m
  <2>2. \A j \in DOMAIN toClient' : ForClient(toClient'[j], cl', sv', overran')
    BY <1>1, <1>12, <1>13, <1>17, <2>1, ToClientKept DEF IInv
  <2>3. \A j \in DOMAIN toServer' : ForServer(toServer'[j], cl', sv', overran')
    BY <1>1, <1>13, <1>17, ToServerKept, AcksOnTheWay DEF IInv
  <2>4. InAckOrder(toServer')
    BY <1>1 DEF IInv, ChannelsInv
  <2> QED
    BY <1>12, <2>2, <2>3, <2>4 DEF ChannelsInv
<1> QED
  BY <1>13, <1>14, <1>15, <1>16, <1>18 DEF IInv

LEMMA GetSnapshotStep ==
    ASSUME IInv, NEW n \in cl.snapshots, CL_GetSnapshot(n) PROVE IInv'
<1>1. cl.state = "connected" /\ UNCHANGED <<sv, toClient, executed>>
  BY DEF CL_GetSnapshot
<1>2. CASE Disconnected /\ UNCHANGED ran
  BY <1>1, <1>2, DisconnectedStep
<1>3. CASE /\ ~CycledOut(cl.lastExecutedServerCommand + 1)
           /\ ran' = ran \o Requested(n)
           /\ cl' = [cl EXCEPT !.lastExecutedServerCommand = n,
                               !.snapshots = { k \in cl.snapshots : k > n }]
           /\ UNCHANGED <<toServer, overran>>
  <2> DEFINE last == cl.lastExecutedServerCommand
             r == Requested(n)
             rest == { k \in cl.snapshots : k > n }
  <2>1. /\ cl \in Client /\ sv \in Server /\ ran \in Seq(Commands)
        /\ cl.snapshots \in SUBSET Nat /\ n \in Nat
        /\ last \in Nat /\ last <= n /\ n <= cl.serverCommandSequence
        /\ cl.serverCommandSequence \in Nat
        /\ cl.serverCommands \in [Slots -> Commands]
    BY DEF IInv, TypesInv, NumbersInv, Client
  <2>2. rest \in SUBSET cl.snapshots /\ \A k \in rest : n <= k
    BY <2>1
  <2>3. cl' = [cl EXCEPT !.lastExecutedServerCommand = n, !.snapshots = rest]
    BY <1>3
  <2> HIDE DEF rest
  <2>4. cl' \in Client
    BY <2>1, <2>2, <2>3 DEF Client
  <2>5. /\ cl'.state = cl.state
        /\ cl'.reliableSequence = cl.reliableSequence
        /\ cl'.reliableAcknowledge = cl.reliableAcknowledge
        /\ cl'.reliableCommands = cl.reliableCommands
        /\ cl'.serverCommandSequence = cl.serverCommandSequence
        /\ cl'.serverCommands = cl.serverCommands
        /\ cl'.snapshots = rest
        /\ cl'.lastExecutedServerCommand = n
    BY <2>1, <2>3 DEF Client
  <2>6. /\ r \in Seq(Commands) /\ Len(r) = n - last
        /\ \A i \in 1 .. n - last : r[i] = cl.serverCommands[Slot(last + i)]
    <3>1. n - last \in Nat
      BY <2>1
    <3>2. \A i \in 1 .. n - last : cl.serverCommands[Slot(last + i)] \in Commands
      BY <2>1, SlotInRing
    <3>3. r = [i \in 1 .. n - last |-> cl.serverCommands[Slot(last + i)]]
      BY DEF Requested
    <3> HIDE DEF r, last
    <3> QED
      BY <3>1, <3>2, <3>3
  <2>7. ran' = ran \o r
    BY <1>3
  <2> HIDE DEF r
  <2>8. /\ ran' \in Seq(Commands) /\ Len(ran') = Len(ran) + Len(r)
        /\ \A j \in 1 .. Len(ran) + Len(r) :
              ran'[j] = IF j <= Len(ran) THEN ran[j] ELSE r[j - Len(ran)]
    BY <2>1, <2>6, <2>7, ConcatProperties
  <2>9. TypesInv'
    BY <1>1, <1>3, <2>4, <2>8 DEF IInv, TypesInv
  <2>10. NumbersInv'
    BY <1>1, <1>3, <2>1, <2>2, <2>5 DEF IInv, NumbersInv
  <2>11. RingsInv'
    BY <1>1, <1>3, <2>5 DEF IInv, RingsInv, ClientIssued
  <2>12. HistoryInv'
    <3>1. ASSUME sv.state = "active"
          PROVE  Len(ran') = n /\ \A j \in DOMAIN ran' : ran'[j] = j
      <4>1. Len(ran) = last /\ \A j \in DOMAIN ran : ran[j] = j
        BY <3>1 DEF IInv, HistoryInv
      <4> HIDE DEF last
      <4>2. Len(ran') = n
        BY <2>1, <2>6, <2>8, <4>1
      <4>3. ASSUME NEW j \in 1 .. n PROVE ran'[j] = j
        <5>1. j \in 1 .. Len(ran) + Len(r)
          BY <2>1, <2>6, <4>1
        <5>2. CASE j <= last
          <6>1. j \in DOMAIN ran /\ ran'[j] = ran[j]
            BY <2>1, <2>8, <4>1, <5>1, <5>2
          <6> QED
            BY <4>1, <6>1
        <5>3. CASE ~(j <= last)
          <6>1. ran'[j] = r[j - last]
            BY <2>8, <4>1, <5>1, <5>3
          <6>2. j - last \in 1 .. n - last /\ last + (j - last) = j
            BY <2>1, <5>3
          <6>3. r[j - last] = cl.serverCommands[Slot(j)]
            BY <2>6, <6>2
          <6>4. last + 1 > cl.serverCommandSequence - MAX_RELIABLE_COMMANDS
            BY <1>3, <2>1, ConstantsAssumption DEF CycledOut, last
          <6>5. /\ j \in 1 .. cl.serverCommandSequence
                /\ j > cl.serverCommandSequence - MAX_RELIABLE_COMMANDS
            BY <2>1, <5>3, <6>4, ConstantsAssumption
          <6>6. cl.serverCommands[Slot(j)] = j
            BY <3>1, <6>5 DEF IInv, RingsInv
          <6> QED
            BY <6>1, <6>3, <6>6
        <5> QED
          BY <5>2, <5>3
      <4> QED
        BY <2>8, <4>2, <4>3
    <3> QED
      BY <1>1, <1>3, <2>5, <3>1 DEF IInv, HistoryInv
  <2>13. ClientGrown(cl, cl') /\ ServerGrown(sv, sv')
    BY <1>1, <2>1, <2>5 DEF ClientGrown, ServerGrown, Client, Server
  <2>14. ChannelsInv'
    <3>1. \A j \in DOMAIN toServer' : ForServer(toServer'[j], cl', sv', overran')
      BY <1>1, <1>3, <2>9, <2>13, ToServerKept, AcksOnTheWay DEF IInv
    <3>2. \A j \in DOMAIN toClient' : ForClient(toClient'[j], cl', sv', overran')
      BY <1>1, <1>3, <2>5, <2>9, <2>13, ToClientKept, AcksOnTheWay DEF IInv
    <3>3. InAckOrder(toServer') /\ InAckOrder(toClient')
      BY <1>1, <1>3 DEF IInv, ChannelsInv
    <3> QED
      BY <3>1, <3>2, <3>3 DEF ChannelsInv
  <2> QED
    BY <2>9, <2>10, <2>11, <2>12, <2>14 DEF IInv
<1> QED
  BY <1>2, <1>3 DEF CL_GetSnapshot

-----------------------------------------------------------------------------
(* The theorems.                                                           *)

\* So it holds in every behaviour.
LEMMA Invariant == Spec => []IInv
<1>1. Init => IInv
  BY InitIInv
<1>2. IInv /\ [Next]_vars => IInv'
  <2> SUFFICES ASSUME IInv, [Next]_vars PROVE IInv'
    OBVIOUS
  <2>1. CASE SV_AddServerCommand
    BY <2>1, AddServerCommandStep
  <2>2. CASE SV_DropClient
    BY <2>2, DropClientStep
  <2>3. CASE SV_SendClientSnapshot
    BY <2>3, SendClientSnapshotStep
  <2>4. CASE \E i \in DOMAIN toServer : ServerReceives(i)
    BY <2>4, ServerReceivesStep
  <2>5. CASE CL_Disconnect
    BY <2>5, DisconnectStep
  <2>6. CASE CL_AddReliableCommand
    BY <2>6, AddReliableCommandStep
  <2>7. CASE CL_WritePacket
    BY <2>7, WritePacketStep
  <2>8. CASE \E i \in DOMAIN toClient : ClientReceives(i)
    BY <2>8, ClientReceivesStep
  <2>9. CASE \E n \in cl.snapshots : CL_GetSnapshot(n)
    BY <2>9, GetSnapshotStep
  <2>10. CASE UNCHANGED vars
    <3>1. UNCHANGED <<cl, sv, toServer, toClient, executed, ran, overran>>
      BY <2>10 DEF vars
    <3> QED
      BY <3>1 DEF IInv, TypesInv, NumbersInv, RingsInv, HistoryInv, ChannelsInv
  <2> QED
    BY <2>1, <2>2, <2>3, <2>4, <2>5, <2>6, <2>7, <2>8, <2>9, <2>10 DEF Next
<1> QED
  BY <1>1, <1>2, PTL DEF Spec

\* The state is always of its type: in particular a message carries commands only,
\* and as long as the server has not dropped the client no more of its commands
\* wait to be acknowledged than its ring has room for (SV_AddServerCommand).
THEOREM TypeCorrect == Spec => []TypeOK
<1>1. IInv => TypeOK
  <2> SUFFICES ASSUME IInv PROVE TypeOK
    OBVIOUS
  <2>1. \A n \in cl.snapshots : n \in 0 .. MaxServerCommands + 2
    BY ConstantsAssumption DEF IInv, TypesInv, NumbersInv, Client, Server
  <2>2. MessagesOn(toServer)
    <3>1. \A i \in DOMAIN toServer : toServer[i] \in Message
      BY DEF IInv, TypesInv
    <3> QED
      BY <3>1 DEF IInv, TypesInv, MessagesOn, Message, Command
  <2>3. MessagesOn(toClient)
    <3>1. \A i \in DOMAIN toClient : toClient[i] \in Message
      BY DEF IInv, TypesInv
    <3> QED
      BY <3>1 DEF IInv, TypesInv, MessagesOn, Message, Command
  <2>4. cl \in [state : {"connected", "disconnected", "fatal"},
               reliableSequence : Nat, reliableAcknowledge : Nat,
               reliableCommands : [Slots -> Commands],
               serverCommandSequence : Nat,
               serverCommands : [Slots -> Commands],
               snapshots : SUBSET (0 .. MaxServerCommands + 2),
               lastExecutedServerCommand : Nat]
    BY <2>1 DEF IInv, TypesInv, Client
  <2> QED
    BY <2>2, <2>3, <2>4 DEF IInv, TypesInv, NumbersInv, Server, TypeOK
<1> QED
  BY <1>1, Invariant, PTL

\* The server executes the client's commands once each and in the order they were
\* issued, up to the disconnect, as long as the client did not overrun its ring
\* (SV_ClientCommand).
THEOREM ServerExecutes == Spec => []ServerExecutesOnceInOrder
<1>1. IInv => ServerExecutesOnceInOrder
  BY DEF IInv, HistoryInv, ServerExecutesOnceInOrder, InOrderUpToDisconnect
<1> QED
  BY <1>1, Invariant, PTL

\* cgame runs the server's commands once each and in order, as long as the server
\* has not dropped the client (CL_FillServerCommands).
THEOREM CgameRuns == Spec => []CgameRunsOnceInOrder
<1>1. IInv => CgameRunsOnceInOrder
  <2> SUFFICES ASSUME IInv, sv.state = "active"
               PROVE  /\ ran = [i \in 1 .. Len(ran) |-> i]
                      /\ Len(ran) = cl.lastExecutedServerCommand
    BY DEF CgameRunsOnceInOrder
  <2>1. /\ ran \in Seq(Commands) /\ Len(ran) = cl.lastExecutedServerCommand
        /\ \A i \in DOMAIN ran : ran[i] = i
    BY DEF IInv, TypesInv, HistoryInv
  <2> QED
    BY <2>1
<1> QED
  BY <1>1, Invariant, PTL

\* Neither side takes more for acknowledged than the other has, the client as long
\* as it did not overrun its ring (SV_ExecuteClientMessage, CL_ParseServerMessage).
THEOREM Acknowledged == Spec => []AcknowledgedIsReceived
<1>1. IInv => AcknowledgedIsReceived
  BY DEF IInv, NumbersInv, AcknowledgedIsReceived
<1> QED
  BY <1>1, Invariant, PTL
=============================================================================
