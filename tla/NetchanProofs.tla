--------------------------- MODULE NetchanProofs ---------------------------
(***************************************************************************)
(* For every fragment size, message length and number of messages, and     *)
(* whatever the network does with the packets: Netchan hands up only whole *)
(* messages, in order, each once, and implements MessageChannel.           *)
(*                                                                         *)
(* TypeOK and the promises are not inductive.  What makes them so is that  *)
(* every packet is a piece of the message its number was given to, and     *)
(* that the reassembly buffer always holds a prefix of the message         *)
(* fragmentSequence names.                                                 *)
(***************************************************************************)
EXTENDS SvNetchan, TLAPS, FiniteSetTheorems, WellFoundedInduction, SequenceTheorems

\* The sender numbers messages consecutively, and what it has yet to send in
\* fragments is the message it numbered last.
SenderInv ==
    /\ Len(sent) = IF snd.unsentFragments THEN snd.outgoingSequence
                                          ELSE snd.outgoingSequence - 1
    /\ snd.unsentFragments =>
        /\ snd.unsent = sent[snd.outgoingSequence]
        /\ snd.unsentFragmentStart <= snd.unsent.length

\* p is message m, or the piece of it that p says it is.
PieceOf(p, m) ==
    /\ p.len \in Nat
    /\ p.fragmented \in BOOLEAN
    /\ ~p.fragmented => p.len = m.length /\ p.data = m.data
    /\ p.fragmented =>
        /\ p.start \in Nat
        /\ p.start + p.len <= m.length
        /\ p.len # FRAGMENT_SIZE => p.start + p.len = m.length
        /\ \A i \in 0 .. p.len - 1 : p.data[i] = m.data[p.start + i]

PacketsInv ==
    \A p \in net : p.seq \in 1 .. Len(sent) /\ PieceOf(p, sent[p.seq])

\* What has been put together is a prefix of one message.
PrefixOf(c, m) ==
    /\ c.fragmentLength <= m.length
    /\ \A i \in 0 .. c.fragmentLength - 1 : c.fragmentBuffer[i] = m.data[i]

ReassemblyInv ==
    rcv.fragmentLength > 0 =>
        /\ rcv.fragmentSequence \in 1 .. Len(sent)
        /\ PrefixOf(rcv, sent[rcv.fragmentSequence])

DeliveryInv ==
    /\ rcv.incomingSequence = Channel!Newest
    /\ rcv.incomingSequence <= Len(sent)
    /\ \A i \in 1 .. Len(delivered) :
        /\ delivered[i].seq \in 1 .. rcv.incomingSequence
        /\ delivered[i].msg = sent[delivered[i].seq]
    /\ DeliveredInOrder

IInv ==
    /\ SndType
    /\ RcvType
    /\ sent \in Seq(Messages)
    /\ delivered \in Seq([seq : Nat, msg : Messages])
    /\ SenderInv
    /\ PacketsInv
    /\ ReassemblyInv
    /\ DeliveryInv

-----------------------------------------------------------------------------
LEMMA MessageFacts ==
    ASSUME NEW m \in Messages
    PROVE  /\ m.length \in 0 .. MAX_MSGLEN
           /\ m.data \in [0 .. m.length - 1 -> Byte]
           /\ m = [length |-> m.length, data |-> m.data]
<1>1. PICK n \in 0 .. MAX_MSGLEN : m \in Message(n)
  BY MessageAssumption DEF IsMessage
<1>2. m.length = n /\ m.data \in [0 .. n - 1 -> Byte]
  BY <1>1 DEF Message
<1>3. m = [length |-> m.length, data |-> m.data]
  BY <1>1 DEF Message
<1> QED
  BY <1>2, <1>3

\* A fragment stays inside its message, and only one that is not full ends it.
LEMMA FragLenFacts ==
    ASSUME NEW m \in Messages, NEW start \in 0 .. m.length
    PROVE  /\ FragLen(m, start) \in 0 .. FRAGMENT_SIZE
           /\ start + FragLen(m, start) <= m.length
           /\ FragLen(m, start) # FRAGMENT_SIZE =>
                start + FragLen(m, start) = m.length
  BY MessageFacts, SizeAssumption DEF FragLen

LEMMA FragmentIsPiece ==
    ASSUME NEW m \in Messages, NEW s \in Nat, NEW start \in 0 .. m.length
    PROVE  /\ Fragment(s, m, start).seq = s
           /\ PieceOf(Fragment(s, m, start), m)
  BY MessageFacts, FragLenFacts DEF Fragment, PieceOf

\* Netchan_Transmit numbers the message and leaves it either sent completely or
\* with its first fragment sent.
LEMMA AfterTransmitFacts ==
    ASSUME NEW c \in Senders, c.unsentFragments = FALSE, NEW m \in Messages
    PROVE  /\ AfterTransmit(c, m) \in Senders
           /\ AfterTransmit(c, m).unsentFragmentStart <= MAX_MSGLEN
           /\ IsLong(m) =>
                /\ AfterTransmit(c, m).unsentFragments
                /\ AfterTransmit(c, m).outgoingSequence = c.outgoingSequence
                /\ AfterTransmit(c, m).unsent = m
                /\ AfterTransmit(c, m).unsentFragmentStart <= m.length
           /\ ~IsLong(m) =>
                /\ ~AfterTransmit(c, m).unsentFragments
                /\ AfterTransmit(c, m).outgoingSequence = c.outgoingSequence + 1
           /\ FirstPacket(c, m).seq = c.outgoingSequence
           /\ PieceOf(FirstPacket(c, m), m)
<1> USE SizeAssumption
<1>1. /\ m.length \in 0 .. MAX_MSGLEN /\ m.data \in [0 .. m.length - 1 -> Byte]
      /\ c.outgoingSequence \in Nat \ {0}
  BY MessageFacts DEF Senders
<1>2. CASE IsLong(m)
  <2> DEFINE l == Loaded(c, m)
  <2>1. /\ l \in Senders /\ l.unsent = m /\ l.unsentFragmentStart = 0
        /\ l.outgoingSequence = c.outgoingSequence
    BY DEF Senders, Loaded
  <2>2. AfterTransmit(c, m) = AfterNextFragment(l) /\ FirstPacket(c, m) = NextFragment(l)
    BY <1>2 DEF AfterTransmit, FirstPacket
  <2> HIDE DEF l
  <2>3. FragLen(m, 0) = FRAGMENT_SIZE /\ FRAGMENT_SIZE <= m.length
    BY <1>1, <1>2 DEF FragLen, IsLong
  <2>4. AfterTransmit(c, m) = AdvancedTo(l, FRAGMENT_SIZE, FALSE)
    BY <2>1, <2>2, <2>3 DEF AfterNextFragment, AdvancedTo
  <2>5. /\ AfterTransmit(c, m).unsentFragments = ~FALSE
        /\ AfterTransmit(c, m).outgoingSequence = c.outgoingSequence
        /\ AfterTransmit(c, m).unsent = m
        /\ AfterTransmit(c, m).unsentFragmentStart = FRAGMENT_SIZE
    BY <2>1, <2>4 DEF AdvancedTo
  <2>6. AfterTransmit(c, m) \in Senders
    BY <2>1, <2>4 DEF Senders, AdvancedTo
  <2>7. FirstPacket(c, m) = Fragment(c.outgoingSequence, m, 0)
    BY <2>1, <2>2 DEF NextFragment
  <2>8. FirstPacket(c, m).seq = c.outgoingSequence /\ PieceOf(FirstPacket(c, m), m)
    BY <1>1, <2>7, FragmentIsPiece
  <2>9. AfterTransmit(c, m).unsentFragments
    BY <2>5
  <2>10. FRAGMENT_SIZE <= MAX_MSGLEN
    BY <1>1, <2>3
  <2> QED
    BY <1>2, <2>3, <2>5, <2>6, <2>8, <2>9, <2>10
<1>3. CASE ~IsLong(m)
  <2>1. AfterTransmit(c, m) = [outgoingSequence |-> c.outgoingSequence + 1,
                               unsentFragments |-> c.unsentFragments,
                               unsentFragmentStart |-> 0, unsent |-> c.unsent]
    BY <1>3 DEF AfterTransmit
  <2>2. FirstPacket(c, m).seq = c.outgoingSequence /\ PieceOf(FirstPacket(c, m), m)
    BY <1>1, <1>3 DEF FirstPacket, Whole, PieceOf
  <2>3. /\ ~AfterTransmit(c, m).unsentFragments
        /\ AfterTransmit(c, m).outgoingSequence = c.outgoingSequence + 1
        /\ AfterTransmit(c, m).unsentFragmentStart = 0
    BY <2>1
  <2>4. AfterTransmit(c, m) \in Senders
    BY <1>1, <2>1 DEF Senders
  <2> QED
    BY <1>3, <2>2, <2>3, <2>4
<1> QED
  BY <1>2, <1>3

-----------------------------------------------------------------------------
\* The initial states satisfy the inductive invariant.
LEMMA InitIInv == Init => IInv
<1> SUFFICES ASSUME Init PROVE IInv
  OBVIOUS
<1> USE SizeAssumption DEF Init
<1>1. SndType /\ RcvType
  BY DEF SndType, RcvType, Senders, Receivers, SetupSender, SetupReceiver
<1>2. sent \in Seq(Messages) /\ delivered \in Seq([seq : Nat, msg : Messages])
  OBVIOUS
<1>3. SenderInv
  BY DEF SenderInv, SetupSender
<1>4. PacketsInv /\ ReassemblyInv
  BY DEF PacketsInv, ReassemblyInv, SetupReceiver
<1>5. DeliveryInv
  BY DEF DeliveryInv, SetupReceiver, Channel!Newest, DeliveredInOrder
<1> QED
  BY <1>1, <1>2, <1>3, <1>4, <1>5 DEF IInv

-----------------------------------------------------------------------------
\* Netchan_TransmitNextFragment sends the next piece of the message numbered last.
LEMMA AfterFragmentFacts ==
    ASSUME IInv, snd.unsentFragments
    PROVE  /\ AfterNextFragment(snd) \in Senders
           /\ AfterNextFragment(snd).unsentFragmentStart <= MAX_MSGLEN
           /\ AfterNextFragment(snd).unsentFragments =>
                /\ AfterNextFragment(snd).outgoingSequence = Len(sent)
                /\ AfterNextFragment(snd).unsent = sent[Len(sent)]
                /\ AfterNextFragment(snd).unsentFragmentStart <= sent[Len(sent)].length
           /\ ~AfterNextFragment(snd).unsentFragments =>
                AfterNextFragment(snd).outgoingSequence = Len(sent) + 1
           /\ NextFragment(snd).seq \in 1 .. Len(sent)
           /\ PieceOf(NextFragment(snd), sent[NextFragment(snd).seq])
<1> USE SizeAssumption
<1> DEFINE m     == snd.unsent
           start == snd.unsentFragmentStart
           len   == FragLen(m, start)
           last  == start + len = m.length /\ len # FRAGMENT_SIZE
<1>1. /\ snd.outgoingSequence \in Nat \ {0}
      /\ Len(sent) = snd.outgoingSequence
      /\ m = sent[snd.outgoingSequence]
      /\ start \in Nat /\ start <= m.length
      /\ sent \in Seq(Messages)
  BY DEF IInv, SndType, Senders, SenderInv
<1>2. m \in Messages
  BY <1>1
<1>3. m.length \in 0 .. MAX_MSGLEN
  BY <1>2, MessageFacts
<1>4. start \in 0 .. m.length
  BY <1>1, <1>3
<1>5. len \in 0 .. FRAGMENT_SIZE /\ start + len <= m.length
  BY <1>2, <1>4, FragLenFacts
<1>6. AfterNextFragment(snd) = AdvancedTo(snd, start + len, last)
  BY DEF AfterNextFragment
<1>7. start + len \in 0 .. MAX_MSGLEN /\ last \in BOOLEAN
  BY <1>3, <1>4, <1>5
<1>8. NextFragment(snd).seq = snd.outgoingSequence /\ PieceOf(NextFragment(snd), m)
  BY <1>1, <1>2, <1>4, FragmentIsPiece DEF NextFragment
<1> HIDE DEF last, len
<1>9. AfterNextFragment(snd) \in Senders
  BY <1>1, <1>6, <1>7 DEF IInv, SndType, Senders, AdvancedTo
<1>10. CASE last
  <2>1. AfterNextFragment(snd) =
            [outgoingSequence |-> snd.outgoingSequence + 1, unsentFragments |-> FALSE,
             unsentFragmentStart |-> start + len, unsent |-> m]
    BY <1>6, <1>10 DEF AdvancedTo
  <2>2. /\ ~AfterNextFragment(snd).unsentFragments
        /\ AfterNextFragment(snd).outgoingSequence = Len(sent) + 1
        /\ AfterNextFragment(snd).unsentFragmentStart = start + len
    BY <1>1, <2>1
  <2> QED
    BY <1>1, <1>7, <1>8, <1>9, <2>2
<1>11. CASE ~last
  <2>1. AfterNextFragment(snd) =
            [outgoingSequence |-> snd.outgoingSequence, unsentFragments |-> TRUE,
             unsentFragmentStart |-> start + len, unsent |-> m]
    BY <1>6, <1>11 DEF AdvancedTo
  <2>2. /\ AfterNextFragment(snd).unsentFragments
        /\ AfterNextFragment(snd).outgoingSequence = Len(sent)
        /\ AfterNextFragment(snd).unsentFragmentStart = start + len
        /\ AfterNextFragment(snd).unsent = m
    BY <1>1, <2>1
  <2> QED
    BY <1>1, <1>5, <1>7, <1>8, <1>9, <2>2
<1> QED
  BY <1>10, <1>11

\* What a step of the sender does to the invariant: the history only grows, and new
\* packets are pieces of numbered messages.
LEMMA SenderStep ==
    ASSUME IInv, sent' \in Seq(Messages), Len(sent) <= Len(sent'),
           \A s \in 1 .. Len(sent) : sent'[s] = sent[s],
           \A p \in net' \ net : p.seq \in 1 .. Len(sent') /\ PieceOf(p, sent'[p.seq]),
           SndType', SenderInv', UNCHANGED <<rcv, delivered>>
    PROVE  IInv'
<1>1. Len(sent) \in Nat /\ Len(sent') \in Nat
  BY DEF IInv
<1>2. PacketsInv'
  <2> SUFFICES ASSUME NEW p \in net'
               PROVE  p.seq \in 1 .. Len(sent') /\ PieceOf(p, sent'[p.seq])
    BY DEF PacketsInv, PieceOf
  <2>1. CASE p \in net
    BY <2>1, <1>1 DEF IInv, PacketsInv
  <2>2. CASE p \notin net
    BY <2>2
  <2> QED
    BY <2>1, <2>2
<1>3. ReassemblyInv'
  <2> SUFFICES ASSUME rcv.fragmentLength > 0
               PROVE  /\ rcv.fragmentSequence \in 1 .. Len(sent')
                      /\ PrefixOf(rcv, sent'[rcv.fragmentSequence])
    BY DEF ReassemblyInv, PrefixOf
  <2> QED
    BY <1>1 DEF IInv, ReassemblyInv
<1>4. DeliveryInv'
  <2>1. /\ rcv.incomingSequence \in Nat /\ rcv.incomingSequence <= Len(sent)
        /\ \A i \in 1 .. Len(delivered) :
                delivered[i].seq \in 1 .. Len(sent) /\ delivered[i].msg = sent[delivered[i].seq]
    BY <1>1 DEF IInv, DeliveryInv, RcvType, Receivers
  <2>2. \A i \in 1 .. Len(delivered) : delivered[i].msg = sent'[delivered[i].seq]
    BY <2>1
  <2>3. rcv.incomingSequence <= Len(sent')
    BY <1>1, <2>1
  <2> QED
    BY <2>2, <2>3 DEF IInv, DeliveryInv, DeliveredInOrder, Channel!Newest
<1>5. RcvType' /\ delivered' \in Seq([seq : Nat, msg : Messages])
  BY DEF IInv, RcvType, Receivers
<1> QED
  BY <1>2, <1>3, <1>4, <1>5 DEF IInv

\* ... when it starts a message, the one before having left completely;
LEMMA TransmitStep ==
    ASSUME IInv, NEW m \in Messages, ~snd.unsentFragments, Netchan_Transmit(m)
    PROVE  IInv' /\ Channel!Send
<1>1. /\ snd \in Senders /\ snd.outgoingSequence \in Nat \ {0}
      /\ snd.unsentFragments = FALSE
      /\ Len(sent) = snd.outgoingSequence - 1
      /\ sent \in Seq(Messages)
  BY DEF IInv, SndType, Senders, SenderInv
<1>2. /\ sent' \in Seq(Messages)
      /\ Len(sent') = snd.outgoingSequence
      /\ sent'[snd.outgoingSequence] = m
      /\ \A s \in 1 .. Len(sent) : sent'[s] = sent[s]
      /\ UNCHANGED <<rcv, delivered>>
  BY <1>1 DEF Netchan_Transmit
<1>3. SndType' /\ SenderInv'
  <2>1. snd' = AfterTransmit(snd, m)
    BY DEF Netchan_Transmit
  <2>2. /\ AfterTransmit(snd, m) \in Senders
        /\ AfterTransmit(snd, m).unsentFragmentStart <= MAX_MSGLEN
    BY <1>1, AfterTransmitFacts
  <2>3. CASE IsLong(m)
    <3>1. /\ snd'.unsentFragments
          /\ snd'.outgoingSequence = snd.outgoingSequence /\ snd'.unsent = m
          /\ snd'.unsentFragmentStart <= m.length
      BY <1>1, <2>1, <2>3, AfterTransmitFacts
    <3> QED
      BY <1>2, <2>1, <2>2, <3>1 DEF SndType, SenderInv
  <2>4. CASE ~IsLong(m)
    <3>1. ~snd'.unsentFragments /\ snd'.outgoingSequence = snd.outgoingSequence + 1
      BY <1>1, <2>1, <2>4, AfterTransmitFacts
    <3> QED
      BY <1>1, <1>2, <2>1, <2>2, <3>1 DEF SndType, SenderInv
  <2> QED
    BY <2>3, <2>4
<1>4. \A p \in net' \ net : p.seq \in 1 .. Len(sent') /\ PieceOf(p, sent'[p.seq])
  <2>1. FirstPacket(snd, m).seq = snd.outgoingSequence /\ PieceOf(FirstPacket(snd, m), m)
    BY <1>1, AfterTransmitFacts
  <2> QED
    BY <1>1, <1>2, <2>1 DEF Netchan_Transmit
<1>5. Len(sent) <= Len(sent')
  BY <1>1, <1>2
<1>6. IInv'
  BY <1>1, <1>2, <1>3, <1>4, <1>5, SenderStep
<1>7. Channel!Send
  BY <1>1, <1>2 DEF Channel!Send
<1> QED
  BY <1>6, <1>7

\* ... and when it sends the next fragment.
LEMMA NextFragmentStep ==
    ASSUME IInv, snd.unsentFragments, Netchan_TransmitNextFragment
    PROVE  IInv'
<1>1. SndType' /\ SenderInv'
  BY AfterFragmentFacts DEF Netchan_TransmitNextFragment, SndType, SenderInv
<1>2. \A p \in net' \ net : p.seq \in 1 .. Len(sent') /\ PieceOf(p, sent'[p.seq])
  BY AfterFragmentFacts DEF Netchan_TransmitNextFragment
<1>3. /\ sent' \in Seq(Messages) /\ Len(sent) <= Len(sent')
      /\ \A s \in 1 .. Len(sent) : sent'[s] = sent[s]
      /\ UNCHANGED <<rcv, delivered>>
  BY DEF Netchan_TransmitNextFragment, IInv
<1> QED
  BY <1>1, <1>2, <1>3, SenderStep

-----------------------------------------------------------------------------
\* Handing up message s, newer than all before it.
LEMMA DeliverStep ==
    ASSUME IInv, NEW s \in 1 .. Len(sent), s > rcv.incomingSequence,
           rcv'.incomingSequence = s, sent' = sent,
           delivered' = Append(delivered, [seq |-> s, msg |-> sent[s]])
    PROVE  /\ delivered' \in Seq([seq : Nat, msg : Messages])
           /\ DeliveryInv'
           /\ Channel!Deliver(s)
<1> DEFINE new == [seq |-> s, msg |-> sent[s]]
<1>1. sent[s] \in Messages /\ s \in Nat
  BY DEF IInv
<1>2. new \in [seq : Nat, msg : Messages]
  BY <1>1
<1>3. delivered \in Seq([seq : Nat, msg : Messages])
  BY DEF IInv
<1>4. /\ delivered' \in Seq([seq : Nat, msg : Messages])
      /\ Len(delivered') = Len(delivered) + 1
      /\ \A i \in 1 .. Len(delivered) : delivered'[i] = delivered[i]
      /\ delivered'[Len(delivered) + 1] = new
      /\ delivered' # <<>>
  BY <1>2, <1>3
<1>5. /\ rcv.incomingSequence = Channel!Newest
      /\ rcv.incomingSequence \in Nat
      /\ Len(delivered) \in Nat
      /\ \A i \in 1 .. Len(delivered) :
            /\ delivered[i].seq \in 1 .. rcv.incomingSequence
            /\ delivered[i].msg = sent[delivered[i].seq]
      /\ DeliveredInOrder
  BY <1>3 DEF IInv, DeliveryInv, RcvType, Receivers
<1>6. Channel!Newest' = s
  BY <1>4, <1>5 DEF Channel!Newest
<1>7. \A i \in 1 .. Len(delivered') :
            /\ delivered'[i].seq \in 1 .. s
            /\ delivered'[i].msg = sent'[delivered'[i].seq]
  <2> SUFFICES ASSUME NEW i \in 1 .. Len(delivered')
               PROVE  /\ delivered'[i].seq \in 1 .. s
                      /\ delivered'[i].msg = sent[delivered'[i].seq]
    OBVIOUS
  <2>1. CASE i \in 1 .. Len(delivered)
    BY <2>1, <1>4, <1>5
  <2>2. CASE i = Len(delivered) + 1
    BY <2>2, <1>1, <1>4
  <2> QED
    BY <2>1, <2>2, <1>4, <1>5
<1>8. DeliveredInOrder'
  <2> SUFFICES ASSUME NEW i \in 1 .. Len(delivered'),
                      NEW j \in 1 .. Len(delivered'), i < j
               PROVE  delivered'[i].seq < delivered'[j].seq
    BY <1>4 DEF DeliveredInOrder
  <2>1. i \in 1 .. Len(delivered)
    BY <1>4, <1>5
  <2>2. CASE j \in 1 .. Len(delivered)
    BY <2>1, <2>2, <1>3, <1>4, <1>5 DEF DeliveredInOrder
  <2>3. CASE j = Len(delivered) + 1
    BY <2>1, <2>3, <1>1, <1>4, <1>5
  <2>4. Len(delivered) \in Nat /\ Len(delivered') = Len(delivered) + 1
    BY <1>4, <1>5
  <2> QED
    BY <2>2, <2>3, <2>4
<1>9. DeliveryInv'
  BY <1>4, <1>6, <1>7, <1>8 DEF DeliveryInv, Channel!Newest
<1>10. Channel!Deliver(s)
  BY <1>5 DEF Channel!Deliver
<1> QED
  BY <1>4, <1>9, <1>10

\* A packet of the network, against the message it belongs to.
LEMMA PacketFacts ==
    ASSUME IInv, NEW p \in net
    PROVE  /\ p.seq \in 1 .. Len(sent)
           /\ PieceOf(p, sent[p.seq])
           /\ sent[p.seq] \in Messages
           /\ sent[p.seq].length \in 0 .. MAX_MSGLEN
           /\ sent[p.seq].data \in [0 .. sent[p.seq].length - 1 -> Byte]
           /\ sent[p.seq] =
                [length |-> sent[p.seq].length, data |-> sent[p.seq].data]
           /\ Len(sent) \in Nat
<1>1. p.seq \in 1 .. Len(sent) /\ PieceOf(p, sent[p.seq])
  BY DEF IInv, PacketsInv
<1>2. sent \in Seq(Messages)
  BY DEF IInv
<1>3. sent[p.seq] \in Messages
  BY <1>1, <1>2
<1> QED
  BY <1>1, <1>2, <1>3, MessageFacts

\* Before fragment p is looked at, the buffer holds a prefix of its message.
LEMMA OpenFacts ==
    ASSUME IInv, NEW p \in net
    PROVE  /\ OpenLength(p) \in Nat
           /\ OpenLength(p) <= MAX_MSGLEN
           /\ OpenLength(p) <= sent[p.seq].length
           /\ \A i \in 0 .. OpenLength(p) - 1 :
                rcv.fragmentBuffer[i] = sent[p.seq].data[i]
<1>1. rcv.fragmentLength \in Nat /\ rcv.fragmentLength <= MAX_MSGLEN
  BY DEF IInv, RcvType, Receivers
<1>2. sent[p.seq].length \in 0 .. MAX_MSGLEN
  BY PacketFacts
<1>3. CASE p.seq = rcv.fragmentSequence /\ rcv.fragmentLength > 0
  <2>1. PrefixOf(rcv, sent[p.seq])
    BY <1>3 DEF IInv, ReassemblyInv
  <2> QED
    BY <1>1, <1>3, <2>1 DEF OpenLength, PrefixOf
<1>4. CASE ~(p.seq = rcv.fragmentSequence /\ rcv.fragmentLength > 0)
  <2>1. OpenLength(p) = 0
    BY <1>1, <1>4 DEF OpenLength
  <2>2. \A i \in 0 .. OpenLength(p) - 1 : FALSE
    BY <2>1
  <2> QED
    BY <2>1, <2>2, <1>1, <1>2, SizeAssumption
<1> QED
  BY <1>3, <1>4

\* After it has been glued, the buffer holds a longer prefix; the fragment
\* always fits, so the branch for an "illegal fragment length" is never taken
\* for a packet the peer sent.
LEMMA GluedFacts ==
    ASSUME IInv, NEW p \in net, p.fragmented, p.start = OpenLength(p)
    PROVE  /\ Fits(p)
           /\ OpenLength(p) + p.len <= sent[p.seq].length
           /\ Glued(p) \in [0 .. MAX_MSGLEN - 1 -> Byte]
           /\ \A i \in 0 .. OpenLength(p) + p.len - 1 :
                Glued(p)[i] = sent[p.seq].data[i]
<1> DEFINE m == sent[p.seq]
           n == OpenLength(p)
<1>1. /\ m.length \in 0 .. MAX_MSGLEN
      /\ m.data \in [0 .. m.length - 1 -> Byte]
  BY PacketFacts
<1>2. /\ p.len \in Nat
      /\ n + p.len <= m.length
      /\ \A i \in 0 .. p.len - 1 : p.data[i] = m.data[n + i]
  <2>1. PieceOf(p, m)
    BY PacketFacts
  <2> HIDE DEF m, n
  <2>2. p.start = n
    BY DEF n
  <2> QED
    BY <2>1, <2>2 DEF PieceOf
<1>3. n \in Nat /\ \A i \in 0 .. n - 1 : rcv.fragmentBuffer[i] = m.data[i]
  BY OpenFacts
<1>4. rcv.fragmentBuffer \in [0 .. MAX_MSGLEN - 1 -> Byte]
  BY DEF IInv, RcvType, Receivers
<1> HIDE DEF m, n
<1>5. Glued(p) = [i \in 0 .. MAX_MSGLEN - 1 |->
                    IF i \in n .. n + p.len - 1
                    THEN p.data[i - n] ELSE rcv.fragmentBuffer[i]]
  BY DEF Glued, n
<1>6. \A i \in n .. n + p.len - 1 : p.data[i - n] = m.data[i]
  <2> SUFFICES ASSUME NEW i \in n .. n + p.len - 1
               PROVE  p.data[i - n] = m.data[i]
    OBVIOUS
  <2>1. i - n \in 0 .. p.len - 1 /\ n + (i - n) = i
    BY <1>2, <1>3
  <2> QED
    BY <2>1, <1>2
<1>7. n + p.len <= MAX_MSGLEN
  BY <1>1, <1>2, <1>3, SizeAssumption
<1>8. Glued(p) \in [0 .. MAX_MSGLEN - 1 -> Byte]
  <2>1. \A i \in n .. n + p.len - 1 : p.data[i - n] \in Byte
    <3> SUFFICES ASSUME NEW i \in n .. n + p.len - 1
                 PROVE  p.data[i - n] \in Byte
      OBVIOUS
    <3>1. i \in 0 .. m.length - 1
      BY <1>1, <1>2, <1>3
    <3> QED
      BY <3>1, <1>1, <1>6
  <2> QED
    BY <2>1, <1>4, <1>5
<1>9. \A i \in 0 .. n + p.len - 1 : Glued(p)[i] = m.data[i]
  <2> SUFFICES ASSUME NEW i \in 0 .. n + p.len - 1
               PROVE  Glued(p)[i] = m.data[i]
    OBVIOUS
  <2>1. i \in 0 .. MAX_MSGLEN - 1
    BY <1>2, <1>3, <1>7, SizeAssumption
  <2>2. CASE i \in n .. n + p.len - 1
    BY <2>1, <2>2, <1>5, <1>6
  <2>3. CASE i \in 0 .. n - 1
    BY <2>1, <2>3, <1>2, <1>3, <1>5
  <2> QED
    BY <2>2, <2>3, <1>2, <1>3
<1> QED
  BY <1>2, <1>7, <1>8, <1>9 DEF Fits, m, n

LEMMA WholeStep ==
    ASSUME IInv, NEW p \in net, ProcessWhole(p), UNCHANGED <<snd, net, sent>>
    PROVE  IInv' /\ Channel!Deliver(p.seq)
<1>1. /\ p.seq \in 1 .. Len(sent) /\ Len(sent) \in Nat
      /\ sent[p.seq] = [length |-> p.len, data |-> p.data]
  BY PacketFacts DEF PieceOf, ProcessWhole
<1>2. /\ p.seq > rcv.incomingSequence
      /\ rcv'.incomingSequence = p.seq
      /\ delivered' = Append(delivered, [seq |-> p.seq, msg |-> sent[p.seq]])
  BY <1>1 DEF ProcessWhole, Fresh
<1>3. /\ delivered' \in Seq([seq : Nat, msg : Messages])
      /\ DeliveryInv' /\ Channel!Deliver(p.seq)
  BY <1>1, <1>2, DeliverStep
<1>4. RcvType' /\ ReassemblyInv'
  BY <1>1, <1>2 DEF IInv, RcvType, Receivers, ReassemblyInv, PrefixOf,
                    ProcessWhole, DroppedBefore
<1>5. SndType' /\ SenderInv' /\ PacketsInv' /\ sent' \in Seq(Messages)
  BY DEF IInv, SndType, SenderInv, PacketsInv, PieceOf
<1> QED
  BY <1>3, <1>4, <1>5 DEF IInv

\* The steps that hand nothing up.
LEMMA QuietStep ==
    ASSUME IInv, NEW p \in net, UNCHANGED <<snd, net, sent, delivered>>,
           ProcessGap(p) \/ ProcessFragment(p)
    PROVE  IInv'
<1>1. /\ p.seq \in 1 .. Len(sent) /\ Len(sent) \in Nat
      /\ p.seq > rcv.incomingSequence
      /\ rcv.incomingSequence \in Nat
      /\ rcv.fragmentBuffer \in [0 .. MAX_MSGLEN - 1 -> Byte]
      /\ p.len \in Nat
  BY PacketFacts DEF PieceOf, ProcessGap, ProcessFragment, NextInOrder, Fresh,
                     IInv, RcvType, Receivers
<1>2. /\ rcv'.incomingSequence = rcv.incomingSequence
      /\ RcvType' /\ ReassemblyInv'
  <2>1. CASE ProcessGap(p)
    <3>1. RcvType'
      BY <2>1, <1>1, OpenFacts DEF ProcessGap, RcvType, Receivers, DroppedBefore
    <3>2. PrefixOf(rcv', sent[p.seq])
      BY <2>1, OpenFacts DEF ProcessGap, PrefixOf
    <3> QED
      BY <2>1, <3>1, <3>2, <1>1 DEF ProcessGap, ReassemblyInv, PrefixOf
  <2>2. CASE ProcessFragment(p)
    <3>1. /\ Fits(p) /\ OpenLength(p) + p.len <= sent[p.seq].length
          /\ Glued(p) \in [0 .. MAX_MSGLEN - 1 -> Byte]
          /\ \A i \in 0 .. OpenLength(p) + p.len - 1 :
                Glued(p)[i] = sent[p.seq].data[i]
      BY <2>2, GluedFacts DEF ProcessFragment, NextInOrder
    <3>2. RcvType'
      BY <2>2, <1>1, <3>1, OpenFacts
         DEF ProcessFragment, RcvType, Receivers, DroppedBefore, Fits
    <3>3. PrefixOf(rcv', sent[p.seq])
      <4>1. /\ rcv'.fragmentLength = OpenLength(p) + p.len
            /\ rcv'.fragmentBuffer = Glued(p)
        BY <2>2 DEF ProcessFragment
      <4> QED
        BY <4>1, <3>1, <1>1, OpenFacts DEF PrefixOf
    <3> QED
      BY <2>2, <3>2, <3>3, <1>1 DEF ProcessFragment, ReassemblyInv, PrefixOf
  <2> QED
    BY <2>1, <2>2
<1>3. DeliveryInv' /\ delivered' \in Seq([seq : Nat, msg : Messages])
  BY <1>2 DEF IInv, DeliveryInv, DeliveredInOrder, Channel!Newest
<1>4. SndType' /\ SenderInv' /\ PacketsInv' /\ sent' \in Seq(Messages)
  BY DEF IInv, SndType, SenderInv, PacketsInv, PieceOf
<1> QED
  BY <1>2, <1>3, <1>4 DEF IInv

LEMMA LastFragmentStep ==
    ASSUME IInv, NEW p \in net, ProcessLastFragment(p),
           UNCHANGED <<snd, net, sent>>
    PROVE  IInv' /\ Channel!Deliver(p.seq)
<1> DEFINE m == sent[p.seq]
           n == OpenLength(p) + p.len
<1>1. /\ p.seq \in 1 .. Len(sent) /\ Len(sent) \in Nat
      /\ p.seq > rcv.incomingSequence
      /\ p.fragmented /\ p.start = OpenLength(p) /\ p.len # FRAGMENT_SIZE
  BY PacketFacts DEF ProcessLastFragment, NextInOrder, Fresh
<1>2. /\ Glued(p) \in [0 .. MAX_MSGLEN - 1 -> Byte]
      /\ \A i \in 0 .. OpenLength(p) + p.len - 1 :
            Glued(p)[i] = sent[p.seq].data[i]
  <2>1. p.fragmented /\ p.start = OpenLength(p)
    BY <1>1
  <2> HIDE DEF m, n
  <2> QED
    BY <2>1, GluedFacts
<1>3. n = m.length
  BY <1>1, PacketFacts DEF PieceOf
<1>4. [length |-> n, data |-> [i \in 0 .. n - 1 |-> Glued(p)[i]]] = m
  <2>1. /\ m.data \in [0 .. m.length - 1 -> Byte]
        /\ m = [length |-> m.length, data |-> m.data]
    BY PacketFacts
  <2>2. [i \in 0 .. n - 1 |-> Glued(p)[i]] = m.data
    <3> HIDE DEF m, n
    <3>1. OpenLength(p) \in Nat /\ p.len \in Nat
      BY OpenFacts, PacketFacts DEF PieceOf
    <3>2. \A i \in 0 .. n - 1 : Glued(p)[i] = m.data[i]
      BY <1>2, <3>1 DEF m, n
    <3> QED
      BY <2>1, <3>2, <1>3
  <2> QED
    BY <2>1, <2>2, <1>3
<1>5. /\ rcv'.incomingSequence = p.seq
      /\ delivered' = Append(delivered, [seq |-> p.seq, msg |-> m])
  BY <1>4 DEF ProcessLastFragment
<1>6. /\ delivered' \in Seq([seq : Nat, msg : Messages])
      /\ DeliveryInv' /\ Channel!Deliver(p.seq)
  BY <1>1, <1>5, DeliverStep
<1>7. RcvType' /\ ReassemblyInv'
  <2> HIDE DEF m, n
  <2>1. rcv' = [incomingSequence |-> p.seq, dropped |-> DroppedBefore(p),
                fragmentSequence |-> p.seq, fragmentLength |-> 0,
                fragmentBuffer |-> Glued(p)]
    BY DEF ProcessLastFragment
  <2>2. p.seq \in Nat /\ DroppedBefore(p) \in Nat
    BY <1>1 DEF IInv, RcvType, Receivers, DroppedBefore
  <2>3. 0 \in 0 .. MAX_MSGLEN /\ Glued(p) \in [0 .. MAX_MSGLEN - 1 -> Byte]
    BY <1>2, SizeAssumption
  <2>4. RcvType'
    BY <2>1, <2>2, <2>3 DEF RcvType, Receivers
  <2>5. ReassemblyInv'
    BY <2>1 DEF ReassemblyInv
  <2> QED
    BY <2>4, <2>5
<1>8. SndType' /\ SenderInv' /\ PacketsInv' /\ sent' \in Seq(Messages)
  BY DEF IInv, SndType, SenderInv, PacketsInv, PieceOf
<1> QED
  BY <1>6, <1>7, <1>8 DEF IInv

\* Netchan_Process hands a message up or nothing.
LEMMA ProcessStep ==
    ASSUME IInv, NEW p \in net, Netchan_Process(p)
    PROVE  IInv' /\ (Channel!Next \/ UNCHANGED <<sent, delivered>>)
<1>1. CASE ProcessWhole(p) \/ ProcessLastFragment(p)
  <2>1. IInv' /\ Channel!Deliver(p.seq)
    BY <1>1, WholeStep, LastFragmentStep DEF Netchan_Process
  <2>2. p.seq \in 1 .. Len(sent)
    BY PacketFacts
  <2> QED
    BY <2>1, <2>2 DEF Channel!Next
<1>2. CASE ProcessGap(p) \/ ProcessFragment(p)
  BY <1>2, QuietStep DEF Netchan_Process, ProcessGap, ProcessFragment
<1> QED
  BY <1>1, <1>2 DEF Netchan_Process

LEMMA StutterStep == IInv /\ UNCHANGED vars => IInv'
<1> SUFFICES ASSUME IInv, UNCHANGED vars PROVE IInv'
  OBVIOUS
<1>1. RcvType' /\ SndType' /\ SenderInv' /\ PacketsInv' /\ ReassemblyInv'
  BY DEF IInv, vars, RcvType, SndType, SenderInv, PacketsInv, PieceOf,
         ReassemblyInv, PrefixOf
<1>2. DeliveryInv'
  BY DEF IInv, vars, DeliveryInv, DeliveredInOrder, Channel!Newest
<1> QED
  BY <1>1, <1>2 DEF IInv, vars

\* Every step, and a stutter, keeps it.
LEMMA NextIInv == IInv /\ [Next]_vars => IInv'
<1> SUFFICES ASSUME IInv, [Next]_vars PROVE IInv'
  OBVIOUS
<1>1. CASE \E m \in Messages : Send(m)
  BY <1>1, TransmitStep DEF Send
<1>2. CASE SendNextFragment
  BY <1>2, NextFragmentStep DEF SendNextFragment
<1>3. CASE \E p \in net : Netchan_Process(p)
  BY <1>3, ProcessStep
<1>4. CASE UNCHANGED vars
  BY <1>4, StutterStep
<1> QED
  BY <1>1, <1>2, <1>3, <1>4 DEF Next

\* The inductive invariant holds in every behaviour.
LEMMA Invariant == Spec => []IInv
  BY InitIInv, NextIInv, PTL DEF Spec

-----------------------------------------------------------------------------
LEMMA IInvTypeOK == IInv => TypeOK
<1> SUFFICES ASSUME IInv PROVE TypeOK
  OBVIOUS
<1>1. ASSUME NEW p \in net PROVE p.seq \in Nat /\ p.len \in 0 .. MAX_MSGLEN
  <2>1. /\ p.seq \in Nat /\ p.len \in Nat
        /\ sent[p.seq].length \in Nat /\ sent[p.seq].length <= MAX_MSGLEN
    <3>1. p.len \in Nat
      BY PacketFacts DEF PieceOf
    <3>2. p.seq \in Nat
      <4>1. p.seq \in 1 .. Len(sent) /\ Len(sent) \in Nat
        BY PacketFacts
      <4> QED
        BY <4>1
    <3>3. sent[p.seq].length \in 0 .. MAX_MSGLEN
      BY PacketFacts
    <3> QED
      BY <3>1, <3>2, <3>3, SizeAssumption
  <2>2. CASE p.fragmented
    <3>1. p.start \in Nat /\ p.start + p.len <= sent[p.seq].length
      BY <2>2, PacketFacts DEF PieceOf
    <3> QED
      BY <3>1, <2>1, SizeAssumption
  <2>3. CASE ~p.fragmented
    BY <2>1, <2>3, PacketFacts, SizeAssumption DEF PieceOf
  <2> QED
    BY <2>2, <2>3
<1> QED
  BY <1>1 DEF IInv, TypeOK

\* netchan_t keeps its shape: no length or offset ever leaves the buffers of
\* MAX_MSGLEN bytes, whatever arrives.
THEOREM TypeCorrect == Spec => []TypeOK
<1> QED
  BY IInvTypeOK, Invariant, PTL

\* Every message handed up is byte for byte the one that was given its number.
THEOREM Intact == Spec => []DeliveredIntact
<1>1. IInv => DeliveredIntact
  <2> SUFFICES ASSUME IInv, NEW i \in DOMAIN delivered
               PROVE  /\ delivered[i].seq \in DOMAIN sent
                      /\ delivered[i].msg = sent[delivered[i].seq]
    BY DEF DeliveredIntact
  <2>1. /\ DOMAIN delivered = 1 .. Len(delivered)
        /\ DOMAIN sent = 1 .. Len(sent) /\ Len(sent) \in Nat
    BY DEF IInv
  <2>2. /\ rcv.incomingSequence \in Nat /\ rcv.incomingSequence <= Len(sent)
        /\ delivered[i].seq \in 1 .. rcv.incomingSequence
        /\ delivered[i].msg = sent[delivered[i].seq]
    BY <2>1 DEF IInv, DeliveryInv, RcvType, Receivers
  <2> QED
    BY <2>1, <2>2
<1> QED
  BY <1>1, Invariant, PTL

\* Messages are handed up in order and at most once.
THEOREM InOrder == Spec => []DeliveredInOrder
<1>1. IInv => DeliveredInOrder
  BY DEF IInv, DeliveryInv
<1> QED
  BY <1>1, Invariant, PTL

\* Netchan implements MessageChannel: sending a message is Send, the packet
\* that completes one is Deliver, and every other step changes nothing there.
THEOREM Refinement == Spec => ImplementsChannel
<1>1. Init => Channel!Init
  BY DEF Init, Channel!Init
<1>2. IInv /\ [Next]_vars => [Channel!Next]_(Channel!vars)
  <2> SUFFICES ASSUME IInv, [Next]_vars
               PROVE  Channel!Next \/ UNCHANGED <<sent, delivered>>
    BY DEF Channel!vars
  <2>1. CASE \E m \in Messages : Send(m)
    BY <2>1, TransmitStep DEF Send, Channel!Next
  <2>2. CASE SendNextFragment
    BY <2>2 DEF SendNextFragment, Netchan_TransmitNextFragment
  <2>3. ASSUME NEW p \in net, Netchan_Process(p)
        PROVE  Channel!Next \/ UNCHANGED <<sent, delivered>>
    BY <2>3, ProcessStep
  <2>4. CASE UNCHANGED vars
    BY <2>4 DEF vars
  <2> QED
    BY <2>1, <2>2, <2>3, <2>4 DEF Next
<1> QED
  BY <1>1, <1>2, Invariant, PTL DEF Spec, ImplementsChannel, Channel!Spec

-----------------------------------------------------------------------------
(***************************************************************************)
(* The queue of SvNetchan in front of the channel, for every number and    *)
(* length of messages made for a client: none is forgotten or sent twice,  *)
(* their order is kept unless SV_Netchan_Transmit emitted a last fragment  *)
(* itself, and the channel under the queue is still a MessageChannel.      *)
(*                                                                         *)
(* The channel's own invariant holds here too, where several messages are  *)
(* numbered in one step.  To it comes that the queue is in order, that     *)
(* what is in it has not been thrown away, and that, as long as the order  *)
(* holds, all that is queued is newer than what was sent.                  *)
(***************************************************************************)

Entries == [id : 1 .. MaxSubmitted, msg : Messages]

QueueType ==
    /\ queue \in Seq(Entries)
    /\ submitted \in 0 .. MaxSubmitted
    /\ sentIds \in Seq(1 .. MaxSubmitted)
    /\ freed \subseteq 1 .. submitted
    /\ cornered \in BOOLEAN

\* The queue is in order, and what is in it was not thrown away.
QueueInv ==
    /\ \A i, j \in 1 .. Len(queue) : i < j => queue[i].id < queue[j].id
    /\ \A k \in 1 .. Len(queue) : queue[k].id <= submitted /\ queue[k].id \notin freed

\* What was sent is older than what is made next, and than what is queued.
OrderInv ==
    /\ \A i \in 1 .. Len(sentIds) : sentIds[i] <= submitted
    /\ ~cornered =>
        /\ SentInOrder
        /\ \A i \in 1 .. Len(sentIds) : \A k \in 1 .. Len(queue) : sentIds[i] < queue[k].id
        /\ queue # <<>> => snd.unsentFragments

SVInv == IInv /\ QueueType /\ QueueInv /\ OrderInv /\ NoneForgotten

-----------------------------------------------------------------------------
\* A set of numbers has a least one, for less than is well-founded.
LEMMA LeastExists ==
    ASSUME NEW S \in SUBSET Nat, S # {}
    PROVE  \E s \in S : \A t \in S : s <= t
<1>1. PICK s \in S : \A t \in S : ~ (<<t, s>> \in OpToRel(<, Nat))
  BY NatLessThanWellFounded, WFMin, Zenon
<1>2. ASSUME NEW t \in S, t < s PROVE <<t, s>> \in OpToRel(<, Nat)
  BY <1>2, Zenon DEF OpToRel
<1>3. \A t \in S : ~(t < s)
  BY <1>1, <1>2
<1> QED
  BY <1>3

LEMMA InitSVInv == SVInit => SVInv
<1> SUFFICES ASSUME SVInit PROVE SVInv
  OBVIOUS
<1> USE SubmittedAssumption DEF SVInit
<1>1. IInv
  BY InitIInv
<1>2. QueueType
  <2>1. queue \in Seq(Entries) /\ sentIds \in Seq(1 .. MaxSubmitted)
    OBVIOUS
  <2>2. submitted \in 0 .. MaxSubmitted /\ freed \subseteq 1 .. submitted
    OBVIOUS
  <2> QED
    BY <2>1, <2>2 DEF QueueType
<1>3. QueueInv
  BY DEF QueueInv
<1>4. OrderInv
  BY DEF OrderInv, SentInOrder
<1>5. NoneForgotten
  BY FS_EmptySet DEF NoneForgotten, ToSet
<1> QED
  BY <1>1, <1>2, <1>3, <1>4, <1>5 DEF SVInv

\* The loop of SV_Netchan_TransmitNextFragment pops up to the first long message.
LEMMA PopCountFacts ==
    ASSUME NEW q \in Seq(Entries)
    PROVE  /\ PopCount(q) \in 0 .. Len(q)
           /\ PopCount(q) < Len(q) => PopCount(q) > 0 /\ IsLong(q[PopCount(q)].msg)
           /\ \A k \in 1 .. Len(q) : k < PopCount(q) => ~IsLong(q[k].msg)
<1> DEFINE long == { k \in DOMAIN q : IsLong(q[k].msg) }
<1>1. DOMAIN q = 1 .. Len(q) /\ Len(q) \in Nat
  OBVIOUS
<1>2. long \subseteq 1 .. Len(q) /\ \A k \in long : IsLong(q[k].msg)
  BY <1>1
<1>3. \A k \in 1 .. Len(q) : IsLong(q[k].msg) => k \in long
  BY <1>1
<1>4. PopCount(q) = IF long = {} THEN Len(q) ELSE CHOOSE k \in long : \A j \in long : k <= j
  BY DEF PopCount
<1> HIDE DEF long
<1>5. CASE long = {}
  BY <1>1, <1>3, <1>4, <1>5
<1>6. CASE long # {}
  <2>1. long \in SUBSET Nat
    BY <1>1, <1>2
  <2>2. PopCount(q) \in long /\ \A j \in long : PopCount(q) <= j
    BY <1>4, <1>6, <2>1, LeastExists
  <2>3. PopCount(q) \in 1 .. Len(q) /\ IsLong(q[PopCount(q)].msg)
    BY <1>2, <2>2
  <2>4. \A k \in 1 .. Len(q) : k < PopCount(q) => ~IsLong(q[k].msg)
    BY <1>3, <2>2, <2>3
  <2> QED
    BY <1>1, <2>3, <2>4
<1> QED
  BY <1>5, <1>6

\* The channel between two pops, and the packet of the message popped next.
LEMMA ChannelAtFacts ==
    ASSUME NEW c \in Senders, c.unsentFragments = FALSE, NEW n \in Nat
    PROVE  /\ ChannelAt(c, n) \in Senders
           /\ ChannelAt(c, n).unsentFragments = FALSE
           /\ ChannelAt(c, n).outgoingSequence = c.outgoingSequence + n
<1>1. CASE n = 0
  BY <1>1 DEF ChannelAt, Senders
<1>2. CASE n # 0
  <2>1. ChannelAt(c, n) = [outgoingSequence |-> c.outgoingSequence + n,
                           unsentFragments |-> FALSE,
                           unsentFragmentStart |-> 0, unsent |-> c.unsent]
    BY <1>2 DEF ChannelAt, Senders
  <2> QED
    BY <2>1 DEF Senders
<1> QED
  BY <1>1, <1>2

-----------------------------------------------------------------------------
(* The queue. *)

LEMMA QueueFacts ==
    ASSUME QueueType
    PROVE  /\ Len(queue) \in Nat /\ DOMAIN queue = 1 .. Len(queue)
           /\ \A k \in 1 .. Len(queue) :
                queue[k].id \in 1 .. MaxSubmitted /\ queue[k].msg \in Messages
           /\ Len(sentIds) \in Nat /\ DOMAIN sentIds = 1 .. Len(sentIds)
           /\ \A i \in 1 .. Len(sentIds) : sentIds[i] \in 1 .. MaxSubmitted
           /\ submitted \in Nat
<1>1. queue \in Seq(Entries) /\ sentIds \in Seq(1 .. MaxSubmitted) /\ submitted \in Nat
  BY SubmittedAssumption DEF QueueType
<1>2. \A k \in 1 .. Len(queue) : queue[k] \in Entries
  BY <1>1
<1>3. \A k \in 1 .. Len(queue) : queue[k].id \in 1 .. MaxSubmitted /\ queue[k].msg \in Messages
  BY <1>2 DEF Entries
<1>4. /\ Len(queue) \in Nat /\ DOMAIN queue = 1 .. Len(queue)
      /\ Len(sentIds) \in Nat /\ DOMAIN sentIds = 1 .. Len(sentIds)
  BY <1>1
<1>5. \A i \in 1 .. Len(sentIds) : sentIds[i] \in 1 .. MaxSubmitted
  <2> DEFINE S == 1 .. MaxSubmitted
  <2>1. sentIds \in Seq(S)
    BY <1>1
  <2> HIDE DEF S
  <2>2. \A i \in 1 .. Len(sentIds) : sentIds[i] \in S
    BY <2>1
  <2> QED
    BY <2>2 DEF S
<1> QED
  BY <1>1, <1>3, <1>4, <1>5

\* Nothing is counted twice when what is queued is thrown away.
LEMMA QueueIsCounted ==
    ASSUME SVInv
    PROVE  LET ids == { queue[k].id : k \in DOMAIN queue }
           IN  /\ IsFiniteSet(ids) /\ Cardinality(ids) = Len(queue)
               /\ IsFiniteSet(freed) /\ Cardinality(freed) \in Nat
               /\ Cardinality(freed \cup ids) = Cardinality(freed) + Len(queue)
<1> DEFINE ids == { queue[k].id : k \in DOMAIN queue }
           id == [k \in 1 .. Len(queue) |-> queue[k].id]
<1>1. /\ Len(queue) \in Nat /\ DOMAIN queue = 1 .. Len(queue)
      /\ \A k \in 1 .. Len(queue) : queue[k].id \in 1 .. MaxSubmitted
  BY QueueFacts DEF SVInv
<1>2. id \in Surjection(1 .. Len(queue), ids)
  BY <1>1 DEF Surjection
<1>3. id \in Injection(1 .. Len(queue), ids)
  <2>1. ASSUME NEW i \in 1 .. Len(queue), NEW j \in 1 .. Len(queue), id[i] = id[j]
        PROVE  i = j
    <3>1. queue[i].id = queue[j].id /\ queue[i].id \in 1 .. MaxSubmitted
      BY <1>1, <2>1
    <3>2. ~(i < j) /\ ~(j < i)
      BY <3>1 DEF SVInv, QueueInv
    <3> QED
      BY <1>1, <3>2
  <2>2. id \in [1 .. Len(queue) -> ids]
    BY <1>2 DEF Surjection
  <2> HIDE DEF id, ids
  <2> QED
    BY <2>1, <2>2 DEF Injection, IsInjective
<1>4. IsFiniteSet(ids) /\ Cardinality(ids) = Len(queue)
  <2>1. IsFiniteSet(1 .. Len(queue)) /\ Cardinality(1 .. Len(queue)) = Len(queue)
    <3>1. /\ IsFiniteSet(1 .. Len(queue))
          /\ Cardinality(1 .. Len(queue)) =
                IF 1 > Len(queue) THEN 0 ELSE Len(queue) - 1 + 1
      BY <1>1, FS_Interval
    <3> QED
      BY <1>1, <3>1
  <2> HIDE DEF id, ids
  <2> QED
    BY <1>2, <1>3, <2>1, FS_Surjection
<1>5. IsFiniteSet(freed) /\ Cardinality(freed) \in Nat
  <2>1. IsFiniteSet(1 .. submitted)
    BY FS_Interval DEF SVInv, QueueType
  <2> QED
    BY <2>1, FS_Subset, FS_CardinalityType DEF SVInv, QueueType
<1>6. freed \cap ids = {}
  BY <1>1 DEF SVInv, QueueInv
<1>7. Cardinality(freed \cup ids) = Cardinality(freed) + Len(queue)
  <2>1. Cardinality(freed \cup ids) =
            Cardinality(freed) + Cardinality(ids) - Cardinality(freed \cap ids)
    BY <1>4, <1>5, FS_Union
  <2> HIDE DEF ids
  <2>2. Cardinality(freed \cap ids) = 0
    BY <1>6, FS_EmptySet
  <2> QED
    BY <1>1, <1>4, <1>5, <2>1, <2>2
<1> QED
  BY <1>4, <1>5, <1>7

\* The first n messages of the queue are numbered.
LEMMA PopsKeepIds ==
    ASSUME SVInv, NEW n \in 0 .. Len(queue),
           sentIds' = sentIds \o [k \in 1 .. n |-> queue[k].id],
           queue' = SubSeq(queue, n + 1, Len(queue)),
           queue' # <<>> => snd'.unsentFragments,
           UNCHANGED <<submitted, freed, cornered>>
    PROVE  QueueType' /\ QueueInv' /\ OrderInv' /\ NoneForgotten'
<1> DEFINE popped == [k \in 1 .. n |-> queue[k].id]
           a == Len(sentIds)
           b == Len(queue)
<1>1. /\ a \in Nat /\ b \in Nat /\ n \in Nat /\ n <= b
      /\ queue \in Seq(Entries) /\ sentIds \in Seq(1 .. MaxSubmitted)
      /\ submitted \in Nat
  BY DEF SVInv, QueueType
<1>2. \A k \in 1 .. b : queue[k].id \in 1 .. MaxSubmitted
  BY QueueFacts DEF SVInv
<1>3. popped \in Seq(1 .. MaxSubmitted) /\ Len(popped) = n
  BY <1>1, <1>2
<1>4. /\ sentIds' \in Seq(1 .. MaxSubmitted) /\ Len(sentIds') = a + n
      /\ \A i \in 1 .. a : sentIds'[i] = sentIds[i]
      /\ \A i \in 1 .. n : sentIds'[a + i] = queue[i].id
  BY <1>1, <1>3
<1>5. /\ queue' \in Seq(Entries) /\ Len(queue') = b - n
      /\ \A k \in 1 .. b - n : queue'[k] = queue[k + n]
  BY <1>1
<1> HIDE DEF popped, a, b
<1>6. QueueType'
  BY <1>4, <1>5 DEF SVInv, QueueType
<1>7. QueueInv'
  <2>1. ASSUME NEW i \in 1 .. b - n, NEW j \in 1 .. b - n, i < j
        PROVE  queue'[i].id < queue'[j].id
    <3>1. i + n \in 1 .. b /\ j + n \in 1 .. b /\ i + n < j + n
      BY <1>1, <2>1
    <3> QED
      BY <1>5, <3>1 DEF SVInv, QueueInv, b
  <2>2. ASSUME NEW k \in 1 .. b - n
        PROVE  queue'[k].id <= submitted /\ queue'[k].id \notin freed
    <3>1. k + n \in 1 .. b
      BY <1>1
    <3> QED
      BY <1>5, <3>1 DEF SVInv, QueueInv, b
  <2> QED
    BY <1>5, <2>1, <2>2 DEF QueueInv
\* A place in sentIds' is one of sentIds or of what was popped.
<1>8. \A i \in 1 .. a + n :
        \/ i \in 1 .. a /\ sentIds'[i] = sentIds[i]
        \/ \E l \in 1 .. n : i = a + l /\ l \in 1 .. b /\ sentIds'[i] = queue[l].id
  <2> SUFFICES ASSUME NEW i \in 1 .. a + n, i \notin 1 .. a
               PROVE  \E l \in 1 .. n : i = a + l /\ l \in 1 .. b /\ sentIds'[i] = queue[l].id
    BY <1>4
  <2>1. PICK l \in 1 .. n : l = i - a
    BY <1>1
  <2>2. i = a + l /\ l \in 1 .. b
    BY <1>1, <2>1
  <2> QED
    BY <1>4, <2>2
<1>9. \A l \in 1 .. b - n : l + n \in 1 .. b /\ n < l + n /\ queue'[l] = queue[l + n]
  BY <1>1, <1>5
<1>10. /\ DOMAIN sentIds = 1 .. a /\ DOMAIN sentIds' = 1 .. a + n
       /\ DOMAIN queue = 1 .. b /\ DOMAIN queue' = 1 .. b - n
  BY <1>1, <1>4, <1>5 DEF a, b
<1>11. OrderInv'
  <2>1. ASSUME NEW i \in 1 .. a + n PROVE sentIds'[i] <= submitted
    BY <1>8 DEF SVInv, OrderInv, QueueInv, a, b
  <2>2. ASSUME ~cornered, NEW i \in 1 .. a + n, NEW j \in 1 .. a + n, i < j
        PROVE  sentIds'[i] < sentIds'[j]
    <3>1. CASE j \in 1 .. a
      <4>1. i \in 1 .. a
        BY <1>1, <2>2, <3>1
      <4> QED
        BY <1>4, <1>10, <2>2, <3>1, <4>1 DEF SVInv, OrderInv, SentInOrder
    <3>2. ASSUME i \in 1 .. a, NEW l \in 1 .. n, j = a + l, l \in 1 .. b, sentIds'[j] = queue[l].id
          PROVE  sentIds'[i] < sentIds'[j]
      BY <1>4, <2>2, <3>2 DEF SVInv, OrderInv, a, b
    <3>3. ASSUME NEW k \in 1 .. n, i = a + k, k \in 1 .. b, sentIds'[i] = queue[k].id,
                 NEW l \in 1 .. n, j = a + l, l \in 1 .. b, sentIds'[j] = queue[l].id
          PROVE  sentIds'[i] < sentIds'[j]
      <4>1. k < l
        BY <1>1, <2>2, <3>3
      <4> QED
        BY <3>3, <4>1 DEF SVInv, QueueInv, b
    <3>4. CASE i \notin 1 .. a /\ j \notin 1 .. a
      BY <1>8, <3>3, <3>4
    <3>5. CASE i \in 1 .. a /\ j \notin 1 .. a
      BY <1>8, <3>2, <3>5
    <3> QED
      BY <3>1, <3>4, <3>5
  <2>3. ASSUME ~cornered, NEW i \in 1 .. a + n, NEW k \in 1 .. b - n
        PROVE  sentIds'[i] < queue'[k].id
    <3>1. queue'[k] = queue[k + n] /\ k + n \in 1 .. b /\ n < k + n
      BY <1>9
    <3>2. CASE i \in 1 .. a
      BY <1>4, <2>3, <3>1, <3>2 DEF SVInv, OrderInv, a, b
    <3>3. ASSUME NEW l \in 1 .. n, l \in 1 .. b, sentIds'[i] = queue[l].id
          PROVE  sentIds'[i] < queue'[k].id
      <4>1. l < k + n
        BY <1>1, <3>1
      <4> QED
        BY <3>1, <3>3, <4>1 DEF SVInv, QueueInv, b
    <3> QED
      BY <1>8, <3>2, <3>3
  <2> QED
    BY <1>4, <1>5, <1>10, <2>1, <2>2, <2>3 DEF OrderInv, SentInOrder
<1>12. NoneForgotten'
  <2>1. { queue[k].id : k \in DOMAIN queue } \cup ToSet(sentIds) =
            { queue'[k].id : k \in DOMAIN queue' } \cup ToSet(sentIds')
    <3>1. ASSUME NEW k \in 1 .. b
          PROVE  \/ \E l \in 1 .. b - n : queue[k].id = queue'[l].id
                 \/ \E i \in 1 .. a + n : queue[k].id = sentIds'[i]
      <4>1. CASE k \in 1 .. n
        <5>1. a + k \in 1 .. a + n
          BY <1>1, <4>1
        <5> QED
          BY <1>4, <4>1, <5>1
      <4>2. CASE k \notin 1 .. n
        <5>1. PICK l \in 1 .. b - n : l = k - n
          BY <1>1, <4>2
        <5>2. l + n = k
          BY <1>1, <5>1
        <5> QED
          BY <1>9, <5>2
      <4> QED
        BY <4>1, <4>2
    <3>2. \A i \in 1 .. a : i \in 1 .. a + n /\ sentIds[i] = sentIds'[i]
      BY <1>1, <1>4
    <3> DEFINE before == { queue[k].id : k \in DOMAIN queue } \cup ToSet(sentIds)
               after == { queue'[k].id : k \in DOMAIN queue' } \cup ToSet(sentIds')
    <3>3. \A x : x \in before <=> \/ \E k \in 1 .. b : x = queue[k].id
                                \/ \E i \in 1 .. a : x = sentIds[i]
      BY <1>10, Zenon DEF ToSet
    <3>4. \A x : x \in after <=> \/ \E k \in 1 .. b - n : x = queue'[k].id
                               \/ \E i \in 1 .. a + n : x = sentIds'[i]
      BY <1>10, Zenon DEF ToSet
    <3> HIDE DEF before, after
    <3>5. before \subseteq after
      <4> SUFFICES ASSUME NEW x \in before PROVE x \in after
        OBVIOUS
      <4>1. CASE \E k \in 1 .. b : x = queue[k].id
        <5>1. PICK k \in 1 .. b : x = queue[k].id
          BY <4>1
        <5> QED
          BY <3>1, <3>4, <5>1, Zenon
      <4>2. CASE \E i \in 1 .. a : x = sentIds[i]
        BY <3>2, <3>4, <4>2, Zenon
      <4> QED
        BY <3>3, <4>1, <4>2, Zenon
    <3>6. after \subseteq before
      <4> SUFFICES ASSUME NEW x \in after PROVE x \in before
        OBVIOUS
      <4>1. CASE \E k \in 1 .. b - n : x = queue'[k].id
        BY <1>9, <3>3, <4>1, Zenon
      <4>2. CASE \E i \in 1 .. a + n : x = sentIds'[i]
        BY <1>8, <3>3, <4>2, Zenon
      <4> QED
        BY <3>4, <4>1, <4>2, Zenon
    <3>7. before = after
      BY <3>5, <3>6
    <3> QED
      BY <3>7 DEF before, after
  <2>2. Len(sentIds') + Len(queue') = Len(sentIds) + Len(queue)
    <3>1. Len(sentIds') + Len(queue') = (a + n) + (b - n)
      BY <1>4, <1>5, Zenon
    <3>2. (a + n) + (b - n) = a + b
      BY <1>1
    <3> QED
      BY <3>1, <3>2, Zenon DEF a, b
  <2>3. Cardinality(freed) \in Nat
    BY QueueIsCounted
  <2>4. Len(sentIds') + Len(queue') + Cardinality(freed) = submitted
    BY <1>1, <1>4, <1>5, <2>2, <2>3 DEF SVInv, NoneForgotten
  <2> QED
    BY <2>1, <2>4 DEF SVInv, NoneForgotten
<1> QED
  BY <1>6, <1>7, <1>11, <1>12

-----------------------------------------------------------------------------
(* The channel. *)

ChannelStep == Channel!Send \/ UNCHANGED <<sent, delivered>>

\* The loop leaves nothing queued unless the message it sent last is long.
LEMMA PopsStep ==
    ASSUME SVInv, snd.unsentFragments, SV_Netchan_TransmitNextFragment
    PROVE  SVInv' /\ ChannelStep
<1> DEFINE c == AfterNextFragment(snd)
           n == IF c.unsentFragments THEN 0 ELSE PopCount(queue)
           popped == [k \in 1 .. n |-> queue[k].msg]
           l == Len(sent)
<1>1. /\ c \in Senders /\ c.unsentFragmentStart <= MAX_MSGLEN
      /\ c.unsentFragments =>
            /\ c.outgoingSequence = l /\ c.unsent = sent[l]
            /\ c.unsentFragmentStart <= sent[l].length
      /\ ~c.unsentFragments => c.outgoingSequence = l + 1
      /\ NextFragment(snd).seq \in 1 .. l
      /\ PieceOf(NextFragment(snd), sent[NextFragment(snd).seq])
  BY AfterFragmentFacts DEF SVInv
<1>2. /\ snd' = AfterPops(c, queue, n)
      /\ net' = net \cup {NextFragment(snd)} \cup PacketsOfPops(c, queue, n)
      /\ sent' = sent \o popped
      /\ sentIds' = sentIds \o [k \in 1 .. n |-> queue[k].id]
      /\ queue' = SubSeq(queue, n + 1, Len(queue))
      /\ UNCHANGED <<rcv, delivered, submitted, freed, cornered>>
  BY DEF SV_Netchan_TransmitNextFragment
<1>3. queue \in Seq(Entries) /\ sent \in Seq(Messages) /\ l \in Nat /\ Len(queue) \in Nat
  BY DEF SVInv, QueueType, IInv
<1> HIDE DEF c
<1>4. /\ n \in 0 .. Len(queue)
      /\ ~c.unsentFragments /\ n < Len(queue) => n > 0 /\ IsLong(queue[n].msg)
      /\ c.unsentFragments => n = 0
  BY <1>3, PopCountFacts
<1> HIDE DEF n
<1>5. \A k \in 1 .. n : queue[k].msg \in Messages
  <2>1. \A k \in 1 .. Len(queue) : queue[k].msg \in Messages
    BY QueueFacts DEF SVInv
  <2> QED
    BY <1>3, <1>4, <2>1
<1>6. /\ sent' \in Seq(Messages) /\ Len(sent') = l + n
      /\ \A i \in 1 .. l : sent'[i] = sent[i]
      /\ \A k \in 1 .. n : sent'[l + k] = queue[k].msg
  <2>1. popped \in Seq(Messages) /\ Len(popped) = n /\ \A k \in 1 .. n : popped[k] = queue[k].msg
    BY <1>4, <1>5
  <2> HIDE DEF popped
  <2>2. sent' = sent \o popped /\ sent \in Seq(Messages)
    BY <1>2, <1>3
  <2>3. /\ sent' \in Seq(Messages) /\ Len(sent') = Len(sent) + Len(popped)
        /\ \A i \in 1 .. Len(sent) : sent'[i] = sent[i]
        /\ \A k \in 1 .. Len(popped) : sent'[Len(sent) + k] = popped[k]
    BY <2>1, <2>2, ConcatProperties
  <2> QED
    BY <2>1, <2>3
<1> HIDE DEF popped
<1>7. SndType' /\ SenderInv' /\ (queue' # <<>> => snd'.unsentFragments)
  <2>1. CASE n = 0
    <3>1. snd' = c
      BY <1>2, <2>1 DEF AfterPops
    <3>2. SndType' /\ SenderInv'
      BY <1>1, <1>3, <1>6, <2>1, <3>1 DEF SndType, SenderInv
    <3>3. CASE c.unsentFragments
      BY <3>1, <3>2, <3>3
    <3>4. CASE ~c.unsentFragments
      <4>1. Len(queue) = 0
        BY <1>3, <1>4, <2>1, <3>4
      <4>2. queue' = <<>>
        BY <1>2, <1>3, <2>1, <4>1
      <4> QED
        BY <3>2, <4>2
    <3> QED
      BY <3>3, <3>4
  <2>2. CASE n > 0
    <3> DEFINE d == ChannelAt(c, n - 1)
               m == queue[n].msg
    <3>1. c.unsentFragments = FALSE /\ c.outgoingSequence = l + 1 /\ n - 1 \in Nat /\ n \in 1 .. n
      BY <1>1, <1>4, <2>2 DEF Senders
    <3>2. d \in Senders /\ d.unsentFragments = FALSE /\ d.outgoingSequence = l + n
      <4>1. /\ d \in Senders /\ d.unsentFragments = FALSE
            /\ d.outgoingSequence = (l + 1) + (n - 1)
        BY <1>1, <3>1, ChannelAtFacts
      <4> HIDE DEF d
      <4>2. (l + 1) + (n - 1) = l + n
        BY <1>3, <1>4
      <4> QED
        BY <4>1, <4>2
    <3>3. m \in Messages /\ sent'[l + n] = m
      BY <1>5, <1>6, <3>1
    <3>4. snd' = AfterTransmit(d, m)
      BY <1>2, <2>2 DEF AfterPops
    <3> HIDE DEF d, m
    <3>5. AfterTransmit(d, m) \in Senders /\ AfterTransmit(d, m).unsentFragmentStart <= MAX_MSGLEN
      BY <3>2, <3>3, AfterTransmitFacts
    <3>6. CASE IsLong(m)
      <4>1. /\ snd'.unsentFragments /\ snd'.outgoingSequence = l + n /\ snd'.unsent = m
            /\ snd'.unsentFragmentStart <= m.length
        BY <3>2, <3>3, <3>4, <3>6, AfterTransmitFacts
      <4> QED
        BY <1>6, <3>3, <3>4, <3>5, <4>1 DEF SndType, SenderInv
    <3>7. CASE ~IsLong(m)
      <4>1. ~snd'.unsentFragments /\ snd'.outgoingSequence = l + n + 1
        <5>1. /\ ~AfterTransmit(d, m).unsentFragments
              /\ AfterTransmit(d, m).outgoingSequence = d.outgoingSequence + 1
          BY <3>2, <3>3, <3>7, AfterTransmitFacts
        <5> QED
          BY <3>2, <3>4, <5>1
      <4>2. n = Len(queue)
        BY <1>3, <1>4, <3>1, <3>7 DEF m
      <4>3. queue' = <<>>
        BY <1>2, <1>3, <4>2
      <4> QED
        BY <1>3, <1>4, <1>6, <3>4, <3>5, <4>1, <4>3 DEF SndType, SenderInv
    <3> QED
      BY <3>6, <3>7
  <2> QED
    BY <1>4, <2>1, <2>2
<1>8. ASSUME NEW p \in net' \ net
      PROVE  p.seq \in 1 .. Len(sent') /\ PieceOf(p, sent'[p.seq])
  <2>1. CASE p = NextFragment(snd)
    BY <1>1, <1>3, <1>4, <1>6, <2>1
  <2>2. CASE p \in PacketsOfPops(c, queue, n)
    <3>1. PICK k \in 1 .. n : p = FirstPacket(ChannelAt(c, k - 1), queue[k].msg)
      BY <2>2 DEF PacketsOfPops
    <3> DEFINE d == ChannelAt(c, k - 1)
    <3>2. c.unsentFragments = FALSE /\ c.outgoingSequence = l + 1 /\ k - 1 \in Nat
      BY <1>1, <1>4 DEF Senders
    <3>3. d \in Senders /\ d.unsentFragments = FALSE /\ d.outgoingSequence = l + k
      <4>1. /\ d \in Senders /\ d.unsentFragments = FALSE
            /\ d.outgoingSequence = (l + 1) + (k - 1)
        BY <1>1, <3>2, ChannelAtFacts
      <4> HIDE DEF d
      <4>2. (l + 1) + (k - 1) = l + k
        BY <1>3
      <4> QED
        BY <4>1, <4>2
    <3> HIDE DEF d
    <3>4. p.seq = l + k /\ PieceOf(p, queue[k].msg)
      BY <1>5, <3>1, <3>3, AfterTransmitFacts DEF d
    <3>5. l + k \in 1 .. Len(sent') /\ sent'[l + k] = queue[k].msg
      BY <1>3, <1>4, <1>6
    <3> QED
      BY <3>4, <3>5
  <2> QED
    BY <1>2, <2>1, <2>2
<1>9. IInv'
  <2>1. Len(sent) <= Len(sent')
    BY <1>3, <1>4, <1>6
  <2>2. \A i \in 1 .. Len(sent) : sent'[i] = sent[i]
    BY <1>6
  <2>3. IInv /\ UNCHANGED <<rcv, delivered>>
    BY <1>2 DEF SVInv
  <2> QED
    BY <1>6, <1>7, <1>8, <2>1, <2>2, <2>3, SenderStep
<1>10. ChannelStep
  <2>1. CASE n = 0
    <3>1. sent' = sent
      BY <1>3, <1>6, <2>1
    <3> QED
      BY <1>2, <3>1 DEF ChannelStep
  <2>2. CASE n > 0
    <3>1. Len(sent') > Len(sent)
      BY <1>3, <1>4, <1>6, <2>2
    <3> QED
      BY <1>2, <1>6, <3>1 DEF ChannelStep, Channel!Send
  <2> QED
    BY <1>4, <2>1, <2>2
<1>11. QueueType' /\ QueueInv' /\ OrderInv' /\ NoneForgotten'
  BY <1>2, <1>4, <1>7, PopsKeepIds
<1> QED
  BY <1>9, <1>10, <1>11 DEF SVInv

-----------------------------------------------------------------------------
(* The other steps. *)

\* A message made while fragments are unsent waits.
LEMMA QueuedStep ==
    ASSUME SVInv, NEW m \in Messages, submitted < MaxSubmitted, submitted' = submitted + 1,
           Queued(m), UNCHANGED freed
    PROVE  SVInv' /\ ChannelStep
<1> DEFINE e == [id |-> submitted + 1, msg |-> m]
           b == Len(queue)
<1>1. e \in Entries /\ submitted \in Nat /\ submitted' \in 0 .. MaxSubmitted
  BY SubmittedAssumption DEF SVInv, QueueType, Entries
<1>2. /\ queue \in Seq(Entries) /\ queue' = Append(queue, e)
      /\ sentIds' = sentIds /\ sentIds \in Seq(1 .. MaxSubmitted)
      /\ snd.unsentFragments /\ Netchan_TransmitNextFragment
  BY DEF SVInv, QueueType, Queued
<1>3. /\ queue' \in Seq(Entries) /\ Len(queue') = b + 1 /\ b \in Nat
      /\ \A k \in 1 .. b : queue'[k] = queue[k]
      /\ queue'[b + 1] = e /\ e.id = submitted + 1
      /\ DOMAIN queue = 1 .. b /\ DOMAIN queue' = 1 .. b + 1
  BY <1>1, <1>2
<1> HIDE DEF e, b
<1>4. IInv'
  BY <1>2, NextFragmentStep DEF SVInv
<1>5. ChannelStep
  BY <1>2 DEF ChannelStep, Netchan_TransmitNextFragment
<1>6. cornered' \in BOOLEAN /\ (~cornered' => ~cornered /\ snd'.unsentFragments)
  <2>1. snd' \in Senders
    BY <1>4 DEF IInv, SndType
  <2>2. cornered' = (cornered \/ ~snd'.unsentFragments)
    BY DEF Queued
  <2> QED
    BY <2>2
<1>7. QueueType'
  BY <1>1, <1>2, <1>3, <1>6 DEF SVInv, QueueType
<1>8. \A k \in 1 .. b : queue[k].id <= submitted /\ queue[k].id \notin freed
                        /\ queue[k].id \in 1 .. MaxSubmitted
  BY QueueFacts DEF SVInv, QueueInv, b
<1>9. QueueInv'
  <2>1. ASSUME NEW i \in 1 .. b + 1, NEW j \in 1 .. b + 1, i < j
        PROVE  queue'[i].id < queue'[j].id
    <3>1. i \in 1 .. b
      BY <1>3, <2>1
    <3>2. CASE j \in 1 .. b
      BY <1>3, <2>1, <3>1, <3>2 DEF SVInv, QueueInv, b
    <3>3. CASE j = b + 1
      BY <1>1, <1>3, <1>8, <3>1, <3>3
    <3> QED
      BY <1>3, <3>2, <3>3
  <2>2. ASSUME NEW k \in 1 .. b + 1
        PROVE  queue'[k].id <= submitted' /\ queue'[k].id \notin freed
    <3>1. CASE k \in 1 .. b
      BY <1>1, <1>3, <1>8, <3>1
    <3>2. CASE k = b + 1
      BY <1>1, <1>3, <3>2 DEF SVInv, QueueType
    <3> QED
      BY <1>3, <3>1, <3>2
  <2> QED
    BY <1>3, <2>1, <2>2 DEF QueueInv
<1>10. OrderInv'
  <2>1. \A i \in 1 .. Len(sentIds) : sentIds[i] <= submitted /\ sentIds[i] \in 1 .. MaxSubmitted
    BY QueueFacts DEF SVInv, OrderInv
  <2>2. \A i \in 1 .. Len(sentIds) : sentIds[i] <= submitted'
    BY <1>1, <2>1
  <2>3. ASSUME ~cornered, NEW i \in 1 .. Len(sentIds), NEW k \in 1 .. b + 1
        PROVE  sentIds[i] < queue'[k].id
    <3>1. CASE k \in 1 .. b
      BY <1>3, <2>3, <3>1 DEF SVInv, OrderInv, b
    <3>2. CASE k = b + 1
      BY <1>1, <1>3, <2>1, <3>2
    <3> QED
      BY <1>3, <3>1, <3>2
  <2> QED
    BY <1>2, <1>3, <1>6, <2>2, <2>3 DEF SVInv, OrderInv, SentInOrder
<1>11. NoneForgotten'
  <2>1. 1 .. submitted' = { queue'[k].id : k \in DOMAIN queue' } \cup ToSet(sentIds') \cup freed
    <3>1. 1 .. submitted' = 1 .. submitted \cup {submitted + 1}
      BY <1>1
    <3>2. { queue'[k].id : k \in DOMAIN queue' } =
                { queue[k].id : k \in DOMAIN queue } \cup {submitted + 1}
      BY <1>3
    <3>3. 1 .. submitted = { queue[k].id : k \in DOMAIN queue } \cup ToSet(sentIds) \cup freed
      BY DEF SVInv, NoneForgotten
    <3> QED
      BY <1>2, <3>1, <3>2, <3>3
  <2>2. Cardinality(freed) \in Nat
    BY QueueIsCounted
  <2>3. Len(sentIds') + Len(queue') + Cardinality(freed) = submitted'
    <3>1. Len(sentIds) + b + Cardinality(freed) = submitted
      BY DEF SVInv, NoneForgotten, b
    <3>2. Len(sentIds') = Len(sentIds) /\ Len(sentIds) \in Nat /\ Len(queue') = b + 1 /\ b \in Nat
      BY <1>2, <1>3
    <3> QED
      BY <1>1, <2>2, <3>1, <3>2
  <2> QED
    BY <2>1, <2>3 DEF NoneForgotten
<1> QED
  BY <1>4, <1>5, <1>7, <1>9, <1>10, <1>11 DEF SVInv

\* A message made otherwise is numbered at once; nothing is queued then as long as
\* the order holds.
LEMMA DirectStep ==
    ASSUME SVInv, NEW m \in Messages, submitted < MaxSubmitted, submitted' = submitted + 1,
           Direct(m), UNCHANGED freed
    PROVE  SVInv' /\ ChannelStep
<1> DEFINE a == Len(sentIds)
<1>1. submitted \in Nat /\ submitted' \in 0 .. MaxSubmitted /\ submitted + 1 \in 1 .. MaxSubmitted
  BY SubmittedAssumption DEF SVInv, QueueType
<1>2. /\ queue' = queue /\ cornered' = cornered /\ sentIds' = Append(sentIds, submitted + 1)
      /\ sentIds \in Seq(1 .. MaxSubmitted)
      /\ ~snd.unsentFragments /\ Netchan_Transmit(m)
  BY DEF SVInv, QueueType, Direct
<1>3. /\ sentIds' \in Seq(1 .. MaxSubmitted) /\ Len(sentIds') = a + 1 /\ a \in Nat
      /\ \A i \in 1 .. a : sentIds'[i] = sentIds[i]
      /\ sentIds'[a + 1] = submitted + 1
      /\ DOMAIN sentIds = 1 .. a /\ DOMAIN sentIds' = 1 .. a + 1
  BY <1>1, <1>2
<1> HIDE DEF a
<1>4. IInv' /\ ChannelStep
  BY <1>2, TransmitStep DEF SVInv, ChannelStep
<1>5. QueueType'
  BY <1>1, <1>2, <1>3 DEF SVInv, QueueType
<1>6. QueueInv'
  <2>1. \A k \in 1 .. Len(queue) : queue[k].id <= submitted /\ queue[k].id \in 1 .. MaxSubmitted
    BY QueueFacts DEF SVInv, QueueInv
  <2>2. \A k \in 1 .. Len(queue) : queue[k].id <= submitted'
    BY <1>1, <2>1
  <2> QED
    BY <1>2, <2>2 DEF SVInv, QueueInv
<1>7. OrderInv'
  <2>1. \A i \in 1 .. a : sentIds[i] <= submitted /\ sentIds[i] \in 1 .. MaxSubmitted
    BY QueueFacts DEF SVInv, OrderInv, a
  <2>2. \A i \in 1 .. a + 1 : sentIds'[i] <= submitted'
    BY <1>1, <1>3, <2>1
  <2>3. ASSUME ~cornered PROVE SentInOrder' /\ queue = <<>>
    <3>1. queue = <<>> /\ SentInOrder
      BY <1>2, <2>3 DEF SVInv, OrderInv
    <3>2. ASSUME NEW i \in 1 .. a + 1, NEW j \in 1 .. a + 1, i < j
          PROVE  sentIds'[i] < sentIds'[j]
      <4>1. i \in 1 .. a
        BY <1>3, <3>2
      <4>2. CASE j \in 1 .. a
        BY <1>3, <3>1, <3>2, <4>1, <4>2 DEF SentInOrder
      <4>3. CASE j = a + 1
        BY <1>1, <1>3, <2>1, <4>1, <4>3
      <4> QED
        BY <1>3, <4>2, <4>3
    <3> QED
      BY <1>3, <3>1, <3>2 DEF SentInOrder
  <2>4. queue = <<>> => Len(queue) = 0
    OBVIOUS
  <2> QED
    BY <1>2, <1>3, <2>2, <2>3, <2>4 DEF OrderInv
<1>8. NoneForgotten'
  <2>1. 1 .. submitted' = { queue'[k].id : k \in DOMAIN queue' } \cup ToSet(sentIds') \cup freed
    <3>1. 1 .. submitted' = 1 .. submitted \cup {submitted + 1}
      BY <1>1
    <3>2. ToSet(sentIds') = ToSet(sentIds) \cup {submitted + 1}
      BY <1>3 DEF ToSet
    <3>3. 1 .. submitted = { queue[k].id : k \in DOMAIN queue } \cup ToSet(sentIds) \cup freed
      BY DEF SVInv, NoneForgotten
    <3> QED
      BY <1>2, <3>1, <3>2, <3>3
  <2>2. Cardinality(freed) \in Nat /\ Len(queue) \in Nat
    BY QueueIsCounted, QueueFacts DEF SVInv
  <2>3. Len(sentIds') + Len(queue') + Cardinality(freed) = submitted'
    <3>1. a + Len(queue) + Cardinality(freed) = submitted
      BY DEF SVInv, NoneForgotten, a
    <3>2. Len(sentIds') = a + 1 /\ queue' = queue /\ a \in Nat
      BY <1>2, <1>3
    <3> QED
      BY <1>1, <2>2, <3>1, <3>2
  <2> QED
    BY <2>1, <2>3 DEF NoneForgotten
<1> QED
  BY <1>4, <1>5, <1>6, <1>7, <1>8 DEF SVInv

\* What was queued for a client that is dropped is thrown away.
LEMMA FreeStep ==
    ASSUME SVInv, SV_FreeClient
    PROVE  SVInv' /\ ChannelStep
<1> DEFINE ids == { queue[k].id : k \in DOMAIN queue }
<1>1. /\ freed' = freed \cup ids /\ queue' = <<>>
      /\ UNCHANGED <<vars, submitted, sentIds, cornered>>
  BY DEF SV_FreeClient
<1>2. IInv'
  BY <1>1, StutterStep DEF SVInv
<1>3. ChannelStep
  BY <1>1 DEF ChannelStep, vars
<1>4. ids \subseteq 1 .. submitted
  BY DEF SVInv, NoneForgotten
<1>5. QueueType' /\ QueueInv'
  <2>0. freed' \subseteq 1 .. submitted'
    <3>1. freed \subseteq 1 .. submitted
      BY DEF SVInv, QueueType
    <3> HIDE DEF ids
    <3> QED
      BY <1>1, <1>4, <3>1
  <2>1. queue' \in Seq(Entries) /\ Len(queue') = 0
    BY <1>1
  <2>2. QueueType'
    BY <1>1, <2>0, <2>1 DEF SVInv, QueueType
  <2>3. QueueInv'
    BY <2>1 DEF QueueInv
  <2> QED
    BY <2>2, <2>3
<1>6. OrderInv'
  BY <1>1 DEF SVInv, OrderInv, SentInOrder
<1>7. NoneForgotten'
  <2>1. { queue'[k].id : k \in DOMAIN queue' } = {} /\ Len(queue') = 0
    BY <1>1
  <2>2. 1 .. submitted = ids \cup ToSet(sentIds) \cup freed
    BY DEF SVInv, NoneForgotten
  <2>3. Cardinality(freed') = Cardinality(freed) + Len(queue)
    BY <1>1, QueueIsCounted
  <2>4. Len(sentIds) + Len(queue) + Cardinality(freed) = submitted
    BY DEF SVInv, NoneForgotten
  <2>5. Len(sentIds) \in Nat /\ Len(queue) \in Nat /\ Cardinality(freed) \in Nat
    BY QueueFacts, QueueIsCounted DEF SVInv
  <2> HIDE DEF ids
  <2>6. Len(sentIds') + Len(queue') + Cardinality(freed') = submitted'
    BY <1>1, <2>1, <2>3, <2>4, <2>5
  <2> QED
    BY <1>1, <2>1, <2>2, <2>6 DEF NoneForgotten
<1> QED
  BY <1>2, <1>3, <1>5, <1>6, <1>7 DEF SVInv

\* The queue is not touched.
LEMMA QuietQueue ==
    ASSUME SVInv, IInv', UNCHANGED <<queue, submitted, sentIds, freed, cornered>>,
           snd'.unsentFragments = snd.unsentFragments
    PROVE  SVInv'
<1>1. QueueType' /\ QueueInv'
  BY DEF SVInv, QueueType, QueueInv
<1>2. OrderInv' /\ NoneForgotten'
  BY DEF SVInv, OrderInv, SentInOrder, NoneForgotten, ToSet
<1> QED
  BY <1>1, <1>2 DEF SVInv

LEMMA TransmitsStep ==
    ASSUME SVInv, NEW m \in Messages, SV_Netchan_Transmit(m)
    PROVE  SVInv' /\ ChannelStep
  BY QueuedStep, DirectStep DEF SV_Netchan_Transmit

LEMMA NextSVInv ==
    ASSUME SVInv, [SVNext]_svVars
    PROVE  SVInv' /\ (Channel!Next \/ UNCHANGED <<sent, delivered>>)
<1>1. CASE SV_SendClientMessages
  BY <1>1, PopsStep, TransmitsStep DEF SV_SendClientMessages, ChannelStep, Channel!Next
<1>2. CASE SV_SendClientGameState
  BY <1>2, TransmitsStep DEF SV_SendClientGameState, ChannelStep, Channel!Next
<1>3. CASE SV_FreeClient
  BY <1>3, FreeStep DEF ChannelStep, Channel!Next
<1>4. ASSUME NEW p \in net, Receive(p)
      PROVE  SVInv' /\ (Channel!Next \/ UNCHANGED <<sent, delivered>>)
  <2>1. IInv' /\ (Channel!Next \/ UNCHANGED <<sent, delivered>>)
    BY <1>4, ProcessStep DEF Receive, SVInv
  <2> QED
    BY <1>4, <2>1, QuietQueue DEF Receive, Netchan_Process
<1>5. CASE UNCHANGED svVars
  <2>1. IInv'
    BY <1>5, StutterStep DEF svVars, SVInv
  <2> QED
    BY <1>5, <2>1, QuietQueue DEF svVars, vars
<1> QED
  BY <1>1, <1>2, <1>3, <1>4, <1>5 DEF SVNext

\* The inductive invariant holds in every behaviour.
LEMMA SVInvariant == SVSpec => []SVInv
<1>1. SVInv /\ [SVNext]_svVars => SVInv'
  BY NextSVInv
<1> QED
  BY <1>1, InitSVInv, PTL DEF SVSpec

\* The queue holds messages made for the client, and the channel's state is of its
\* type also where several messages are numbered in one step.
THEOREM SVTypeCorrect == SVSpec => []SVTypeOK
<1>1. IInv => TypeOK
  BY IInvTypeOK
<1>2. SVInv => SVTypeOK
  <2> SUFFICES ASSUME SVInv PROVE SVTypeOK
    OBVIOUS
  <2>1. freed \subseteq 1 .. MaxSubmitted
    BY SubmittedAssumption DEF SVInv, QueueType
  <2> QED
    BY <1>1, <2>1 DEF SVInv, QueueType, Entries, SVTypeOK
<1> QED
  BY <1>2, SVInvariant, PTL

\* No message made for a client is forgotten or sent twice: SV_Netchan_Transmit and
\* the loop of SV_Netchan_TransmitNextFragment.
THEOREM NoMessageForgotten == SVSpec => []NoneForgotten
<1>1. SVInv => NoneForgotten
  BY DEF SVInv
<1> QED
  BY <1>1, SVInvariant, PTL

\* Messages leave in the order they were made, until SV_Netchan_Transmit emits the
\* last fragment of the message in front itself.
THEOREM OrderKept == SVSpec => []InOrderUnlessCornered
<1>1. SVInv => InOrderUnlessCornered
  BY DEF SVInv, OrderInv, InOrderUnlessCornered
<1> QED
  BY <1>1, SVInvariant, PTL

\* Refinement: the server's use of the channel, its queue included, implements
\* MessageChannel; the messages popped in one loop are one Send of several.
THEOREM QueueRefinement == SVSpec => ImplementsChannelThroughQueue
<1>1. SVInit => Channel!Init
  BY DEF SVInit, Init, Channel!Init
<1>2. SVInv /\ [SVNext]_svVars => [Channel!Next]_(Channel!vars)
  BY NextSVInv DEF Channel!vars
<1> QED
  BY <1>1, <1>2, SVInvariant, PTL DEF SVSpec, ImplementsChannelThroughQueue, Channel!Spec
=============================================================================
