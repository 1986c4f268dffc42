------------------------------ MODULE Netchan ------------------------------
(***************************************************************************)
(* One direction of the sequenced datagram channel of qcommon/net_chan.cpp *)
(* (netchan_t).  A message of at least FRAGMENT_SIZE bytes is cut into     *)
(* fragments that carry its sequence number; the receiver drops what is    *)
(* old, glues fragments in order and hands complete messages up.           *)
(*                                                                         *)
(* The network may lose, duplicate and reorder packets: net is the set of  *)
(* all packets ever sent, any of which may arrive at any time and any      *)
(* number of times, or never.                                              *)
(***************************************************************************)
EXTENDS Integers, Sequences

CONSTANTS
    FRAGMENT_SIZE,  \* payload bytes of a full fragment
    MAX_MSGLEN,     \* the longest message, the size of fragmentBuffer
    Byte,           \* values of a byte
    Messages,       \* the messages the layer above may send
    MaxMessages     \* bound of the model: messages sent in a behaviour

\* A message of n bytes; data[i] is the byte at offset i.
Message(n) == [length : {n}, data : [0 .. n - 1 -> Byte]]

IsMessage(m) == \E n \in 0 .. MAX_MSGLEN : m \in Message(n)

ASSUME SizeAssumption ==
    /\ FRAGMENT_SIZE \in Nat \ {0}
    /\ MAX_MSGLEN \in Nat
    /\ MaxMessages \in Nat
    /\ 0 \in Byte

ASSUME MessageAssumption == \A m \in Messages : IsMessage(m)

VARIABLES
    snd,        \* the sending half of netchan_t
    rcv,        \* the receiving half of the peer's netchan_t
    net,        \* packets on the network
    sent,       \* history: sent[s] is the message that was numbered s
    delivered   \* history: what Netchan_Process handed up, in order

vars == <<snd, rcv, net, sent, delivered>>

-----------------------------------------------------------------------------
NoMessage == [length |-> 0, data |-> [i \in 0 .. -1 |-> 0]]

\* Netchan_Setup.
SetupSender ==
    [outgoingSequence |-> 1, unsentFragments |-> FALSE,
     unsentFragmentStart |-> 0, unsent |-> NoMessage]

SetupReceiver ==
    [incomingSequence |-> 0, dropped |-> 0, fragmentSequence |-> 0,
     fragmentLength |-> 0,
     fragmentBuffer |-> [i \in 0 .. MAX_MSGLEN - 1 |-> 0]]

Whole(s, m) ==
    [seq |-> s, fragmented |-> FALSE, start |-> 0, len |-> m.length,
     data |-> m.data]

\* Length of the fragment of m that begins at start.
FragLen(m, start) ==
    IF start + FRAGMENT_SIZE > m.length THEN m.length - start
                                        ELSE FRAGMENT_SIZE

Fragment(s, m, start) ==
    [seq |-> s, fragmented |-> TRUE, start |-> start,
     len |-> FragLen(m, start),
     data |-> [i \in 0 .. FragLen(m, start) - 1 |-> m.data[start + i]]]

\* Netchan_TransmitNextFragment: the packet, and the channel after it.  A
\* message of an exact multiple of FRAGMENT_SIZE needs an empty last fragment,
\* so only a fragment that is not full ends the message.
NextFragment(c) ==
    Fragment(c.outgoingSequence, c.unsent, c.unsentFragmentStart)

AdvancedTo(c, start, last) ==
    [outgoingSequence |->
        IF last THEN c.outgoingSequence + 1 ELSE c.outgoingSequence,
     unsentFragments |-> ~last,
     unsentFragmentStart |-> start,
     unsent |-> c.unsent]

\* Mutant: no empty fragment closes a message of an exact multiple.
AfterNextFragmentNoEmpty(c) ==
    LET start == c.unsentFragmentStart + FragLen(c.unsent, c.unsentFragmentStart)
    IN  AdvancedTo(c, start, start = c.unsent.length)

AfterNextFragment(c) ==
    LET len   == FragLen(c.unsent, c.unsentFragmentStart)
        start == c.unsentFragmentStart + len
    IN  AdvancedTo(c, start, start = c.unsent.length /\ len # FRAGMENT_SIZE)

\* Netchan_Transmit: a short message goes out at once, of a long one only the
\* first fragment does.
IsLong(m) == m.length >= FRAGMENT_SIZE

Loaded(c, m) ==
    [outgoingSequence |-> c.outgoingSequence, unsentFragments |-> TRUE,
     unsentFragmentStart |-> 0, unsent |-> m]

FirstPacket(c, m) ==
    IF IsLong(m) THEN NextFragment(Loaded(c, m))
                 ELSE Whole(c.outgoingSequence, m)

AfterTransmit(c, m) ==
    IF IsLong(m)
    THEN AfterNextFragment(Loaded(c, m))
    ELSE [outgoingSequence |-> c.outgoingSequence + 1,
          unsentFragments |-> c.unsentFragments,
          unsentFragmentStart |-> 0, unsent |-> c.unsent]

-----------------------------------------------------------------------------
Init ==
    /\ snd = SetupSender
    /\ rcv = SetupReceiver
    /\ net = {}
    /\ sent = <<>>
    /\ delivered = <<>>

Netchan_Transmit(m) ==
    /\ snd' = AfterTransmit(snd, m)
    /\ net' = net \cup {FirstPacket(snd, m)}
    /\ sent' = Append(sent, m)
    /\ UNCHANGED <<rcv, delivered>>

Netchan_TransmitNextFragment ==
    /\ snd' = AfterNextFragment(snd)
    /\ net' = net \cup {NextFragment(snd)}
    /\ UNCHANGED <<rcv, sent, delivered>>

\* The branches of Netchan_Process, for a packet p of the network.
\* Mutant: repeats of the newest message pass.
NotOlder(p) == p.seq >= rcv.incomingSequence

Fresh(p) == p.seq > rcv.incomingSequence

DroppedBefore(p) == p.seq - (rcv.incomingSequence + 1)

\* Mutant: the bytes put together so far are kept for the other message.
KeptLength(p) == rcv.fragmentLength

\* How much of the message of fragment p has been put together: a fragment of
\* another message than the last one's discards what there is.
OpenLength(p) ==
    IF p.seq = rcv.fragmentSequence THEN rcv.fragmentLength ELSE 0

\* The reassembly buffer with the bytes of fragment p appended.
Glued(p) ==
    [i \in 0 .. MAX_MSGLEN - 1 |->
        IF i \in OpenLength(p) .. OpenLength(p) + p.len - 1
        THEN p.data[i - OpenLength(p)]
        ELSE rcv.fragmentBuffer[i]]

Fits(p) == OpenLength(p) + p.len <= MAX_MSGLEN

ProcessWhole(p) ==
    /\ Fresh(p)
    /\ ~p.fragmented
    /\ rcv' = [incomingSequence |-> p.seq,
               dropped |-> DroppedBefore(p),
               fragmentSequence |-> rcv.fragmentSequence,
               fragmentLength |-> rcv.fragmentLength,
               fragmentBuffer |-> rcv.fragmentBuffer]
    /\ delivered' = Append(delivered,
                      [seq |-> p.seq,
                       msg |-> [length |-> p.len, data |-> p.data]])

\* A fragment went missing, or the message would not fit: what has been put
\* together so far is kept.
ProcessGap(p) ==
    /\ Fresh(p)
    /\ p.fragmented
    /\ p.start # OpenLength(p) \/ ~Fits(p)
    /\ rcv' = [incomingSequence |-> rcv.incomingSequence,
               dropped |-> DroppedBefore(p),
               fragmentSequence |-> p.seq,
               fragmentLength |-> OpenLength(p),
               fragmentBuffer |-> rcv.fragmentBuffer]
    /\ UNCHANGED delivered

NextInOrder(p) ==
    /\ Fresh(p)
    /\ p.fragmented
    /\ p.start = OpenLength(p)
    /\ Fits(p)

ProcessFragment(p) ==
    /\ NextInOrder(p)
    /\ p.len = FRAGMENT_SIZE
    /\ rcv' = [incomingSequence |-> rcv.incomingSequence,
               dropped |-> DroppedBefore(p),
               fragmentSequence |-> p.seq,
               fragmentLength |-> OpenLength(p) + p.len,
               fragmentBuffer |-> Glued(p)]
    /\ UNCHANGED delivered

ProcessLastFragment(p) ==
    LET length == OpenLength(p) + p.len
    IN  /\ NextInOrder(p)
        /\ p.len # FRAGMENT_SIZE
        /\ rcv' = [incomingSequence |-> p.seq,
                   dropped |-> DroppedBefore(p),
                   fragmentSequence |-> p.seq,
                   fragmentLength |-> 0,
                   fragmentBuffer |-> Glued(p)]
        /\ delivered' = Append(delivered,
                          [seq |-> p.seq,
                           msg |-> [length |-> length,
                                    data |-> [i \in 0 .. length - 1 |->
                                                Glued(p)[i]]]])

Netchan_Process(p) ==
    /\ \/ ProcessWhole(p)
       \/ ProcessGap(p)
       \/ ProcessFragment(p)
       \/ ProcessLastFragment(p)
    /\ UNCHANGED <<snd, net, sent>>

\* Both users of the channel start a message only when the one before has left
\* completely: CL_WritePacket drains the fragments in a loop, SV_Netchan_Transmit
\* tests unsentFragments (module SvNetchan).
Send(m) ==
    /\ Len(sent) < MaxMessages
    /\ ~snd.unsentFragments
    /\ Netchan_Transmit(m)

SendNextFragment ==
    /\ snd.unsentFragments
    /\ Netchan_TransmitNextFragment

Next ==
    \/ \E m \in Messages : Send(m)
    \/ SendNextFragment
    \/ \E p \in net : Netchan_Process(p)

Spec == Init /\ [][Next]_vars

\* The main loop of the sender always comes back to a message that has not
\* left completely (SV_SendClientMessages, CL_WritePacket).
FairSpec == Spec /\ WF_vars(SendNextFragment)

-----------------------------------------------------------------------------
Senders ==
    [outgoingSequence : Nat \ {0}, unsentFragments : BOOLEAN,
     unsentFragmentStart : Nat, unsent : Messages \cup {NoMessage}]

Receivers ==
    [incomingSequence : Nat, dropped : Nat, fragmentSequence : Nat,
     fragmentLength : Nat, fragmentBuffer : [0 .. MAX_MSGLEN - 1 -> Byte]]

SndType == snd \in Senders /\ snd.unsentFragmentStart <= MAX_MSGLEN

RcvType == rcv \in Receivers /\ rcv.fragmentLength <= MAX_MSGLEN

TypeOK ==
    /\ SndType
    /\ RcvType
    /\ \A p \in net : p.seq \in Nat /\ p.len \in 0 .. MAX_MSGLEN
    /\ sent \in Seq(Messages)
    /\ delivered \in Seq([seq : Nat, msg : Messages])

\* Every message Netchan_Process hands up is, byte for byte, the one that was
\* given that sequence number, although its fragments came from a network that
\* mixes, repeats and loses them and share one reassembly buffer with the
\* fragments of other messages.
DeliveredIntact ==
    \A i \in DOMAIN delivered :
        /\ delivered[i].seq \in DOMAIN sent
        /\ delivered[i].msg = sent[delivered[i].seq]

\* Messages are handed up in the order they were sent and at most once, whatever
\* the network repeats.
DeliveredInOrder ==
    \A i, j \in DOMAIN delivered :
        i < j => delivered[i].seq < delivered[j].seq

\* The channel implements the one the layers above count on.
Channel == INSTANCE MessageChannel

ImplementsChannel == Channel!Spec

=============================================================================
