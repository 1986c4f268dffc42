----------------------------- MODULE SvNetchan -----------------------------
(***************************************************************************)
(* The server's use of a client's channel, sv_net_chan.cpp: one fragment   *)
(* leaves per call of the main loop, and a message made while fragments of *)
(* the one before are unsent waits in client_t.netchan_start_queue.        *)
(***************************************************************************)
EXTENDS Netchan, SequencesExt

CONSTANT MaxSubmitted   \* bound of the model: messages made for the client

ASSUME SubmittedAssumption == MaxSubmitted \in Nat

VARIABLES
    queue,      \* netchan_start_queue: records [id, msg]
    submitted,  \* history: how many messages were made; the last one's id
    sentIds,    \* history: sentIds[s] is the id of the message numbered s
    freed,      \* history: ids thrown away by SV_Netchan_FreeQueue
    cornered    \* history: the last fragment left in SV_Netchan_Transmit

svVars == <<vars, queue, submitted, sentIds, freed, cornered>>

-----------------------------------------------------------------------------
SVInit ==
    /\ Init
    /\ queue = <<>>
    /\ submitted = 0
    /\ sentIds = <<>>
    /\ freed = {}
    /\ cornered = FALSE

\* How many messages the loop of SV_Netchan_TransmitNextFragment pops: short
\* ones leave whole, the first long one leaves fragments unsent again.
\* Mutant: one message is popped, not as many as fit.
PopOne(q) == IF q = <<>> THEN 0 ELSE 1

PopCount(q) ==
    LET long == { k \in DOMAIN q : IsLong(q[k].msg) }
    IN  IF long = {} THEN Len(q) ELSE CHOOSE k \in long : \A j \in long : k <= j

\* The channel and the packets once the first n messages of queue q have been
\* given to Netchan_Transmit; only the last of them may be long.
ChannelAt(c, n) ==
    IF n = 0 THEN c ELSE [c EXCEPT !.outgoingSequence = @ + n,
                                   !.unsentFragmentStart = 0]

AfterPops(c, q, n) ==
    IF n = 0 THEN c ELSE AfterTransmit(ChannelAt(c, n - 1), q[n].msg)

PacketsOfPops(c, q, n) ==
    { FirstPacket(ChannelAt(c, k - 1), q[k].msg) : k \in 1 .. n }

SV_Netchan_TransmitNextFragment ==
    LET c == AfterNextFragment(snd)
        n == IF c.unsentFragments THEN 0 ELSE PopCount(queue)
        popped == SubSeq(queue, 1, n)
    IN  /\ snd' = AfterPops(c, queue, n)
        /\ net' = net \cup {NextFragment(snd)} \cup PacketsOfPops(c, queue, n)
        /\ sent' = sent \o [k \in 1 .. n |-> queue[k].msg]
        /\ sentIds' = sentIds \o [k \in 1 .. n |-> queue[k].id]
        /\ queue' = SubSeq(queue, n + 1, Len(queue))
        /\ UNCHANGED <<rcv, delivered, submitted, freed, cornered>>

\* SV_Netchan_Transmit: behind unsent fragments the message is queued and the
\* next fragment is emitted; otherwise it is sent at once.
\* Mutants: the new message replaces the queue; unsentFragments is not tested.
QueuedAlone(m) ==
    /\ snd.unsentFragments
    /\ queue' = <<[id |-> submitted + 1, msg |-> m]>>
    /\ Netchan_TransmitNextFragment
    /\ cornered' = (cornered \/ ~snd'.unsentFragments)
    /\ UNCHANGED sentIds

DirectAlways(m) ==
    /\ Netchan_Transmit(m)
    /\ sentIds' = Append(sentIds, submitted + 1)
    /\ UNCHANGED <<queue, cornered>>

Queued(m) ==
    /\ snd.unsentFragments
    /\ queue' = Append(queue, [id |-> submitted + 1, msg |-> m])
    /\ Netchan_TransmitNextFragment
    /\ cornered' = (cornered \/ ~snd'.unsentFragments)
    /\ UNCHANGED sentIds

Direct(m) ==
    /\ ~snd.unsentFragments
    /\ Netchan_Transmit(m)
    /\ sentIds' = Append(sentIds, submitted + 1)
    /\ UNCHANGED <<queue, cornered>>

SV_Netchan_Transmit(m) ==
    /\ submitted < MaxSubmitted
    /\ submitted' = submitted + 1
    /\ Queued(m) \/ Direct(m)
    /\ UNCHANGED freed

\* SV_SendClientMessages, for this client, when its nextSnapshotTime is due:
\* the next fragment, or a new snapshot.
SV_SendClientMessages ==
    \/ snd.unsentFragments /\ SV_Netchan_TransmitNextFragment
    \/ ~snd.unsentFragments /\ \E m \in Messages : SV_Netchan_Transmit(m)

\* SV_SendClientGameState answers a message of the client, SV_FinalCommand a
\* shutdown: neither looks at unsentFragments.
SV_SendClientGameState == \E m \in Messages : SV_Netchan_Transmit(m)

\* SV_FreeClient, when the client is dropped: it stays a zombie to which
\* snapshots go on being sent.
SV_FreeClient ==
    /\ queue # <<>>
    /\ freed' = freed \cup { queue[k].id : k \in DOMAIN queue }
    /\ queue' = <<>>
    /\ UNCHANGED <<vars, submitted, sentIds, cornered>>

Receive(p) ==
    /\ Netchan_Process(p)
    /\ UNCHANGED <<queue, submitted, sentIds, freed, cornered>>

SVNext ==
    \/ SV_SendClientMessages
    \/ SV_SendClientGameState
    \/ SV_FreeClient
    \/ \E p \in net : Receive(p)

SVSpec == SVInit /\ [][SVNext]_svVars

-----------------------------------------------------------------------------
SVTypeOK ==
    /\ TypeOK
    /\ queue \in Seq([id : 1 .. MaxSubmitted, msg : Messages])
    /\ submitted \in 0 .. MaxSubmitted
    /\ sentIds \in Seq(1 .. MaxSubmitted)
    /\ freed \subseteq 1 .. MaxSubmitted
    /\ cornered \in BOOLEAN

\* A message made for the client is sent once, still queued, or was thrown away
\* when the client was dropped: popping several at a time loses and repeats none.
NoneForgotten ==
    LET queuedIds == { queue[k].id : k \in DOMAIN queue }
    IN  /\ 1 .. submitted = queuedIds \cup ToSet(sentIds) \cup freed
        /\ Len(sentIds) + Len(queue) + Cardinality(freed) = submitted

\* The queue and the server's other messages share the channel without mixing
\* their fragments: what the client puts together is what was made for it, in
\* the order it was numbered.
ImplementsChannelThroughQueue == Channel!Spec

\* "buffer them and make sure they get sent in correct order"
\* (sv_net_chan.cpp, comment of SV_Netchan_Transmit): messages are numbered in
\* the order they were made.
SentInOrder ==
    \A i, j \in DOMAIN sentIds : i < j => sentIds[i] < sentIds[j]

\* Where the order can be lost: as long as no call of SV_Netchan_Transmit
\* itself emitted the last fragment, messages leave in order and the queue is
\* only ever non-empty behind unsent fragments.
InOrderUnlessCornered ==
    ~cornered => /\ SentInOrder
                 /\ queue # <<>> => snd.unsentFragments
=============================================================================
