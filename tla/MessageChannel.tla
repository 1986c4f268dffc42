--------------------------- MODULE MessageChannel ---------------------------
(***************************************************************************)
(* What net_chan.cpp promises the layers above it: messages may be lost,   *)
(* but one that arrives is whole, is the one that was sent, and arrives    *)
(* after every earlier one that arrived and never twice.                   *)
(***************************************************************************)
EXTENDS Naturals, Sequences

CONSTANT Messages

VARIABLES sent, delivered

vars == <<sent, delivered>>

\* The number of the newest message handed up, 0 before the first.
Newest ==
    IF delivered = <<>> THEN 0 ELSE delivered[Len(delivered)].seq

Init ==
    /\ sent = <<>>
    /\ delivered = <<>>

\* One call of the layer above may send several messages.
Send ==
    /\ sent' \in Seq(Messages)
    /\ Len(sent') > Len(sent)
    /\ \A s \in 1 .. Len(sent) : sent'[s] = sent[s]
    /\ UNCHANGED delivered

\* Messages Newest + 1 .. s - 1 are lost for good.
Deliver(s) ==
    /\ s > Newest
    /\ delivered' = Append(delivered, [seq |-> s, msg |-> sent[s]])
    /\ UNCHANGED sent

Next ==
    \/ Send
    \/ \E s \in 1 .. Len(sent) : Deliver(s)

Spec == Init /\ [][Next]_vars
=============================================================================
