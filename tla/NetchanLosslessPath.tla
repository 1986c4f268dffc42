------------------------ MODULE NetchanLosslessPath ------------------------
(***************************************************************************)
(* Netchan when the network loses nothing and keeps the order: the packets *)
(* of net are on their way in wire, in the order they were sent, and each  *)
(* arrives once.  Shows that the receiver's checks drop only what the      *)
(* network spoiled.                                                        *)
(***************************************************************************)
EXTENDS Netchan

VARIABLE wire

pathVars == <<vars, wire>>

PathInit == Init /\ wire = <<>>

\* The packet of a sending step joins the wire.
Transmits(p) == wire' = Append(wire, p)

PathSend ==
    \E m \in Messages : Send(m) /\ Transmits(FirstPacket(snd, m))

PathSendNextFragment == SendNextFragment /\ Transmits(NextFragment(snd))

PathProcess ==
    /\ wire # <<>>
    /\ wire' = Tail(wire)
    /\ \/ Netchan_Process(Head(wire))
       \/ ~Fresh(Head(wire)) /\ UNCHANGED vars

PathNext == PathSend \/ PathSendNextFragment \/ PathProcess

PathSpec ==
    /\ PathInit
    /\ [][PathNext]_pathVars
    /\ WF_pathVars(PathSendNextFragment)
    /\ WF_pathVars(PathProcess)

-----------------------------------------------------------------------------
\* On such a path every message arrives, a message whose length is an exact
\* multiple of the fragment size too ("the other side can tell there aren't
\* more to follow", net_chan.cpp:160).
EveryMessageArrives ==
    \A s \in 1 .. MaxMessages :
        (s <= Len(sent)) ~>
            \E i \in DOMAIN delivered : delivered[i].seq = s

=============================================================================
