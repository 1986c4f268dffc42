------------------------- MODULE ClientSlotsProofs -------------------------
(***************************************************************************)
(* For every number of slots, clients and ports and all time limits: the   *)
(* server and the game agree about who is there, and a client that was     *)
(* never taken for another one has one slot at most.                       *)
(*                                                                         *)
(* The two properties and the types are inductive together.  What they     *)
(* lean on is that the first slot of a set of slots is one of the set,     *)
(* that is, that the search loops of the code stop at a slot.              *)
(***************************************************************************)
EXTENDS ClientSlots, WellFoundedInduction, TLAPS

IInv == TypeOK /\ OneSlotPerClient /\ GameAgrees

\* client_t, as TypeOK has it.
SlotRecords ==
    [state : {"FREE", "ZOMBIE", "CONNECTED", "ACTIVE"},
     who : Clients \cup {BOT}, port : Ports \cup {Nobody},
     lastPacket : 0 .. Oldest, lastConnect : 0 .. ReconnectLimit]

-----------------------------------------------------------------------------
\* A set of numbers has a least one, for less than is well-founded.
LEMMA LeastExists ==
    ASSUME NEW S \in SUBSET Nat, S # {}
    PROVE  \E s \in S : \A t \in S : s <= t
<1>1. PICK s \in S : \A t \in S : ~ (<<t, s>> \in OpToRel(<, Nat))
  BY NatLessThanWellFounded, WFMin, Zenon
<1>2. ASSUME NEW t \in S, t < s PROVE <<t, s>> \in OpToRel(<, Nat)
  BY <1>2, Zenon DEF OpToRel
<1>3. \A t \in S : ~(t < s)
  BY <1>1, <1>2
<1> QED
  BY <1>3

\* The loops of the server over its slots stop at one that fits, if there is one.
LEMMA LowestIsMember ==
    ASSUME NEW S \in SUBSET Slots, S # {}
    PROVE  Lowest(S) \in S
<1>1. S \subseteq Nat
  BY ConstantsAssumption DEF Slots
<1> QED
  BY <1>1, LeastExists DEF Lowest

-----------------------------------------------------------------------------
\* The initial states satisfy the inductive invariant.
LEMMA InitIInv == Init => IInv
<1> SUFFICES ASSUME Init PROVE IInv
  OBVIOUS
<1> USE ConstantsAssumption DEF Init, Empty
<1>1. Empty \in SlotRecords
  BY DEF SlotRecords, Oldest
<1>2. TypeOK
  BY <1>1 DEF TypeOK, SlotRecords
<1>3. OneSlotPerClient /\ GameAgrees
  BY DEF OneSlotPerClient, GameAgrees, InUse
<1> QED
  BY <1>2, <1>3 DEF IInv

\* What the code writes into a slot is still a client_t.
LEMMA WithState ==
    ASSUME NEW r \in SlotRecords, NEW state \in {"FREE", "ZOMBIE", "CONNECTED", "ACTIVE"}
    PROVE  LET new == [r EXCEPT !.state = state]
           IN  new \in SlotRecords /\ new.state = state /\ new.who = r.who
  BY DEF SlotRecords

LEMMA WithBot ==
    ASSUME NEW r \in SlotRecords, NEW age \in 0 .. Oldest
    PROVE  LET new == [r EXCEPT !.state = "ACTIVE", !.who = BOT, !.lastPacket = age]
           IN  new \in SlotRecords /\ new.state = "ACTIVE" /\ new.who = BOT
  BY DEF SlotRecords

LEMMA WithAges ==
    ASSUME NEW r \in SlotRecords, NEW age \in 0 .. Oldest, NEW age2 \in 0 .. ReconnectLimit
    PROVE  LET new == [r EXCEPT !.lastPacket = age, !.lastConnect = age2]
           IN  new \in SlotRecords /\ new.state = r.state /\ new.who = r.who
  BY DEF SlotRecords

LEMMA WithPort ==
    ASSUME NEW r \in SlotRecords, NEW p \in Ports, NEW age \in 0 .. Oldest
    PROVE  LET new == [r EXCEPT !.port = p, !.lastPacket = age]
           IN  new \in SlotRecords /\ new.state = r.state /\ new.who = r.who
  BY DEF SlotRecords

LEMMA WithStateAndAge ==
    ASSUME NEW r \in SlotRecords, NEW age \in 0 .. Oldest,
           NEW state \in {"FREE", "ZOMBIE", "CONNECTED", "ACTIVE"}
    PROVE  LET new == [r EXCEPT !.state = state, !.lastPacket = age]
           IN  new \in SlotRecords /\ new.state = state /\ new.who = r.who
  BY DEF SlotRecords

LEMMA AgedFacts ==
    ASSUME NEW r \in SlotRecords
    PROVE  Aged(r) \in SlotRecords /\ Aged(r).state = r.state /\ Aged(r).who = r.who
<1>1. Older(r.lastPacket, Oldest) \in 0 .. Oldest
  BY ConstantsAssumption DEF SlotRecords, Oldest, Older
<1>2. Older(r.lastConnect, ReconnectLimit) \in 0 .. ReconnectLimit
  BY ConstantsAssumption DEF SlotRecords, Older
<1> QED
  BY <1>1, <1>2, WithAges DEF Aged

LEMMA AgeFacts == 0 \in 0 .. Oldest /\ Oldest \in 0 .. Oldest /\ 0 \in 0 .. ReconnectLimit
  BY ConstantsAssumption DEF Oldest

LEMMA SlotFacts ==
    ASSUME TypeOK
    PROVE  clients \in [Slots -> SlotRecords]
  BY DEF TypeOK, SlotRecords

\* The slots of a step, put together again: types first, then the two properties from
\* the state of each slot and who is in it.
LEMMA TypesFromSlots ==
    ASSUME clients' \in [Slots -> SlotRecords],
           game' \in [Slots -> Clients \cup {BOT, Nobody}],
           port' \in [Clients -> Ports], mistaken' \in BOOLEAN,
           \A s \in Slots : clients'[s].who = BOT => clients'[s].state # "CONNECTED"
    PROVE  TypeOK'
  BY DEF TypeOK, SlotRecords

\* Nobody comes into a slot; some may leave, and the game is told of those.
LEMMA SameOrGone ==
    ASSUME IInv,
           clients' \in [Slots -> SlotRecords],
           game' \in [Slots -> Clients \cup {BOT, Nobody}],
           UNCHANGED <<port, mistaken>>,
           \A s \in Slots :
                /\ clients'[s].who = clients[s].who
                /\ clients[s].state = "FREE" => clients'[s].state = "FREE"
                /\ \/ InUse(s)' /\ InUse(s) /\ game'[s] = game[s]
                      /\ (clients[s].who = BOT => clients'[s].state = "ACTIVE")
                   \/ ~InUse(s)' /\ game'[s] = Nobody
    PROVE  IInv'
<1>1. TypeOK'
  BY TypesFromSlots DEF IInv, TypeOK, InUse
<1>2. OneSlotPerClient'
  BY DEF IInv, OneSlotPerClient
<1>3. GameAgrees'
  BY DEF IInv, GameAgrees
<1> QED
  BY <1>1, <1>2, <1>3 DEF IInv

-----------------------------------------------------------------------------
LEMMA DropFromFacts ==
    ASSUME TypeOK, NEW S
    PROVE  /\ DropFrom(clients, S) \in [Slots -> SlotRecords]
           /\ \A s \in Slots :
                /\ DropFrom(clients, S)[s].who = clients[s].who
                /\ DropFrom(clients, S)[s].state =
                        IF s \in S /\ InUse(s) THEN "ZOMBIE" ELSE clients[s].state
                /\ ~(s \in S /\ InUse(s)) => DropFrom(clients, S)[s] = clients[s]
<1>1. \A s \in Slots : /\ clients[s] \in SlotRecords
                       /\ [clients[s] EXCEPT !.state = "ZOMBIE"] \in SlotRecords
                       /\ [clients[s] EXCEPT !.state = "ZOMBIE"].state = "ZOMBIE"
                       /\ [clients[s] EXCEPT !.state = "ZOMBIE"].who = clients[s].who
  BY SlotFacts, WithState
<1> DEFINE zombie(s) == [clients[s] EXCEPT !.state = "ZOMBIE"]
<1>2. \A s \in Slots : /\ zombie(s) \in SlotRecords /\ zombie(s).state = "ZOMBIE"
                       /\ zombie(s).who = clients[s].who
  BY <1>1
<1>3. DropFrom(clients, S) =
        [s \in Slots |-> IF s \in S /\ InUse(s) THEN zombie(s) ELSE clients[s]]
  BY DEF DropFrom, InUse
<1> HIDE DEF zombie
<1> QED
  BY <1>1, <1>2, <1>3

LEMMA DropStep ==
    ASSUME IInv, NEW s \in Slots, SV_DropClient(s)
    PROVE  IInv'
<1>1. TypeOK
  BY DEF IInv
<1>2. clients' = DropFrom(clients, {s}) /\ game' = Disconnect({s}) /\ UNCHANGED <<port, mistaken>>
  BY DEF SV_DropClient
<1>3. game' \in [Slots -> Clients \cup {BOT, Nobody}]
  BY <1>1, <1>2 DEF TypeOK, Disconnect
<1>4. \A t \in Slots : game'[t] = IF t = s THEN Nobody ELSE game[t]
  BY <1>2 DEF Disconnect
<1>5. InUse(s)
  BY DEF SV_DropClient
<1>6. \A t \in Slots : /\ InUse(t) <=> game[t] # Nobody
                       /\ clients[t].who = BOT => clients[t].state # "CONNECTED"
  BY DEF IInv, GameAgrees, TypeOK
<1>7. /\ clients' \in [Slots -> SlotRecords]
      /\ \A t \in Slots : /\ clients'[t].who = clients[t].who
                          /\ clients'[t].state = IF t = s THEN "ZOMBIE" ELSE clients[t].state
  BY <1>1, <1>2, <1>5, DropFromFacts
<1> QED
  BY <1>2, <1>3, <1>4, <1>5, <1>6, <1>7, SameOrGone DEF InUse

-----------------------------------------------------------------------------
LEMMA EmptyFacts == Empty \in SlotRecords
  BY AgeFacts, ConstantsAssumption DEF Empty, SlotRecords

\* What SV_DirectConnect leaves of a slot that client c has been given.
LEMMA NewClientFacts ==
    ASSUME NEW c \in Clients, TypeOK, NEW state \in {"FREE", "CONNECTED"}
    PROVE  LET new   == NewClient(c, state)
               fresh == [new EXCEPT !.lastPacket = 0, !.lastConnect = 0]
           IN  /\ new \in SlotRecords /\ new.state = state /\ new.who = c
               /\ fresh \in SlotRecords /\ fresh.state = state /\ fresh.who = c
<1>1. PICK p \in Ports : p = port[c]
  BY DEF TypeOK
<1>2. LET new == NewClient(c, state)
      IN  new \in SlotRecords /\ new.state = state /\ new.who = c
  <2> DEFINE new(r) == [r EXCEPT !.state = state, !.who = c, !.port = p]
  <2>1. ASSUME NEW r \in SlotRecords
        PROVE  new(r) \in SlotRecords /\ new(r).state = state /\ new(r).who = c
    BY <2>1 DEF SlotRecords
  <2>2. new(Empty) \in SlotRecords /\ new(Empty).state = state /\ new(Empty).who = c
    BY <2>1, EmptyFacts
  <2> QED
    BY <1>1, <2>2 DEF NewClient
<1> QED
  BY <1>2, AgeFacts, WithAges

\* Joining keeps the agreement, in a free slot or in the one of the same client.
LEMMA JoinStep ==
    ASSUME IInv, NEW s \in Slots, NEW c \in Clients, Join(s, c),
           mistaken' \in BOOLEAN, mistaken => mistaken', port' = port,
           ~mistaken' => \A t \in Slots \ {s} : clients[t].state # "FREE" => clients[t].who # c,
           ~mistaken' /\ clients[s].state # "FREE" => clients[s].who = c
    PROVE  IInv'
<1>1. TypeOK /\ clients \in [Slots -> SlotRecords]
  BY SlotFacts DEF IInv
<1>2. /\ game \in [Slots -> Clients \cup {BOT, Nobody}]
      /\ port' \in [Clients -> Ports]
      /\ \A t \in Slots : clients[t].who = BOT => clients[t].state # "CONNECTED"
  BY <1>1 DEF TypeOK
<1>3. c # BOT /\ c # Nobody /\ BOT # Nobody
  BY ConstantsAssumption
<1>4. \A t \in Slots : /\ InUse(t) <=> game[t] # Nobody
                       /\ InUse(t) /\ ~mistaken => game[t] = clients[t].who
  BY DEF IInv, GameAgrees
<1>5. ~mistaken => \A t, u \in Slots :
            /\ t # u /\ clients[t].state # "FREE" /\ clients[u].state # "FREE"
            /\ clients[t].who \in Clients
            => clients[t].who # clients[u].who
  BY DEF IInv, OneSlotPerClient
<1>6. CASE /\ MayRefuse(s)
           /\ clients' = [clients EXCEPT ![s] = NewClient(c, "FREE")]
           /\ UNCHANGED game
  <2>1. /\ clients' \in [Slots -> SlotRecords]
        /\ clients'[s].state = "FREE" /\ clients'[s].who = c
        /\ \A t \in Slots \ {s} : clients'[t] = clients[t]
    BY <1>1, <1>6, NewClientFacts
  <2>2. TypeOK'
    BY <1>2, <1>3, <1>6, <2>1, TypesFromSlots
  <2>3. OneSlotPerClient'
    BY <1>5, <2>1 DEF OneSlotPerClient
  <2>4. GameAgrees'
    BY <1>4, <1>6, <2>1 DEF GameAgrees, InUse, MayRefuse
  <2> QED
    BY <2>2, <2>3, <2>4 DEF IInv
<1>7. CASE /\ clients' = [DropFrom(clients, Ghosts(s, c)) EXCEPT
                            ![s] = [NewClient(c, "CONNECTED") EXCEPT !.lastPacket = 0,
                                                                     !.lastConnect = 0]]
           /\ game' = [Disconnect(Ghosts(s, c)) EXCEPT ![s] = IF @ = Nobody THEN c ELSE @]
  <2> DEFINE taken   == [NewClient(c, "CONNECTED") EXCEPT !.lastPacket = 0, !.lastConnect = 0]
             dropped == DropFrom(clients, Ghosts(s, c))
  <2>1. taken \in SlotRecords /\ taken.state = "CONNECTED" /\ taken.who = c
    BY <1>1, NewClientFacts
  <2>2. /\ dropped \in [Slots -> SlotRecords]
        /\ \A t \in Slots :
            /\ dropped[t].who = clients[t].who
            /\ dropped[t].state = IF t \in Ghosts(s, c) /\ InUse(t) THEN "ZOMBIE"
                                  ELSE clients[t].state
    BY <1>1, DropFromFacts
  <2>3. clients' = [dropped EXCEPT ![s] = taken]
    BY <1>7
  <2> HIDE DEF taken, dropped
  <2>4. /\ clients' \in [Slots -> SlotRecords]
        /\ clients'[s].state = "CONNECTED" /\ clients'[s].who = c
        /\ \A t \in Slots \ {s} : clients'[t] = dropped[t]
    BY <2>1, <2>2, <2>3
  <2>5. \A t \in Slots \ {s} :
            /\ clients'[t].who = clients[t].who
            /\ clients'[t].state = IF t \in Ghosts(s, c) /\ InUse(t) THEN "ZOMBIE"
                                   ELSE clients[t].state
    BY <2>2, <2>4
  <2>6. Disconnect(Ghosts(s, c)) \in [Slots -> Clients \cup {BOT, Nobody}]
        /\ \A t \in Slots : Disconnect(Ghosts(s, c))[t] =
                                IF t \in Ghosts(s, c) THEN Nobody ELSE game[t]
    BY <1>2 DEF Disconnect
  <2>7. s \notin Ghosts(s, c) /\ \A t \in Ghosts(s, c) : game[t] = c
    BY DEF Ghosts
  <2>8. /\ game' \in [Slots -> Clients \cup {BOT, Nobody}]
        /\ game'[s] = IF game[s] = Nobody THEN c ELSE game[s]
        /\ \A t \in Slots \ {s} : game'[t] = IF t \in Ghosts(s, c) THEN Nobody ELSE game[t]
    BY <1>7, <2>6, <2>7
  <2>9. TypeOK'
    <3>1. \A t \in Slots : clients'[t].who = BOT => clients'[t].state # "CONNECTED"
      BY <1>2, <1>3, <2>4, <2>5
    <3> QED
      BY <1>2, <2>4, <2>8, <3>1, TypesFromSlots
  <2>10. OneSlotPerClient'
    <3> SUFFICES ASSUME ~mistaken', NEW t \in Slots, NEW u \in Slots, t # u,
                        clients'[t].state # "FREE", clients'[u].state # "FREE",
                        clients'[t].who \in Clients
                 PROVE  clients'[t].who # clients'[u].who
      BY DEF OneSlotPerClient
    <3>1. \A v \in Slots \ {s} : clients'[v].state # "FREE" => clients[v].state # "FREE"
      BY <2>5 DEF InUse
    <3> QED
      BY <1>5, <2>4, <2>5, <3>1
  <2>11. GameAgrees'
    <3> SUFFICES ASSUME NEW t \in Slots
                 PROVE  /\ InUse(t)' <=> game'[t] # Nobody
                        /\ InUse(t)' /\ ~mistaken' => game'[t] = clients'[t].who
      BY DEF GameAgrees
    <3>1. CASE t = s
      BY <1>3, <1>4, <2>4, <2>8, <3>1 DEF InUse
    <3>2. CASE t # s
      BY <1>3, <1>4, <2>5, <2>7, <2>8, <3>2 DEF InUse
    <3> QED
      BY <3>1, <3>2
  <2> QED
    BY <2>9, <2>10, <2>11 DEF IInv
<1> QED
  BY <1>6, <1>7 DEF Join

LEMMA ConnectStep ==
    ASSUME IInv, NEW c \in Clients, SV_DirectConnect(c)
    PROVE  IInv'
<1>1. CASE /\ Reusable(c) # {}
           /\ Join(Lowest(Reusable(c)), c)
           /\ mistaken' = (mistaken \/ clients[Lowest(Reusable(c))].who # c)
  <2> DEFINE s == Lowest(Reusable(c))
  <2>1. s \in Slots /\ clients[s].state # "FREE"
    BY <1>1, LowestIsMember DEF Reusable
  <2>2. ~mistaken' => /\ clients[s].who = c
                      /\ \A t \in Slots \ {s} :
                            clients[t].state # "FREE" => clients[t].who # c
    BY <1>1, <2>1 DEF IInv, OneSlotPerClient
  <2>3. mistaken' \in BOOLEAN /\ (mistaken => mistaken') /\ port' = port
    BY <1>1 DEF IInv, TypeOK, SV_DirectConnect
  <2> QED
    BY <1>1, <2>1, <2>2, <2>3, JoinStep
<1>2. CASE /\ Reusable(c) = {} /\ Free # {}
           /\ Join(Lowest(Free), c)
           /\ UNCHANGED mistaken
  <2> DEFINE s == Lowest(Free)
  <2>1. s \in Slots /\ clients[s].state = "FREE"
    BY <1>2, LowestIsMember DEF Free
  <2>2. \A t \in Slots : clients[t].state # "FREE" => clients[t].who # c
    BY <1>2 DEF Reusable, SameClient
  <2>3. mistaken' \in BOOLEAN /\ (mistaken => mistaken') /\ port' = port
    BY <1>2 DEF IInv, TypeOK, SV_DirectConnect
  <2> QED
    BY <1>2, <2>1, <2>2, <2>3, JoinStep
<1> QED
  BY <1>1, <1>2 DEF SV_DirectConnect

-----------------------------------------------------------------------------
\* Only a slot with that client is heard from; only its state may change, and only
\* from one kind of use to the other.
LEMMA PacketStep ==
    ASSUME IInv, NEW c \in Clients, SV_PacketEvent(c)
    PROVE  IInv'
<1> DEFINE from == { s \in Slots : clients[s].state # "FREE" /\ clients[s].who = c }
           s    == Lowest(from)
           age  == IF HeardFrom(clients[s]) THEN 0 ELSE clients[s].lastPacket
           cl   == [clients[s] EXCEPT !.port = port[c], !.lastPacket = age]
<1>1. s \in Slots /\ clients[s].state # "FREE" /\ clients[s].who = c
  <2>1. from # {}
    BY DEF SV_PacketEvent
  <2> QED
    BY <2>1, LowestIsMember
<1>2. clients \in [Slots -> SlotRecords] /\ port[c] \in Ports
  BY SlotFacts DEF IInv, TypeOK
<1>3. age \in 0 .. Oldest
  BY <1>1, <1>2, AgeFacts DEF SlotRecords
<1> HIDE DEF age
<1>4. cl \in SlotRecords /\ cl.state = clients[s].state /\ cl.who = c
  <2>1. clients[s] \in SlotRecords
    BY <1>1, <1>2
  <2>2. cl \in SlotRecords /\ cl.state = clients[s].state /\ cl.who = clients[s].who
    BY <1>2, <1>3, <2>1, WithPort
  <2> QED
    BY <1>1, <2>2
<1>5. /\ \/ clients' = [clients EXCEPT ![s] = cl]
         \/ /\ cl.state = "CONNECTED"
            /\ clients' = [clients EXCEPT ![s] = [cl EXCEPT !.state = "ACTIVE"]]
      /\ UNCHANGED <<game, port, mistaken>>
  BY DEF SV_PacketEvent, age
<1> HIDE DEF s, cl
<1>6. /\ clients' \in [Slots -> SlotRecords]
      /\ \A t \in Slots \ {s} : clients'[t] = clients[t]
      /\ clients'[s].who = c
      /\ \/ clients'[s].state = clients[s].state
         \/ clients[s].state = "CONNECTED" /\ clients'[s].state = "ACTIVE"
  <2>1. LET active == [cl EXCEPT !.state = "ACTIVE"]
        IN  active \in SlotRecords /\ active.state = "ACTIVE" /\ active.who = c
    BY <1>4, WithState
  <2> QED
    BY <1>1, <1>2, <1>4, <1>5, <2>1
<1>7. \A t \in Slots : /\ InUse(t) <=> game[t] # Nobody
                       /\ clients[t].who = BOT => clients[t].state # "CONNECTED"
                       /\ InUse(t)' <=> InUse(t)
  BY <1>1, <1>6 DEF IInv, GameAgrees, TypeOK, InUse
<1>8. game' \in [Slots -> Clients \cup {BOT, Nobody}] /\ game' = game
  BY <1>5 DEF IInv, TypeOK
<1>9. \A t \in Slots : /\ clients'[t].who = clients[t].who
                       /\ clients[t].state = "FREE" => clients'[t].state = "FREE"
                       /\ clients[t].who = BOT /\ InUse(t) => clients'[t].state = "ACTIVE"
  BY <1>1, <1>6, <1>7, ConstantsAssumption DEF InUse
<1> QED
  BY <1>5, <1>6, <1>7, <1>8, <1>9, SameOrGone

LEMMA BotStep ==
    ASSUME IInv, SV_BotAllocateClient
    PROVE  IInv'
<1> DEFINE s   == Lowest(Free \ {0})
           new == [clients[s] EXCEPT !.state = "ACTIVE", !.who = BOT, !.lastPacket = 0]
<1>1. s \in Slots /\ clients[s].state = "FREE"
  <2>1. Free \ {0} # {} /\ Free \ {0} \in SUBSET Slots
    BY DEF SV_BotAllocateClient, Free
  <2>2. s \in Free \ {0}
    BY <2>1, LowestIsMember
  <2> QED
    BY <2>2 DEF Free
<1>2. clients \in [Slots -> SlotRecords]
  BY SlotFacts DEF IInv
<1>3. new \in SlotRecords /\ new.state = "ACTIVE" /\ new.who = BOT
  BY <1>1, <1>2, AgeFacts, WithBot
<1>4. clients' = [clients EXCEPT ![s] = new]
  BY <1>1, <1>2 DEF SV_BotAllocateClient
<1>5. game' = [game EXCEPT ![s] = BOT] /\ UNCHANGED <<port, mistaken>>
  BY DEF SV_BotAllocateClient
<1> HIDE DEF s, new
<1>6. /\ clients' \in [Slots -> SlotRecords]
      /\ clients'[s].who = BOT /\ clients'[s].state = "ACTIVE"
      /\ \A t \in Slots \ {s} : clients'[t] = clients[t]
  BY <1>1, <1>2, <1>3, <1>4
<1>7. /\ game' \in [Slots -> Clients \cup {BOT, Nobody}]
      /\ game'[s] = BOT /\ \A t \in Slots \ {s} : game'[t] = game[t]
  BY <1>1, <1>5 DEF IInv, TypeOK
<1>8. TypeOK'
  BY <1>5, <1>6, <1>7, TypesFromSlots DEF IInv, TypeOK
<1>9. OneSlotPerClient'
  BY <1>1, <1>5, <1>6, ConstantsAssumption DEF IInv, OneSlotPerClient
<1>10. GameAgrees'
  BY <1>1, <1>5, <1>6, <1>7, ConstantsAssumption DEF IInv, GameAgrees, InUse
<1> QED
  BY <1>8, <1>9, <1>10 DEF IInv

LEMMA BotHeardStep ==
    ASSUME IInv, NEW s \in Slots, SV_BotGetConsoleMessage(s)
    PROVE  IInv'
<1> DEFINE new == [clients[s] EXCEPT !.lastPacket = 0]
<1>1. clients \in [Slots -> SlotRecords]
  BY SlotFacts DEF IInv
<1>2. new \in SlotRecords /\ new.state = clients[s].state /\ new.who = clients[s].who
  BY <1>1, AgeFacts DEF SlotRecords
<1>3. clients' = [clients EXCEPT ![s] = new] /\ UNCHANGED <<game, port, mistaken>>
  BY <1>1 DEF SV_BotGetConsoleMessage
<1> HIDE DEF new
<1>4. /\ clients' \in [Slots -> SlotRecords]
      /\ \A t \in Slots : /\ clients'[t].state = clients[t].state
                          /\ clients'[t].who = clients[t].who
  BY <1>1, <1>2, <1>3
<1>5. TypeOK'
  BY <1>3, <1>4, TypesFromSlots DEF IInv, TypeOK
<1>6. OneSlotPerClient' /\ GameAgrees'
  BY <1>3, <1>4 DEF IInv, OneSlotPerClient, GameAgrees, InUse
<1> QED
  BY <1>5, <1>6 DEF IInv

-----------------------------------------------------------------------------
\* A frame ages the slots, and frees zombies and those that timed out.
LEMMA FrameStep ==
    ASSUME IInv, NEW ticks \in BOOLEAN, SV_Frame(ticks)
    PROVE  IInv'
<1> DEFINE cls == [s \in Slots |-> IF ticks THEN Aged(clients[s]) ELSE clients[s]]
<1>1. PICK late \in SUBSET Overdue(cls) :
        /\ clients' = [s \in Slots |-> IF s \in late THEN [cls[s] EXCEPT !.state = "FREE"]
                                                     ELSE Freed(cls)[s]]
        /\ game' = [s \in Slots |-> IF s \in late THEN TimedOut(s) ELSE game[s]]
  BY DEF SV_Frame
<1>2. UNCHANGED <<port, mistaken>>
  BY DEF SV_Frame
<1>3. \A s \in Slots : clients[s] \in SlotRecords
  BY SlotFacts DEF IInv
<1>4. /\ cls \in [Slots -> SlotRecords]
      /\ \A s \in Slots : cls[s].state = clients[s].state /\ cls[s].who = clients[s].who
  BY <1>3, AgedFacts
<1>5. \A s \in late : InUse(s)
  BY <1>4 DEF Overdue, InUse
<1> HIDE DEF cls
<1> DEFINE out(s)   == [cls[s] EXCEPT !.state = "FREE"]
           freed(s) == [cls[s] EXCEPT !.state = "FREE", !.lastPacket = Oldest]
<1>6. \A s \in Slots :
        /\ out(s) \in SlotRecords /\ out(s).state = "FREE" /\ out(s).who = clients[s].who
        /\ freed(s) \in SlotRecords /\ freed(s).state = "FREE" /\ freed(s).who = clients[s].who
  <2> SUFFICES ASSUME NEW s \in Slots
               PROVE  /\ out(s) \in SlotRecords /\ out(s).state = "FREE"
                      /\ out(s).who = clients[s].who
                      /\ freed(s) \in SlotRecords /\ freed(s).state = "FREE"
                      /\ freed(s).who = clients[s].who
    OBVIOUS
  <2>1. cls[s] \in SlotRecords /\ cls[s].who = clients[s].who
    BY <1>4
  <2>2. "FREE" \in {"FREE", "ZOMBIE", "CONNECTED", "ACTIVE"} /\ Oldest \in 0 .. Oldest
    BY AgeFacts
  <2>3. out(s) \in SlotRecords /\ out(s).state = "FREE" /\ out(s).who = cls[s].who
    BY <2>1, <2>2, WithState
  <2>4. freed(s) \in SlotRecords /\ freed(s).state = "FREE" /\ freed(s).who = cls[s].who
    <3>1. \A r \in SlotRecords :
             LET new == [r EXCEPT !.state = "FREE", !.lastPacket = Oldest]
             IN  new \in SlotRecords /\ new.state = "FREE" /\ new.who = r.who
      BY <2>2, WithStateAndAge
    <3> QED
      BY <2>1, <3>1, Zenon
  <2> QED
    BY <2>1, <2>3, <2>4
<1>7. /\ clients' = [s \in Slots |-> IF s \in late THEN out(s) ELSE Freed(cls)[s]]
      /\ Freed(cls) = [s \in Slots |-> IF cls[s].state = "ZOMBIE"
                                           /\ cls[s].lastPacket > ZombieTime
                                       THEN freed(s) ELSE cls[s]]
  BY <1>1 DEF Freed
<1> HIDE DEF out, freed
<1>8. clients' \in [Slots -> SlotRecords]
  BY <1>4, <1>6, <1>7
<1>9. \A s \in Slots :
        /\ clients'[s].who = clients[s].who
        /\ s \in late => clients'[s].state = "FREE"
        /\ s \notin late => \/ clients'[s].state = clients[s].state
                            \/ clients[s].state = "ZOMBIE" /\ clients'[s].state = "FREE"
  BY <1>4, <1>6, <1>7
<1>10. /\ game' \in [Slots -> Clients \cup {BOT, Nobody}]
       /\ \A s \in Slots : game'[s] = IF s \in late THEN Nobody ELSE game[s]
  BY <1>1 DEF IInv, TypeOK, TimedOut
<1>11. \A s \in Slots : /\ InUse(s) <=> game[s] # Nobody
                        /\ clients[s].who = BOT => clients[s].state # "CONNECTED"
  BY DEF IInv, GameAgrees, TypeOK
<1>12. \A s \in Slots :
                /\ clients'[s].who = clients[s].who
                /\ clients[s].state = "FREE" => clients'[s].state = "FREE"
                /\ \/ InUse(s)' /\ InUse(s) /\ game'[s] = game[s]
                      /\ (clients[s].who = BOT => clients'[s].state = "ACTIVE")
                   \/ ~InUse(s)' /\ game'[s] = Nobody
  BY <1>5, <1>9, <1>10, <1>11 DEF InUse
<1> QED
  BY <1>2, <1>8, <1>10, <1>12, SameOrGone

\* A new game asks everyone in again, or denies them.
LEMMA LevelStep ==
    ASSUME IInv, NEW state \in {"CONNECTED", "ACTIVE"}, ChangeLevel(state)
    PROVE  IInv'
<1> DEFINE used == { s \in Slots : InUse(s) }
<1>1. PICK denied \in SUBSET used :
        /\ clients' = [s \in Slots |-> IF s \in used \ denied THEN Readmitted(clients[s], state)
                                       ELSE DropFrom(clients, denied)[s]]
        /\ game' = [s \in Slots |-> IF s \in used \ denied THEN clients[s].who ELSE Nobody]
  BY DEF ChangeLevel
<1>2. UNCHANGED <<port, mistaken>>
  BY DEF ChangeLevel
<1>3. TypeOK /\ clients \in [Slots -> SlotRecords]
  BY SlotFacts DEF IInv
<1>4. \A s \in Slots : clients[s].who = BOT => clients[s].state # "CONNECTED"
  BY <1>3 DEF TypeOK
<1>5. \A s \in Slots :
        /\ Readmitted(clients[s], state) \in SlotRecords
        /\ Readmitted(clients[s], state).who = clients[s].who
        /\ InUse(s) => /\ Readmitted(clients[s], state).state \in {"CONNECTED", "ACTIVE"}
                       /\ clients[s].who = BOT => Readmitted(clients[s], state).state = "ACTIVE"
  <2> SUFFICES ASSUME NEW s \in Slots
               PROVE  /\ Readmitted(clients[s], state) \in SlotRecords
                      /\ Readmitted(clients[s], state).who = clients[s].who
                      /\ InUse(s) =>
                            /\ Readmitted(clients[s], state).state \in {"CONNECTED", "ACTIVE"}
                            /\ clients[s].who = BOT =>
                                    Readmitted(clients[s], state).state = "ACTIVE"
    OBVIOUS
  <2>1. LET new == [clients[s] EXCEPT !.state = state]
        IN  new \in SlotRecords /\ new.state = state /\ new.who = clients[s].who
    <3>1. clients[s] \in SlotRecords
      BY <1>3
    <3>2. state \in {"FREE", "ZOMBIE", "CONNECTED", "ACTIVE"}
      OBVIOUS
    <3> QED
      BY <3>1, <3>2, WithState
  <2>2. CASE IsBot(clients[s])
    BY <1>3, <2>2 DEF Readmitted, IsBot
  <2>3. CASE ~IsBot(clients[s])
    BY <1>4, <2>1, <2>3 DEF Readmitted, IsBot, InUse
  <2> QED
    BY <2>2, <2>3
<1>6. /\ DropFrom(clients, denied) \in [Slots -> SlotRecords]
      /\ \A s \in Slots :
            /\ DropFrom(clients, denied)[s].who = clients[s].who
            /\ s \in denied => DropFrom(clients, denied)[s].state = "ZOMBIE"
            /\ s \notin used => DropFrom(clients, denied)[s].state = clients[s].state
  BY <1>3, DropFromFacts
<1>7. /\ clients' \in [Slots -> SlotRecords]
      /\ \A s \in Slots :
            /\ clients'[s].who = clients[s].who
            /\ s \in used \ denied => /\ clients'[s].state \in {"CONNECTED", "ACTIVE"}
                                      /\ clients[s].who = BOT => clients'[s].state = "ACTIVE"
            /\ s \in denied => clients'[s].state = "ZOMBIE"
            /\ s \notin used => clients'[s].state = clients[s].state
  <2>1. \A s \in Slots : clients'[s] = IF s \in used \ denied THEN Readmitted(clients[s], state)
                                       ELSE DropFrom(clients, denied)[s]
    BY <1>1
  <2>2. clients' \in [Slots -> SlotRecords]
    BY <1>1, <1>5, <1>6
  <2> QED
    BY <1>5, <1>6, <2>1, <2>2
<1>8. \A s \in Slots : clients[s].who \in Clients \cup {BOT}
  BY <1>3 DEF SlotRecords
<1>9. /\ game' \in [Slots -> Clients \cup {BOT, Nobody}]
      /\ \A s \in Slots : game'[s] = IF s \in used \ denied THEN clients[s].who ELSE Nobody
  BY <1>1, <1>8
<1>10. TypeOK'
  <2>1. \A s \in Slots : clients'[s].who = BOT => clients'[s].state # "CONNECTED"
    BY <1>4, <1>7
  <2> QED
    BY <1>2, <1>3, <1>7, <1>9, <2>1, TypesFromSlots DEF TypeOK
<1>11. OneSlotPerClient'
  <2>1. \A s \in Slots : clients'[s].state # "FREE" => clients[s].state # "FREE"
    BY <1>7 DEF InUse
  <2> QED
    BY <1>2, <1>7, <2>1 DEF IInv, OneSlotPerClient
<1>12. GameAgrees'
  <2>1. \A s \in Slots : clients[s].who # Nobody
    BY <1>8, ConstantsAssumption
  <2>2. \A s \in Slots : InUse(s)' <=> s \in used \ denied
    BY <1>7 DEF InUse
  <2> QED
    BY <1>7, <1>9, <2>1, <2>2 DEF GameAgrees
<1> QED
  BY <1>10, <1>11, <1>12 DEF IInv

\* Every step, and a stutter, keeps it.
LEMMA NextIInv == IInv /\ [Next]_vars => IInv'
<1> SUFFICES ASSUME IInv, [Next]_vars PROVE IInv'
  OBVIOUS
<1>1. ASSUME NEW s \in Slots, SV_DropClient(s) \/ SV_BotGetConsoleMessage(s) PROVE IInv'
  BY <1>1, DropStep, BotHeardStep
<1>2. ASSUME NEW c \in Clients, SV_DirectConnect(c) \/ SV_PacketEvent(c) PROVE IInv'
  BY <1>2, ConnectStep, PacketStep
<1>3. CASE SV_BotAllocateClient
  BY <1>3, BotStep
<1>4. ASSUME NEW ticks \in BOOLEAN, SV_Frame(ticks) PROVE IInv'
  BY <1>4, FrameStep
<1>5. CASE SV_SpawnServer \/ SV_MapRestart_f
  BY <1>5, LevelStep DEF SV_SpawnServer, SV_MapRestart_f
<1>6. ASSUME NEW c \in Clients, NEW p \in Ports, TranslatePort(c, p) PROVE IInv'
  BY <1>6 DEF TranslatePort, IInv, TypeOK, OneSlotPerClient, GameAgrees, InUse
<1>7. CASE UNCHANGED vars
  BY <1>7 DEF vars, IInv, TypeOK, OneSlotPerClient, GameAgrees, InUse
<1> QED
  BY <1>1, <1>2, <1>3, <1>4, <1>5, <1>6, <1>7 DEF Next

\* So it holds in every behaviour.
LEMMA Invariant == Spec => []IInv
  BY InitIInv, NextIInv, PTL DEF Spec

-----------------------------------------------------------------------------
\* Slots are of their type, and a bot never waits for a gamestate (SV_BotAllocateClient,
\* SV_SpawnServer).
THEOREM TypeCorrect == Spec => []TypeOK
<1>1. IInv => TypeOK
  BY DEF IInv
<1> QED
  BY <1>1, Invariant, PTL

\* However many clients connect, reconnect, are dropped, time out or get other ports,
\* a client is in one slot at most until it is taken for another one
\* (SV_DirectConnect).
THEOREM OneSlot == Spec => []OneSlotPerClient
<1>1. IInv => OneSlotPerClient
  BY DEF IInv
<1> QED
  BY <1>1, Invariant, PTL

\* The game has one client connected for each slot the server has in use, and the
\* same one (SV_DropClient, SV_CheckTimeouts, SV_SpawnServer, ClientConnect).
THEOREM Agreement == Spec => []GameAgrees
<1>1. IInv => GameAgrees
  BY DEF IInv
<1> QED
  BY <1>1, Invariant, PTL
=============================================================================
