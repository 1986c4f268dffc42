----------------------------- MODULE VotesProofs -----------------------------
(***************************************************************************)
(* For every number of clients and teams, and whatever the times: the      *)
(* counts of a vote are those of the clients that cast it, what waits to   *)
(* be executed is what has passed, and no intermission outlasts a minute.  *)
(*                                                                         *)
(* A vote that runs waits for nothing and is not yet VoteTime old, and no  *)
(* intermission is older than a vote that runs in it.  So no vote is left  *)
(* to run when the minute is over.                                         *)
(***************************************************************************)
EXTENDS Votes, TLAPS, FiniteSetTheorems

CommandKinds ==
    {"none", "nextmap", "map", "spectate", "poll", "exit", "exit to the voted map"}

\* A command moves only a client that there is.
Orders ==
    { o \in [kind : CommandKinds, target : Slots \cup {0}] :
        o.kind = "spectate" => o.target \in Slots }

Clients ==
    [connected : {"no", "connecting", "connected"}, team : Teams, voted : SUBSET Teams,
     voteYes : SUBSET Teams, voteNo : SUBSET Teams, ready : BOOLEAN]

VotesOfTeams ==
    [running : BOOLEAN, age : Nat, wait : -1 .. VoteDelay + 1, command : Orders,
     yes : Int, no : Int, voted : Int, due : Orders]

LevelType ==
    [clients : [Slots -> Clients], team : [Teams -> VotesOfTeams],
     phase : {"play", "queued", "intermission", "over"}, since : 0 .. MaxIntermission + 1,
     exit : Int, nextMap : BOOLEAN, restarted : BOOLEAN]

\* v is not both running and waiting, and what waits is what has passed.
WaitsRightly(v) ==
    /\ v.running => v.wait = -1
    /\ v.due = IF v.wait = -1 THEN NoCommand ELSE v.command

\* The tallies, and what waits, are right in lv.
Counted(lv) ==
    \A t \in Teams : WaitsRightly(lv.team[t]) /\ (lv.team[t].running => TallyOf(lv, t))

\* No vote is older than age, nor is a vote that runs younger than the intermission it runs in.
Aging(lv, age) ==
    \A t \in Teams :
        /\ lv.team[t].age <= VoteTime
        /\ lv.team[t].running => lv.team[t].age <= age
        /\ lv.team[t].running /\ lv.phase = "intermission" => lv.since <= lv.team[t].age

\* Between two steps.
Good(lv) ==
    /\ lv \in LevelType
    /\ Counted(lv)
    /\ Aging(lv, VoteTime - 1)
    /\ lv.phase = "intermission" => lv.since <= MaxIntermission

IInv ==
    /\ Good(level)
    /\ console \in Seq(Orders)
    /\ moves \in Nat /\ calls \in Nat

-----------------------------------------------------------------------------
(* Counts *)

\* The sets that are counted are sets of clients, and finite.
LEMMA SetsOfClients ==
    ASSUME NEW lv, NEW t
    PROVE  Yes(lv, t) \in SUBSET Slots /\ No(lv, t) \in SUBSET Slots
  BY DEF Yes, No, Members, Here

LEMMA CountIsNat ==
    ASSUME NEW S \in SUBSET Slots
    PROVE  IsFiniteSet(S) /\ Cardinality(S) \in Nat
  BY SlotsAssumption, FS_Subset, FS_CardinalityType

\* With one client more there is one more to count, and with more of them no fewer.
LEMMA OneMore ==
    ASSUME NEW S \in SUBSET Slots, NEW c \in Slots
    PROVE  /\ Cardinality(S \cup {c}) = IF c \in S THEN Cardinality(S) ELSE Cardinality(S) + 1
           /\ Cardinality(S \ {c}) = IF c \in S THEN Cardinality(S) - 1 ELSE Cardinality(S)
  BY CountIsNat, FS_AddElement, FS_RemoveElement

LEMMA NoFewer ==
    ASSUME NEW S \in SUBSET Slots, NEW R \in SUBSET S
    PROVE  Cardinality(R) <= Cardinality(S)
  BY CountIsNat, FS_Subset

LEMMA PlayersAreNat ==
    ASSUME NEW lv, NEW t
    PROVE  NumPlayers(lv, t) \in Nat
  BY CountIsNat DEF NumPlayers, Here

-----------------------------------------------------------------------------
(* One vote is changed. *)

\* What was said in t's vote is in r what it was in lv.
SaidAlike(t, lv, r) == Yes(r, t) = Yes(lv, t) /\ No(r, t) = No(lv, t)

\* At most the vote of t is changed, and what is said in it.
OnlyVoteOf(t, lv, r) ==
    /\ r \in LevelType
    /\ r.phase = lv.phase /\ r.since = lv.since
    /\ \A u \in Teams \ {t} : r.team[u] = lv.team[u] /\ SaidAlike(u, lv, r)

\* Then it is enough to look at that vote.
LEMMA EnoughForGood ==
    ASSUME NEW lv, Good(lv), NEW t \in Teams, NEW r, OnlyVoteOf(t, lv, r),
           WaitsRightly(r.team[t]), r.team[t].age <= VoteTime,
           r.team[t].running => /\ TallyOf(r, t) /\ r.team[t].age <= VoteTime - 1
                                /\ r.phase = "intermission" => r.since <= r.team[t].age
    PROVE  Good(r)
<1>1. Counted(r)
  <2> SUFFICES ASSUME NEW u \in Teams
               PROVE  WaitsRightly(r.team[u]) /\ (r.team[u].running => TallyOf(r, u))
    BY DEF Counted
  <2>1. CASE u = t
    BY <2>1
  <2>2. CASE u # t
    BY <2>2 DEF Good, Counted, OnlyVoteOf, SaidAlike, TallyOf
  <2> QED
    BY <2>1, <2>2
<1>2. Aging(r, VoteTime - 1)
  <2> SUFFICES ASSUME NEW u \in Teams
               PROVE  /\ r.team[u].age <= VoteTime
                      /\ r.team[u].running => r.team[u].age <= VoteTime - 1
                      /\ r.team[u].running /\ r.phase = "intermission" => r.since <= r.team[u].age
    BY DEF Aging
  <2>1. CASE u = t
    BY <2>1
  <2>2. CASE u # t
    BY <2>2 DEF Good, Aging, OnlyVoteOf
  <2> QED
    BY <2>1, <2>2
<1> QED
  BY <1>1, <1>2 DEF Good, OnlyVoteOf

\* G_Vote keeps the level of its type.
LEMMA VoteType ==
    ASSUME NEW lv \in LevelType, NEW c \in Slots, NEW t \in Teams, NEW voting \in BOOLEAN
    PROVE  Vote(lv, c, t, voting) \in LevelType
<1>1. /\ lv.clients \in [Slots -> Clients] /\ lv.team \in [Teams -> VotesOfTeams]
      /\ lv.clients[c] \in Clients /\ lv.team[t] \in VotesOfTeams
  BY DEF LevelType
<1>2. /\ Change(lv.team[t].voted, TRUE, voting) \in Int
      /\ Change(lv.team[t].yes, t \in lv.clients[c].voteYes, voting) \in Int
      /\ Change(lv.team[t].no, t \in lv.clients[c].voteNo, voting) \in Int
  BY <1>1 DEF VotesOfTeams, Change
<1>3. lv.clients[c].voted \cup {t} \in SUBSET Teams
  BY <1>1 DEF Clients
<1> QED
  BY <1>1, <1>2, <1>3 DEF Vote, LevelType, Clients, VotesOfTeams

\* r is lv with t's vote of client c counted once more, or, with -1, not any more.
CountedBy(n, lv, c, t, r) ==
    /\ r.phase = lv.phase /\ r.since = lv.since
    /\ r.clients = [lv.clients EXCEPT ![c].voted = @ \cup {t}]
    /\ \A u \in Teams \ {t} : r.team[u] = lv.team[u]
    /\ r.team[t].yes = lv.team[t].yes + (IF t \in lv.clients[c].voteYes THEN n ELSE 0)
    /\ r.team[t].no = lv.team[t].no + (IF t \in lv.clients[c].voteNo THEN n ELSE 0)
    /\ r.team[t].running /\ r.team[t].age = lv.team[t].age
    /\ r.team[t].wait = lv.team[t].wait /\ r.team[t].due = lv.team[t].due
    /\ r.team[t].command = lv.team[t].command

\* What it does when the vote counts.
LEMMA CastFacts ==
    ASSUME NEW lv \in LevelType, NEW c \in Slots, NEW t \in Teams,
           lv.team[t].running, t \notin lv.clients[c].voted
    PROVE  CountedBy(1, lv, c, t, Vote(lv, c, t, TRUE))
  BY DEF Vote, MayCount, Change, CountedBy, LevelType, Clients, VotesOfTeams

LEMMA TakeFacts ==
    ASSUME NEW lv \in LevelType, NEW c \in Slots, NEW t \in Teams,
           lv.team[t].running, t \in lv.clients[c].voted
    PROVE  CountedBy(-1, lv, c, t, Vote(lv, c, t, FALSE))
  BY DEF Vote, MayCount, Change, CountedBy, LevelType, Clients, VotesOfTeams

\* A vote that is cast by one of the members is counted and said.
LEMMA CastStep ==
    ASSUME NEW lv, Good(lv), NEW t \in Teams, lv.team[t].running, NEW c \in Members(lv, t)
    PROVE  Good(Vote(lv, c, t, TRUE))
<1> DEFINE r == Vote(lv, c, t, TRUE)
<1>1. CASE ~MayCount(lv, c, t, TRUE)
  BY <1>1 DEF Vote
<1>2. CASE MayCount(lv, c, t, TRUE)
  <2>1. c \in Slots /\ lv \in LevelType /\ r \in LevelType
    BY VoteType DEF Good, Members, Here
  <2>2. /\ lv.clients \in [Slots -> Clients] /\ lv.clients[c] \in Clients
        /\ lv.team[t] \in VotesOfTeams /\ t \notin lv.clients[c].voted
    BY <1>2, <2>1 DEF LevelType, MayCount
  <2>3. CountedBy(1, lv, c, t, r)
    BY <1>2, <2>1, <2>2, CastFacts
  <2> HIDE DEF r
  <2>4. /\ Yes(r, t) = IF t \in lv.clients[c].voteYes THEN Yes(lv, t) \cup {c} ELSE Yes(lv, t)
        /\ No(r, t) = IF t \in lv.clients[c].voteNo THEN No(lv, t) \cup {c} ELSE No(lv, t)
    BY <2>1, <2>2, <2>3 DEF CountedBy, Yes, No, Members, Here, Clients
  <2>5. c \notin Yes(lv, t) /\ c \notin No(lv, t)
    BY <2>2 DEF Yes, No
  <2>6. \A u \in Teams \ {t} : SaidAlike(u, lv, r)
    BY <2>1, <2>2, <2>3 DEF CountedBy, SaidAlike, Yes, No, Members, Here, Clients
  <2>7. TallyOf(lv, t) /\ lv.team[t].yes \in Int /\ lv.team[t].no \in Int
    BY <2>2 DEF Good, Counted, VotesOfTeams
  <2>8. /\ Yes(lv, t) \in SUBSET Slots /\ Cardinality(Yes(lv, t)) \in Nat
        /\ No(lv, t) \in SUBSET Slots /\ Cardinality(No(lv, t)) \in Nat
    BY SetsOfClients, CountIsNat
  <2>9. /\ Cardinality(Yes(lv, t) \cup {c}) = Cardinality(Yes(lv, t)) + 1
        /\ Cardinality(No(lv, t) \cup {c}) = Cardinality(No(lv, t)) + 1
    BY <2>1, <2>5, <2>8, OneMore
  <2>10. TallyOf(r, t)
    <3>1. /\ Cardinality(Yes(r, t)) = Cardinality(Yes(lv, t))
                + (IF t \in lv.clients[c].voteYes THEN 1 ELSE 0)
          /\ Cardinality(No(r, t)) = Cardinality(No(lv, t))
                + (IF t \in lv.clients[c].voteNo THEN 1 ELSE 0)
      BY <2>4, <2>8, <2>9
    <3>2. /\ r.team[t].yes = lv.team[t].yes + (IF t \in lv.clients[c].voteYes THEN 1 ELSE 0)
          /\ r.team[t].no = lv.team[t].no + (IF t \in lv.clients[c].voteNo THEN 1 ELSE 0)
      BY <2>3 DEF CountedBy
    <3> QED
      BY <2>7, <2>8, <3>1, <3>2 DEF TallyOf
  <2>11. OnlyVoteOf(t, lv, r)
    BY <2>1, <2>3, <2>6 DEF CountedBy, OnlyVoteOf
  <2>12. WaitsRightly(r.team[t])
    BY <2>3 DEF CountedBy, WaitsRightly, Good, Counted
  <2>13. /\ r.team[t].age <= VoteTime /\ r.team[t].age <= VoteTime - 1
         /\ r.phase = "intermission" => r.since <= r.team[t].age
    BY <2>3 DEF CountedBy, Good, Aging
  <2>14. Good(r)
    BY <2>10, <2>11, <2>12, <2>13, EnoughForGood
  <2> QED
    BY <2>14 DEF r
<1> QED
  BY <1>1, <1>2

\* What is taken off the count of those who said yes, or no, in t's vote.
Off(us, cl, said, t) == IF t \in us /\ t \in cl.voted /\ t \in said THEN -1 ELSE 0

LEMMA NothingOff ==
    ASSUME NEW lv \in LevelType, NEW u \in Teams
    PROVE  lv.team[u].yes = lv.team[u].yes + 0 /\ lv.team[u].no = lv.team[u].no + 0
<1>1. lv.team[u].yes \in Int /\ lv.team[u].no \in Int
  BY DEF LevelType, VotesOfTeams
<1> QED
  BY <1>1

\* In m the votes of client c in the teams us are off the count, and all else is as in lv.
TakenOff(us, lv, c, m) ==
    /\ m \in LevelType /\ m.clients = lv.clients /\ m.phase = lv.phase /\ m.since = lv.since
    /\ \A u \in Teams :
        /\ (m.team[u].running <=> lv.team[u].running) /\ m.team[u].age = lv.team[u].age
        /\ m.team[u].wait = lv.team[u].wait /\ m.team[u].due = lv.team[u].due
        /\ m.team[u].command = lv.team[u].command
        /\ m.team[u].running =>
            /\ m.team[u].yes = lv.team[u].yes + Off(us, lv.clients[c], lv.clients[c].voteYes, u)
            /\ m.team[u].no = lv.team[u].no + Off(us, lv.clients[c], lv.clients[c].voteNo, u)

\* A client's vote is taken off the count; what the client has said stays as it is.
LEMMA TakenFacts ==
    ASSUME NEW lv \in LevelType, NEW c \in Slots, NEW t \in Teams, NEW r,
           r = Vote(lv, c, t, FALSE)
    PROVE  TakenOff({t}, lv, c, r)
<1>1. r \in LevelType /\ lv.team[t] \in VotesOfTeams /\ lv.clients[c] \in Clients
      /\ lv.clients \in [Slots -> Clients]
  BY VoteType DEF LevelType
<1>2. \A u \in Teams : lv.team[u].yes = lv.team[u].yes + 0 /\ lv.team[u].no = lv.team[u].no + 0
  BY NothingOff
<1>3. CASE lv.team[t].running /\ t \in lv.clients[c].voted
  <2>1. CountedBy(-1, lv, c, t, r)
    BY <1>3, TakeFacts
  <2>2. r.clients = lv.clients
    <3>1. lv.clients[c].voted \cup {t} = lv.clients[c].voted
      BY <1>3
    <3>2. [lv.clients[c] EXCEPT !.voted = @ \cup {t}] = lv.clients[c]
      BY <1>1, <3>1 DEF Clients
    <3>3. r.clients = [lv.clients EXCEPT ![c] = lv.clients[c]]
      BY <1>1, <2>1, <3>2 DEF CountedBy
    <3> QED
      BY <1>1, <3>3
  <2>3. ASSUME NEW u \in Teams
        PROVE  /\ (r.team[u].running <=> lv.team[u].running) /\ r.team[u].age = lv.team[u].age
               /\ r.team[u].wait = lv.team[u].wait /\ r.team[u].due = lv.team[u].due
               /\ r.team[u].command = lv.team[u].command
    BY <1>3, <2>1 DEF CountedBy
  <2>4. ASSUME NEW u \in Teams
        PROVE  /\ r.team[u].yes = lv.team[u].yes + Off({t}, lv.clients[c], lv.clients[c].voteYes, u)
               /\ r.team[u].no = lv.team[u].no + Off({t}, lv.clients[c], lv.clients[c].voteNo, u)
    <3>1. CASE u = t
      BY <1>3, <2>1, <3>1 DEF CountedBy, Off
    <3>2. CASE u # t
      <4>1. r.team[u] = lv.team[u] /\ u \notin {t}
        BY <2>1, <3>2 DEF CountedBy
      <4>2. /\ Off({t}, lv.clients[c], lv.clients[c].voteYes, u) = 0
            /\ Off({t}, lv.clients[c], lv.clients[c].voteNo, u) = 0
        BY <4>1 DEF Off
      <4> QED
        BY <1>2, <4>1, <4>2, Zenon
    <3> QED
      BY <3>1, <3>2
  <2> QED
    BY <1>1, <2>1, <2>2, <2>3, <2>4 DEF TakenOff, CountedBy
<1>4. CASE ~(lv.team[t].running /\ t \in lv.clients[c].voted)
  <2>1. r = lv
    BY <1>4 DEF Vote, MayCount
  <2>2. ASSUME NEW u \in Teams, lv.team[u].running
        PROVE  /\ lv.team[u].yes = lv.team[u].yes + Off({t}, lv.clients[c], lv.clients[c].voteYes, u)
               /\ lv.team[u].no = lv.team[u].no + Off({t}, lv.clients[c], lv.clients[c].voteNo, u)
    <3>1. u \notin {t} \/ u \notin lv.clients[c].voted
      BY <1>4, <2>2
    <3>2. /\ Off({t}, lv.clients[c], lv.clients[c].voteYes, u) = 0
          /\ Off({t}, lv.clients[c], lv.clients[c].voteNo, u) = 0
      BY <3>1 DEF Off
    <3> QED
      BY <1>2, <3>2, Zenon
  <2> QED
    BY <2>1, <2>2 DEF TakenOff
<1> QED
  BY <1>3, <1>4

LEMMA NothingTakenOff ==
    ASSUME NEW lv \in LevelType, NEW c
    PROVE  TakenOff({}, lv, c, lv)
<1>1. \A u \in Teams : lv.team[u].yes = lv.team[u].yes + 0 /\ lv.team[u].no = lv.team[u].no + 0
  BY NothingOff
<1>2. \A u \in Teams : /\ Off({}, lv.clients[c], lv.clients[c].voteYes, u) = 0
                      /\ Off({}, lv.clients[c], lv.clients[c].voteNo, u) = 0
  BY DEF Off
<1> QED
  BY <1>1, <1>2 DEF TakenOff

\* One team's after those of others.
LEMMA TakenOffAlso ==
    ASSUME NEW us, NEW lv \in LevelType, NEW c \in Slots, NEW m, TakenOff(us, lv, c, m),
           NEW t \in Teams, t \notin us
    PROVE  TakenOff(us \cup {t}, lv, c, Vote(m, c, t, FALSE))
<1> DEFINE r == Vote(m, c, t, FALSE)
<1>1. m \in LevelType /\ m.clients = lv.clients
  BY DEF TakenOff
<1>2. TakenOff({t}, m, c, r)
  BY <1>1, TakenFacts
<1> HIDE DEF r
<1>4. ASSUME NEW u \in Teams
      PROVE  /\ (r.team[u].running <=> lv.team[u].running) /\ r.team[u].age = lv.team[u].age
             /\ r.team[u].wait = lv.team[u].wait /\ r.team[u].due = lv.team[u].due
             /\ r.team[u].command = lv.team[u].command
  <2>1. CASE u = t
    BY <1>2, <2>1 DEF TakenOff
  <2>2. CASE u # t
    BY <1>2, <2>2 DEF TakenOff
  <2> QED
    BY <2>1, <2>2
<1>5. ASSUME NEW u \in Teams, r.team[u].running
      PROVE  /\ r.team[u].yes = lv.team[u].yes + Off(us \cup {t}, lv.clients[c], lv.clients[c].voteYes, u)
             /\ r.team[u].no = lv.team[u].no + Off(us \cup {t}, lv.clients[c], lv.clients[c].voteNo, u)
  <2> DEFINE cl == lv.clients[c]
  <2>1. CASE u = t
    <3>1. /\ m.team[t].yes = lv.team[t].yes + Off(us, cl, cl.voteYes, t)
          /\ m.team[t].no = lv.team[t].no + Off(us, cl, cl.voteNo, t)
          /\ r.team[t].yes = m.team[t].yes + Off({t}, cl, cl.voteYes, t)
          /\ r.team[t].no = m.team[t].no + Off({t}, cl, cl.voteNo, t)
      BY <1>1, <1>2, <1>5, <2>1 DEF TakenOff
    <3>2. /\ Off(us, cl, cl.voteYes, t) = 0 /\ Off(us, cl, cl.voteNo, t) = 0
          /\ Off({t}, cl, cl.voteYes, t) = Off(us \cup {t}, cl, cl.voteYes, t)
          /\ Off({t}, cl, cl.voteNo, t) = Off(us \cup {t}, cl, cl.voteNo, t)
      BY DEF Off
    <3>3. lv.team[t].yes = lv.team[t].yes + 0 /\ lv.team[t].no = lv.team[t].no + 0
      BY NothingOff
    <3> QED
      BY <2>1, <3>1, <3>2, <3>3, Zenon
  <2>2. CASE u # t
    <3>1. /\ m.team[u].yes = lv.team[u].yes + Off(us, cl, cl.voteYes, u)
          /\ m.team[u].no = lv.team[u].no + Off(us, cl, cl.voteNo, u)
          /\ r.team[u].yes = m.team[u].yes + Off({t}, cl, cl.voteYes, u)
          /\ r.team[u].no = m.team[u].no + Off({t}, cl, cl.voteNo, u)
      BY <1>1, <1>2, <1>5, <2>2 DEF TakenOff
    <3>2. /\ Off({t}, cl, cl.voteYes, u) = 0 /\ Off({t}, cl, cl.voteNo, u) = 0
          /\ Off(us, cl, cl.voteYes, u) = Off(us \cup {t}, cl, cl.voteYes, u)
          /\ Off(us, cl, cl.voteNo, u) = Off(us \cup {t}, cl, cl.voteNo, u)
      BY <2>2 DEF Off
    <3>3. m.team[u].yes = m.team[u].yes + 0 /\ m.team[u].no = m.team[u].no + 0
      BY <1>1, NothingOff
    <3> QED
      BY <3>1, <3>2, <3>3, Zenon
  <2> QED
    BY <2>1, <2>2
<1>6. TakenOff(us \cup {t}, lv, c, r)
  BY <1>1, <1>2, <1>4, <1>5 DEF TakenOff
<1> QED
  BY <1>6 DEF r

\* G_LeaveTeam, and both votes as ClientDisconnect takes them off.
LEMMA LeaveFacts ==
    ASSUME NEW lv \in LevelType, NEW c \in Slots
    PROVE  /\ TakenOff({lv.clients[c].team} \ {NoTeam}, lv, c, LeaveTeam(lv, c))
           /\ TakenOff({lv.clients[c].team, NoTeam}, lv, c, LeaveVotes(lv, c))
<1>1. lv.clients[c].team \in Teams /\ NoTeam \in Teams
  BY DEF LevelType, Clients, Teams
<1>2. TakenOff({lv.clients[c].team} \ {NoTeam}, lv, c, LeaveTeam(lv, c))
  <2>1. CASE lv.clients[c].team = NoTeam
    <3>1. {lv.clients[c].team} \ {NoTeam} = {} /\ LeaveTeam(lv, c) = lv
      BY <2>1 DEF LeaveTeam
    <3> QED
      BY <3>1, NothingTakenOff
  <2>2. CASE lv.clients[c].team # NoTeam
    <3>1. {lv.clients[c].team} \ {NoTeam} = {} \cup {lv.clients[c].team}
      BY <2>2
    <3>2. TakenOff({} \cup {lv.clients[c].team}, lv, c, Vote(lv, c, lv.clients[c].team, FALSE))
      BY <1>1, NothingTakenOff, TakenOffAlso
    <3>3. LeaveTeam(lv, c) = Vote(lv, c, lv.clients[c].team, FALSE)
      BY <2>2 DEF LeaveTeam
    <3> QED
      BY <3>1, <3>2, <3>3, Zenon
  <2> QED
    BY <2>1, <2>2
<1>3. ({lv.clients[c].team} \ {NoTeam}) \cup {NoTeam} = {lv.clients[c].team, NoTeam}
  OBVIOUS
<1>4. TakenOff(({lv.clients[c].team} \ {NoTeam}) \cup {NoTeam}, lv, c,
               Vote(LeaveTeam(lv, c), c, NoTeam, FALSE))
  BY <1>1, <1>2, TakenOffAlso
<1> QED
  BY <1>2, <1>3, <1>4, Zenon DEF LeaveVotes

\* From lv to r client c leaves the teams us, and may come to one of the others.
Moved(us, c, lv, r) ==
    \A u \in Teams :
        IF u \in us
        THEN /\ c \in Members(lv, u)
             /\ Yes(r, u) = Yes(lv, u) \ {c} /\ No(r, u) = No(lv, u) \ {c}
        ELSE /\ Yes(lv, u) \subseteq Yes(r, u) /\ No(lv, u) \subseteq No(r, u)
             /\ u = NoTeam => SaidAlike(u, lv, r)

\* A client that leaves the teams whose counts have lost its vote leaves the tallies right, and
\* may come, with what it has said, to a team whose count it is not in.
LEMMA EnoughWhenGone ==
    ASSUME NEW lv, Good(lv), NEW us, NEW c \in Slots, NEW m, TakenOff(us, lv, c, m),
           NEW r \in LevelType, r.team = m.team, r.phase = lv.phase, r.since = lv.since,
           Moved(us, c, lv, r)
    PROVE  Good(r)
<1> DEFINE cl == lv.clients[c]
<1>1. ASSUME NEW u \in Teams, r.team[u].running PROVE TallyOf(r, u)
  <2>1. /\ r.team[u].yes = lv.team[u].yes + Off(us, cl, cl.voteYes, u)
        /\ r.team[u].no = lv.team[u].no + Off(us, cl, cl.voteNo, u)
        /\ lv.team[u].running
    BY <1>1 DEF TakenOff
  <2>2. TallyOf(lv, u)
    BY <2>1 DEF Good, Counted
  <2>3. lv.team[u].yes \in Int /\ lv.team[u].no \in Int
    BY DEF Good, LevelType, VotesOfTeams
  <2>4. /\ Yes(lv, u) \in SUBSET Slots /\ Cardinality(Yes(lv, u)) \in Nat
        /\ No(lv, u) \in SUBSET Slots /\ Cardinality(No(lv, u)) \in Nat
        /\ Yes(r, u) \in SUBSET Slots /\ Cardinality(Yes(r, u)) \in Nat
        /\ No(r, u) \in SUBSET Slots /\ Cardinality(No(r, u)) \in Nat
    BY SetsOfClients, CountIsNat
  <2>5. CASE u \in us
    <3>1. /\ Off(us, cl, cl.voteYes, u) = IF c \in Yes(lv, u) THEN -1 ELSE 0
          /\ Off(us, cl, cl.voteNo, u) = IF c \in No(lv, u) THEN -1 ELSE 0
      BY <2>5 DEF Moved, Off, Yes, No
    <3>2. Yes(r, u) = Yes(lv, u) \ {c} /\ No(r, u) = No(lv, u) \ {c}
      BY <2>5 DEF Moved
    <3>3. /\ Cardinality(Yes(r, u)) = Cardinality(Yes(lv, u)) + (IF c \in Yes(lv, u) THEN -1 ELSE 0)
          /\ Cardinality(No(r, u)) = Cardinality(No(lv, u)) + (IF c \in No(lv, u) THEN -1 ELSE 0)
      <4>1. ASSUME NEW S \in SUBSET Slots
            PROVE  Cardinality(S \ {c}) = Cardinality(S) + (IF c \in S THEN -1 ELSE 0)
        <5>1. Cardinality(S) \in Nat
          BY CountIsNat
        <5>2. Cardinality(S \ {c}) = IF c \in S THEN Cardinality(S) - 1 ELSE Cardinality(S)
          BY OneMore
        <5> QED
          BY <5>1, <5>2
      <4> QED
        BY <2>4, <3>2, <4>1, Zenon
    <3> HIDE DEF cl
    <3>4. /\ r.team[u].yes = lv.team[u].yes + (IF c \in Yes(lv, u) THEN -1 ELSE 0)
          /\ r.team[u].no = lv.team[u].no + (IF c \in No(lv, u) THEN -1 ELSE 0)
      BY <2>1, <3>1, Zenon
    <3> QED
      BY <2>2, <2>3, <2>4, <3>3, <3>4 DEF TallyOf
  <2>6. CASE u \notin us
    <3>1. Off(us, cl, cl.voteYes, u) = 0 /\ Off(us, cl, cl.voteNo, u) = 0
      BY <2>6 DEF Off
    <3>2. r.team[u].yes = lv.team[u].yes + 0 /\ r.team[u].no = lv.team[u].no + 0
      BY <2>1, <3>1, Zenon
    <3>3. u = NoTeam => Yes(r, u) = Yes(lv, u) /\ No(r, u) = No(lv, u)
      BY <2>6 DEF Moved, SaidAlike
    <3>4. Yes(lv, u) \in SUBSET Yes(r, u) /\ No(lv, u) \in SUBSET No(r, u)
      BY <2>6 DEF Moved
    <3>5. /\ Cardinality(Yes(lv, u)) <= Cardinality(Yes(r, u))
          /\ Cardinality(No(lv, u)) <= Cardinality(No(r, u))
      BY <2>4, <3>4, NoFewer
    <3> QED
      BY <2>2, <2>3, <2>4, <3>2, <3>3, <3>5 DEF TallyOf
  <2> QED
    BY <2>5, <2>6
<1>2. Counted(r)
  <2>1. ASSUME NEW u \in Teams PROVE WaitsRightly(r.team[u])
    BY DEF TakenOff, Good, Counted, WaitsRightly
  <2> QED
    BY <1>1, <2>1 DEF Counted
<1>3. Aging(r, VoteTime - 1)
  BY DEF TakenOff, Good, Aging
<1> QED
  BY <1>2, <1>3 DEF Good

\* G_ChangeTeam.
LEMMA ChangedTeamStep ==
    ASSUME NEW lv, Good(lv), NEW c \in Slots, lv.clients[c].connected # "no",
           NEW t \in Teams, lv.clients[c].team # t
    PROVE  Good(ChangedTeam(lv, c, t))
<1> DEFINE us == {lv.clients[c].team} \ {NoTeam}
           m == LeaveTeam(lv, c)
           r == ChangedTeam(lv, c, t)
<1>1. /\ lv \in LevelType /\ lv.clients \in [Slots -> Clients] /\ lv.clients[c] \in Clients
      /\ c \in Here(lv, {"connecting", "connected"})
  BY DEF Good, LevelType, Here, Clients
<1>2. TakenOff(us, lv, c, m)
  BY <1>1, LeaveFacts
<1>3. r = [m EXCEPT !.clients[c].team = t]
  BY DEF ChangedTeam
<1>4. m \in LevelType /\ m.clients = lv.clients /\ m.phase = lv.phase /\ m.since = lv.since
  BY <1>2 DEF TakenOff
<1> HIDE DEF m, r
<1>5. /\ r \in LevelType /\ r.team = m.team /\ r.phase = lv.phase /\ r.since = lv.since
      /\ r.clients = [lv.clients EXCEPT ![c].team = t]
  <2>1. r.clients = [m.clients EXCEPT ![c].team = t]
    BY <1>3, <1>4 DEF LevelType
  <2>2. [m.clients EXCEPT ![c].team = t] \in [Slots -> Clients]
    BY <1>1, <1>4 DEF Clients
  <2>3. r = [m EXCEPT !.clients = [m.clients EXCEPT ![c].team = t]]
    BY <1>3
  <2>4. r \in LevelType /\ r.team = m.team /\ r.phase = m.phase /\ r.since = m.since
    BY <1>4, <2>2, <2>3 DEF LevelType
  <2> QED
    BY <1>4, <2>1, <2>4
<1>6. Moved(us, c, lv, r)
  <2> SUFFICES ASSUME NEW u \in Teams
               PROVE  IF u \in us
                      THEN /\ c \in Members(lv, u)
                           /\ Yes(r, u) = Yes(lv, u) \ {c} /\ No(r, u) = No(lv, u) \ {c}
                      ELSE /\ Yes(lv, u) \subseteq Yes(r, u) /\ No(lv, u) \subseteq No(r, u)
                           /\ u = NoTeam => SaidAlike(u, lv, r)
    BY DEF Moved
  <2>1. CASE u \in us
    BY <1>1, <1>5, <2>1 DEF Yes, No, Members, Here, Clients
  <2>2. CASE u \notin us
    BY <1>1, <1>5, <2>2 DEF SaidAlike, Yes, No, Members, Here, Clients
  <2> QED
    BY <2>1, <2>2
<1> HIDE DEF us
<1>7. Good(r)
  BY <1>2, <1>5, <1>6, EnoughWhenGone
<1> QED
  BY <1>7 DEF r

\* A client that goes (ClientDisconnect), or comes (ClientConnect).
LEMMA GoneStep ==
    ASSUME NEW lv, Good(lv), NEW c \in Slots, lv.clients[c].connected # "no"
    PROVE  Good([LeaveVotes(lv, c) EXCEPT !.clients[c] = Absent])
<1> DEFINE us == {lv.clients[c].team, NoTeam}
           m == LeaveVotes(lv, c)
           r == [m EXCEPT !.clients[c] = Absent]
<1>1. /\ lv \in LevelType /\ lv.clients \in [Slots -> Clients] /\ lv.clients[c] \in Clients
      /\ c \in Here(lv, {"connecting", "connected"})
  BY DEF Good, LevelType, Here, Clients
<1>2. TakenOff(us, lv, c, m)
  BY <1>1, LeaveFacts
<1>3. m \in LevelType /\ m.clients = lv.clients /\ m.phase = lv.phase /\ m.since = lv.since
  BY <1>2 DEF TakenOff
<1> HIDE DEF m
<1>4. Absent \in Clients
  BY DEF Absent, Clients, Teams
<1>5. /\ r \in LevelType /\ r.team = m.team /\ r.phase = lv.phase /\ r.since = lv.since
      /\ r.clients = [lv.clients EXCEPT ![c] = Absent]
  BY <1>3, <1>4 DEF LevelType
<1> HIDE DEF r
<1>6. Absent.connected = "no"
  BY DEF Absent
<1>7. Moved(us, c, lv, r)
  <2> SUFFICES ASSUME NEW u \in Teams
               PROVE  IF u \in us
                      THEN /\ c \in Members(lv, u)
                           /\ Yes(r, u) = Yes(lv, u) \ {c} /\ No(r, u) = No(lv, u) \ {c}
                      ELSE /\ Yes(lv, u) \subseteq Yes(r, u) /\ No(lv, u) \subseteq No(r, u)
                           /\ u = NoTeam => SaidAlike(u, lv, r)
    BY DEF Moved
  <2>1. CASE u \in us
    BY <1>1, <1>5, <1>6, <2>1 DEF Yes, No, Members, Here
  <2>2. CASE u \notin us
    BY <1>1, <1>5, <1>6, <2>2 DEF Yes, No, Members, Here
  <2> QED
    BY <2>1, <2>2
<1> HIDE DEF us
<1>8. Good(r)
  BY <1>2, <1>5, <1>7, EnoughWhenGone
<1> QED
  BY <1>8 DEF r, m

-----------------------------------------------------------------------------
(* The end of a vote *)

\* G_ResetVote: nothing is counted in the vote of t, nor said; what waits goes on waiting.
LEMMA ResetFacts ==
    ASSUME NEW lv \in LevelType, NEW t \in Teams, NEW r, r = ResetVote(lv, t)
    PROVE  /\ OnlyVoteOf(t, lv, r)
           /\ ~r.team[t].running /\ r.team[t].age = 0
           /\ r.team[t].wait = lv.team[t].wait /\ r.team[t].due = lv.team[t].due
           /\ r.team[t].command = IF lv.team[t].wait = -1 THEN NoCommand ELSE lv.team[t].command
           /\ r.team[t].yes = 0 /\ r.team[t].no = 0
           /\ \A c \in Slots : /\ r.clients[c].connected = lv.clients[c].connected
                              /\ r.clients[c].team = lv.clients[c].team
                              /\ t \notin r.clients[c].voted
           /\ r.nextMap = lv.nextMap
<1>1. /\ lv.clients \in [Slots -> Clients] /\ lv.team \in [Teams -> VotesOfTeams]
      /\ lv.team[t] \in VotesOfTeams
  BY DEF LevelType
<1>2. NoCommand \in Orders
  BY DEF NoCommand, Orders, CommandKinds
<1> DEFINE command == IF lv.team[t].wait = -1 THEN NoCommand ELSE lv.team[t].command
           v == [NoVote EXCEPT !.wait = lv.team[t].wait, !.due = lv.team[t].due, !.command = command]
           cl == [c \in Slots |->
                    [lv.clients[c] EXCEPT !.voted = @ \ {t}, !.voteYes = @ \ {t}, !.voteNo = @ \ {t}]]
<1>3. r = [lv EXCEPT !.team = [lv.team EXCEPT ![t] = v], !.clients = cl]
  BY <1>1 DEF ResetVote
<1>4. v \in VotesOfTeams
  <2>1. command \in Orders
    BY <1>1, <1>2 DEF VotesOfTeams
  <2> HIDE DEF command
  <2>2. NoVote \in VotesOfTeams
    BY <1>2, TimesAssumption DEF NoVote, VotesOfTeams
  <2>3. lv.team[t].wait \in -1 .. VoteDelay + 1 /\ lv.team[t].due \in Orders
    BY <1>1 DEF VotesOfTeams
  <2> QED
    BY <2>1, <2>2, <2>3 DEF VotesOfTeams
<1>5. cl \in [Slots -> Clients]
  BY <1>1 DEF Clients
<1>6. /\ ~v.running /\ v.age = 0 /\ v.wait = lv.team[t].wait /\ v.due = lv.team[t].due
      /\ v.command = (IF lv.team[t].wait = -1 THEN NoCommand ELSE lv.team[t].command)
      /\ v.yes = 0 /\ v.no = 0
  BY DEF NoVote
<1>7. \A c \in Slots : /\ cl[c].connected = lv.clients[c].connected
                     /\ cl[c].team = lv.clients[c].team
                     /\ cl[c].voted = lv.clients[c].voted \ {t}
                     /\ cl[c].voteYes = lv.clients[c].voteYes \ {t}
                     /\ cl[c].voteNo = lv.clients[c].voteNo \ {t}
  BY <1>1 DEF Clients
<1> HIDE DEF v, cl
<1>8. /\ r \in LevelType /\ r.phase = lv.phase /\ r.since = lv.since /\ r.nextMap = lv.nextMap
      /\ r.clients = cl /\ r.team = [lv.team EXCEPT ![t] = v]
  <2>1. [lv.team EXCEPT ![t] = v] \in [Teams -> VotesOfTeams]
    BY <1>1, <1>4
  <2> QED
    BY <1>3, <1>5, <2>1 DEF LevelType
<1>9. r.team[t] = v /\ \A u \in Teams \ {t} : r.team[u] = lv.team[u]
  BY <1>1, <1>8
<1>10. \A u \in Teams \ {t} : SaidAlike(u, lv, r)
  BY <1>7, <1>8 DEF SaidAlike, Yes, No, Members, Here
<1> QED
  BY <1>6, <1>7, <1>8, <1>9, <1>10 DEF OnlyVoteOf

\* G_ExecuteVote.
LEMMA ExecuteFacts ==
    ASSUME NEW lv \in LevelType, NEW t \in Teams, NEW r, r = ExecuteVote(lv, t)
    PROVE  /\ OnlyVoteOf(t, lv, r) /\ r.clients = lv.clients
           /\ (r.team[t].running <=> lv.team[t].running) /\ r.team[t].age = lv.team[t].age
           /\ r.team[t].wait = -1 /\ r.team[t].command = NoCommand /\ r.team[t].due = NoCommand
           /\ r.team[t].yes = lv.team[t].yes /\ r.team[t].no = lv.team[t].no
<1>1. lv.team \in [Teams -> VotesOfTeams] /\ lv.team[t] \in VotesOfTeams
  BY DEF LevelType
<1>2. NoCommand \in Orders /\ -1 \in -1 .. VoteDelay + 1
  BY TimesAssumption DEF NoCommand, Orders, CommandKinds
<1> DEFINE v == [lv.team[t] EXCEPT !.wait = -1, !.command = NoCommand, !.due = NoCommand]
           b == lv.restarted \/ lv.team[t].command.kind = "map"
<1>3. r = [lv EXCEPT !.team = [lv.team EXCEPT ![t] = v], !.restarted = b]
  BY <1>1, Zenon DEF ExecuteVote
<1>4. v \in VotesOfTeams
  BY <1>1, <1>2 DEF VotesOfTeams
<1>5. /\ (v.running <=> lv.team[t].running) /\ v.age = lv.team[t].age /\ v.wait = -1
      /\ v.command = NoCommand /\ v.due = NoCommand
      /\ v.yes = lv.team[t].yes /\ v.no = lv.team[t].no
  BY <1>1 DEF VotesOfTeams
<1>6. b \in BOOLEAN
  OBVIOUS
<1> HIDE DEF v, b
<1>7. /\ r \in LevelType /\ r.phase = lv.phase /\ r.since = lv.since
      /\ r.clients = lv.clients /\ r.team = [lv.team EXCEPT ![t] = v]
  <2>1. [lv.team EXCEPT ![t] = v] \in [Teams -> VotesOfTeams]
    BY <1>1, <1>4
  <2> QED
    BY <1>3, <1>6, <2>1 DEF LevelType
<1>8. r.team[t] = v /\ \A u \in Teams \ {t} : r.team[u] = lv.team[u]
  BY <1>1, <1>7
<1>9. \A u \in Teams \ {t} : SaidAlike(u, lv, r)
  BY <1>7 DEF SaidAlike, Yes, No, Members, Here
<1> QED
  BY <1>5, <1>7, <1>8, <1>9 DEF OnlyVoteOf

\* A change after another.
LEMMA OnlyVoteAfter ==
    ASSUME NEW t \in Teams, NEW lv, NEW m, NEW r, OnlyVoteOf(t, lv, m), OnlyVoteOf(t, m, r)
    PROVE  OnlyVoteOf(t, lv, r)
  BY DEF OnlyVoteOf, SaidAlike

LEMMA WaitingVote ==
    ASSUME NEW v \in VotesOfTeams, NEW d \in 1 .. VoteDelay + 1
    PROVE  [v EXCEPT !.wait = d, !.due = v.command] \in VotesOfTeams
<1>1. d \in -1 .. VoteDelay + 1 /\ v.command \in Orders
  BY DEF VotesOfTeams
<1> QED
  BY <1>1 DEF VotesOfTeams

\* A vote that has passed waits.
LEMMA PassFacts ==
    ASSUME NEW lv \in LevelType, NEW t \in Teams, NEW d \in 1 .. VoteDelay + 1,
           NEW r, r = [lv EXCEPT !.team[t] = [lv.team[t] EXCEPT !.wait = d, !.due = lv.team[t].command]]
    PROVE  /\ OnlyVoteOf(t, lv, r)
           /\ r.team[t].wait # -1 /\ r.team[t].due = r.team[t].command
<1>1. lv.team \in [Teams -> VotesOfTeams] /\ lv.team[t] \in VotesOfTeams /\ VoteDelay \in Nat
  BY TimesAssumption DEF LevelType
<1> PICK v : v = [lv.team[t] EXCEPT !.wait = d, !.due = lv.team[t].command]
  OBVIOUS
<1>2. v \in VotesOfTeams /\ r = [lv EXCEPT !.team[t] = v]
  BY <1>1, WaitingVote
<1>3. v.wait = d /\ v.due = lv.team[t].command /\ v.command = lv.team[t].command
  BY <1>1 DEF VotesOfTeams
<1>4. [lv.team EXCEPT ![t] = v] \in [Teams -> VotesOfTeams]
  BY <1>1, <1>2
<1>5. /\ r \in LevelType /\ r.phase = lv.phase /\ r.since = lv.since
      /\ r.clients = lv.clients /\ r.team = [lv.team EXCEPT ![t] = v]
  BY <1>1, <1>2, <1>4 DEF LevelType
<1>6. r.team[t] = v /\ \A u \in Teams \ {t} : r.team[u] = lv.team[u]
  BY <1>1, <1>5
<1>7. d # -1
  BY <1>1
<1>8. OnlyVoteOf(t, lv, r)
  BY <1>5, <1>6 DEF OnlyVoteOf, SaidAlike, Yes, No, Members, Here
<1> QED
  BY <1>3, <1>6, <1>7, <1>8

\* The end of G_CheckVote: the vote goes on as it is, or is over; if it has passed, it waits.
LEMMA EndFacts ==
    ASSUME NEW lv \in LevelType, NEW t \in Teams, WaitsRightly(lv.team[t]), NEW quorum,
           NEW r, r = EndOfVote(lv, t, quorum)
    PROVE  /\ OnlyVoteOf(t, lv, r) /\ WaitsRightly(r.team[t])
           /\ \/ r = lv /\ (~lv.team[t].running \/ Undecided(lv.team[t], NumPlayers(lv, t)))
              \/ ~r.team[t].running /\ r.team[t].age = 0
<1> DEFINE d == Delay(lv.team[t].command.kind) + 1
           v == [lv.team[t] EXCEPT !.wait = d, !.due = lv.team[t].command]
           p == [lv EXCEPT !.team[t] = v]
<1>1. lv.team \in [Teams -> VotesOfTeams] /\ lv.team[t] \in VotesOfTeams
  BY DEF LevelType
<1>2. \/ r = lv /\ (~lv.team[t].running \/ Undecided(lv.team[t], NumPlayers(lv, t)))
      \/ lv.team[t].running /\ (r = ResetVote(p, t) \/ r = ResetVote(lv, t))
  BY Zenon DEF EndOfVote
<1>3. CASE r = lv /\ (~lv.team[t].running \/ Undecided(lv.team[t], NumPlayers(lv, t)))
  BY <1>3 DEF OnlyVoteOf, SaidAlike
<1>4. CASE lv.team[t].running /\ r = ResetVote(lv, t)
  <2>1. lv.team[t].wait = -1 /\ lv.team[t].due = NoCommand
    BY <1>4 DEF WaitsRightly
  <2>2. /\ OnlyVoteOf(t, lv, r) /\ ~r.team[t].running /\ r.team[t].age = 0
        /\ r.team[t].wait = lv.team[t].wait /\ r.team[t].due = lv.team[t].due
        /\ r.team[t].command = IF lv.team[t].wait = -1 THEN NoCommand ELSE lv.team[t].command
    BY <1>4, ResetFacts
  <2> QED
    BY <2>1, <2>2 DEF WaitsRightly
<1>5. CASE lv.team[t].running /\ r = ResetVote(p, t)
  <2>1. d \in 1 .. VoteDelay + 1
    BY TimesAssumption DEF Delay
  <2> HIDE DEF d
  <2>2. PICK q : q = p
    OBVIOUS
  <2>3. OnlyVoteOf(t, lv, q) /\ q.team[t].wait # -1 /\ q.team[t].due = q.team[t].command
    BY <2>1, <2>2, PassFacts
  <2>4. q \in LevelType /\ r = ResetVote(q, t)
    BY <1>5, <2>2, <2>3 DEF OnlyVoteOf
  <2>5. /\ OnlyVoteOf(t, q, r) /\ ~r.team[t].running /\ r.team[t].age = 0
        /\ r.team[t].wait = q.team[t].wait /\ r.team[t].due = q.team[t].due
        /\ r.team[t].command = IF q.team[t].wait = -1 THEN NoCommand ELSE q.team[t].command
    BY <2>4, ResetFacts
  <2>6. WaitsRightly(r.team[t])
    BY <2>3, <2>5 DEF WaitsRightly
  <2> QED
    BY <2>3, <2>5, <2>6, OnlyVoteAfter
<1> QED
  BY <1>2, <1>3, <1>4, <1>5

\* G_CheckVote: whatever it executes before, a vote that still runs is not too old.
LEMMA CheckFacts ==
    ASSUME NEW lv \in LevelType, NEW t \in Teams, WaitsRightly(lv.team[t]),
           NEW r, r = CheckVote(lv, t)
    PROVE  /\ OnlyVoteOf(t, lv, r) /\ WaitsRightly(r.team[t])
           /\ r.team[t].age \in {0, lv.team[t].age}
           /\ r.team[t].running =>
                /\ lv.team[t].running /\ r.team[t].age = lv.team[t].age
                /\ r.team[t].age < VoteTime
                /\ r.team[t].yes = lv.team[t].yes /\ r.team[t].no = lv.team[t].no
                /\ SaidAlike(t, lv, r)
<1> DEFINE m == IF Executes(lv, t) THEN ExecuteVote(lv, t) ELSE lv
<1>1. /\ OnlyVoteOf(t, lv, m) /\ m \in LevelType /\ m.clients = lv.clients
      /\ (m.team[t].running <=> lv.team[t].running) /\ m.team[t].age = lv.team[t].age
      /\ m.team[t].yes = lv.team[t].yes /\ m.team[t].no = lv.team[t].no
      /\ WaitsRightly(m.team[t])
  <2>1. CASE Executes(lv, t)
    <3>1. m = ExecuteVote(lv, t)
      BY <2>1
    <3>2. m \in LevelType
      BY <3>1, ExecuteFacts DEF OnlyVoteOf
    <3>3. m.team[t].wait = -1 /\ m.team[t].due = NoCommand
      BY <3>1, ExecuteFacts
    <3> HIDE DEF m
    <3> QED
      BY <3>1, <3>2, <3>3, ExecuteFacts DEF WaitsRightly
  <2>2. CASE ~Executes(lv, t)
    BY <2>2 DEF OnlyVoteOf, SaidAlike
  <2> QED
    BY <2>1, <2>2
<1>2. r = EndOfVote(m, t, NeedsQuorum(lv.team[t].command.kind))
  BY DEF CheckVote
<1> HIDE DEF m
<1>3. /\ OnlyVoteOf(t, m, r) /\ WaitsRightly(r.team[t])
      /\ \/ r = m /\ (~m.team[t].running \/ Undecided(m.team[t], NumPlayers(m, t)))
         \/ ~r.team[t].running /\ r.team[t].age = 0
  BY <1>1, <1>2, EndFacts
<1>4. OnlyVoteOf(t, lv, r)
  BY <1>1, <1>3, OnlyVoteAfter
<1>5. SaidAlike(t, lv, m)
  BY <1>1 DEF SaidAlike, Yes, No, Members, Here
<1> QED
  BY <1>1, <1>3, <1>4, <1>5 DEF Undecided

\* All votes, one team's not touching another's.
LEMMA CheckVotesStep ==
    ASSUME NEW lv \in LevelType, Counted(lv), Aging(lv, VoteTime),
           lv.phase = "intermission" => lv.since <= MaxIntermission
    PROVE  Good(CheckVotes(lv))
<1> DEFINE checked == [t \in Teams |-> CheckVote(lv, t)]
           restarted == \E t \in Teams : checked[t].restarted
           team == [t \in Teams |-> checked[t].team[t]]
           clients == [c \in Slots |-> [lv.clients[c] EXCEPT
                         !.voted = { t \in @ : t \in checked[t].clients[c].voted },
                         !.voteYes = { t \in @ : t \in checked[t].clients[c].voteYes },
                         !.voteNo = { t \in @ : t \in checked[t].clients[c].voteNo }]]
           r == CheckVotes(lv)
<1>1. lv.clients \in [Slots -> Clients] /\ lv.team \in [Teams -> VotesOfTeams]
  BY DEF LevelType
<1>2. ASSUME NEW t \in Teams
      PROVE  LET k == checked[t] IN
             /\ OnlyVoteOf(t, lv, k) /\ WaitsRightly(k.team[t])
             /\ k.team[t].age \in {0, lv.team[t].age}
             /\ k.team[t].running =>
                  /\ lv.team[t].running /\ k.team[t].age = lv.team[t].age
                  /\ k.team[t].age < VoteTime
                  /\ k.team[t].yes = lv.team[t].yes /\ k.team[t].no = lv.team[t].no
                  /\ SaidAlike(t, lv, k)
  <2>1. checked[t] = CheckVote(lv, t)
    OBVIOUS
  <2>2. WaitsRightly(lv.team[t])
    BY DEF Counted
  <2> HIDE DEF checked
  <2> QED
    BY <2>1, <2>2, CheckFacts
<1>3. r = [lv EXCEPT !.team = team, !.restarted = restarted, !.clients = clients]
  BY Zenon DEF CheckVotes
<1> HIDE DEF checked
<1>4. \A t \in Teams : checked[t].team \in [Teams -> VotesOfTeams]
  BY <1>2 DEF OnlyVoteOf, LevelType
<1>5. team \in [Teams -> VotesOfTeams] /\ \A t \in Teams : team[t] = checked[t].team[t]
  BY <1>4
<1>6. clients \in [Slots -> Clients]
  BY <1>1 DEF Clients
<1>7. \A c \in Slots :
        /\ clients[c].connected = lv.clients[c].connected /\ clients[c].team = lv.clients[c].team
        /\ clients[c].voted = { t \in lv.clients[c].voted : t \in checked[t].clients[c].voted }
        /\ clients[c].voteYes = { t \in lv.clients[c].voteYes : t \in checked[t].clients[c].voteYes }
        /\ clients[c].voteNo = { t \in lv.clients[c].voteNo : t \in checked[t].clients[c].voteNo }
  BY <1>1 DEF Clients
<1>8. restarted \in BOOLEAN
  OBVIOUS
<1> HIDE DEF team, clients, restarted, r
<1>9. /\ r \in LevelType /\ r.phase = lv.phase /\ r.since = lv.since
      /\ r.team = team /\ r.clients = clients
  BY <1>3, <1>5, <1>6, <1>8 DEF LevelType
<1>10. ASSUME NEW t \in Teams, r.team[t].running PROVE TallyOf(r, t)
  <2>1. lv.team[t].running /\ SaidAlike(t, lv, checked[t])
    BY <1>2, <1>5, <1>9, <1>10
  <2>2. r.team[t].yes = lv.team[t].yes /\ r.team[t].no = lv.team[t].no
    BY <1>2, <1>5, <1>9, <1>10
  <2>3. Members(r, t) = Members(lv, t)
    BY <1>7, <1>9 DEF Members, Here
  <2>4. Yes(r, t) = Yes(lv, t)
    <3>1. ASSUME NEW c \in Slots PROVE c \in Yes(r, t) <=> c \in Yes(lv, t)
      <4>1. CASE c \in Yes(lv, t)
        <5>1. c \in Yes(checked[t], t)
          BY <2>1, <4>1 DEF SaidAlike
        <5> QED
          BY <1>7, <1>9, <2>3, <4>1, <5>1 DEF Yes
      <4>2. CASE c \notin Yes(lv, t)
        BY <1>7, <1>9, <2>3, <4>2 DEF Yes
      <4> QED
        BY <4>1, <4>2
    <3> QED
      BY <3>1, SetsOfClients
  <2>5. No(r, t) = No(lv, t)
    <3>1. ASSUME NEW c \in Slots PROVE c \in No(r, t) <=> c \in No(lv, t)
      <4>1. CASE c \in No(lv, t)
        <5>1. c \in No(checked[t], t)
          BY <2>1, <4>1 DEF SaidAlike
        <5> QED
          BY <1>7, <1>9, <2>3, <4>1, <5>1 DEF No
      <4>2. CASE c \notin No(lv, t)
        BY <1>7, <1>9, <2>3, <4>2 DEF No
      <4> QED
        BY <4>1, <4>2
    <3> QED
      BY <3>1, SetsOfClients
  <2>6. TallyOf(lv, t)
    BY <2>1 DEF Counted
  <2> QED
    BY <2>2, <2>4, <2>5, <2>6 DEF TallyOf
<1>11. Counted(r)
  <2>1. ASSUME NEW t \in Teams PROVE WaitsRightly(r.team[t])
    BY <1>2, <1>5, <1>9
  <2> QED
    BY <1>10, <2>1 DEF Counted
<1>12. Aging(r, VoteTime - 1)
  <2> SUFFICES ASSUME NEW t \in Teams
               PROVE  /\ r.team[t].age <= VoteTime
                      /\ r.team[t].running => r.team[t].age <= VoteTime - 1
                      /\ r.team[t].running /\ r.phase = "intermission" => r.since <= r.team[t].age
    BY DEF Aging
  <2>1. r.team[t] = checked[t].team[t]
    BY <1>5, <1>9
  <2>2. /\ r.team[t].age \in {0, lv.team[t].age} /\ lv.team[t].age <= VoteTime
        /\ lv.team[t].age \in Nat /\ VoteTime \in Nat
    BY <1>1, <1>2, <2>1, TimesAssumption DEF Aging, VotesOfTeams
  <2>3. r.team[t].running =>
            /\ lv.team[t].running /\ r.team[t].age = lv.team[t].age /\ r.team[t].age < VoteTime
    BY <1>2, <2>1
  <2>4. lv.team[t].running /\ lv.phase = "intermission" => lv.since <= lv.team[t].age
    BY DEF Aging
  <2> QED
    BY <1>9, <2>2, <2>3, <2>4
<1>13. Good(r)
  BY <1>9, <1>11, <1>12 DEF Good
<1> QED
  BY <1>13 DEF r

-----------------------------------------------------------------------------
(* The end of a level *)

\* From lv to r no vote is changed, but some may not run any more.
StillVoting(lv, r) ==
    /\ r \in LevelType
    /\ \A t \in Teams :
        /\ r.team[t].running => lv.team[t].running
        /\ r.team[t].age = lv.team[t].age /\ r.team[t].wait = lv.team[t].wait
        /\ r.team[t].command = lv.team[t].command /\ r.team[t].due = lv.team[t].due
        /\ r.team[t].yes = lv.team[t].yes /\ r.team[t].no = lv.team[t].no
        /\ SaidAlike(t, lv, r)
    /\ r.phase = "intermission" => r.since = 0 \/ (lv.phase = "intermission" /\ r.since = lv.since)

LEMMA StillCounted ==
    ASSUME NEW lv, NEW r, StillVoting(lv, r), Counted(lv)
    PROVE  Counted(r)
<1> SUFFICES ASSUME NEW t \in Teams
             PROVE  WaitsRightly(r.team[t]) /\ (r.team[t].running => TallyOf(r, t))
  BY DEF Counted
<1>1. WaitsRightly(lv.team[t]) /\ (lv.team[t].running => TallyOf(lv, t))
  BY DEF Counted
<1>2. /\ r.team[t].running => lv.team[t].running
      /\ r.team[t].wait = lv.team[t].wait
      /\ r.team[t].command = lv.team[t].command /\ r.team[t].due = lv.team[t].due
      /\ r.team[t].yes = lv.team[t].yes /\ r.team[t].no = lv.team[t].no
      /\ SaidAlike(t, lv, r)
  BY DEF StillVoting
<1> QED
  BY <1>1, <1>2 DEF WaitsRightly, TallyOf, SaidAlike

LEMMA StillAging ==
    ASSUME NEW lv, NEW r, StillVoting(lv, r), NEW age \in Int, Aging(lv, age)
    PROVE  Aging(r, age)
<1> SUFFICES ASSUME NEW t \in Teams
             PROVE  /\ r.team[t].age <= VoteTime
                    /\ r.team[t].running => r.team[t].age <= age
                    /\ r.team[t].running /\ r.phase = "intermission" => r.since <= r.team[t].age
  BY DEF Aging
<1>1. /\ r.team[t].running => lv.team[t].running
      /\ r.team[t].age = lv.team[t].age /\ r.team[t].age \in Nat
      /\ r.phase = "intermission" => r.since = 0 \/ (lv.phase = "intermission" /\ r.since = lv.since)
  BY DEF StillVoting, LevelType, VotesOfTeams
<1> QED
  BY <1>1 DEF Aging

LEMMA ExitLevelFacts ==
    ASSUME NEW lv \in LevelType
    PROVE  StillVoting(lv, ExitLevel(lv)) /\ ExitLevel(lv).phase = "over"
<1> DEFINE clients == [c \in Slots |-> [lv.clients[c] EXCEPT
                        !.connected = IF @ = "connected" THEN "connecting" ELSE @]]
           r == ExitLevel(lv)
<1>1. /\ lv.clients \in [Slots -> Clients] /\ 0 \in 0 .. MaxIntermission + 1
  BY TimesAssumption DEF LevelType
<1>2. r = [lv EXCEPT !.phase = "over", !.since = 0, !.nextMap = FALSE, !.restarted = TRUE,
                     !.clients = clients]
  BY Zenon DEF ExitLevel
<1>3. clients \in [Slots -> Clients]
  BY <1>1 DEF Clients
<1>4. \A c \in Slots :
        /\ clients[c].connected \in {"connecting", "connected"}
                <=> lv.clients[c].connected \in {"connecting", "connected"}
        /\ clients[c].team = lv.clients[c].team /\ clients[c].voted = lv.clients[c].voted
        /\ clients[c].voteYes = lv.clients[c].voteYes /\ clients[c].voteNo = lv.clients[c].voteNo
  BY <1>1 DEF Clients
<1> HIDE DEF clients, r
<1>5. r \in LevelType /\ r.phase = "over" /\ r.clients = clients /\ r.team = lv.team
  BY <1>1, <1>2, <1>3 DEF LevelType
<1>6. \A t \in Teams : SaidAlike(t, lv, r)
  BY <1>4, <1>5 DEF SaidAlike, Yes, No, Members, Here
<1>7. StillVoting(lv, r)
  BY <1>5, <1>6 DEF StillVoting
<1> QED
  BY <1>5, <1>7 DEF r

LEMMA BeginIntermissionFacts ==
    ASSUME NEW lv \in LevelType
    PROVE  StillVoting(lv, BeginIntermission(lv)) /\ BeginIntermission(lv).since = 0
<1> DEFINE team == [t \in Teams |-> [lv.team[t] EXCEPT
                     !.running = @ /\ ~StopOnIntermission(lv.team[t].command.kind)]]
           r == BeginIntermission(lv)
<1>1. lv.team \in [Teams -> VotesOfTeams] /\ 0 \in 0 .. MaxIntermission + 1
  BY TimesAssumption DEF LevelType
<1>2. r = [lv EXCEPT !.phase = "intermission", !.since = 0, !.team = team]
  BY Zenon DEF BeginIntermission
<1>3. team \in [Teams -> VotesOfTeams]
  BY <1>1 DEF VotesOfTeams
<1>4. \A t \in Teams :
        /\ team[t].running => lv.team[t].running
        /\ team[t].age = lv.team[t].age /\ team[t].wait = lv.team[t].wait
        /\ team[t].command = lv.team[t].command /\ team[t].due = lv.team[t].due
        /\ team[t].yes = lv.team[t].yes /\ team[t].no = lv.team[t].no
  BY <1>1 DEF VotesOfTeams
<1> HIDE DEF team, r
<1>5. r \in LevelType /\ r.since = 0 /\ r.clients = lv.clients /\ r.team = team
  BY <1>1, <1>2, <1>3 DEF LevelType
<1>6. \A t \in Teams : SaidAlike(t, lv, r)
  BY <1>5 DEF SaidAlike, Yes, No, Members, Here
<1>7. StillVoting(lv, r)
  BY <1>4, <1>5, <1>6 DEF StillVoting
<1> QED
  BY <1>5, <1>7 DEF r

\* CheckExitRules leaves the votes as they are, and no intermission that is over a minute long:
\* by then no vote runs in it.
LEMMA ExitRulesFacts ==
    ASSUME NEW lv \in LevelType, Aging(lv, VoteTime), NEW hit \in BOOLEAN,
           NEW r, r = CheckExitRules(lv, hit)
    PROVE  /\ StillVoting(lv, r)
           /\ r.phase = "intermission" => r.since <= MaxIntermission
<1>1. StillVoting(lv, lv)
  BY DEF StillVoting, SaidAlike
<1>2. CASE lv.phase = "intermission"
  <2>1. r = CheckIntermissionExit(lv)
    BY <1>2 DEF CheckExitRules
  <2>2. CASE r = ExitLevel(lv)
    BY <2>2, ExitLevelFacts
  <2>3. CASE r # ExitLevel(lv)
    <3>1. \/ r = lv \/ r = [lv EXCEPT !.exit = -1] \/ r = [lv EXCEPT !.exit = 0]
      BY <2>1, <2>3 DEF CheckIntermissionExit
    <3>2. ~MayExit(lv) \/ ~(lv.since > MaxIntermission)
      BY <2>1, <2>3 DEF CheckIntermissionExit
    <3>3. r \in LevelType /\ r.phase = lv.phase /\ r.since = lv.since /\ r.team = lv.team
          /\ r.clients = lv.clients
      BY <3>1 DEF LevelType
    <3>4. StillVoting(lv, r)
      BY <3>3 DEF StillVoting, SaidAlike, Yes, No, Members, Here
    <3>5. ASSUME NEW t \in Teams, lv.team[t].running PROVE lv.since <= MaxIntermission
      <4>1. lv.since <= lv.team[t].age /\ lv.team[t].age <= VoteTime
        BY <1>2, <3>5 DEF Aging
      <4>2. lv.since \in Int /\ lv.team[t].age \in Int /\ VoteTime \in Nat
            /\ MaxIntermission \in Nat /\ VoteTime < MaxIntermission
        BY TimesAssumption DEF LevelType, VotesOfTeams
      <4> QED
        BY <4>1, <4>2
    <3>6. MayExit(lv) \/ lv.since < MinIntermission \/ \E t \in Teams : lv.team[t].running
      BY TimesAssumption DEF MayExit, Running, LevelType
    <3>7. lv.since <= MaxIntermission
      BY <3>2, <3>5, <3>6, TimesAssumption DEF LevelType
    <3> QED
      BY <3>3, <3>4, <3>7
  <2> QED
    BY <2>2, <2>3
<1>3. CASE lv.phase # "intermission"
  <2>1. \/ r = lv \/ r = BeginIntermission(lv) \/ r = [lv EXCEPT !.phase = "queued", !.since = 0]
    BY <1>3 DEF CheckExitRules
  <2>2. CASE r = lv
    BY <1>1, <1>3, <2>2
  <2>3. CASE r = BeginIntermission(lv)
    BY <2>3, BeginIntermissionFacts, TimesAssumption
  <2>4. CASE r = [lv EXCEPT !.phase = "queued", !.since = 0]
    <3>1. 0 \in 0 .. MaxIntermission + 1
      BY TimesAssumption
    <3>2. r \in LevelType /\ r.phase = "queued" /\ r.team = lv.team /\ r.clients = lv.clients
      BY <2>4, <3>1 DEF LevelType
    <3> QED
      BY <3>2 DEF StillVoting, SaidAlike, Yes, No, Members, Here
  <2> QED
    BY <2>1, <2>2, <2>3, <2>4
<1> QED
  BY <1>2, <1>3

\* What CalculateRanks leaves, whoever has called it.
LEMMA RankedStep ==
    ASSUME NEW lv, Good(lv)
    PROVE  Good(CheckExitRules(lv, FALSE))
<1> DEFINE r == CheckExitRules(lv, FALSE)
<1>1. lv \in LevelType /\ Counted(lv) /\ Aging(lv, VoteTime - 1) /\ VoteTime - 1 \in Int
  BY TimesAssumption DEF Good
<1>2. Aging(lv, VoteTime)
  BY <1>1 DEF Aging
<1>3. StillVoting(lv, r) /\ (r.phase = "intermission" => r.since <= MaxIntermission)
  BY <1>1, <1>2, ExitRulesFacts
<1> HIDE DEF r
<1>4. Counted(r) /\ Aging(r, VoteTime - 1)
  BY <1>1, <1>3, StillCounted, StillAging
<1>5. Good(r)
  BY <1>3, <1>4 DEF Good, StillVoting
<1> QED
  BY <1>5 DEF r

\* A second passes.
LEMMA AgedStep ==
    ASSUME NEW lv, Good(lv), NEW r, r = Aged(lv)
    PROVE  r \in LevelType /\ Counted(r) /\ Aging(r, VoteTime)
<1> DEFINE team == [t \in Teams |-> [lv.team[t] EXCEPT
                     !.age = IF lv.team[t].running THEN @ + 1 ELSE @,
                     !.wait = IF @ > 0 THEN @ - 1 ELSE @]]
           since == IF lv.phase # "play" /\ lv.since <= MaxIntermission THEN lv.since + 1 ELSE lv.since
           exit == IF lv.exit \in 0 .. ReadyTime - 1 THEN lv.exit + 1 ELSE lv.exit
<1>1. /\ lv \in LevelType /\ lv.team \in [Teams -> VotesOfTeams]
      /\ lv.since \in 0 .. MaxIntermission + 1 /\ lv.exit \in Int
      /\ MaxIntermission \in Nat /\ VoteDelay \in Nat /\ VoteTime \in Nat
  BY TimesAssumption DEF Good, LevelType
<1>2. r = [lv EXCEPT !.since = since, !.exit = exit, !.team = team]
  BY DEF Aged
<1>3. team \in [Teams -> VotesOfTeams]
  <2> SUFFICES ASSUME NEW t \in Teams PROVE team[t] \in VotesOfTeams
    OBVIOUS
  <2>1. lv.team[t] \in VotesOfTeams /\ lv.team[t].age \in Nat
        /\ lv.team[t].wait \in -1 .. VoteDelay + 1
    BY <1>1 DEF VotesOfTeams
  <2> DEFINE age == IF lv.team[t].running THEN lv.team[t].age + 1 ELSE lv.team[t].age
             wait == IF lv.team[t].wait > 0 THEN lv.team[t].wait - 1 ELSE lv.team[t].wait
  <2>2. age \in Nat /\ wait \in -1 .. VoteDelay + 1
    BY <1>1, <2>1
  <2>3. team[t] = [lv.team[t] EXCEPT !.age = age, !.wait = wait]
    OBVIOUS
  <2> HIDE DEF age, wait, team
  <2> QED
    BY <2>1, <2>2, <2>3 DEF VotesOfTeams
<1>4. since \in 0 .. MaxIntermission + 1 /\ exit \in Int
  BY <1>1
<1>5. ASSUME NEW t \in Teams
      PROVE  /\ team[t].running <=> lv.team[t].running
             /\ team[t].age = (IF lv.team[t].running THEN lv.team[t].age + 1 ELSE lv.team[t].age)
             /\ team[t].wait = (IF lv.team[t].wait > 0 THEN lv.team[t].wait - 1 ELSE lv.team[t].wait)
             /\ team[t].command = lv.team[t].command /\ team[t].due = lv.team[t].due
             /\ team[t].yes = lv.team[t].yes /\ team[t].no = lv.team[t].no
             /\ lv.team[t].age \in Nat /\ lv.team[t].wait \in -1 .. VoteDelay + 1
  BY <1>1 DEF VotesOfTeams
<1>6. lv.phase = "intermission" => since = lv.since + 1
  BY DEF Good
<1> HIDE DEF team, since, exit
<1>7. /\ r \in LevelType /\ r.phase = lv.phase /\ r.since = since
      /\ r.clients = lv.clients /\ r.team = team
  BY <1>1, <1>2, <1>3, <1>4 DEF LevelType
<1>8. Counted(r)
  <2> SUFFICES ASSUME NEW t \in Teams
               PROVE  WaitsRightly(r.team[t]) /\ (r.team[t].running => TallyOf(r, t))
    BY DEF Counted
  <2>1. WaitsRightly(lv.team[t]) /\ (lv.team[t].running => TallyOf(lv, t))
    BY DEF Good, Counted
  <2>2. SaidAlike(t, lv, r)
    BY <1>7 DEF SaidAlike, Yes, No, Members, Here
  <2>3. WaitsRightly(r.team[t])
    BY <1>1, <1>5, <1>7, <2>1 DEF WaitsRightly
  <2>4. r.team[t].running => TallyOf(r, t)
    BY <1>5, <1>7, <2>1, <2>2 DEF TallyOf, SaidAlike
  <2> QED
    BY <2>3, <2>4
<1>9. Aging(r, VoteTime)
  <2> SUFFICES ASSUME NEW t \in Teams
               PROVE  /\ r.team[t].age <= VoteTime
                      /\ r.team[t].running => r.team[t].age <= VoteTime
                      /\ r.team[t].running /\ r.phase = "intermission" => r.since <= r.team[t].age
    BY DEF Aging
  <2>1. /\ lv.team[t].age <= VoteTime
        /\ lv.team[t].running => lv.team[t].age <= VoteTime - 1
        /\ lv.team[t].running /\ lv.phase = "intermission" => lv.since <= lv.team[t].age
    BY DEF Good, Aging
  <2>2. /\ (r.team[t].running <=> lv.team[t].running) /\ lv.team[t].age \in Nat
        /\ r.team[t].age = IF lv.team[t].running THEN lv.team[t].age + 1 ELSE lv.team[t].age
    BY <1>5, <1>7
  <2> QED
    BY <1>1, <1>6, <1>7, <2>1, <2>2
<1> QED
  BY <1>7, <1>8, <1>9

\* A frame.
LEMMA FrameStep ==
    ASSUME NEW lv, Good(lv), NEW hit \in BOOLEAN
    PROVE  /\ Good(CheckVotes(CheckExitRules(Aged(lv), hit)))
           /\ CheckExitRules(Aged(lv), hit) \in LevelType
<1> DEFINE aged == Aged(lv)
           r == CheckExitRules(aged, hit)
<1>1. aged \in LevelType /\ Counted(aged) /\ Aging(aged, VoteTime)
  BY AgedStep
<1> HIDE DEF aged
<1>2. StillVoting(aged, r) /\ (r.phase = "intermission" => r.since <= MaxIntermission)
  BY <1>1, ExitRulesFacts
<1> HIDE DEF r
<1>3. r \in LevelType /\ Counted(r) /\ Aging(r, VoteTime)
  BY <1>1, <1>2, StillCounted, StillAging, TimesAssumption DEF StillVoting
<1>4. Good(CheckVotes(r))
  BY <1>2, <1>3, CheckVotesStep
<1> QED
  BY <1>3, <1>4 DEF r, aged

-----------------------------------------------------------------------------
(* What clients do *)

\* A step that changes no vote keeps the level as it should be.
LEMMA StillGood ==
    ASSUME NEW lv, Good(lv), NEW r, StillVoting(lv, r)
    PROVE  Good(r)
<1>1. VoteTime - 1 \in Int
  BY TimesAssumption
<1>2. Counted(r) /\ Aging(r, VoteTime - 1)
  BY <1>1, StillCounted, StillAging DEF Good
<1> QED
  BY <1>2, TimesAssumption DEF Good, StillVoting

\* Of client c nothing is changed that is counted.
SameVotes(cl, new) ==
    /\ new \in Clients
    /\ new.connected \in {"connecting", "connected"} <=> cl.connected \in {"connecting", "connected"}
    /\ new.team = cl.team /\ new.voted = cl.voted
    /\ new.voted \cap new.voteYes = cl.voted \cap cl.voteYes
    /\ new.voted \cap new.voteNo = cl.voted \cap cl.voteNo

LEMMA SameVotesFacts ==
    ASSUME NEW lv \in LevelType, NEW c \in Slots, NEW new, SameVotes(lv.clients[c], new),
           NEW r, r = [lv EXCEPT !.clients[c] = new]
    PROVE  /\ StillVoting(lv, r) /\ r.team = lv.team
           /\ r.clients[c] = new /\ \A t \in Teams : Members(r, t) = Members(lv, t)
<1>1. lv.clients \in [Slots -> Clients] /\ new \in Clients
  BY DEF LevelType, SameVotes
<1>2. /\ r \in LevelType /\ r.team = lv.team /\ r.phase = lv.phase /\ r.since = lv.since
      /\ r.clients = [lv.clients EXCEPT ![c] = new]
  BY <1>1 DEF LevelType
<1>3. \A t \in Teams : Members(r, t) = Members(lv, t)
  BY <1>1, <1>2 DEF Members, Here, SameVotes
<1>4. ASSUME NEW t \in Teams PROVE SaidAlike(t, lv, r)
  BY <1>1, <1>2, <1>3 DEF SaidAlike, Yes, No, SameVotes, Members, Here
<1> QED
  BY <1>1, <1>2, <1>3, <1>4 DEF StillVoting

\* A client that is let in has voted for nothing.
LEMMA ConnectFacts ==
    ASSUME NEW lv \in LevelType, NEW c \in Slots, lv.clients[c].connected = "no", NEW r,
           r = [lv EXCEPT !.clients[c] = [Absent EXCEPT !.connected = "connecting"]]
    PROVE  StillVoting(lv, r)
<1> PICK new : new = [Absent EXCEPT !.connected = "connecting"]
  OBVIOUS
<1>1. new \in Clients /\ new.voted = {}
  BY DEF Absent, Clients, Teams
<1>2. lv.clients \in [Slots -> Clients]
  BY DEF LevelType
<1>3. /\ r \in LevelType /\ r.team = lv.team /\ r.phase = lv.phase /\ r.since = lv.since
      /\ r.clients = [lv.clients EXCEPT ![c] = new]
  BY <1>1, <1>2 DEF LevelType
<1>4. ASSUME NEW t \in Teams PROVE SaidAlike(t, lv, r)
  BY <1>1, <1>2, <1>3 DEF SaidAlike, Yes, No, Members, Here
<1> QED
  BY <1>3, <1>4 DEF StillVoting

\* ClientBegin, and being ready.
LEMMA BeginStep ==
    ASSUME NEW lv, Good(lv), NEW c \in Slots, lv.clients[c].connected = "connecting"
    PROVE  Good([lv EXCEPT !.clients[c].connected = "connected"])
<1>1. lv \in LevelType /\ lv.clients[c] \in Clients
  BY DEF Good, LevelType
<1> PICK new : new = [lv.clients[c] EXCEPT !.connected = "connected"]
  OBVIOUS
<1>2. SameVotes(lv.clients[c], new)
  BY <1>1 DEF SameVotes, Clients
<1> PICK r : r = [lv EXCEPT !.clients[c] = new]
  OBVIOUS
<1>3. Good(r)
  BY <1>1, <1>2, SameVotesFacts, StillGood
<1>4. r = [lv EXCEPT !.clients[c].connected = "connected"]
  OBVIOUS
<1> QED
  BY <1>3, <1>4

LEMMA ReadyStep ==
    ASSUME NEW lv, Good(lv), NEW c \in Slots
    PROVE  Good([lv EXCEPT !.clients[c].ready = TRUE])
<1>1. lv \in LevelType /\ lv.clients[c] \in Clients
  BY DEF Good, LevelType
<1> PICK new : new = [lv.clients[c] EXCEPT !.ready = TRUE]
  OBVIOUS
<1>2. SameVotes(lv.clients[c], new)
  BY <1>1 DEF SameVotes, Clients
<1> PICK r : r = [lv EXCEPT !.clients[c] = new]
  OBVIOUS
<1>3. StillVoting(lv, r)
  BY <1>1, <1>2, SameVotesFacts
<1>4. Good(r)
  BY <1>3, StillGood
<1>5. r = [lv EXCEPT !.clients[c].ready = TRUE]
  OBVIOUS
<1> QED
  BY <1>4, <1>5

\* What a client says before it has voted is said, and counted, when it votes.
LEMMA SayStep ==
    ASSUME NEW lv, Good(lv), NEW t \in Teams, lv.team[t].running, NEW c \in Members(lv, t),
           NEW new, SameVotes(lv.clients[c], new)
    PROVE  Good(Vote([lv EXCEPT !.clients[c] = new], c, t, TRUE))
<1>1. lv \in LevelType /\ c \in Slots
  BY DEF Good, Members, Here
<1> PICK r : r = [lv EXCEPT !.clients[c] = new]
  OBVIOUS
<1>2. /\ StillVoting(lv, r) /\ r.team = lv.team
      /\ \A u \in Teams : Members(r, u) = Members(lv, u)
  BY <1>1, SameVotesFacts
<1>3. Good(r) /\ r.team[t].running /\ c \in Members(r, t)
  BY <1>2, StillGood
<1> QED
  BY <1>3, CastStep

-----------------------------------------------------------------------------
(* A vote is called *)

\* The level in which it is: the vote of t has neither been running, nor does it wait.
LEMMA CallableFacts ==
    ASSUME NEW lv, Good(lv), NEW t \in Teams, ~lv.team[t].running,
           NEW r, r = ResetVote(ExecutedEarly(lv, t), t)
    PROVE  /\ Good(r) /\ r.phase = lv.phase
           /\ r.team[t].age = 0 /\ r.team[t].wait = -1 /\ r.team[t].due = NoCommand
           /\ r.team[t].yes = 0 /\ r.team[t].no = 0
           /\ \A c \in Slots : /\ r.clients[c].connected = lv.clients[c].connected
                              /\ r.clients[c].team = lv.clients[c].team
                              /\ t \notin r.clients[c].voted
<1> PICK q : q = ExecutedEarly(lv, t)
  OBVIOUS
<1>1. lv \in LevelType /\ WaitsRightly(lv.team[t])
  BY DEF Good, Counted
<1>2. /\ OnlyVoteOf(t, lv, q) /\ q.clients = lv.clients
      /\ q.team[t].wait = -1 /\ q.team[t].due = NoCommand
  <2>1. CASE lv.team[t].wait = -1
    BY <1>1, <2>1 DEF ExecutedEarly, OnlyVoteOf, SaidAlike, WaitsRightly
  <2>2. CASE lv.team[t].wait # -1
    BY <1>1, <2>2, ExecuteFacts DEF ExecutedEarly
  <2> QED
    BY <2>1, <2>2
<1>3. q \in LevelType
  BY <1>2 DEF OnlyVoteOf
<1>4. /\ OnlyVoteOf(t, q, r) /\ ~r.team[t].running /\ r.team[t].age = 0
      /\ r.team[t].wait = q.team[t].wait /\ r.team[t].due = q.team[t].due
      /\ r.team[t].yes = 0 /\ r.team[t].no = 0
      /\ \A c \in Slots : /\ r.clients[c].connected = q.clients[c].connected
                         /\ r.clients[c].team = q.clients[c].team
                         /\ t \notin r.clients[c].voted
  BY <1>3, ResetFacts
<1>5. WaitsRightly(r.team[t])
  BY <1>2, <1>4 DEF WaitsRightly
<1>6. OnlyVoteOf(t, lv, r)
  BY <1>2, <1>4, OnlyVoteAfter
<1>7. Good(r)
  BY <1>4, <1>5, <1>6, EnoughForGood, TimesAssumption
<1> QED
  BY <1>2, <1>4, <1>6, <1>7 DEF OnlyVoteOf

\* A vote that has just been called; the caller's is cast, unless it is a poll.
LEMMA CalledStep ==
    ASSUME NEW lv, Good(lv), lv.phase # "intermission", NEW t \in Teams,
           lv.team[t].age = 0, lv.team[t].wait = -1, lv.team[t].due = NoCommand,
           lv.team[t].yes = 0, lv.team[t].no = 0,
           \A c \in Slots : t \notin lv.clients[c].voted,
           NEW c \in Members(lv, t), NEW command \in Orders
    PROVE  Good(Called(lv, c, t, command))
<1>1. /\ lv \in LevelType /\ lv.team \in [Teams -> VotesOfTeams] /\ lv.team[t] \in VotesOfTeams
      /\ c \in Slots
  BY DEF Good, LevelType, Members, Here
<1> PICK v : v = [lv.team[t] EXCEPT !.running = TRUE, !.command = command]
  OBVIOUS
<1>2. /\ v \in VotesOfTeams /\ v.running /\ v.age = 0 /\ v.wait = -1 /\ v.due = NoCommand
      /\ v.yes = 0 /\ v.no = 0
  BY <1>1 DEF VotesOfTeams
<1> PICK r : r = [lv EXCEPT !.team[t] = v]
  OBVIOUS
<1>3. /\ r \in LevelType /\ r.phase = lv.phase /\ r.since = lv.since /\ r.clients = lv.clients
      /\ r.team = [lv.team EXCEPT ![t] = v]
  <2>1. [lv.team EXCEPT ![t] = v] \in [Teams -> VotesOfTeams]
    BY <1>1, <1>2
  <2> QED
    BY <1>1, <2>1 DEF LevelType
<1>4. r.team[t] = v /\ \A u \in Teams \ {t} : r.team[u] = lv.team[u]
  BY <1>1, <1>3
<1>5. \A u \in Teams : SaidAlike(u, lv, r)
  BY <1>3 DEF SaidAlike, Yes, No, Members, Here
<1>6. TallyOf(r, t)
  <2>1. Yes(r, t) = {} /\ No(r, t) = {}
    BY <1>3 DEF Yes, No, Members, Here
  <2>2. Cardinality({}) = 0
    BY FS_EmptySet
  <2> QED
    BY <1>2, <1>4, <2>1, <2>2 DEF TallyOf
<1>7. Good(r)
  <2>1. OnlyVoteOf(t, lv, r)
    BY <1>3, <1>4, <1>5 DEF OnlyVoteOf
  <2>2. WaitsRightly(r.team[t])
    BY <1>2, <1>4 DEF WaitsRightly
  <2>3. r.team[t].age <= VoteTime /\ r.team[t].age <= VoteTime - 1
    BY <1>2, <1>4, TimesAssumption
  <2> QED
    BY <1>3, <1>6, <2>1, <2>2, <2>3, EnoughForGood
<1>8. c \in Members(r, t) /\ r.team[t].running /\ t \notin r.clients[c].voted
  BY <1>1, <1>2, <1>3, <1>4 DEF Members, Here
<1>9. r = [lv EXCEPT !.team[t] = [@ EXCEPT !.running = TRUE, !.command = command]]
  OBVIOUS
<1>10. CASE command.kind = "poll"
  BY <1>7, <1>9, <1>10 DEF Called
<1>11. CASE command.kind # "poll"
  <2>1. r.clients[c] \in Clients
    BY <1>1, <1>3 DEF LevelType
  <2> PICK new : new = [r.clients[c] EXCEPT !.voteYes = @ \cup {t}]
    OBVIOUS
  <2>2. SameVotes(r.clients[c], new)
    BY <1>8, <2>1 DEF SameVotes, Clients
  <2>3. Good(Vote([r EXCEPT !.clients[c] = new], c, t, TRUE))
    BY <1>7, <1>8, <2>2, SayStep
  <2>4. [r EXCEPT !.clients[c] = new] = [r EXCEPT !.clients[c].voteYes = @ \cup {t}]
    OBVIOUS
  <2>5. Called(lv, c, t, command) = Vote([r EXCEPT !.clients[c].voteYes = @ \cup {t}], c, t, TRUE)
    BY <1>9, <1>11, Zenon DEF Called
  <2> QED
    BY <2>3, <2>4, <2>5
<1> QED
  BY <1>10, <1>11

\* A vote that is decided is over, whatever has been made of its counts.
LEMMA DecidedStep ==
    ASSUME NEW lv, Good(lv), NEW t \in Teams, NEW m \in LevelType, OnlyVoteOf(t, lv, m),
           WaitsRightly(m.team[t]), m.team[t].running,
           ~Undecided(m.team[t], NumPlayers(m, t)), NEW quorum
    PROVE  Good(EndOfVote(m, t, quorum))
<1> PICK r : r = EndOfVote(m, t, quorum)
  OBVIOUS
<1>1. /\ OnlyVoteOf(t, m, r) /\ WaitsRightly(r.team[t])
      /\ \/ r = m /\ (~m.team[t].running \/ Undecided(m.team[t], NumPlayers(m, t)))
         \/ ~r.team[t].running /\ r.team[t].age = 0
  BY EndFacts
<1>2. OnlyVoteOf(t, lv, r)
  BY <1>1, OnlyVoteAfter
<1>3. ~r.team[t].running /\ r.team[t].age <= VoteTime
  BY <1>1, TimesAssumption
<1>4. Good(r)
  BY <1>1, <1>2, <1>3, EnoughForGood
<1> QED
  BY <1>4

\* G_admin_endvote: with everyone's Yes, or No, the vote is over.
LEMMA EndedStep ==
    ASSUME NEW lv, Good(lv), NEW t \in Teams, lv.team[t].running,
           NEW no \in Nat, NEW yes \in Nat, yes + no = NumPlayers(lv, t)
    PROVE  Good(EndOfVote([lv EXCEPT !.team[t].no = no, !.team[t].yes = yes], t, FALSE))
<1>1. /\ lv \in LevelType /\ lv.team \in [Teams -> VotesOfTeams] /\ lv.team[t] \in VotesOfTeams
      /\ WaitsRightly(lv.team[t])
  BY DEF Good, LevelType, Counted
<1> PICK v : v = [lv.team[t] EXCEPT !.no = no, !.yes = yes]
  OBVIOUS
<1>2. /\ v \in VotesOfTeams /\ v.running /\ v.yes = yes /\ v.no = no
      /\ v.wait = lv.team[t].wait /\ v.due = lv.team[t].due /\ v.command = lv.team[t].command
  <2>1. yes \in Int /\ no \in Int
    OBVIOUS
  <2>2. v \in VotesOfTeams
    BY <1>1, <2>1 DEF VotesOfTeams
  <2>3. v.running /\ v.yes = yes /\ v.no = no
    BY <1>1 DEF VotesOfTeams
  <2>4. v.wait = lv.team[t].wait /\ v.due = lv.team[t].due /\ v.command = lv.team[t].command
    BY <1>1 DEF VotesOfTeams
  <2> QED
    BY <2>2, <2>3, <2>4
<1> PICK m : m = [lv EXCEPT !.team[t] = v]
  OBVIOUS
<1>3. /\ m \in LevelType /\ m.phase = lv.phase /\ m.since = lv.since /\ m.clients = lv.clients
      /\ m.team = [lv.team EXCEPT ![t] = v]
  <2>1. [lv.team EXCEPT ![t] = v] \in [Teams -> VotesOfTeams]
    BY <1>1, <1>2
  <2> QED
    BY <1>1, <2>1 DEF LevelType
<1>4. m.team[t] = v /\ \A u \in Teams \ {t} : m.team[u] = lv.team[u]
  BY <1>1, <1>3
<1>5. OnlyVoteOf(t, lv, m)
  BY <1>3, <1>4 DEF OnlyVoteOf, SaidAlike, Yes, No, Members, Here
<1>6. NumPlayers(m, t) = NumPlayers(lv, t)
  BY <1>3 DEF NumPlayers, Here
<1>7. ~Undecided(m.team[t], NumPlayers(m, t))
  BY <1>2, <1>4, <1>6 DEF Undecided
<1>8. WaitsRightly(m.team[t]) /\ m.team[t].running
  BY <1>1, <1>2, <1>4 DEF WaitsRightly
<1>9. Good(EndOfVote(m, t, FALSE))
  BY <1>3, <1>5, <1>7, <1>8, DecidedStep
<1>10. m = [lv EXCEPT !.team[t].no = no, !.team[t].yes = yes]
  BY <1>1 DEF LevelType, VotesOfTeams
<1> QED
  BY <1>9, <1>10

-----------------------------------------------------------------------------
(* What is sent to the console *)

LEMMA OrdersInSequence ==
    ASSUME NEW o \in Orders, NEW s \in Seq(Orders), NEW r \in Seq(Orders)
    PROVE  <<o>> \in Seq(Orders) /\ s \o r \in Seq(Orders)
  OBVIOUS

LEMMA ExitCommandType ==
    ASSUME NEW lv
    PROVE  ExitCommand(lv) \in Seq(Orders)
<1>1. [kind |-> IF lv.nextMap THEN "exit to the voted map" ELSE "exit", target |-> 0] \in Orders
  BY DEF Orders, CommandKinds
<1>2. <<>> \in Seq(Orders)
  OBVIOUS
<1> PICK o : o = [kind |-> IF lv.nextMap THEN "exit to the voted map" ELSE "exit", target |-> 0]
  OBVIOUS
<1>3. <<o>> \in Seq(Orders)
  BY <1>1, <1>2, OrdersInSequence
<1> QED
  BY <1>2, <1>3, Zenon DEF ExitCommand

LEMMA SetToSeqType ==
    ASSUME NEW S, IsFiniteSet(S)
    PROVE  Cardinality(S) \in Nat /\ SetToSeq(S) \in [1 .. Cardinality(S) -> S]
<1>1. Cardinality(S) \in Nat /\ ExistsBijection(1 .. Cardinality(S), S)
  BY FS_CardinalityType
<1>2. \E f \in [1 .. Cardinality(S) -> S] : IsInjective(f)
  BY <1>1, Zenon DEF ExistsBijection, Bijection, Injection
<1> QED
  BY <1>1, <1>2 DEF SetToSeq

LEMMA CommandsType ==
    ASSUME NEW lv \in LevelType
    PROVE  Commands(lv) \in Seq(Orders)
<1> DEFINE S == { t \in PlayTeams : Executes(lv, t) }
           others == SetToSeq(S)
           first == IF Executes(lv, NoTeam) THEN <<lv.team[NoTeam].command>> ELSE <<>>
           rest == [i \in DOMAIN others |-> lv.team[others[i]].command]
<1>1. \A t \in Teams : lv.team[t].command \in Orders
  BY DEF LevelType, VotesOfTeams
<1>2. Cardinality(S) \in Nat /\ others \in [1 .. Cardinality(S) -> S]
  <2>1. IsFiniteSet(S)
    BY KindsAssumption, FS_Subset
  <2> HIDE DEF S
  <2> QED
    BY <2>1, SetToSeqType
<1>3. first \in Seq(Orders)
  BY <1>1 DEF Teams
<1>4. rest \in [1 .. Cardinality(S) -> Orders]
  <2> HIDE DEF others
  <2>1. DOMAIN others = 1 .. Cardinality(S) /\ \A i \in DOMAIN others : others[i] \in Teams
    BY <1>2 DEF Teams
  <2> HIDE DEF S
  <2> QED
    BY <1>1, <2>1
<1>5. Commands(lv) = first \o rest
  BY Zenon DEF Commands
<1> HIDE DEF first, rest, S, others
<1>6. rest \in Seq(Orders)
  BY <1>2, <1>4
<1> QED
  BY <1>3, <1>5, <1>6

-----------------------------------------------------------------------------
(* The invariant *)

\* At the start of a level nothing has been said.
LEMMA InitIInv ==
    Init => IInv
<1> SUFFICES ASSUME Init PROVE IInv
  OBVIOUS
<1> DEFINE clients == [c \in Slots |-> [Absent EXCEPT !.connected = "connected"]]
           team == [t \in Teams |-> NoVote]
<1>1. NoCommand \in Orders /\ 0 \in 0 .. MaxIntermission + 1
  BY TimesAssumption DEF NoCommand, Orders, CommandKinds
<1>2. NoVote \in VotesOfTeams
  BY <1>1, TimesAssumption DEF NoVote, VotesOfTeams
<1>3. [Absent EXCEPT !.connected = "connected"] \in Clients
  BY DEF Absent, Clients, Teams
<1>4. clients \in [Slots -> Clients] /\ team \in [Teams -> VotesOfTeams]
  BY <1>2, <1>3
<1>5. level = [clients |-> clients, team |-> team, phase |-> "play", since |-> 0,
               exit |-> -1, nextMap |-> FALSE, restarted |-> FALSE]
  BY Zenon DEF Init
<1>6. \A t \in Teams : team[t] = NoVote
  OBVIOUS
<1> HIDE DEF clients, team
<1>7. level \in LevelType /\ level.team = team /\ level.phase = "play"
  BY <1>1, <1>4, <1>5 DEF LevelType
<1>8. /\ ~NoVote.running /\ NoVote.age = 0 /\ NoVote.wait = -1 /\ NoVote.due = NoCommand
  BY DEF NoVote
<1>9. Counted(level)
  BY <1>6, <1>7, <1>8 DEF Counted, WaitsRightly
<1>10. Aging(level, VoteTime - 1)
  BY <1>6, <1>7, <1>8, TimesAssumption DEF Aging
<1>11. console \in Seq(Orders) /\ moves \in Nat /\ calls \in Nat
  BY DEF Init
<1> QED
  BY <1>7, <1>9, <1>10, <1>11 DEF IInv, Good

\* Everything that ends in CalculateRanks.
LEMMA RankedIInv ==
    ASSUME IInv, NEW lv, Good(lv), Ranked(lv), moves' \in Nat, calls' \in Nat
    PROVE  IInv'
<1>1. Good(level')
  BY RankedStep DEF Ranked
<1>2. \/ console' = console \o <<>>
      \/ console' = console \o ExitCommand(lv)
  BY Zenon DEF Ranked
<1>3. console' \in Seq(Orders)
  <2>1. console \in Seq(Orders) /\ ExitCommand(lv) \in Seq(Orders) /\ <<>> \in Seq(Orders)
    BY ExitCommandType DEF IInv
  <2>2. NoCommand \in Orders
    BY DEF NoCommand, Orders, CommandKinds
  <2> QED
    BY <1>2, <2>1, <2>2, OrdersInSequence
<1> QED
  BY <1>1, <1>3 DEF IInv

LEMMA FrameIInv ==
    IInv /\ Frame => IInv'
<1> SUFFICES ASSUME IInv, Frame PROVE IInv'
  OBVIOUS
<1> PICK hit \in BOOLEAN :
      LET aged == Aged(level)
          lv == CheckExitRules(aged, hit)
      IN  /\ level' = CheckVotes(lv)
          /\ console' = (IF lv.phase = "over" THEN ExitCommand(aged) ELSE <<>>) \o Commands(lv)
  BY Zenon DEF Frame
<1> DEFINE aged == Aged(level)
           lv == CheckExitRules(aged, hit)
<1>1. Good(level') /\ lv \in LevelType
  BY FrameStep DEF IInv
<1>2. console' = (IF lv.phase = "over" THEN ExitCommand(aged) ELSE <<>>) \o Commands(lv)
  OBVIOUS
<1> HIDE DEF lv, aged
<1>3. console' \in Seq(Orders)
  <2>1. \/ console' = <<>> \o Commands(lv)
        \/ console' = ExitCommand(aged) \o Commands(lv)
    BY <1>2, Zenon
  <2>2. ExitCommand(aged) \in Seq(Orders) /\ Commands(lv) \in Seq(Orders) /\ <<>> \in Seq(Orders)
    BY <1>1, ExitCommandType, CommandsType
  <2>3. NoCommand \in Orders
    BY DEF NoCommand, Orders, CommandKinds
  <2> QED
    BY <2>1, <2>2, <2>3, OrdersInSequence
<1>4. moves' \in Nat /\ calls' \in Nat
  BY DEF Frame, IInv
<1> QED
  BY <1>1, <1>3, <1>4 DEF IInv

LEMMA CallVoteIInv ==
    ASSUME IInv, NEW c \in Slots, NEW t \in Teams, Cmd_CallVote_f(c, t)
    PROVE  IInv'
<1>1. /\ Good(level) /\ level \in LevelType /\ level.phase # "intermission"
      /\ ~level.team[t].running /\ level.clients[c].connected = "connected"
      /\ t \in {NoTeam, level.clients[c].team}
  BY DEF IInv, Good, Cmd_CallVote_f, Callable, In
<1> PICK lv : lv = ResetVote(ExecutedEarly(level, t), t)
  OBVIOUS
<1>2. PICK kind \in KindsOf(t) : \E target \in Targets(kind) :
        level' = lv \/ level' = Called(lv, c, t, [kind |-> kind, target |-> target])
  BY Zenon DEF Cmd_CallVote_f
<1>3. PICK target \in Targets(kind) :
        level' = lv \/ level' = Called(lv, c, t, [kind |-> kind, target |-> target])
  BY <1>2
<1> PICK command : command = [kind |-> kind, target |-> target]
  OBVIOUS
<1>4. command \in Orders
  <2>1. kind \in CommandKinds /\ target \in Slots \cup {0} /\ (kind = "spectate" => target \in Slots)
    BY DEF KindsOf, CommandKinds, Targets, Here
  <2> QED
    BY <2>1 DEF Orders
<1>5. /\ Good(lv) /\ lv.phase = level.phase
      /\ lv.team[t].age = 0 /\ lv.team[t].wait = -1 /\ lv.team[t].due = NoCommand
      /\ lv.team[t].yes = 0 /\ lv.team[t].no = 0
      /\ \A d \in Slots : /\ lv.clients[d].connected = level.clients[d].connected
                         /\ lv.clients[d].team = level.clients[d].team
                         /\ t \notin lv.clients[d].voted
  BY <1>1, CallableFacts
<1>6. c \in Members(lv, t)
  BY <1>1, <1>5 DEF Members, Here
<1>7. Good(Called(lv, c, t, command))
  BY <1>1, <1>4, <1>5, <1>6, CalledStep
<1>8. Good(level')
  BY <1>3, <1>5, <1>7
<1>9. console' \in Seq(Orders)
  <2>1. level.team[t].command \in Orders
    BY <1>1 DEF LevelType, VotesOfTeams
  <2> QED
    BY <2>1 DEF Cmd_CallVote_f, IInv
<1>10. moves' \in Nat /\ calls' \in Nat
  BY DEF Cmd_CallVote_f, IInv
<1> QED
  BY <1>8, <1>9, <1>10 DEF IInv

LEMMA ClientActsIInv ==
    ASSUME IInv, NEW c \in Slots, ClientActs(c)
    PROVE  IInv'
<1>1. Good(level) /\ level \in LevelType /\ moves \in Nat /\ calls \in Nat
  BY DEF IInv, Good
<1>2. CASE ClientConnect(c)
  <2> PICK lv : lv = [level EXCEPT !.clients[c] = [Absent EXCEPT !.connected = "connecting"]]
    OBVIOUS
  <2>1. Good(lv)
    BY <1>1, <1>2, ConnectFacts, StillGood DEF ClientConnect
  <2> QED
    BY <1>1, <1>2, <2>1, RankedIInv DEF ClientConnect
<1>3. CASE ClientBegin(c)
  <2> PICK lv : lv = [level EXCEPT !.clients[c].connected = "connected"]
    OBVIOUS
  <2>1. Good(lv)
    BY <1>1, <1>3, BeginStep DEF ClientBegin
  <2> QED
    BY <1>1, <1>3, <2>1, RankedIInv DEF ClientBegin
<1>4. CASE ClientDisconnect(c)
  <2> PICK lv : lv = [LeaveVotes(level, c) EXCEPT !.clients[c] = Absent]
    OBVIOUS
  <2>1. Good(lv)
    BY <1>1, <1>4, GoneStep DEF ClientDisconnect
  <2> QED
    BY <1>1, <1>4, <2>1, RankedIInv DEF ClientDisconnect
<1>5. CASE ClientIsReady(c)
  <2>1. Good(level')
    BY <1>1, <1>5, ReadyStep DEF ClientIsReady
  <2> QED
    BY <1>5, <2>1 DEF ClientIsReady, IInv
<1>6. ASSUME NEW t \in Teams, Cmd_Team_f(c, t) PROVE IInv'
  <2> PICK lv : lv = ChangedTeam(level, c, t)
    OBVIOUS
  <2>1. Good(lv)
    BY <1>1, <1>6, ChangedTeamStep DEF Cmd_Team_f, In
  <2> QED
    BY <1>1, <1>6, <2>1, RankedIInv DEF Cmd_Team_f
<1>7. ASSUME NEW t \in Teams, Cmd_Vote_f(c, t) PROVE IInv'
  <2>1. PICK yes \in {{}, {t}}, no \in {{}, {t}} :
          level' = Vote([level EXCEPT !.clients[c].voteYes = @ \cup yes,
                                      !.clients[c].voteNo = @ \cup no], c, t, TRUE)
    BY <1>7 DEF Cmd_Vote_f
  <2>2. /\ level.team[t].running /\ t \notin level.clients[c].voted /\ c \in Members(level, t)
    BY <1>7 DEF Cmd_Vote_f, MayCount, In, Members, Here
  <2>3. level.clients[c] \in Clients /\ level.clients \in [Slots -> Clients]
    BY <1>1 DEF LevelType
  <2> PICK new : new = [level.clients[c] EXCEPT !.voteYes = @ \cup yes, !.voteNo = @ \cup no]
    OBVIOUS
  <2>4. SameVotes(level.clients[c], new)
    BY <2>2, <2>3 DEF SameVotes, Clients
  <2>5. [level EXCEPT !.clients[c] = new]
          = [level EXCEPT !.clients[c].voteYes = @ \cup yes, !.clients[c].voteNo = @ \cup no]
    BY <1>1, <2>3 DEF LevelType, Clients
  <2>6. Good(Vote([level EXCEPT !.clients[c] = new], c, t, TRUE))
    BY <1>1, <2>2, <2>4, SayStep
  <2>7. Good(level')
    BY <2>1, <2>5, <2>6, Zenon
  <2> QED
    BY <1>7, <2>7 DEF Cmd_Vote_f, IInv
<1> QED
  BY <1>2, <1>3, <1>4, <1>5, <1>6, <1>7, CallVoteIInv DEF ClientActs

LEMMA EndvoteIInv ==
    ASSUME IInv, NEW t \in Teams, G_admin_endvote(t)
    PROVE  IInv'
<1> DEFINE n == NumPlayers(level, t)
<1>1. Good(level) /\ level.team[t].running /\ n \in Nat
  BY PlayersAreNat DEF IInv, G_admin_endvote
<1>2. PICK cancel \in BOOLEAN :
        level' = EndOfVote([level EXCEPT !.team[t].no = IF cancel THEN n ELSE 0,
                                         !.team[t].yes = IF cancel THEN 0 ELSE n], t, FALSE)
  BY DEF G_admin_endvote
<1> PICK no, yes : no = (IF cancel THEN n ELSE 0) /\ yes = (IF cancel THEN 0 ELSE n)
  OBVIOUS
<1>3. no \in Nat /\ yes \in Nat /\ yes + no = n
  BY <1>1
<1>4. Good(EndOfVote([level EXCEPT !.team[t].no = no, !.team[t].yes = yes], t, FALSE))
  BY <1>1, <1>3, EndedStep
<1>5. Good(level')
  BY <1>2, <1>4, Zenon
<1> QED
  BY <1>5 DEF G_admin_endvote, IInv

LEMMA ConsoleIInv ==
    IInv /\ Console => IInv'
<1> SUFFICES ASSUME IInv, Console PROVE IInv'
  OBVIOUS
<1> PICK command, c : command = Head(console) /\ c = command.target
  OBVIOUS
<1>1. Good(level) /\ level \in LevelType /\ console # <<>>
  BY DEF IInv, Good, Console
<1>2. command \in Orders /\ Tail(console) \in Seq(Orders)
  BY <1>1 DEF IInv
<1>3. console' = Tail(console)
  BY DEF Console
<1>4. \/ level' = [level EXCEPT !.nextMap = TRUE]
      \/ /\ command.kind = "spectate" /\ level.clients[c].connected # "no"
         /\ level.clients[c].team # NoTeam
         /\ level' = CheckExitRules(ChangedTeam(level, c, NoTeam), FALSE)
      \/ level' = level
  BY DEF Console
<1>5. CASE level' = [level EXCEPT !.nextMap = TRUE]
  <2> PICK r : r = [level EXCEPT !.nextMap = TRUE]
    OBVIOUS
  <2>1. /\ r \in LevelType /\ r.phase = level.phase /\ r.since = level.since
        /\ r.team = level.team /\ r.clients = level.clients
    BY <1>1 DEF LevelType
  <2>2. StillVoting(level, r)
    BY <2>1 DEF StillVoting, SaidAlike, Yes, No, Members, Here
  <2>3. Good(r)
    BY <1>1, <2>2, StillGood
  <2> QED
    BY <1>2, <1>3, <1>5, <2>3 DEF IInv, Console
<1>6. CASE /\ command.kind = "spectate" /\ level.clients[c].connected # "no"
           /\ level.clients[c].team # NoTeam
           /\ level' = CheckExitRules(ChangedTeam(level, c, NoTeam), FALSE)
  <2>1. c \in Slots /\ NoTeam \in Teams
    BY <1>2, <1>6 DEF Orders, Teams
  <2>2. Good(level')
    BY <1>1, <1>6, <2>1, ChangedTeamStep, RankedStep
  <2> QED
    BY <1>2, <1>3, <2>2 DEF IInv, Console
<1>7. CASE level' = level
  BY <1>2, <1>3, <1>7 DEF IInv, Console
<1> QED
  BY <1>4, <1>5, <1>6, <1>7

\* No step breaks it.
LEMMA NextIInv ==
    IInv /\ [Next]_vars => IInv'
<1> SUFFICES ASSUME IInv, [Next]_vars PROVE IInv'
  OBVIOUS
<1>1. CASE UNCHANGED vars
  BY <1>1 DEF IInv, vars
<1> QED
  BY <1>1, FrameIInv, ConsoleIInv, ClientActsIInv, EndvoteIInv DEF Next

\* So it always holds.
LEMMA Invariant ==
    Spec => []IInv
  BY InitIInv, NextIInv, PTL DEF Spec

-----------------------------------------------------------------------------
(* The results *)

\* level_locals_t stays of its type; no vote gets older than VoteTime before G_CheckVote ends it.
THEOREM TypeCorrect ==
    Spec => []TypeOK
<1>1. IInv => TypeOK
  BY DEF IInv, Good, LevelType, Clients, VotesOfTeams, Aging, TypeOK
<1> QED
  BY <1>1, Invariant, PTL

\* The counts that G_Vote keeps for the whole server are those of the clients that are there and
\* have voted, whoever has come, gone (ClientDisconnect) or changed sides (G_LeaveTeam) since;
\* those of a team are never more than its members have cast.
THEOREM TallyKept ==
    Spec => []TallyIsOfMembers
<1>1. IInv => TallyIsOfMembers
  BY DEF IInv, Good, Counted, TallyIsOfMembers
<1> QED
  BY <1>1, Invariant, PTL

\* What G_CheckVote is going to execute is the command of the vote that has passed: neither
\* another vote (Cmd_CallVote_f) nor a reset (G_ResetVote) puts another in its place or loses it.
THEOREM DueKept ==
    Spec => []DueIsWhatPassed
<1>1. IInv => DueIsWhatPassed
  BY DEF IInv, Good, Counted, WaitsRightly, DueIsWhatPassed
<1> QED
  BY <1>1, Invariant, PTL

\* CheckIntermissionExit keeps its word though it waits for votes: no intermission is over a
\* minute long when a frame is done, as every vote that runs in it is as old and over before.
THEOREM NeverLonger ==
    Spec => []NeverOverAMinute
<1>1. IInv => NeverOverAMinute
  BY DEF IInv, Good, NeverOverAMinute
<1> QED
  BY <1>1, Invariant, PTL
=============================================================================
