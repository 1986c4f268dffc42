-------------------------- MODULE IpcChannelProofs --------------------------
(***************************************************************************)
(* However deep the engine and its VM call each other, and after whatever  *)
(* errors: returns reach the calls they are of until one times out, the    *)
(* two never wait for each other, and the VM's shutdown is not forgotten.  *)
(*                                                                         *)
(* The two stacks tell one story.  From some frame of the VM on (those     *)
(* below are what an error of the engine has left behind) they hold the    *)
(* same calls in the same order, the one behind lacks at most the call     *)
(* that is on its way, and of the two programs and the messages that want  *)
(* an answer exactly one has the turn.                                     *)
(***************************************************************************)
EXTENDS IpcChannel, SequenceTheorems, TLAPS

EngineFrames == [kind : {"sent"}, id : Nat] \cup [kind : {"ask", "note"}, id : Nat, saved : BOOLEAN]
VMFrames == [kind : {"sent", "call"}, id : Nat]
ToVM == [kind : {"call", "return"}, id : Nat]
ToEngine == [kind : {"return", "ask", "note", "error"}, id : Nat]
Phases == {"running", "stop", "free", "freed", "fatal"}

TypesInv ==
    /\ engine \in [stack : Seq(EngineFrames), canSync : BOOLEAN, phase : Phases]
    /\ vm \in [stack : Seq(VMFrames), errors : 0 .. 2, life : {"alive", "exited", "crashed"},
               shutDown : BOOLEAN]
    /\ toVM \in Seq(ToVM) /\ toEngine \in Seq(ToEngine)
    /\ calls \in Nat /\ asks \in Nat
    /\ wrong \subseteq {"engine", "vm"}

-----------------------------------------------------------------------------
(* Stacks, e of the engine and v of the VM. *)

InNote(e) == e # <<>> /\ e[Len(e)].kind = "note"

\* Calls and messages handled take turns on a stack; nothing is called in a note.
EngineStack(e) ==
    /\ e # <<>> => e[1].kind = "sent"
    /\ \A i \in 1 .. Len(e) - 1 :
          /\ e[i].kind = "sent" <=> e[i + 1].kind # "sent"
          /\ e[i].kind # "note"
    /\ \A i \in 1 .. Len(e) : e[i].kind # "sent" => e[i].saved

VMStack(v) ==
    /\ v # <<>> => v[1].kind = "call"
    /\ \A i \in 1 .. Len(v) - 1 : v[i].kind = "sent" <=> v[i + 1].kind # "sent"

\* The engine may not call in a note, and an error in one leaves it so.
FlagsInv ==
    /\ engine.stack # <<>> => (engine.canSync <=> ~InNote(engine.stack))
    /\ engine.stack # <<>> => engine.phase \in {"running", "stop"}
    /\ engine.stack # <<>> /\ engine.phase = "stop" => engine.stack[1].id = Special
    /\ engine.stack = <<>> /\ ~engine.canSync =>
          engine.phase # "running" /\ "in a note" \in excuses

StacksInv == EngineStack(engine.stack) /\ VMStack(vm.stack) /\ FlagsInv

-----------------------------------------------------------------------------
(* Somebody goes on. *)

EngineHolds(e) == e = <<>> \/ e[Len(e)].kind = "ask"

TurnInv ==
    Alive => VMActs \/ EngineHolds(engine.stack) \/ toVM # <<>>
             \/ \E i \in 1 .. Len(toEngine) : toEngine[i].kind # "note"

-----------------------------------------------------------------------------
(* The calls that both know of. *)

\* What the VM has sent is notes, and then one message of this kind for call id.
OnlyNotes(te) == \A i \in 1 .. Len(te) : te[i].kind = "note"

EndsIn(te, kind, id) ==
    /\ te # <<>> /\ te[Len(te)].kind = kind /\ te[Len(te)].id = id
    /\ \A i \in 1 .. Len(te) - 1 : te[i].kind = "note"

\* The first d frames of the engine, all but a note, are the frames of the VM after j.
Nested(e, v, j, d) ==
    /\ d = IF InNote(e) THEN Len(e) - 1 ELSE Len(e)
    /\ j \in 0 .. Len(v)
    /\ \A i \in 1 .. d : j + i <= Len(v) =>
          /\ e[i].id = v[j + i].id
          /\ e[i].kind = "sent" <=> v[j + i].kind = "call"

VMIdle(v) == v = <<>> \/ v[Len(v)].kind = "sent"
Asked(v) == v # <<>> /\ v[Len(v)].kind = "sent"
Called(e, d) == d >= 1 /\ e[d].kind = "sent"

\* Whose turn it is: a call of the engine is on its way,
Calling(e, v, tv, te, j, d) ==
    /\ d = Len(e) /\ Called(e, d) /\ Len(v) = j + d - 1 /\ VMIdle(v)
    /\ tv = <<Message("call", e[d].id)>> /\ te = <<>>

\* the VM works on it,
InVM(e, v, tv, te, j, d) ==
    /\ Called(e, d) /\ Len(v) = j + d /\ v[Len(v)].kind = "call"
    /\ tv = <<>> /\ OnlyNotes(te)

\* asks or has an error,
Asking(e, v, tv, te, j, d) ==
    /\ Called(e, d) /\ Len(v) = j + d + 1 /\ Asked(v)
    /\ tv = <<>> /\ EndsIn(te, "ask", v[Len(v)].id)

Erring(e, v, tv, te, j, d) ==
    /\ Called(e, d) /\ Asked(v)
    /\ tv = <<>> /\ EndsIn(te, "error", Special)

\* the engine works,
InEngine(e, v, tv, te, j, d) ==
    /\ EngineHolds(e) /\ Len(v) = j + d /\ VMIdle(v)
    /\ tv = <<>> /\ te = <<>>

\* has answered,
Answered(e, v, tv, te, j, d) ==
    /\ d = Len(e) /\ Called(e, d) /\ Len(v) = j + d + 1 /\ Asked(v)
    /\ tv = <<Message("return", v[Len(v)].id)>> /\ te = <<>>

\* or the VM is done.
Returning(e, v, tv, te, j, d) ==
    /\ Called(e, d) /\ Len(v) = j + d - 1 /\ VMIdle(v)
    /\ tv = <<>> /\ EndsIn(te, "return", e[d].id)

Turn(e, v, tv, te, j, d) ==
    \/ Calling(e, v, tv, te, j, d) \/ InVM(e, v, tv, te, j, d)
    \/ Asking(e, v, tv, te, j, d) \/ Erring(e, v, tv, te, j, d)
    \/ InEngine(e, v, tv, te, j, d) \/ Answered(e, v, tv, te, j, d)
    \/ Returning(e, v, tv, te, j, d)

Joined(e, v, tv, te) ==
    \E j, d \in Nat : Nested(e, v, j, d) /\ Turn(e, v, tv, te, j, d)

\* The engine sends nothing any more.
Over ==
    /\ engine.stack = <<>> /\ engine.phase # "running"
    /\ engine.phase = "stop" => ~engine.canSync \/ vm.life # "alive"
    /\ toVM = <<>> \/ vm.life # "alive"

NestInv ==
    \/ "time-out" \in excuses
    \/ Joined(engine.stack, vm.stack, toVM, toEngine)
    \/ Over

-----------------------------------------------------------------------------
Excused == excuses \cap {"time-out", "in shutdown", "in a note"} # {}

\* Only the shutdown has the number it has.
ShutdownInv ==
    /\ \A i \in 1 .. Len(toEngine) :
          toEngine[i].kind = "return" /\ toEngine[i].id = Special => vm.shutDown
    /\ engine.phase = "free" /\ vm.life = "alive" => vm.shutDown \/ Excused

IInv ==
    /\ TypesInv /\ StacksInv /\ TurnInv /\ NestInv /\ ShutdownInv
    /\ ReturnsMatch /\ ShutdownRuns

-----------------------------------------------------------------------------
(* Sequences, as stacks and as channels.                                   *)

\* t is s with x on top.
Pushed(s, t, x) ==
    Len(t) = Len(s) + 1 /\ (\A i \in 1 .. Len(s) : t[i] = s[i]) /\ t[Len(t)] = x

\* t is s without x, its first.
Shifted(s, t, x) ==
    Len(s) = Len(t) + 1 /\ s[1] = x /\ \A i \in 1 .. Len(t) : t[i] = s[i + 1]

\* What Append does.
LEMMA AppendPushes ==
    ASSUME NEW S, NEW s \in Seq(S), NEW x \in S
    PROVE  Append(s, x) \in Seq(S) /\ Append(s, x) # <<>> /\ Pushed(s, Append(s, x), x)
  BY AppendProperties DEF Pushed

\* What Front and Last do.
LEMMA FrontPops ==
    ASSUME NEW S, NEW s \in Seq(S), s # <<>>
    PROVE  Front(s) \in Seq(S) /\ Last(s) \in S /\ Pushed(Front(s), s, Last(s))
<1>1. Len(s) \in Nat \ {0}
  BY EmptySeq
<1>2. \A i \in 1 .. Len(s) : s[i] \in S
  BY ElementOfSeq
<1>3. \A i \in 1 .. Len(s) - 1 : s[i] \in S
  BY <1>1, <1>2
<1>4. /\ SubSeq(s, 1, Len(s) - 1) \in Seq(S)
      /\ Len(SubSeq(s, 1, Len(s) - 1)) = IF 1 <= Len(s) - 1 THEN (Len(s) - 1) - 1 + 1 ELSE 0
      /\ \A i \in 1 .. (Len(s) - 1) - 1 + 1 : SubSeq(s, 1, Len(s) - 1)[i] = s[1 + i - 1]
  BY <1>1, <1>3, SubSeqProperties
<1>5. Len(s) = Len(Front(s)) + 1
  <2>1. \A n \in Nat \ {0} : n = (IF 1 <= n - 1 THEN (n - 1) - 1 + 1 ELSE 0) + 1
    OBVIOUS
  <2>2. Front(s) = SubSeq(s, 1, Len(s) - 1)
    BY DEF Front
  <2>3. Len(Front(s)) = IF 1 <= Len(s) - 1 THEN (Len(s) - 1) - 1 + 1 ELSE 0
    BY <1>4, <2>2, Zenon
  <2> QED
    BY <1>1, <2>1, <2>3, Zenon
<1>6. \A i \in 1 .. Len(Front(s)) : s[i] = Front(s)[i]
  BY <1>1, <1>4 DEF Front
<1> QED
  BY <1>1, <1>2, <1>4, <1>5, <1>6 DEF Pushed, Front, Last

\* What Head and Tail do.
LEMMA TailShifts ==
    ASSUME NEW S, NEW s \in Seq(S), s # <<>>
    PROVE  Head(s) \in S /\ Tail(s) \in Seq(S) /\ Shifted(s, Tail(s), Head(s))
<1>1. Len(s) \in Nat \ {0}
  BY EmptySeq
<1>2. Head(s) = s[1]
  OBVIOUS
<1> QED
  BY <1>1, <1>2, HeadTailProperties DEF Shifted

-----------------------------------------------------------------------------
(* Frames pushed and popped.                                               *)

LEMMA EmptyStacks == EngineStack(<<>>) /\ VMStack(<<>>)
<1>1. Len(<<>>) = 0 /\ 1 .. 0 - 1 = {} /\ 1 .. 0 = {}
  OBVIOUS
<1> QED
  BY <1>1 DEF EngineStack, VMStack

LEMMA EnginePush ==
    ASSUME NEW e \in Seq(EngineFrames), NEW e2 \in Seq(EngineFrames), NEW f \in EngineFrames,
           EngineStack(e), Pushed(e, e2, f),
           IF f.kind = "sent" THEN EngineHolds(e) ELSE Waits(e) /\ f.saved
    PROVE  EngineStack(e2)
<1>1. Len(e) \in Nat /\ (e = <<>> <=> Len(e) = 0)
  BY EmptySeq
<1>2. /\ Len(e2) = Len(e) + 1 /\ e2[Len(e) + 1] = f
      /\ \A i \in 1 .. Len(e) : e2[i] = e[i]
  BY <1>1 DEF Pushed
<1>3. CASE e = <<>>
  BY <1>1, <1>2, <1>3 DEF EngineStack, Waits
<1>4. CASE e # <<>>
  <2>1. Len(e) >= 1
    BY <1>1, <1>4
  <2>2. /\ f.kind = "sent" => e[Len(e)].kind = "ask"
        /\ f.kind # "sent" => e[Len(e)].kind = "sent" /\ f.saved
    BY <1>4 DEF EngineHolds, Waits, Last
  <2>3. e2[1].kind = "sent"
    BY <1>2, <1>4, <2>1 DEF EngineStack
  <2>4. \A i \in 1 .. Len(e2) - 1 :
           (e2[i].kind = "sent" <=> e2[i + 1].kind # "sent") /\ e2[i].kind # "note"
    <3> SUFFICES ASSUME NEW i \in 1 .. Len(e)
                 PROVE  (e2[i].kind = "sent" <=> e2[i + 1].kind # "sent") /\ e2[i].kind # "note"
      BY <1>1, <1>2
    <3>1. CASE i = Len(e)
      BY <1>1, <1>2, <2>1, <2>2, <3>1
    <3>2. CASE i # Len(e)
      <4>1. i \in 1 .. Len(e) - 1 /\ i + 1 \in 1 .. Len(e)
        BY <1>1, <3>2
      <4> QED
        BY <1>2, <4>1 DEF EngineStack
    <3> QED
      BY <3>1, <3>2
  <2>5. \A i \in 1 .. Len(e2) : e2[i].kind # "sent" => e2[i].saved
    <3> SUFFICES ASSUME NEW i \in 1 .. Len(e) + 1 PROVE e2[i].kind # "sent" => e2[i].saved
      BY <1>2
    <3>1. CASE i \in 1 .. Len(e)
      BY <1>2, <3>1 DEF EngineStack
    <3>2. CASE i = Len(e) + 1
      BY <1>2, <2>2, <3>2
    <3> QED
      BY <1>1, <3>1, <3>2
  <2> QED
    BY <2>3, <2>4, <2>5 DEF EngineStack
<1> QED
  BY <1>3, <1>4

LEMMA EnginePop ==
    ASSUME NEW e \in Seq(EngineFrames), NEW e2 \in Seq(EngineFrames), NEW f \in EngineFrames,
           EngineStack(e), Pushed(e2, e, f)
    PROVE  /\ EngineStack(e2)
           /\ f.kind = "sent" => EngineHolds(e2)
           /\ f.kind # "sent" => e2 # <<>> /\ Waits(e2) /\ f.saved
<1>1. Len(e2) \in Nat /\ (e2 = <<>> <=> Len(e2) = 0) /\ Len(e) # 0
  BY EmptySeq DEF Pushed
<1>2. /\ Len(e) = Len(e2) + 1 /\ e[Len(e2) + 1] = f /\ e # <<>>
      /\ \A i \in 1 .. Len(e2) : e2[i] = e[i]
  BY <1>1, EmptySeq DEF Pushed
<1>3. EngineStack(e2)
  <2>1. e2 # <<>> => e2[1].kind = "sent"
    BY <1>1, <1>2 DEF EngineStack
  <2>2. \A i \in 1 .. Len(e2) - 1 :
           (e2[i].kind = "sent" <=> e2[i + 1].kind # "sent") /\ e2[i].kind # "note"
    <3> SUFFICES ASSUME NEW i \in 1 .. Len(e2) - 1
                 PROVE  (e2[i].kind = "sent" <=> e2[i + 1].kind # "sent") /\ e2[i].kind # "note"
      OBVIOUS
    <3>1. i \in 1 .. Len(e2) /\ i + 1 \in 1 .. Len(e2) /\ i \in 1 .. Len(e) - 1
      BY <1>1, <1>2
    <3> QED
      BY <1>2, <3>1 DEF EngineStack
  <2>3. \A i \in 1 .. Len(e2) : e2[i].kind # "sent" => e2[i].saved
    BY <1>1, <1>2 DEF EngineStack
  <2> QED
    BY <2>1, <2>2, <2>3 DEF EngineStack
<1>4. CASE e2 = <<>>
  <2>1. f.kind = "sent"
    BY <1>1, <1>2, <1>4 DEF EngineStack
  <2> QED
    BY <1>3, <1>4, <2>1 DEF EngineHolds
<1>5. CASE e2 # <<>>
  <2>1. Len(e2) \in 1 .. Len(e) - 1 /\ Len(e2) \in 1 .. Len(e2) /\ Len(e2) + 1 \in 1 .. Len(e)
    BY <1>1, <1>2, <1>5
  <2>2. /\ e2[Len(e2)].kind = "sent" <=> f.kind # "sent"
        /\ e2[Len(e2)].kind # "note"
    BY <1>2, <2>1 DEF EngineStack
  <2>3. e2[Len(e2)].kind \in {"sent", "ask", "note"}
    BY <2>1, ElementOfSeq DEF EngineFrames
  <2>4. f.kind # "sent" => f.saved
    BY <1>2, <2>1 DEF EngineStack
  <2> QED
    BY <1>3, <1>5, <2>2, <2>3, <2>4 DEF EngineHolds, Waits, Last
<1> QED
  BY <1>4, <1>5

LEMMA VMPush ==
    ASSUME NEW v \in Seq(VMFrames), NEW v2 \in Seq(VMFrames), NEW f \in VMFrames,
           VMStack(v), Pushed(v, v2, f),
           IF f.kind = "call" THEN VMIdle(v) ELSE v # <<>> /\ ~Waits(v)
    PROVE  VMStack(v2)
<1>1. Len(v) \in Nat /\ (v = <<>> <=> Len(v) = 0)
  BY EmptySeq
<1>2. /\ Len(v2) = Len(v) + 1 /\ v2[Len(v) + 1] = f
      /\ \A i \in 1 .. Len(v) : v2[i] = v[i]
  BY <1>1 DEF Pushed
<1>3. f.kind \in {"sent", "call"}
  BY DEF VMFrames
<1>4. CASE v = <<>>
  BY <1>1, <1>2, <1>3, <1>4 DEF VMStack
<1>5. CASE v # <<>>
  <2>1. Len(v) >= 1
    BY <1>1, <1>5
  <2>2. v[Len(v)].kind = "sent" <=> f.kind # "sent"
    BY <1>3, <1>5 DEF VMIdle, Waits, Last
  <2>3. v2[1].kind = "call"
    BY <1>2, <1>5, <2>1 DEF VMStack
  <2>4. \A i \in 1 .. Len(v2) - 1 : v2[i].kind = "sent" <=> v2[i + 1].kind # "sent"
    <3> SUFFICES ASSUME NEW i \in 1 .. Len(v)
                 PROVE  v2[i].kind = "sent" <=> v2[i + 1].kind # "sent"
      BY <1>1, <1>2
    <3>1. CASE i = Len(v)
      BY <1>1, <1>2, <2>1, <2>2, <3>1
    <3>2. CASE i # Len(v)
      <4>1. i \in 1 .. Len(v) - 1 /\ i + 1 \in 1 .. Len(v)
        BY <1>1, <3>2
      <4> QED
        BY <1>2, <4>1 DEF VMStack
    <3> QED
      BY <3>1, <3>2
  <2> QED
    BY <2>3, <2>4 DEF VMStack
<1> QED
  BY <1>4, <1>5

LEMMA VMPop ==
    ASSUME NEW v \in Seq(VMFrames), NEW v2 \in Seq(VMFrames), NEW f \in VMFrames,
           VMStack(v), Pushed(v2, v, f)
    PROVE  /\ VMStack(v2)
           /\ f.kind = "call" => VMIdle(v2)
           /\ f.kind # "call" => v2 # <<>> /\ ~Waits(v2) /\ v2[Len(v2)].kind = "call"
<1>1. Len(v2) \in Nat /\ (v2 = <<>> <=> Len(v2) = 0)
  BY EmptySeq
<1>2. /\ Len(v) = Len(v2) + 1 /\ v[Len(v2) + 1] = f /\ v # <<>>
      /\ \A i \in 1 .. Len(v2) : v2[i] = v[i]
  BY <1>1, EmptySeq DEF Pushed
<1>3. VMStack(v2)
  <2>1. v2 # <<>> => v2[1].kind = "call"
    BY <1>1, <1>2 DEF VMStack
  <2>2. \A i \in 1 .. Len(v2) - 1 : v2[i].kind = "sent" <=> v2[i + 1].kind # "sent"
    <3> SUFFICES ASSUME NEW i \in 1 .. Len(v2) - 1
                 PROVE  v2[i].kind = "sent" <=> v2[i + 1].kind # "sent"
      OBVIOUS
    <3>1. i \in 1 .. Len(v2) /\ i + 1 \in 1 .. Len(v2) /\ i \in 1 .. Len(v) - 1
      BY <1>1, <1>2
    <3> QED
      BY <1>2, <3>1 DEF VMStack
  <2> QED
    BY <2>1, <2>2 DEF VMStack
<1>4. CASE v2 = <<>>
  <2>1. f.kind = "call"
    BY <1>1, <1>2, <1>4 DEF VMStack
  <2> QED
    BY <1>3, <1>4, <2>1 DEF VMIdle
<1>5. CASE v2 # <<>>
  <2>1. Len(v2) \in 1 .. Len(v) - 1 /\ Len(v2) \in 1 .. Len(v2)
    BY <1>1, <1>2, <1>5
  <2>2. v2[Len(v2)].kind = "sent" <=> f.kind # "sent"
    BY <1>2, <2>1 DEF VMStack
  <2>3. v2[Len(v2)].kind \in {"sent", "call"} /\ f.kind \in {"sent", "call"}
    <3>1. v2[Len(v2)] \in VMFrames
      BY <2>1, ElementOfSeq
    <3> QED
      BY <3>1 DEF VMFrames
  <2> QED
    BY <1>3, <1>5, <2>2, <2>3 DEF VMIdle, Waits, Last
<1> QED
  BY <1>4, <1>5

-----------------------------------------------------------------------------
(* Lengths and the frames that are equal, of a pair of stacks.             *)

LEMMA Depth ==
    ASSUME NEW e \in Seq(EngineFrames), NEW v \in Seq(VMFrames), NEW j \in Nat, NEW d \in Nat,
           Nested(e, v, j, d)
    PROVE  /\ Len(e) \in Nat /\ Len(v) \in Nat
           /\ e = <<>> <=> Len(e) = 0
           /\ v = <<>> <=> Len(v) = 0
           /\ InNote(e) => d = Len(e) - 1
           /\ ~InNote(e) => d = Len(e)
           /\ e # <<>> => e[Len(e)] \in EngineFrames
  BY EmptySeq, ElementOfSeq DEF Nested

\* The engine calls: EngineCalls and EngineShutsDown.
LEMMA CallJoins ==
    ASSUME NEW e \in Seq(EngineFrames), NEW v \in Seq(VMFrames), NEW tv, NEW te,
           NEW e2 \in Seq(EngineFrames), NEW id \in Nat,
           Joined(e, v, tv, te), EngineHolds(e), Pushed(e, e2, Sent(id))
    PROVE  Joined(e2, v, Append(tv, Message("call", id)), te)
<1>1. PICK j \in Nat, d \in Nat : Nested(e, v, j, d) /\ Turn(e, v, tv, te, j, d)
  BY DEF Joined
<1>2. /\ Len(e) \in Nat /\ Len(v) \in Nat /\ d = Len(e)
      /\ e = <<>> <=> Len(e) = 0
  BY <1>1, Depth DEF EngineHolds, InNote
<1>3. ~Called(e, d)
  BY <1>2 DEF EngineHolds, Called
<1>4. InEngine(e, v, tv, te, j, d)
  BY <1>1, <1>3 DEF Turn, Calling, InVM, Asking, Erring, Answered, Returning
<1>5. /\ Len(e2) = d + 1 /\ e2[d + 1] = Sent(id)
      /\ \A i \in 1 .. d : e2[i] = e[i]
  BY <1>2 DEF Pushed
<1>6. Sent(id).kind = "sent" /\ Sent(id).id = id
  BY DEF Sent
<1>7. Nested(e2, v, j, d + 1)
  <2>1. ~InNote(e2)
    BY <1>5, <1>6 DEF InNote
  <2>2. \A i \in 1 .. d + 1 : j + i <= Len(v) => i \in 1 .. d
    BY <1>2, <1>4 DEF InEngine
  <2>3. d + 1 = IF InNote(e2) THEN Len(e2) - 1 ELSE Len(e2)
    BY <1>5, <2>1
  <2> QED
    BY <1>1, <1>5, <2>2, <2>3 DEF Nested
<1>8. Calling(e2, v, Append(tv, Message("call", id)), te, j, d + 1)
  <2>1. tv = <<>> /\ te = <<>> /\ Len(v) = j + (d + 1) - 1 /\ VMIdle(v)
    BY <1>2, <1>4 DEF InEngine
  <2>2. Append(tv, Message("call", id)) = <<Message("call", e2[d + 1].id)>>
    BY <1>5, <1>6, <2>1
  <2>3. Called(e2, d + 1)
    BY <1>2, <1>5, <1>6 DEF Called
  <2> QED
    BY <1>5, <2>1, <2>2, <2>3 DEF Calling
<1>9. d + 1 \in Nat
  OBVIOUS
<1> QED
  BY <1>7, <1>8, <1>9 DEF Joined, Turn

\* A return reaches the engine (EngineReceivesReturn), and it is of its last call.
LEMMA ReturnReaches ==
    ASSUME NEW e \in Seq(EngineFrames), NEW v \in Seq(VMFrames), NEW tv,
           NEW te \in Seq(ToEngine), NEW te2 \in Seq(ToEngine), NEW m \in ToEngine,
           NEW e2 \in Seq(EngineFrames), NEW f \in EngineFrames,
           Joined(e, v, tv, te), EngineStack(e), Waits(e), m.kind = "return",
           Shifted(te, te2, m), Pushed(e2, e, f)
    PROVE  f.id = m.id /\ tv = <<>> /\ Joined(e2, v, tv, te2)
<1>1. PICK j \in Nat, d \in Nat : Nested(e, v, j, d) /\ Turn(e, v, tv, te, j, d)
  BY DEF Joined
<1>2. /\ Len(e) \in Nat /\ Len(v) \in Nat /\ d = Len(e) /\ d >= 1 /\ e[d].kind = "sent"
      /\ ~InNote(e)
  BY <1>1, Depth DEF Waits, Last, InNote
<1>3. /\ Len(te) \in Nat /\ Len(te2) \in Nat /\ Len(te) = Len(te2) + 1 /\ te[1] = m
      /\ te # <<>> /\ (Len(te2) = 0 => te2 = <<>>)
  BY EmptySeq DEF Shifted
<1>4. Returning(e, v, tv, te, j, d)
  <2>1. ~EngineHolds(e)
    BY <1>2 DEF EngineHolds
  <2>2. ~OnlyNotes(te)
    BY <1>3 DEF OnlyNotes
  <2>3. \A kind, id : EndsIn(te, kind, id) => kind = "return" /\ Len(te) = 1
    BY <1>3 DEF EndsIn
  <2> QED
    BY <1>1, <1>3, <2>1, <2>2, <2>3 DEF Turn, Calling, InVM, Asking, Erring, InEngine, Answered
<1>5. te2 = <<>> /\ m.id = e[d].id
  BY <1>3, <1>4 DEF Returning, EndsIn
<1>6. /\ Len(e2) = d - 1 /\ f = e[d] /\ Len(e2) \in Nat
      /\ \A i \in 1 .. d - 1 : e2[i] = e[i]
  BY <1>2, EmptySeq DEF Pushed
<1>7. EngineHolds(e2)
  BY <1>2, <1>6, EnginePop
<1>8. Nested(e2, v, j, d - 1)
  <2>1. d - 1 = IF InNote(e2) THEN Len(e2) - 1 ELSE Len(e2)
    BY <1>6, <1>7 DEF EngineHolds, InNote
  <2> QED
    BY <1>1, <1>2, <1>6, <2>1 DEF Nested
<1>9. InEngine(e2, v, tv, te2, j, d - 1)
  BY <1>2, <1>4, <1>5, <1>7 DEF InEngine, Returning
<1> QED
  BY <1>2, <1>4, <1>5, <1>6, <1>8, <1>9 DEF Joined, Turn, Returning

\* What the VM has sent, without the note that was its first.
LEMMA NoteShifted ==
    ASSUME NEW te \in Seq(ToEngine), NEW te2 \in Seq(ToEngine), NEW m \in ToEngine,
           m.kind = "note", Shifted(te, te2, m)
    PROVE  /\ te # <<>>
           /\ OnlyNotes(te) => OnlyNotes(te2)
           /\ \A kind, id : kind # "note" /\ EndsIn(te, kind, id) => EndsIn(te2, kind, id)
<1>1. /\ Len(te) \in Nat /\ Len(te2) \in Nat /\ Len(te) = Len(te2) + 1 /\ te[1] = m
      /\ te # <<>> /\ \A i \in 1 .. Len(te2) : te2[i] = te[i + 1]
  BY EmptySeq DEF Shifted
<1>2. te2 = <<>> => Len(te2) = 0
  OBVIOUS
<1>3. OnlyNotes(te) => OnlyNotes(te2)
  BY <1>1 DEF OnlyNotes
<1>4. ASSUME NEW kind, NEW id, kind # "note", EndsIn(te, kind, id) PROVE EndsIn(te2, kind, id)
  <2>1. Len(te) # 1
    BY <1>1, <1>4 DEF EndsIn
  <2>2. Len(te2) >= 1 /\ te2[Len(te2)] = te[Len(te)]
    BY <1>1, <2>1
  <2>3. \A i \in 1 .. Len(te2) - 1 : te2[i].kind = "note"
    BY <1>1, <1>4 DEF EndsIn
  <2> QED
    BY <1>2, <1>4, <2>2, <2>3 DEF EndsIn
<1> QED
  BY <1>1, <1>3, <1>4

\* A note reaches the engine, which begins to handle it.
LEMMA NoteReaches ==
    ASSUME NEW e \in Seq(EngineFrames), NEW v \in Seq(VMFrames), NEW tv,
           NEW te \in Seq(ToEngine), NEW te2 \in Seq(ToEngine), NEW m \in ToEngine,
           NEW e2 \in Seq(EngineFrames), NEW f \in EngineFrames,
           Joined(e, v, tv, te), Waits(e), m.kind = "note", f.kind = "note",
           Shifted(te, te2, m), Pushed(e, e2, f)
    PROVE  Joined(e2, v, tv, te2)
<1>1. PICK j \in Nat, d \in Nat : Nested(e, v, j, d) /\ Turn(e, v, tv, te, j, d)
  BY DEF Joined
<1>2. /\ Len(e) \in Nat /\ Len(v) \in Nat /\ d = Len(e) /\ d >= 1 /\ e[d].kind = "sent"
  BY <1>1, Depth DEF Waits, Last, InNote
<1>3. /\ Len(e2) = d + 1 /\ e2[d + 1] = f /\ InNote(e2)
      /\ \A i \in 1 .. d : e2[i] = e[i]
  BY <1>2 DEF Pushed, InNote
<1>4. e2[d] = e[d] /\ (Called(e, d) => Called(e2, d))
  BY <1>2, <1>3 DEF Called
<1>7. Nested(e2, v, j, d)
  <2>1. d = IF InNote(e2) THEN Len(e2) - 1 ELSE Len(e2)
    BY <1>2, <1>3
  <2> QED
    BY <1>1, <1>3, <2>1 DEF Nested
<1>5. ~EngineHolds(e)
  BY <1>2 DEF EngineHolds
<1>6. Turn(e2, v, tv, te2, j, d)
  BY <1>1, <1>4, <1>5, NoteShifted
  DEF Turn, Calling, InVM, Asking, Erring, InEngine, Answered, Returning
<1> QED
  BY <1>6, <1>7 DEF Joined

\* A question reaches the engine, which begins to handle it.
LEMMA AskReaches ==
    ASSUME NEW e \in Seq(EngineFrames), NEW v \in Seq(VMFrames), NEW tv,
           NEW te \in Seq(ToEngine), NEW te2 \in Seq(ToEngine), NEW m \in ToEngine,
           NEW e2 \in Seq(EngineFrames), NEW f \in EngineFrames,
           Joined(e, v, tv, te), Waits(e), m.kind = "ask", f.kind = "ask", f.id = m.id,
           Shifted(te, te2, m), Pushed(e, e2, f)
    PROVE  Joined(e2, v, tv, te2)
<1>1. PICK j \in Nat, d \in Nat : Nested(e, v, j, d) /\ Turn(e, v, tv, te, j, d)
  BY DEF Joined
<1>2. /\ Len(e) \in Nat /\ Len(v) \in Nat /\ d = Len(e) /\ d >= 1 /\ e[d].kind = "sent"
  BY <1>1, Depth DEF Waits, Last, InNote
<1>3. /\ Len(te) \in Nat /\ Len(te2) \in Nat /\ Len(te) = Len(te2) + 1 /\ te[1] = m
      /\ te # <<>> /\ (Len(te2) = 0 => te2 = <<>>)
  BY EmptySeq DEF Shifted
<1>4. Asking(e, v, tv, te, j, d)
  <2>1. ~EngineHolds(e)
    BY <1>2 DEF EngineHolds
  <2>2. ~OnlyNotes(te)
    BY <1>3 DEF OnlyNotes
  <2>3. \A kind, id : EndsIn(te, kind, id) => kind = "ask" /\ Len(te) = 1
    BY <1>3 DEF EndsIn
  <2> QED
    BY <1>1, <1>3, <2>1, <2>2, <2>3 DEF Turn, Calling, InVM, Returning, Erring, InEngine, Answered
<1>5. te2 = <<>> /\ m.id = v[Len(v)].id /\ Len(v) = j + d + 1 /\ v[Len(v)].kind = "sent"
  <2>1. te2 = <<>> /\ Len(te) = 1
    BY <1>3, <1>4 DEF Asking, EndsIn
  <2>2. te[Len(te)].id = v[Len(v)].id
    BY <1>4 DEF Asking, EndsIn
  <2>3. m.id = v[Len(v)].id
    BY <1>3, <2>1, <2>2
  <2> QED
    BY <1>4, <2>1, <2>3 DEF Asking, Asked
<1>6. /\ Len(e2) = d + 1 /\ e2[d + 1] = f /\ EngineHolds(e2) /\ ~InNote(e2)
      /\ \A i \in 1 .. d : e2[i] = e[i]
  BY <1>2 DEF Pushed, EngineHolds, InNote
<1>7. Nested(e2, v, j, d + 1)
  <2>1. e2[d + 1].id = v[j + (d + 1)].id /\ e2[d + 1].kind # "sent" /\ v[j + (d + 1)].kind # "call"
    BY <1>2, <1>5, <1>6
  <2>2. d + 1 = IF InNote(e2) THEN Len(e2) - 1 ELSE Len(e2)
    BY <1>6
  <2>3. ASSUME NEW i \in 1 .. d + 1, j + i <= Len(v)
        PROVE  e2[i].id = v[j + i].id /\ (e2[i].kind = "sent" <=> v[j + i].kind = "call")
    <3>1. CASE i = d + 1
      BY <2>1, <3>1
    <3>2. CASE i # d + 1
      <4>1. i \in 1 .. d
        BY <1>2, <3>2
      <4>2. e[i].id = v[j + i].id /\ (e[i].kind = "sent" <=> v[j + i].kind = "call")
        BY <1>1, <2>3, <4>1 DEF Nested
      <4>3. e2[i] = e[i]
        BY <1>6, <4>1
      <4> QED
        BY <4>2, <4>3
    <3> QED
      BY <3>1, <3>2
  <2> QED
    BY <1>1, <2>2, <2>3 DEF Nested
<1>8. InEngine(e2, v, tv, te2, j, d + 1)
  BY <1>2, <1>4, <1>5, <1>6 DEF InEngine, Asking, VMIdle
<1>9. d + 1 \in Nat
  OBVIOUS
<1> QED
  BY <1>7, <1>8, <1>9 DEF Joined, Turn

\* The stack of the engine unwinds while it has the turn: what the VM has on its
\* stack is left behind.
LEMMA Unwinds ==
    ASSUME NEW v \in Seq(VMFrames), NEW tv, NEW te, VMIdle(v), tv = <<>>, te = <<>>
    PROVE  Joined(<<>>, v, tv, te)
<1>1. Len(v) \in Nat /\ 0 \in Nat /\ ~InNote(<<>>) /\ Len(<<>>) = 0
  BY EmptySeq DEF InNote
<1>2. Nested(<<>>, v, Len(v), 0)
  BY <1>1 DEF Nested
<1>3. InEngine(<<>>, v, tv, te, Len(v), 0)
  BY <1>1 DEF InEngine, EngineHolds
<1> QED
  BY <1>1, <1>2, <1>3 DEF Joined, Turn

\* An error of the VM reaches the engine, and its stack unwinds.
LEMMA ErrorReaches ==
    ASSUME NEW e \in Seq(EngineFrames), NEW v \in Seq(VMFrames), NEW tv,
           NEW te \in Seq(ToEngine), NEW te2 \in Seq(ToEngine), NEW m \in ToEngine,
           Joined(e, v, tv, te), Waits(e), m.kind = "error", Shifted(te, te2, m)
    PROVE  tv = <<>> /\ Joined(<<>>, v, tv, te2)
<1>1. PICK j \in Nat, d \in Nat : Nested(e, v, j, d) /\ Turn(e, v, tv, te, j, d)
  BY DEF Joined
<1>2. ~EngineHolds(e)
  BY DEF EngineHolds, Waits, Last
<1>3. /\ Len(te) \in Nat /\ Len(te2) \in Nat /\ Len(te) = Len(te2) + 1 /\ te[1] = m
      /\ te # <<>> /\ (Len(te2) = 0 => te2 = <<>>)
  BY EmptySeq DEF Shifted
<1>4. Erring(e, v, tv, te, j, d) /\ Len(te) = 1
  <2>1. ~OnlyNotes(te)
    BY <1>3 DEF OnlyNotes
  <2>2. \A kind, id : EndsIn(te, kind, id) => kind = "error" /\ Len(te) = 1
    BY <1>3 DEF EndsIn
  <2> QED
    BY <1>1, <1>2, <1>3, <2>1, <2>2
    DEF Turn, Calling, InVM, Asking, Returning, Erring, InEngine, Answered
<1>5. te2 = <<>> /\ tv = <<>> /\ VMIdle(v)
  BY <1>3, <1>4 DEF Erring, VMIdle, Asked
<1> QED
  BY <1>5, Unwinds

\* An error of the engine while it has the turn.
LEMMA DropJoins ==
    ASSUME NEW e \in Seq(EngineFrames), NEW v \in Seq(VMFrames), NEW tv, NEW te,
           Joined(e, v, tv, te), EngineHolds(e)
    PROVE  tv = <<>> /\ Joined(<<>>, v, tv, te)
<1>1. PICK j \in Nat, d \in Nat : Nested(e, v, j, d) /\ Turn(e, v, tv, te, j, d)
  BY DEF Joined
<1>2. d = Len(e) /\ Len(e) \in Nat /\ (e = <<>> => Len(e) = 0)
  BY <1>1, Depth DEF EngineHolds, InNote
<1>3. ~Called(e, d)
  BY <1>2 DEF EngineHolds, Called
<1>4. InEngine(e, v, tv, te, j, d)
  BY <1>1, <1>3 DEF Turn, Calling, InVM, Asking, Erring, Answered, Returning
<1> QED
  BY <1>4, Unwinds DEF InEngine

\* An error of the engine in a note: the VM has the turn, or has sent something.
LEMMA NoteDrops ==
    ASSUME NEW e \in Seq(EngineFrames), NEW v \in Seq(VMFrames), NEW tv, NEW te,
           Joined(e, v, tv, te), InNote(e)
    PROVE  tv = <<>>
<1>1. PICK j \in Nat, d \in Nat : Nested(e, v, j, d) /\ Turn(e, v, tv, te, j, d)
  BY DEF Joined
<1>2. d # Len(e)
  BY <1>1, Depth
<1>3. ~EngineHolds(e)
  BY DEF EngineHolds, InNote
<1> QED
  BY <1>1, <1>2, <1>3 DEF Turn, Calling, InVM, Asking, Erring, InEngine, Answered, Returning

\* The engine is done with a note.
LEMMA NoteFinishes ==
    ASSUME NEW e \in Seq(EngineFrames), NEW v \in Seq(VMFrames), NEW tv, NEW te,
           NEW e2 \in Seq(EngineFrames), NEW f \in EngineFrames,
           Joined(e, v, tv, te), EngineStack(e), f.kind = "note", Pushed(e2, e, f)
    PROVE  Joined(e2, v, tv, te)
<1>1. PICK j \in Nat, d \in Nat : Nested(e, v, j, d) /\ Turn(e, v, tv, te, j, d)
  BY DEF Joined
<1>2. Len(e2) \in Nat /\ (e2 = <<>> => Len(e2) = 0) /\ e2 # <<>> /\ Waits(e2)
  BY EmptySeq, EnginePop
<1>3. /\ Len(e) = Len(e2) + 1 /\ e[Len(e)] = f
      /\ \A i \in 1 .. Len(e2) : e2[i] = e[i]
  BY DEF Pushed
<1>4. InNote(e) /\ ~EngineHolds(e)
  BY <1>2, <1>3 DEF InNote, EngineHolds
<1>5. d = Len(e2) /\ d # Len(e) /\ ~InNote(e2)
  BY <1>1, <1>2, <1>3, <1>4, Depth DEF InNote, Waits, Last
<1>6. Nested(e2, v, j, d)
  BY <1>1, <1>3, <1>5 DEF Nested
<1>7. d >= 1 => e2[d] = e[d]
  BY <1>3, <1>5
<1>8. Turn(e2, v, tv, te, j, d)
  BY <1>1, <1>4, <1>5, <1>7
  DEF Turn, Calling, InVM, Asking, Erring, InEngine, Answered, Returning, Called
<1> QED
  BY <1>6, <1>8 DEF Joined

\* The engine answers a question.
LEMMA AskFinishes ==
    ASSUME NEW e \in Seq(EngineFrames), NEW v \in Seq(VMFrames), NEW tv, NEW te,
           NEW e2 \in Seq(EngineFrames), NEW f \in EngineFrames,
           Joined(e, v, tv, te), EngineStack(e), f.kind = "ask", Pushed(e2, e, f)
    PROVE  Joined(e2, v, tv \o <<Message("return", f.id)>>, te)
<1>1. PICK j \in Nat, d \in Nat : Nested(e, v, j, d) /\ Turn(e, v, tv, te, j, d)
  BY DEF Joined
<1>2. Len(e2) \in Nat /\ (e2 = <<>> <=> Len(e2) = 0) /\ e2 # <<>> /\ Waits(e2)
  BY EmptySeq, EnginePop
<1>3. /\ Len(e) = Len(e2) + 1 /\ e[Len(e)] = f
      /\ \A i \in 1 .. Len(e2) : e2[i] = e[i]
  BY DEF Pushed
<1>4. ~InNote(e) /\ d = Len(e) /\ Len(v) \in Nat /\ (v = <<>> <=> Len(v) = 0)
  BY <1>1, <1>3, Depth DEF InNote
<1>5. InEngine(e, v, tv, te, j, d)
  <2>1. ~Called(e, d)
    BY <1>3, <1>4 DEF Called
  <2> QED
    BY <1>1, <2>1 DEF Turn, Calling, InVM, Asking, Erring, Answered, Returning
<1>6. tv = <<>> /\ te = <<>> /\ Len(v) = j + d
  BY <1>5 DEF InEngine
<1>7. Nested(e2, v, j, d - 1)
  <2>1. ~InNote(e2)
    BY <1>2 DEF InNote, Waits, Last
  <2> QED
    BY <1>1, <1>2, <1>3, <1>4, <2>1 DEF Nested
<1>8. Answered(e2, v, tv \o <<Message("return", f.id)>>, te, j, d - 1)
  <2>1. v # <<>> /\ Len(v) = j + (d - 1) + 1 /\ d \in 1 .. d /\ d - 1 \in Nat
    BY <1>2, <1>3, <1>4, <1>6
  <2>2. v[Len(v)].id = f.id /\ v[Len(v)].kind # "call"
    BY <1>1, <1>3, <1>4, <1>6, <2>1 DEF Nested
  <2>3. Asked(v)
    <3>1. v[Len(v)] \in VMFrames
      BY <1>4, <2>1, ElementOfSeq
    <3> QED
      BY <2>1, <2>2, <3>1 DEF VMFrames, Asked
  <2>4. d - 1 = Len(e2) /\ Called(e2, d - 1)
    BY <1>2, <1>3, <1>4 DEF Called, Waits, Last
  <2>5. tv \o <<Message("return", f.id)>> = <<Message("return", v[Len(v)].id)>>
    <3>1. <<Message("return", f.id)>> \in Seq({Message("return", f.id)})
      OBVIOUS
    <3> QED
      BY <1>6, <2>2, <3>1, ConcatEmptySeq
  <2> QED
    BY <1>6, <2>1, <2>3, <2>4, <2>5 DEF Answered
<1>9. d - 1 \in Nat
  BY <1>2, <1>3, <1>4
<1> QED
  BY <1>7, <1>8, <1>9 DEF Joined, Turn

\* A call reaches the VM.
LEMMA CallReaches ==
    ASSUME NEW e \in Seq(EngineFrames), NEW v \in Seq(VMFrames), NEW te,
           NEW tv \in Seq(ToVM), tv # <<>>, Head(tv).kind = "call",
           NEW v2 \in Seq(VMFrames),
           Joined(e, v, tv, te), Pushed(v, v2, Head(tv))
    PROVE  Joined(e, v2, Tail(tv), te)
<1>1. PICK j \in Nat, d \in Nat : Nested(e, v, j, d) /\ Turn(e, v, tv, te, j, d)
  BY DEF Joined
<1>2. Len(e) \in Nat /\ Len(v) \in Nat
  BY <1>1, Depth
<1>3. Calling(e, v, tv, te, j, d)
  BY <1>1 DEF Turn, InVM, Asking, Erring, InEngine, Answered, Returning, Message
<1>4. /\ Head(tv) = Message("call", e[d].id) /\ Tail(tv) = <<>> /\ te = <<>>
      /\ Len(v) = j + d - 1 /\ d >= 1 /\ e[d].kind = "sent" /\ d = Len(e)
  BY <1>3 DEF Calling, Called
<1>5. /\ Len(v2) = j + d /\ v2[j + d].kind = "call" /\ v2[j + d].id = e[d].id
      /\ \A i \in 1 .. Len(v) : v2[i] = v[i]
  BY <1>2, <1>4 DEF Pushed, Message
<1>6. Nested(e, v2, j, d)
  <2>1. ASSUME NEW i \in 1 .. d, j + i <= Len(v2)
        PROVE  e[i].id = v2[j + i].id /\ (e[i].kind = "sent" <=> v2[j + i].kind = "call")
    <3>1. CASE i = d
      BY <1>4, <1>5, <3>1
    <3>2. CASE i # d
      <4>1. j + i <= Len(v) /\ j + i \in 1 .. Len(v)
        BY <1>2, <1>4, <3>2
      <4> QED
        BY <1>1, <1>5, <4>1 DEF Nested
    <3> QED
      BY <3>1, <3>2
  <2>2. j \in 0 .. Len(v2)
    BY <1>5
  <2> QED
    BY <1>1, <2>1, <2>2 DEF Nested
<1>7. InVM(e, v2, Tail(tv), te, j, d)
  BY <1>4, <1>5 DEF InVM, Called, OnlyNotes
<1> QED
  BY <1>6, <1>7 DEF Joined, Turn

\* A return reaches the VM, and it is of its last question.
LEMMA AnswerReaches ==
    ASSUME NEW e \in Seq(EngineFrames), NEW v \in Seq(VMFrames), NEW te,
           NEW tv \in Seq(ToVM), tv # <<>>, Head(tv).kind = "return",
           NEW v2 \in Seq(VMFrames), NEW f \in VMFrames,
           Joined(e, v, tv, te), VMStack(v), Pushed(v2, v, f)
    PROVE  f.id = Head(tv).id /\ Joined(e, v2, Tail(tv), te)
<1>1. PICK j \in Nat, d \in Nat : Nested(e, v, j, d) /\ Turn(e, v, tv, te, j, d)
  BY DEF Joined
<1>2. Len(e) \in Nat /\ Len(v) \in Nat /\ Len(v2) \in Nat
  BY <1>1, Depth, EmptySeq
<1>3. Answered(e, v, tv, te, j, d)
  BY <1>1 DEF Turn, InVM, Asking, Erring, InEngine, Calling, Returning, Message
<1>4. /\ Head(tv) = Message("return", v[Len(v)].id) /\ Tail(tv) = <<>> /\ te = <<>>
      /\ Len(v) = j + d + 1 /\ d >= 1 /\ Called(e, d) /\ v[Len(v)].kind = "sent"
  BY <1>3 DEF Answered, Called, Asked
<1>5. /\ Len(v2) = j + d /\ f = v[Len(v)]
      /\ \A i \in 1 .. Len(v2) : v2[i] = v[i]
  BY <1>2, <1>4 DEF Pushed
<1>6. Nested(e, v2, j, d)
  <2>1. j \in 0 .. Len(v2)
    BY <1>5
  <2>2. \A i \in 1 .. d : j + i \in 1 .. Len(v2) /\ j + i <= Len(v)
    BY <1>4, <1>5
  <2> QED
    BY <1>1, <1>5, <2>1, <2>2 DEF Nested
<1>7. v2[Len(v2)].kind = "call"
  BY <1>4, <1>5, VMPop
<1>8. InVM(e, v2, Tail(tv), te, j, d)
  BY <1>4, <1>5, <1>7 DEF InVM, OnlyNotes
<1> QED
  BY <1>4, <1>5, <1>6, <1>8 DEF Joined, Turn, Message

\* When its own code runs, the VM has the turn.
LEMMA VMHasTurn ==
    ASSUME NEW e \in Seq(EngineFrames), NEW v \in Seq(VMFrames), NEW tv, NEW te,
           v # <<>>, ~Waits(v), NEW j \in Nat, NEW d \in Nat, Turn(e, v, tv, te, j, d)
    PROVE  InVM(e, v, tv, te, j, d)
<1>1. ~VMIdle(v) /\ ~Asked(v)
  BY DEF VMIdle, Asked, Waits, Last
<1> QED
  BY <1>1 DEF Turn, Calling, Asking, Erring, InEngine, Answered, Returning

\* A message after notes.
LEMMA NotesPushed ==
    ASSUME NEW te \in Seq(ToEngine), NEW te2 \in Seq(ToEngine), NEW m \in ToEngine,
           OnlyNotes(te), Pushed(te, te2, m)
    PROVE  (m.kind = "note" => OnlyNotes(te2)) /\ EndsIn(te2, m.kind, m.id)
<1>1. Len(te) \in Nat
  BY EmptySeq
<1>2. /\ Len(te2) = Len(te) + 1 /\ te2[Len(te) + 1] = m
      /\ \A i \in 1 .. Len(te) : te2[i].kind = "note"
  BY <1>1 DEF Pushed, OnlyNotes
<1>3. te2 # <<>>
  BY <1>1, <1>2, EmptySeq
<1>4. EndsIn(te2, m.kind, m.id)
  BY <1>1, <1>2, <1>3 DEF EndsIn
<1>5. m.kind = "note" => OnlyNotes(te2)
  BY <1>1, <1>2 DEF OnlyNotes
<1> QED
  BY <1>4, <1>5

\* The VM sends a note.
LEMMA NoteJoins ==
    ASSUME NEW e \in Seq(EngineFrames), NEW v \in Seq(VMFrames), NEW tv,
           NEW te \in Seq(ToEngine), NEW te2 \in Seq(ToEngine), NEW m \in ToEngine,
           Joined(e, v, tv, te), v # <<>>, ~Waits(v), m.kind = "note", Pushed(te, te2, m)
    PROVE  Joined(e, v, tv, te2)
<1>1. PICK j \in Nat, d \in Nat : Nested(e, v, j, d) /\ Turn(e, v, tv, te, j, d)
  BY DEF Joined
<1>2. InVM(e, v, tv, te, j, d)
  BY <1>1, VMHasTurn
<1>3. InVM(e, v, tv, te2, j, d)
  BY <1>2, NotesPushed DEF InVM
<1> QED
  BY <1>1, <1>3 DEF Joined, Turn

\* The VM asks, or reports an error.
LEMMA AskJoins ==
    ASSUME NEW e \in Seq(EngineFrames), NEW v \in Seq(VMFrames), NEW tv,
           NEW te \in Seq(ToEngine), NEW te2 \in Seq(ToEngine), NEW m \in ToEngine,
           NEW v2 \in Seq(VMFrames),
           Joined(e, v, tv, te), v # <<>>, ~Waits(v),
           m.kind = "ask" \/ (m.kind = "error" /\ m.id = Special),
           Pushed(te, te2, m), Pushed(v, v2, Sent(m.id))
    PROVE  Joined(e, v2, tv, te2)
<1>1. PICK j \in Nat, d \in Nat : Nested(e, v, j, d) /\ Turn(e, v, tv, te, j, d)
  BY DEF Joined
<1>2. InVM(e, v, tv, te, j, d)
  BY <1>1, VMHasTurn
<1>3. /\ Len(v) \in Nat /\ Len(v) = j + d /\ tv = <<>> /\ OnlyNotes(te) /\ Called(e, d)
  BY <1>1, <1>2, Depth DEF InVM
<1>4. Sent(m.id).kind = "sent" /\ Sent(m.id).id = m.id
  BY DEF Sent
<1>5. /\ Len(v2) = j + d + 1 /\ v2[Len(v2)] = Sent(m.id)
      /\ \A i \in 1 .. Len(v) : v2[i] = v[i]
  BY <1>3 DEF Pushed
<1>6. v2 # <<>>
  BY <1>3, <1>5, EmptySeq
<1>7. Nested(e, v2, j, d)
  <2>1. j \in 0 .. Len(v2)
    BY <1>5
  <2>2. \A i \in 1 .. d : j + i \in 1 .. Len(v) /\ j + i <= Len(v)
    BY <1>3
  <2> QED
    BY <1>1, <1>5, <2>1, <2>2 DEF Nested
<1>8. EndsIn(te2, m.kind, m.id)
  BY <1>3, NotesPushed
<1>9. Asking(e, v2, tv, te2, j, d) \/ Erring(e, v2, tv, te2, j, d)
  BY <1>3, <1>4, <1>5, <1>6, <1>8 DEF Asking, Erring, Asked
<1> QED
  BY <1>7, <1>9 DEF Joined, Turn

\* The VM has done what it was called for.
LEMMA ReturnJoins ==
    ASSUME NEW e \in Seq(EngineFrames), NEW v \in Seq(VMFrames), NEW tv,
           NEW te \in Seq(ToEngine), NEW te2 \in Seq(ToEngine), NEW m \in ToEngine,
           NEW v2 \in Seq(VMFrames), NEW f \in VMFrames,
           Joined(e, v, tv, te), VMStack(v), ~Waits(v),
           m.kind = "return", m.id = f.id,
           Pushed(te, te2, m), Pushed(v2, v, f)
    PROVE  Joined(e, v2, tv, te2)
<1>1. PICK j \in Nat, d \in Nat : Nested(e, v, j, d) /\ Turn(e, v, tv, te, j, d)
  BY DEF Joined
<1>2. v # <<>> /\ Len(v2) \in Nat
  BY EmptySeq DEF Pushed
<1>3. InVM(e, v, tv, te, j, d)
  BY <1>1, <1>2, VMHasTurn
<1>4. /\ Len(v) \in Nat /\ Len(v) = j + d /\ tv = <<>> /\ OnlyNotes(te) /\ Called(e, d)
      /\ v[Len(v)].kind = "call" /\ d >= 1
  BY <1>1, <1>3, Depth DEF InVM, Called
<1>5. /\ Len(v2) = j + d - 1 /\ f = v[j + d]
      /\ \A i \in 1 .. Len(v2) : v2[i] = v[i]
  BY <1>2, <1>4 DEF Pushed
<1>6. VMIdle(v2)
  BY <1>4, <1>5, VMPop
<1>7. e[d].id = f.id
  BY <1>1, <1>4, <1>5 DEF Nested
<1>8. Nested(e, v2, j, d)
  <2>1. j \in 0 .. Len(v2)
    BY <1>4, <1>5
  <2>2. \A i \in 1 .. d : j + i <= Len(v2) => j + i \in 1 .. Len(v2) /\ j + i <= Len(v)
    BY <1>4, <1>5
  <2> QED
    BY <1>1, <1>5, <2>1, <2>2 DEF Nested
<1>9. EndsIn(te2, "return", e[d].id)
  BY <1>4, <1>7, NotesPushed
<1>10. Returning(e, v2, tv, te2, j, d)
  BY <1>4, <1>5, <1>6, <1>9 DEF Returning
<1> QED
  BY <1>8, <1>10 DEF Joined, Turn

-----------------------------------------------------------------------------
(* Types.                                                                  *)

LEMMA FramesAndMessages ==
    ASSUME NEW id \in Nat
    PROVE  /\ Sent(id) \in EngineFrames /\ Sent(id) \in VMFrames
           /\ \A kind \in {"call", "return"} : Message(kind, id) \in ToVM
           /\ \A kind \in {"return", "ask", "note", "error"} : Message(kind, id) \in ToEngine
  BY DEF Sent, Message, EngineFrames, VMFrames, ToVM, ToEngine

\* What an error leaves is of its type.
LEMMA UnwoundType ==
    ASSUME TypesInv, NEW flag \in BOOLEAN
    PROVE  Unwound(flag) \in [stack : Seq(EngineFrames), canSync : BOOLEAN, phase : Phases]
  BY DEF Unwound, TypesInv, Phases

LEMMA TypesStep == TypesInv /\ [Next]_vars => TypesInv'
<1> SUFFICES ASSUME TypesInv, [Next]_vars PROVE TypesInv'
  OBVIOUS
<1> USE DEF TypesInv
<1>0. 0 \in Nat /\ calls + 1 \in Nat /\ asks + 1 \in Nat
  OBVIOUS
<1>1. CASE EngineCalls
  <2>1. Append(engine.stack, Sent(calls + 1)) \in Seq(EngineFrames)
    BY <1>0, FramesAndMessages, AppendPushes
  <2>2. Append(toVM, Message("call", calls + 1)) \in Seq(ToVM)
    BY <1>0, FramesAndMessages, AppendPushes
  <2>3. /\ calls' = calls + 1 /\ engine' = [engine EXCEPT !.stack = Append(@, Sent(calls + 1))]
        /\ toVM' = Append(toVM, Message("call", calls + 1))
        /\ UNCHANGED <<vm, toEngine, asks, wrong>>
    BY <1>1 DEF EngineCalls
  <2> QED
    BY <1>0, <2>1, <2>2, <2>3
<1>2. CASE EngineReceivesReturn
  <2>1. engine.stack # <<>> /\ toEngine # <<>>
    BY <1>2 DEF EngineReceivesReturn, EngineHears, Waits
  <2>2. Front(engine.stack) \in Seq(EngineFrames) /\ Tail(toEngine) \in Seq(ToEngine)
    BY <2>1, FrontPops, TailShifts
  <2> QED
    BY <1>2, <2>2 DEF EngineReceivesReturn, EngineHears, Phases
<1>3. CASE EngineReceives
  <2>1. toEngine # <<>> /\ Head(toEngine).kind \in {"ask", "note"}
    BY <1>3 DEF EngineReceives, EngineHears
  <2>2. Head(toEngine) \in ToEngine /\ Tail(toEngine) \in Seq(ToEngine)
    BY <2>1, TailShifts
  <2> DEFINE f == [kind |-> Head(toEngine).kind, id |-> Head(toEngine).id, saved |-> engine.canSync]
  <2>3. f \in EngineFrames
    BY <2>1, <2>2 DEF EngineFrames, ToEngine
  <2>4. Append(engine.stack, f) \in Seq(EngineFrames)
    BY <2>3, AppendPushes
  <2> QED
    BY <1>3, <2>2, <2>4 DEF EngineReceives, EngineHears
<1>4. CASE EngineReceivesError
  <2>1. Tail(toEngine) \in Seq(ToEngine)
    BY <1>4, TailShifts DEF EngineReceivesError, EngineHears
  <2> QED
    BY <1>4, <2>1, UnwoundType DEF EngineReceivesError, EngineHears, Drop
<1>5. CASE EngineFinishes
  <2>1. engine.stack # <<>> /\ Last(engine.stack).kind # "sent"
    BY <1>5 DEF EngineFinishes, Waits
  <2>2. Front(engine.stack) \in Seq(EngineFrames) /\ Last(engine.stack) \in EngineFrames
    BY <2>1, FrontPops
  <2>3. Last(engine.stack).saved \in BOOLEAN /\ Last(engine.stack).id \in Nat
    BY <2>1, <2>2 DEF EngineFrames
  <2>4. Message("return", Last(engine.stack).id) \in ToVM
    BY <2>3, FramesAndMessages
  <2>5. Answer(Last(engine.stack)) \in Seq(ToVM)
    BY <2>4 DEF Answer
  <2>6. toVM \o Answer(Last(engine.stack)) \in Seq(ToVM)
    BY <2>5, ConcatProperties
  <2> QED
    BY <1>5, <2>2, <2>3, <2>6 DEF EngineFinishes, RestoredFlag
<1>6. CASE EngineDrops
  BY <1>6, UnwoundType DEF EngineDrops, Drop, FlagOnError
<1>7. CASE EngineGivesUp
  BY <1>7, UnwoundType DEF EngineGivesUp, Drop, FlagOnError
<1>8. CASE EngineStops
  BY <1>8 DEF EngineStops, Phases
<1>9. CASE EngineShutsDown
  <2>1. <<Sent(Special)>> \in Seq(EngineFrames)
    BY <1>0, FramesAndMessages DEF Special
  <2>2. Append(toVM, Message("call", Special)) \in Seq(ToVM)
    BY <1>0, FramesAndMessages, AppendPushes DEF Special
  <2> QED
    BY <1>9, <2>1, <2>2 DEF EngineShutsDown, Phases
<1>10. CASE EngineFrees
  BY <1>10 DEF EngineFrees, Phases
<1>11. CASE VMReceives
  <2>1. toVM # <<>> /\ Head(toVM).kind = "call"
    BY <1>11 DEF VMReceives, VMHears
  <2>2. Head(toVM) \in ToVM /\ Tail(toVM) \in Seq(ToVM)
    BY <2>1, TailShifts
  <2>3. Head(toVM) \in VMFrames
    BY <2>1, <2>2 DEF ToVM, VMFrames
  <2>4. Append(vm.stack, Head(toVM)) \in Seq(VMFrames)
    BY <2>3, AppendPushes
  <2> QED
    BY <1>11, <2>2, <2>4 DEF VMReceives, VMHears
<1>12. CASE VMReceivesReturn
  <2>1. Tail(toVM) \in Seq(ToVM) /\ Front(vm.stack) \in Seq(VMFrames)
    BY <1>12, TailShifts, FrontPops DEF VMReceivesReturn, VMHears
  <2> QED
    BY <1>12, <2>1 DEF VMReceivesReturn, VMHears
<1>13. CASE VMAsks
  <2>1. Append(vm.stack, Sent(asks + 1)) \in Seq(VMFrames)
    BY <1>0, FramesAndMessages, AppendPushes
  <2>2. Append(toEngine, Message("ask", asks + 1)) \in Seq(ToEngine)
    BY <1>0, FramesAndMessages, AppendPushes
  <2>3. /\ asks' = asks + 1 /\ vm' = [vm EXCEPT !.stack = Append(@, Sent(asks + 1))]
        /\ toEngine' = Append(toEngine, Message("ask", asks + 1))
        /\ UNCHANGED <<engine, toVM, calls, wrong>>
    BY <1>13 DEF VMAsks
  <2> QED
    BY <1>0, <2>1, <2>2, <2>3
<1>14. CASE VMNotes
  <2>1. Append(toEngine, Message("note", asks + 1)) \in Seq(ToEngine)
    BY <1>0, FramesAndMessages, AppendPushes
  <2> QED
    BY <1>14, <2>1 DEF VMNotes
<1>15. CASE VMFinishes
  <2>1. vm.stack # <<>>
    BY <1>15 DEF VMFinishes, VMActs
  <2>2. Front(vm.stack) \in Seq(VMFrames) /\ Last(vm.stack) \in VMFrames
    BY <2>1, FrontPops
  <2>3. Last(vm.stack).id \in Nat
    BY <2>2 DEF VMFrames
  <2>4. Append(toEngine, Message("return", Last(vm.stack).id)) \in Seq(ToEngine)
    BY <2>3, FramesAndMessages, AppendPushes
  <2> QED
    BY <1>15, <2>2, <2>4 DEF VMFinishes
<1>16. CASE VMErrs
  <2>1. Append(vm.stack, Sent(Special)) \in Seq(VMFrames)
    BY <1>0, FramesAndMessages, AppendPushes DEF Special
  <2>2. Append(toEngine, Message("error", Special)) \in Seq(ToEngine)
    BY <1>0, FramesAndMessages, AppendPushes DEF Special
  <2>3. UNCHANGED <<engine, toVM, calls, asks, wrong>>
    BY <1>16 DEF VMErrs
  <2>4. CASE vm.errors = 0 /\ vm' = Told /\ toEngine' = Append(toEngine, Message("error", Special))
    <3>1. vm' = [vm EXCEPT !.errors = 1, !.stack = Append(vm.stack, Sent(Special))]
      BY <2>4 DEF Told
    <3>2. 1 \in 0 .. 2
      OBVIOUS
    <3>3. vm' \in [stack : Seq(VMFrames), errors : 0 .. 2,
                   life : {"alive", "exited", "crashed"}, shutDown : BOOLEAN]
      BY <2>1, <3>1, <3>2
    <3> QED
      BY <2>2, <2>3, <2>4, <3>3
  <2>5. CASE vm' = [vm EXCEPT !.errors = 2, !.life = "exited"] /\ UNCHANGED toEngine
    <3>1. 2 \in 0 .. 2
      OBVIOUS
    <3>2. vm' \in [stack : Seq(VMFrames), errors : 0 .. 2,
                   life : {"alive", "exited", "crashed"}, shutDown : BOOLEAN]
      BY <2>5, <3>1
    <3> QED
      BY <2>3, <2>5, <3>2
  <2> QED
    BY <1>16, <2>4, <2>5 DEF VMErrs
<1>17. CASE VMCrashes
  BY <1>17 DEF VMCrashes
<1>18. CASE UNCHANGED vars
  BY <1>18 DEF vars
<1> QED
  BY <1>1, <1>2, <1>3, <1>4, <1>5, <1>6, <1>7, <1>8, <1>9, <1>10, <1>11, <1>12, <1>13,
     <1>14, <1>15, <1>16, <1>17, <1>18 DEF Next

-----------------------------------------------------------------------------
(* The steps of the engine.                                                *)

Safe ==
    /\ StacksInv /\ TurnInv /\ NestInv /\ ShutdownInv
    /\ ReturnsMatch /\ ShutdownRuns

LEMMA Fields ==
    ASSUME TypesInv
    PROVE  /\ engine.stack \in Seq(EngineFrames) /\ engine.canSync \in BOOLEAN
           /\ engine.phase \in Phases
           /\ vm.stack \in Seq(VMFrames) /\ vm.shutDown \in BOOLEAN
           /\ vm.life \in {"alive", "exited", "crashed"}
           /\ toVM \in Seq(ToVM) /\ toEngine \in Seq(ToEngine)
           /\ calls + 1 \in Nat /\ asks + 1 \in Nat
  BY DEF TypesInv

\* The engine waits for a message: no error has left it unable to call.
LEMMA WaitsFlag ==
    ASSUME FlagsInv, Waits(engine.stack)
    PROVE  /\ engine.stack # <<>> /\ engine.canSync /\ ~EngineHolds(engine.stack)
           /\ engine.phase \in {"running", "stop"}
  BY DEF FlagsInv, InNote, Waits, Last, EngineHolds

\* Every message but the first is still there.
LEMMA StillToEngine ==
    ASSUME toEngine \in Seq(ToEngine), toEngine # <<>>
    PROVE  \A i \in 1 .. Len(Tail(toEngine)) :
              i + 1 \in 1 .. Len(toEngine) /\ Tail(toEngine)[i] = toEngine[i + 1]
<1>1. Shifted(toEngine, Tail(toEngine), Head(toEngine)) /\ Tail(toEngine) \in Seq(ToEngine)
  BY TailShifts
<1>2. Len(Tail(toEngine)) \in Nat
  BY <1>1, EmptySeq
<1> QED
  BY <1>1, <1>2 DEF Shifted

LEMMA EngineCallsStep ==
    ASSUME TypesInv, TypesInv', Safe, EngineCalls
    PROVE  Safe'
<1>1. /\ engine.stack' = Append(engine.stack, Sent(calls + 1))
      /\ engine'.canSync = engine.canSync /\ engine'.phase = engine.phase
      /\ toVM' = Append(toVM, Message("call", calls + 1))
      /\ UNCHANGED <<vm, toEngine, asks, wrong, excuses>>
  BY DEF EngineCalls, TypesInv
<1>2. /\ Sent(calls + 1) \in EngineFrames /\ Sent(calls + 1).kind = "sent"
      /\ engine.stack \in Seq(EngineFrames) /\ engine.stack' \in Seq(EngineFrames)
      /\ Pushed(engine.stack, engine.stack', Sent(calls + 1)) /\ toVM' # <<>>
  <2>1. Sent(calls + 1) \in EngineFrames /\ Message("call", calls + 1) \in ToVM
    BY Fields, FramesAndMessages
  <2> QED
    BY <1>1, <2>1, Fields, AppendPushes DEF Sent
<1>3. /\ EngineHolds(engine.stack)
      /\ engine.phase = "running" \/ (engine.phase = "stop" /\ engine.stack # <<>>)
      /\ engine.canSync
  <2>1. engine.stack # <<>> => engine.stack[Len(engine.stack)] \in EngineFrames
    BY <1>2, EmptySeq, ElementOfSeq
  <2> QED
    BY <2>1 DEF EngineCalls, InCode, MaySend, Waits, Last, Safe, StacksInv, FlagsInv, InNote,
                EngineHolds, EngineFrames
<1>4. StacksInv'
  <2>1. EngineStack(engine.stack)'
    BY <1>2, <1>3, EnginePush DEF Safe, StacksInv
  <2>2. FlagsInv'
    <3>1. ~InNote(engine.stack')
      BY <1>2 DEF InNote, Pushed
    <3>2. engine.stack' # <<>>
      BY <1>1, <1>2, AppendPushes
    <3>3. engine.stack # <<>> => engine.stack'[1] = engine.stack[1]
      BY <1>2, EmptySeq DEF Pushed
    <3> QED
      BY <1>1, <1>3, <3>1, <3>2, <3>3 DEF FlagsInv, Safe, StacksInv
  <2> QED
    BY <1>1, <2>1, <2>2 DEF StacksInv, Safe
<1>5. TurnInv'
  BY <1>2 DEF TurnInv
<1>6. NestInv'
  BY <1>1, <1>2, <1>3, Fields, CallJoins DEF Safe, NestInv, Over
<1>7. ShutdownInv' /\ ReturnsMatch' /\ ShutdownRuns'
  BY <1>1 DEF Safe, ShutdownInv, ReturnsMatch, ShutdownRuns, Excused
<1> QED
  BY <1>4, <1>5, <1>6, <1>7 DEF Safe

LEMMA EngineReceivesReturnStep ==
    ASSUME TypesInv, TypesInv', Safe, EngineReceivesReturn
    PROVE  Safe'
<1>1. /\ engine.stack' = Front(engine.stack) /\ engine'.canSync = engine.canSync
      /\ engine'.phase = IF engine.phase = "stop" /\ Len(engine.stack) = 1
                         THEN "free" ELSE engine.phase
      /\ toEngine' = Tail(toEngine)
      /\ wrong' = wrong \cup IF Last(engine.stack).id = Head(toEngine).id THEN {} ELSE {"engine"}
      /\ UNCHANGED <<vm, toVM, calls, asks, excuses>>
  BY DEF EngineReceivesReturn, EngineHears, TypesInv
<1>2. /\ Waits(engine.stack) /\ engine.stack # <<>>
      /\ toEngine # <<>> /\ Head(toEngine).kind = "return"
  BY DEF EngineReceivesReturn, EngineHears, Waits
<1>3. /\ engine.stack \in Seq(EngineFrames) /\ engine.stack' \in Seq(EngineFrames)
      /\ Last(engine.stack) \in EngineFrames
      /\ Pushed(engine.stack', engine.stack, Last(engine.stack))
      /\ Head(toEngine) \in ToEngine /\ toEngine' \in Seq(ToEngine)
      /\ Shifted(toEngine, toEngine', Head(toEngine))
  BY <1>1, <1>2, Fields, FrontPops, TailShifts
<1>4. /\ engine.canSync /\ engine.phase \in {"running", "stop"}
      /\ EngineStack(engine.stack') /\ EngineHolds(engine.stack')
  BY <1>2, <1>3, WaitsFlag, EnginePop DEF Safe, StacksInv, Waits
<1>5. "time-out" \notin excuses => /\ Last(engine.stack).id = Head(toEngine).id
                                   /\ Joined(engine.stack, vm.stack, toVM, toEngine)'
  <2> SUFFICES ASSUME "time-out" \notin excuses
               PROVE  /\ Last(engine.stack).id = Head(toEngine).id
                      /\ Joined(engine.stack', vm.stack', toVM', toEngine')
    OBVIOUS
  <2>1. Joined(engine.stack, vm.stack, toVM, toEngine) /\ EngineStack(engine.stack)
    BY <1>2 DEF Safe, StacksInv, NestInv, Over
  <2>2. vm.stack \in Seq(VMFrames) /\ toEngine \in Seq(ToEngine)
    BY Fields
  <2>3. /\ Last(engine.stack).id = Head(toEngine).id
        /\ Joined(engine.stack', vm.stack, toVM, toEngine')
    BY <1>2, <1>3, <2>1, <2>2, ReturnReaches
  <2> QED
    BY <1>1, <2>3
<1>6. StacksInv'
  <2>1. ~InNote(engine.stack')
    BY <1>4 DEF EngineHolds, InNote
  <2>2. engine.stack' # <<>> => Len(engine.stack) # 1 /\ engine.stack'[1] = engine.stack[1]
    BY <1>3, EmptySeq DEF Pushed
  <2>3. FlagsInv'
    BY <1>1, <1>2, <1>4, <2>1, <2>2 DEF FlagsInv, Safe, StacksInv
  <2> QED
    BY <1>1, <1>4, <2>3 DEF StacksInv, Safe
<1>7. TurnInv'
  BY <1>4 DEF TurnInv
<1>8. NestInv'
  BY <1>1, <1>5 DEF NestInv
<1>9. ShutdownInv'
  <2>1. \A i \in 1 .. Len(toEngine') :
           toEngine'[i].kind = "return" /\ toEngine'[i].id = Special => vm'.shutDown
    BY <1>1, <1>2, Fields, StillToEngine DEF Safe, ShutdownInv
  <2>2. ASSUME engine'.phase = "free", "time-out" \notin excuses PROVE vm'.shutDown
    <3>1. engine.phase = "stop" /\ Len(engine.stack) = 1
      BY <1>1, <1>4, <2>2
    <3>2. Last(engine.stack).id = Special
      BY <1>2, <3>1 DEF Safe, StacksInv, FlagsInv, Last
    <3>3. Len(toEngine) \in Nat \ {0} /\ Head(toEngine) = toEngine[1]
      BY <1>2, Fields, EmptySeq
    <3>4. 1 \in 1 .. Len(toEngine) /\ toEngine[1].kind = "return" /\ toEngine[1].id = Special
      BY <1>2, <1>5, <2>2, <3>2, <3>3
    <3> QED
      BY <1>1, <3>4 DEF Safe, ShutdownInv
  <2> QED
    BY <1>1, <2>1, <2>2 DEF ShutdownInv, Excused
<1>10. ReturnsMatch' /\ ShutdownRuns'
  <2>1. engine'.phase # "freed"
    BY <1>1, <1>4
  <2> QED
    BY <1>1, <1>5, <2>1 DEF Safe, ReturnsMatch, ShutdownRuns
<1> QED
  BY <1>6, <1>7, <1>8, <1>9, <1>10 DEF Safe

LEMMA EngineReceivesStep ==
    ASSUME TypesInv, TypesInv', Safe, EngineReceives
    PROVE  Safe'
<1> DEFINE f == [kind |-> Head(toEngine).kind, id |-> Head(toEngine).id, saved |-> engine.canSync]
<1>1. /\ engine.stack' = Append(engine.stack, f)
      /\ engine'.canSync = (Head(toEngine).kind = "ask") /\ engine'.phase = engine.phase
      /\ toEngine' = Tail(toEngine)
      /\ UNCHANGED <<vm, toVM, calls, asks, wrong, excuses>>
  BY DEF EngineReceives, EngineHears, TypesInv
<1>2. /\ Waits(engine.stack) /\ engine.stack # <<>>
      /\ toEngine # <<>> /\ Head(toEngine).kind \in {"ask", "note"}
  BY DEF EngineReceives, EngineHears, Waits
<1>3. Head(toEngine) \in ToEngine /\ Shifted(toEngine, toEngine', Head(toEngine))
  BY <1>1, <1>2, Fields, TailShifts
<1>4. /\ f \in EngineFrames /\ f.kind = Head(toEngine).kind /\ f.id = Head(toEngine).id
      /\ f.saved = engine.canSync
  BY <1>2, <1>3, Fields DEF EngineFrames, ToEngine
<1> HIDE DEF f
<1>5. /\ engine.stack \in Seq(EngineFrames) /\ engine.stack' \in Seq(EngineFrames)
      /\ Pushed(engine.stack, engine.stack', f) /\ engine.stack' # <<>>
      /\ toEngine \in Seq(ToEngine) /\ toEngine' \in Seq(ToEngine)
  BY <1>1, <1>2, <1>4, Fields, AppendPushes, TailShifts
<1>6. engine.canSync /\ ~EngineHolds(engine.stack) /\ engine.phase \in {"running", "stop"}
  BY <1>2, WaitsFlag DEF Safe, StacksInv
<1>7. engine.stack'[Len(engine.stack')] = f
  BY <1>5 DEF Pushed
<1>8. StacksInv'
  <2>1. EngineStack(engine.stack)'
    BY <1>2, <1>4, <1>5, <1>6, EnginePush DEF Safe, StacksInv
  <2>2. InNote(engine.stack') <=> Head(toEngine).kind = "note"
    BY <1>4, <1>5, <1>7 DEF InNote
  <2>3. engine.stack'[1] = engine.stack[1]
    BY <1>2, <1>5, EmptySeq DEF Pushed
  <2>4. FlagsInv'
    BY <1>1, <1>2, <1>5, <1>6, <2>2, <2>3 DEF FlagsInv, Safe, StacksInv
  <2> QED
    BY <1>1, <2>1, <2>4 DEF StacksInv, Safe
<1>9. TurnInv'
  <2>1. CASE Head(toEngine).kind = "ask"
    BY <1>4, <1>7, <2>1 DEF TurnInv, EngineHolds
  <2>2. CASE Head(toEngine).kind = "note"
    <3>1. ASSUME NEW i \in 1 .. Len(toEngine), toEngine[i].kind # "note"
          PROVE  \E k \in 1 .. Len(toEngine') : toEngine'[k].kind # "note"
      <4>1. Len(toEngine') \in Nat /\ Len(toEngine) \in Nat
        BY <1>5, EmptySeq
      <4>2. i # 1 /\ Len(toEngine) = Len(toEngine') + 1
        BY <1>3, <2>2, <3>1 DEF Shifted
      <4>3. i - 1 \in 1 .. Len(toEngine') /\ i - 1 + 1 = i
        BY <4>1, <4>2
      <4>4. toEngine'[i - 1] = toEngine[i]
        BY <1>3, <4>3 DEF Shifted
      <4> QED
        BY <3>1, <4>3, <4>4
    <3> QED
      BY <1>1, <1>6, <3>1 DEF Safe, TurnInv, Alive, VMActs
  <2> QED
    BY <1>2, <2>1, <2>2
<1>10. NestInv'
  <2> SUFFICES ASSUME "time-out" \notin excuses
               PROVE  Joined(engine.stack', vm.stack', toVM', toEngine')
    BY <1>1 DEF NestInv
  <2>1. Joined(engine.stack, vm.stack, toVM, toEngine) /\ vm.stack \in Seq(VMFrames)
    BY <1>2, Fields DEF Safe, NestInv, Over
  <2>2. CASE Head(toEngine).kind = "ask"
    <3>1. Joined(engine.stack', vm.stack, toVM, toEngine')
      BY <1>2, <1>3, <1>4, <1>5, <2>1, <2>2, AskReaches
    <3> QED
      BY <1>1, <3>1
  <2>3. CASE Head(toEngine).kind = "note"
    <3>1. Joined(engine.stack', vm.stack, toVM, toEngine')
      BY <1>2, <1>3, <1>4, <1>5, <2>1, <2>3, NoteReaches
    <3> QED
      BY <1>1, <3>1
  <2> QED
    BY <1>2, <2>2, <2>3
<1>11. ShutdownInv' /\ ReturnsMatch' /\ ShutdownRuns'
  BY <1>1, <1>2, Fields, StillToEngine DEF Safe, ShutdownInv, ReturnsMatch, ShutdownRuns, Excused
<1> QED
  BY <1>8, <1>9, <1>10, <1>11 DEF Safe

\* What an error of the engine always does.
LEMMA DropFacts ==
    ASSUME TypesInv, NEW flag \in BOOLEAN, NEW excuse, Drop(flag, excuse)
    PROVE  /\ engine.stack' = <<>> /\ engine'.canSync = flag
           /\ engine'.phase = IF engine.phase = "running" THEN "stop" ELSE "free"
           /\ UNCHANGED <<vm, toVM, calls, asks, wrong>>
           /\ excuses \subseteq excuses' /\ excuse \in excuses'
           /\ engine.phase = "stop" => "in shutdown" \in excuses'
<1>1. Unwound(flag) = [stack |-> <<>>, canSync |-> flag,
                       phase |-> IF engine.phase = "running" THEN "stop" ELSE "free"]
  BY DEF Unwound
<1>2. engine' = Unwound(flag) /\ UNCHANGED <<vm, toVM, calls, asks, wrong>>
  BY DEF Drop
<1>3. /\ engine.stack' = <<>> /\ engine'.canSync = flag
      /\ engine'.phase = IF engine.phase = "running" THEN "stop" ELSE "free"
  BY <1>1, <1>2
<1>4. excuses' = excuses \cup {excuse} \cup IF engine.phase = "stop" THEN {"in shutdown"} ELSE {}
  BY DEF Drop
<1>5. /\ excuses \subseteq excuses' /\ excuse \in excuses'
      /\ engine.phase = "stop" => "in shutdown" \in excuses'
  BY <1>4
<1> QED
  BY <1>2, <1>3, <1>5

\* What it leaves is safe, but for the calls that both know of.
LEMMA DropSafe ==
    ASSUME TypesInv, TypesInv', Safe, NEW flag \in BOOLEAN, NEW excuse, Drop(flag, excuse),
           engine.phase \in {"running", "stop"},
           flag \/ "in a note" \in excuses',
           toEngine' = toEngine \/ (toEngine # <<>> /\ toEngine' = Tail(toEngine))
    PROVE  StacksInv' /\ TurnInv' /\ ShutdownInv' /\ ReturnsMatch' /\ ShutdownRuns'
<1>1. /\ engine.stack' = <<>> /\ engine'.canSync = flag
      /\ engine'.phase = IF engine.phase = "running" THEN "stop" ELSE "free"
      /\ UNCHANGED <<vm, toVM, calls, asks, wrong>>
      /\ excuses \subseteq excuses'
      /\ engine.phase = "stop" => "in shutdown" \in excuses'
  BY DropFacts
<1>2. StacksInv'
  <2>1. EngineStack(<<>>)
    BY EmptyStacks
  <2> QED
    BY <1>1, <2>1 DEF Safe, StacksInv, FlagsInv
<1>3. TurnInv'
  BY <1>1 DEF TurnInv, EngineHolds
<1>4. ShutdownInv'
  <2>1. \A i \in 1 .. Len(toEngine') :
           toEngine'[i].kind = "return" /\ toEngine'[i].id = Special => vm'.shutDown
    <3>1. CASE toEngine' = toEngine
      BY <1>1, <3>1 DEF Safe, ShutdownInv
    <3>2. CASE toEngine # <<>> /\ toEngine' = Tail(toEngine)
      BY <1>1, <3>2, Fields, StillToEngine DEF Safe, ShutdownInv
    <3> QED
      BY <3>1, <3>2
  <2> QED
    BY <1>1, <2>1 DEF ShutdownInv, Excused
<1>5. ReturnsMatch' /\ ShutdownRuns'
  BY <1>1 DEF Safe, ReturnsMatch, ShutdownRuns
<1> QED
  BY <1>2, <1>3, <1>4, <1>5

LEMMA EngineReceivesErrorStep ==
    ASSUME TypesInv, TypesInv', Safe, EngineReceivesError
    PROVE  Safe'
<1>1. /\ Waits(engine.stack) /\ engine.stack # <<>>
      /\ toEngine # <<>> /\ Head(toEngine).kind = "error" /\ toEngine' = Tail(toEngine)
      /\ Drop(TRUE, "error")
  BY DEF EngineReceivesError, EngineHears, Waits
<1>2. engine.phase \in {"running", "stop"}
  BY <1>1, WaitsFlag DEF Safe, StacksInv
<1>3. StacksInv' /\ TurnInv' /\ ShutdownInv' /\ ReturnsMatch' /\ ShutdownRuns'
  BY <1>1, <1>2, DropSafe
<1>4. NestInv'
  <2>1. engine.stack' = <<>> /\ UNCHANGED <<vm, toVM>> /\ excuses \subseteq excuses'
    BY <1>1, DropFacts
  <2> SUFFICES ASSUME "time-out" \notin excuses
               PROVE  Joined(engine.stack', vm.stack', toVM', toEngine')
    BY <2>1 DEF NestInv
  <2>2. Joined(engine.stack, vm.stack, toVM, toEngine)
    BY <1>1 DEF Safe, NestInv, Over
  <2>3. /\ engine.stack \in Seq(EngineFrames) /\ vm.stack \in Seq(VMFrames)
        /\ toEngine \in Seq(ToEngine) /\ toEngine' \in Seq(ToEngine)
        /\ Head(toEngine) \in ToEngine /\ Shifted(toEngine, toEngine', Head(toEngine))
    BY <1>1, Fields, TailShifts
  <2>4. Joined(<<>>, vm.stack, toVM, toEngine')
    BY <1>1, <2>2, <2>3, ErrorReaches
  <2> QED
    BY <2>1, <2>4
<1> QED
  BY <1>3, <1>4 DEF Safe

LEMMA EngineFinishesStep ==
    ASSUME TypesInv, TypesInv', Safe, EngineFinishes
    PROVE  Safe'
<1>1. /\ engine.stack # <<>> /\ Last(engine.stack).kind # "sent"
      /\ engine.stack' = Front(engine.stack) /\ engine'.canSync = Last(engine.stack).saved
      /\ engine'.phase = engine.phase
      /\ toVM' = toVM \o Answer(Last(engine.stack))
      /\ UNCHANGED <<vm, toEngine, calls, asks, wrong, excuses>>
  BY DEF EngineFinishes, Waits, RestoredFlag, TypesInv
<1>2. /\ engine.stack \in Seq(EngineFrames) /\ engine.stack' \in Seq(EngineFrames)
      /\ Last(engine.stack) \in EngineFrames
      /\ Pushed(engine.stack', engine.stack, Last(engine.stack))
      /\ vm.stack \in Seq(VMFrames) /\ toVM \in Seq(ToVM)
  BY <1>1, Fields, FrontPops
<1>3. /\ EngineStack(engine.stack') /\ engine.stack' # <<>> /\ Waits(engine.stack')
      /\ Last(engine.stack).saved
  BY <1>1, <1>2, EnginePop DEF Safe, StacksInv
<1>4. Last(engine.stack).kind \in {"ask", "note"} /\ Last(engine.stack).id \in Nat
  BY <1>1, <1>2 DEF EngineFrames
<1>5. engine.phase \in {"running", "stop"}
  BY <1>1 DEF Safe, StacksInv, FlagsInv
<1>6. StacksInv'
  <2>1. ~InNote(engine.stack')
    BY <1>3 DEF InNote, Waits, Last
  <2>2. engine.stack'[1] = engine.stack[1]
    BY <1>2, <1>3, EmptySeq DEF Pushed
  <2>3. FlagsInv'
    BY <1>1, <1>3, <1>5, <2>1, <2>2 DEF FlagsInv, Safe, StacksInv
  <2> QED
    BY <1>1, <1>3, <2>3 DEF StacksInv, Safe
<1>7. ASSUME Last(engine.stack).kind = "note"
      PROVE  toVM' = toVM /\ ~EngineHolds(engine.stack)
  <2>1. Answer(Last(engine.stack)) = <<>>
    BY <1>7 DEF Answer
  <2>2. toVM' = toVM
    BY <1>1, <1>2, <2>1, ConcatEmptySeq
  <2> QED
    BY <1>1, <1>7, <2>2 DEF EngineHolds, Last
<1>8. ASSUME Last(engine.stack).kind = "ask"
      PROVE  /\ toVM' = toVM \o <<Message("return", Last(engine.stack).id)>>
             /\ toVM' # <<>>
  <2>1. toVM' = toVM \o <<Message("return", Last(engine.stack).id)>>
    BY <1>1, <1>8 DEF Answer
  <2>2. /\ <<Message("return", Last(engine.stack).id)>> \in Seq(ToVM)
        /\ <<Message("return", Last(engine.stack).id)>> # <<>>
    BY <1>4, FramesAndMessages
  <2> QED
    BY <1>2, <2>1, <2>2, ConcatEqualIffEmpty
<1>9. TurnInv'
  BY <1>1, <1>4, <1>7, <1>8 DEF Safe, TurnInv, Alive, VMActs
<1>10. NestInv'
  <2> SUFFICES ASSUME "time-out" \notin excuses
               PROVE  Joined(engine.stack', vm.stack', toVM', toEngine')
    BY <1>1 DEF NestInv
  <2>1. Joined(engine.stack, vm.stack, toVM, toEngine) /\ EngineStack(engine.stack)
    BY <1>1 DEF Safe, StacksInv, NestInv, Over
  <2>2. CASE Last(engine.stack).kind = "ask"
    <3>1. Joined(engine.stack', vm.stack, toVM \o <<Message("return", Last(engine.stack).id)>>,
                 toEngine)
      BY <1>2, <2>1, <2>2, AskFinishes
    <3> QED
      BY <1>1, <1>8, <2>2, <3>1
  <2>3. CASE Last(engine.stack).kind = "note"
    <3>1. Joined(engine.stack', vm.stack, toVM, toEngine)
      BY <1>2, <2>1, <2>3, NoteFinishes
    <3> QED
      BY <1>1, <1>7, <2>3, <3>1
  <2> QED
    BY <1>4, <2>2, <2>3
<1>11. ShutdownInv' /\ ReturnsMatch' /\ ShutdownRuns'
  BY <1>1 DEF Safe, ShutdownInv, ReturnsMatch, ShutdownRuns, Excused
<1> QED
  BY <1>6, <1>9, <1>10, <1>11 DEF Safe

LEMMA EngineDropsStep ==
    ASSUME TypesInv, TypesInv', Safe, EngineDrops
    PROVE  Safe'
<1> DEFINE excuse == IF engine.stack # <<>> /\ Last(engine.stack).kind = "note"
                     THEN "in a note" ELSE "drop"
<1>1. /\ ~Waits(engine.stack) /\ toEngine' = toEngine /\ Drop(engine.canSync, excuse)
      /\ engine.phase = "running" \/ (engine.phase = "stop" /\ engine.stack # <<>>)
  BY DEF EngineDrops, InCode, FlagOnError
<1>2. engine.canSync \in BOOLEAN /\ engine.stack \in Seq(EngineFrames) /\ vm.stack \in Seq(VMFrames)
  BY Fields
<1>3. /\ engine.stack' = <<>> /\ engine'.canSync = engine.canSync /\ engine'.phase # "running"
      /\ UNCHANGED <<vm, toVM>> /\ excuses \subseteq excuses' /\ excuse \in excuses'
  BY <1>1, <1>2, DropFacts
<1>4. ~engine.canSync => InNote(engine.stack)
  BY <1>1 DEF Safe, StacksInv, FlagsInv
<1>5. InNote(engine.stack) => excuse = "in a note" /\ ~engine.canSync
  BY DEF InNote, Last, Safe, StacksInv, FlagsInv
<1>6. StacksInv' /\ TurnInv' /\ ShutdownInv' /\ ReturnsMatch' /\ ShutdownRuns'
  BY <1>1, <1>2, <1>3, <1>4, <1>5, DropSafe
<1>7. NestInv'
  <2> SUFFICES ASSUME "time-out" \notin excuses
               PROVE  Joined(engine.stack', vm.stack', toVM', toEngine') \/ Over'
    BY <1>3 DEF NestInv
  <2>1. Joined(engine.stack, vm.stack, toVM, toEngine)
    BY <1>1 DEF Safe, NestInv, Over
  <2>2. CASE InNote(engine.stack)
    <3>1. toVM = <<>>
      BY <1>2, <2>1, <2>2, NoteDrops
    <3> QED
      BY <1>3, <1>5, <2>2, <3>1 DEF Over
  <2>3. CASE ~InNote(engine.stack)
    <3>1. EngineHolds(engine.stack)
      <4>1. engine.stack # <<>> => engine.stack[Len(engine.stack)] \in EngineFrames
        BY <1>2, EmptySeq, ElementOfSeq
      <4> QED
        BY <1>1, <2>3, <4>1 DEF EngineHolds, InNote, Waits, Last, EngineFrames
    <3>2. Joined(<<>>, vm.stack, toVM, toEngine)
      BY <1>2, <2>1, <3>1, DropJoins
    <3> QED
      BY <1>1, <1>3, <3>2
  <2> QED
    BY <2>2, <2>3
<1> QED
  BY <1>6, <1>7 DEF Safe

LEMMA EngineGivesUpStep ==
    ASSUME TypesInv, TypesInv', Safe, EngineGivesUp
    PROVE  Safe'
<1>1. /\ Waits(engine.stack) /\ toEngine' = toEngine
      /\ Drop(engine.canSync, IF Alive THEN "time-out" ELSE "closed")
  BY DEF EngineGivesUp, FlagOnError
<1>2. engine.canSync /\ engine.phase \in {"running", "stop"}
  BY <1>1, WaitsFlag DEF Safe, StacksInv
<1>3. /\ engine.stack' = <<>> /\ engine'.phase # "running" /\ UNCHANGED vm
      /\ (IF Alive THEN "time-out" ELSE "closed") \in excuses'
  BY <1>1, <1>2, DropFacts
<1>4. StacksInv' /\ TurnInv' /\ ShutdownInv' /\ ReturnsMatch' /\ ShutdownRuns'
  BY <1>1, <1>2, DropSafe
<1>5. NestInv'
  <2>1. CASE Alive
    BY <1>3, <2>1 DEF NestInv
  <2>2. CASE ~Alive
    BY <1>2, <1>3, <2>2 DEF NestInv, Over, Alive
  <2> QED
    BY <2>1, <2>2
<1> QED
  BY <1>4, <1>5 DEF Safe

LEMMA EngineStopsStep ==
    ASSUME TypesInv, TypesInv', Safe, EngineStops
    PROVE  Safe'
<1>1. /\ engine.phase = "running" /\ engine.stack = <<>>
      /\ engine.stack' = engine.stack /\ engine'.canSync = engine.canSync /\ engine'.phase = "stop"
      /\ UNCHANGED <<vm, toVM, toEngine, calls, asks, wrong, excuses>>
  BY DEF EngineStops, TypesInv
<1>2. StacksInv'
  BY <1>1 DEF Safe, StacksInv, FlagsInv
<1>3. TurnInv'
  BY <1>1 DEF TurnInv, EngineHolds
<1>4. NestInv'
  BY <1>1 DEF Safe, NestInv, Over
<1>5. ShutdownInv' /\ ReturnsMatch' /\ ShutdownRuns'
  BY <1>1 DEF Safe, ShutdownInv, ReturnsMatch, ShutdownRuns, Excused
<1> QED
  BY <1>2, <1>3, <1>4, <1>5 DEF Safe

LEMMA EngineShutsDownStep ==
    ASSUME TypesInv, TypesInv', Safe, EngineShutsDown
    PROVE  Safe'
<1>1. /\ engine.phase = "stop" /\ engine.stack = <<>>
      /\ UNCHANGED <<vm, toEngine, calls, asks, wrong, excuses>>
  BY DEF EngineShutsDown
<1>2. ReturnsMatch' /\ ShutdownRuns'
  <2>1. engine'.phase # "freed"
    BY <1>1 DEF EngineShutsDown, TypesInv
  <2> QED
    BY <1>1, <2>1 DEF Safe, ReturnsMatch, ShutdownRuns
<1>3. CASE engine.canSync /\ Alive
  <2>1. /\ engine.stack' = <<Sent(Special)>> /\ engine'.canSync = engine.canSync
        /\ engine'.phase = "stop" /\ toVM' = Append(toVM, Message("call", Special))
    BY <1>1, <1>3 DEF EngineShutsDown, MaySend, TypesInv
  <2>2. /\ Special \in Nat /\ Sent(Special) \in EngineFrames /\ Sent(Special).kind = "sent"
        /\ Sent(Special).id = Special /\ Message("call", Special) \in ToVM
    BY FramesAndMessages DEF Special, Sent
  <2>3. /\ engine.stack' # <<>> /\ Len(engine.stack') = 1 /\ engine.stack'[1] = Sent(Special)
        /\ EngineHolds(engine.stack)
        /\ engine.stack \in Seq(EngineFrames) /\ engine.stack' \in Seq(EngineFrames)
        /\ Pushed(engine.stack, engine.stack', Sent(Special))
    BY <1>1, <2>1, <2>2, Fields DEF Pushed, EngineHolds
  <2>4. StacksInv'
    BY <1>1, <1>3, <2>1, <2>2, <2>3 DEF Safe, StacksInv, FlagsInv, EngineStack, InNote
  <2>5. toVM' # <<>>
    BY <2>1, <2>2, Fields, AppendPushes
  <2>6. NestInv'
    <3> SUFFICES ASSUME "time-out" \notin excuses
                 PROVE  Joined(engine.stack', vm.stack', toVM', toEngine')
      BY <1>1 DEF NestInv
    <3>1. Joined(engine.stack, vm.stack, toVM, toEngine) /\ vm.stack \in Seq(VMFrames)
      BY <1>1, <1>3, Fields DEF Safe, NestInv, Over, Alive
    <3>2. Joined(engine.stack', vm.stack, Append(toVM, Message("call", Special)), toEngine)
      BY <2>2, <2>3, <3>1, CallJoins
    <3> QED
      BY <1>1, <2>1, <3>2
  <2>7. TurnInv' /\ ShutdownInv'
    BY <1>1, <2>1, <2>5 DEF Safe, TurnInv, ShutdownInv
  <2> QED
    BY <1>2, <2>4, <2>6, <2>7 DEF Safe
<1>4. CASE ~(engine.canSync /\ Alive)
  <2>1. /\ engine.stack' = <<>> /\ engine'.canSync = engine.canSync
        /\ engine'.phase = "free" /\ toVM' = toVM
    BY <1>1, <1>4 DEF EngineShutsDown, MaySend, TypesInv
  <2>2. StacksInv'
    BY <1>1, <2>1 DEF Safe, StacksInv, FlagsInv
  <2>3. TurnInv'
    BY <2>1 DEF TurnInv, EngineHolds
  <2>4. NestInv'
    BY <1>1, <2>1 DEF Safe, NestInv, Over
  <2>5. ShutdownInv'
    <3>1. vm.life = "alive" => "in a note" \in excuses
      BY <1>1, <1>4 DEF Safe, StacksInv, FlagsInv, Alive
    <3> QED
      BY <1>1, <3>1 DEF Safe, ShutdownInv, Excused
  <2> QED
    BY <1>2, <2>2, <2>3, <2>4, <2>5 DEF Safe
<1> QED
  BY <1>3, <1>4

LEMMA EngineFreesStep ==
    ASSUME TypesInv, TypesInv', Safe, EngineFrees
    PROVE  Safe'
<1>1. /\ engine.phase = "free" /\ engine.stack' = engine.stack /\ engine'.canSync = engine.canSync
      /\ engine'.phase = IF Alive THEN "freed" ELSE "fatal"
      /\ UNCHANGED <<vm, toVM, toEngine, calls, asks, wrong, excuses>>
  BY DEF EngineFrees, TypesInv
<1>2. engine.stack = <<>>
  BY <1>1 DEF Safe, StacksInv, FlagsInv
<1>3. StacksInv'
  BY <1>1, <1>2 DEF Safe, StacksInv, FlagsInv
<1>4. TurnInv'
  BY <1>1, <1>2 DEF TurnInv, EngineHolds
<1>5. NestInv'
  BY <1>1, <1>2 DEF Safe, NestInv, Over
<1>6. ShutdownInv' /\ ReturnsMatch' /\ ShutdownRuns'
  BY <1>1 DEF Safe, ShutdownInv, ReturnsMatch, ShutdownRuns, Excused, Alive
<1> QED
  BY <1>3, <1>4, <1>5, <1>6 DEF Safe

-----------------------------------------------------------------------------
(* The steps of the VM.                                                    *)

LEMMA VMReceivesStep ==
    ASSUME TypesInv, TypesInv', Safe, VMReceives
    PROVE  Safe'
<1>1. /\ Alive /\ ~VMActs /\ toVM # <<>> /\ Head(toVM).kind = "call" /\ toVM' = Tail(toVM)
      /\ vm.stack' = Append(vm.stack, Head(toVM)) /\ vm'.shutDown = vm.shutDown
      /\ vm'.life = vm.life /\ UNCHANGED <<engine, toEngine, calls, asks, wrong, excuses>>
  BY DEF VMReceives, VMHears, TypesInv
<1>2. /\ Head(toVM) \in ToVM /\ Head(toVM) \in VMFrames
      /\ engine.stack \in Seq(EngineFrames) /\ vm.stack \in Seq(VMFrames) /\ toVM \in Seq(ToVM)
  <2>1. Head(toVM) \in ToVM
    BY <1>1, Fields, TailShifts
  <2>2. Head(toVM) \in VMFrames
    BY <1>1, <2>1 DEF ToVM, VMFrames
  <2> QED
    BY <2>1, <2>2, Fields
<1>3. /\ vm.stack' \in Seq(VMFrames) /\ vm.stack' # <<>>
      /\ Pushed(vm.stack, vm.stack', Head(toVM))
  BY <1>1, <1>2, AppendPushes
<1>4. VMIdle(vm.stack)
  BY <1>1 DEF VMIdle, VMActs, Waits, Last
<1>5. StacksInv'
  <2>1. VMStack(vm.stack')
    BY <1>1, <1>2, <1>3, <1>4, VMPush DEF Safe, StacksInv
  <2> QED
    BY <1>1, <2>1 DEF Safe, StacksInv, FlagsInv
<1>6. TurnInv'
  <2>1. ~Waits(vm.stack')
    BY <1>1, <1>3 DEF Waits, Last, Pushed
  <2> QED
    BY <1>1, <1>3, <2>1 DEF TurnInv, VMActs, Alive
<1>7. NestInv'
  <2> SUFFICES ASSUME "time-out" \notin excuses
               PROVE  Joined(engine.stack', vm.stack', toVM', toEngine')
    BY <1>1 DEF NestInv
  <2>1. Joined(engine.stack, vm.stack, toVM, toEngine)
    BY <1>1 DEF Safe, NestInv, Over, Alive
  <2>2. Joined(engine.stack, vm.stack', Tail(toVM), toEngine)
    BY <1>1, <1>2, <1>3, <2>1, CallReaches
  <2> QED
    BY <1>1, <2>2
<1>8. ShutdownInv' /\ ReturnsMatch' /\ ShutdownRuns'
  BY <1>1 DEF Safe, ShutdownInv, ReturnsMatch, ShutdownRuns, Excused
<1> QED
  BY <1>5, <1>6, <1>7, <1>8 DEF Safe

LEMMA VMReceivesReturnStep ==
    ASSUME TypesInv, TypesInv', Safe, VMReceivesReturn
    PROVE  Safe'
<1>1. /\ Alive /\ ~VMActs /\ toVM # <<>> /\ Head(toVM).kind = "return" /\ toVM' = Tail(toVM)
      /\ vm.stack # <<>> /\ vm.stack' = Front(vm.stack) /\ vm'.shutDown = vm.shutDown
      /\ vm'.life = vm.life /\ UNCHANGED <<engine, toEngine, calls, asks, excuses>>
      /\ wrong' = wrong \cup IF Last(vm.stack).id = Head(toVM).id THEN {} ELSE {"vm"}
  BY DEF VMReceivesReturn, VMHears, TypesInv
<1>2. /\ engine.stack \in Seq(EngineFrames) /\ vm.stack \in Seq(VMFrames) /\ toVM \in Seq(ToVM)
      /\ vm.stack' \in Seq(VMFrames) /\ Last(vm.stack) \in VMFrames
      /\ Pushed(vm.stack', vm.stack, Last(vm.stack))
  BY <1>1, Fields, FrontPops
<1>3. Last(vm.stack).kind = "sent" /\ VMStack(vm.stack)
  BY <1>1 DEF VMActs, Waits, Safe, StacksInv
<1>4. VMStack(vm.stack') /\ vm.stack' # <<>> /\ ~Waits(vm.stack')
  BY <1>2, <1>3, VMPop
<1>5. StacksInv'
  BY <1>1, <1>4 DEF Safe, StacksInv, FlagsInv
<1>6. TurnInv'
  BY <1>1, <1>4 DEF TurnInv, VMActs, Alive
<1>7. ASSUME "time-out" \notin excuses
      PROVE  /\ Last(vm.stack).id = Head(toVM).id
             /\ Joined(engine.stack', vm.stack', toVM', toEngine')
  <2>1. Joined(engine.stack, vm.stack, toVM, toEngine)
    BY <1>1, <1>7 DEF Safe, NestInv, Over, Alive
  <2>2. Last(vm.stack).id = Head(toVM).id /\ Joined(engine.stack, vm.stack', Tail(toVM), toEngine)
    BY <1>1, <1>2, <1>3, <2>1, AnswerReaches
  <2> QED
    BY <1>1, <2>2
<1>8. NestInv'
  BY <1>1, <1>7 DEF NestInv
<1>9. ShutdownInv' /\ ReturnsMatch' /\ ShutdownRuns'
  BY <1>1, <1>7 DEF Safe, ShutdownInv, ReturnsMatch, ShutdownRuns, Excused
<1> QED
  BY <1>5, <1>6, <1>8, <1>9 DEF Safe

\* What the VM adds to the channel, unless it is the return of the shutdown.
LEMMA SentToEngine ==
    ASSUME TypesInv, Safe, NEW m \in ToEngine, toEngine' = Append(toEngine, m),
           vm'.shutDown = (vm.shutDown \/ (m.kind = "return" /\ m.id = Special)),
           vm'.life = vm.life,
           UNCHANGED <<engine, toVM, calls, wrong, excuses>>
    PROVE  /\ toEngine \in Seq(ToEngine) /\ toEngine' \in Seq(ToEngine)
           /\ Pushed(toEngine, toEngine', m)
           /\ m.kind # "note" => TurnInv'
           /\ ShutdownInv' /\ ReturnsMatch' /\ ShutdownRuns'
<1>1. /\ toEngine \in Seq(ToEngine) /\ toEngine' \in Seq(ToEngine)
      /\ Pushed(toEngine, toEngine', m)
  BY Fields, AppendPushes
<1>2. Len(toEngine) \in Nat
  BY <1>1, EmptySeq
<1>3. /\ Len(toEngine') = Len(toEngine) + 1 /\ toEngine'[Len(toEngine) + 1] = m
      /\ \A i \in 1 .. Len(toEngine) : toEngine'[i] = toEngine[i]
  BY <1>1, <1>2 DEF Pushed
<1>4. m.kind # "note" => TurnInv'
  <2>1. Len(toEngine) + 1 \in 1 .. Len(toEngine')
    BY <1>2, <1>3
  <2> QED
    BY <1>3, <2>1 DEF TurnInv
<1>5. ShutdownInv'
  <2>1. ASSUME NEW i \in 1 .. Len(toEngine'), toEngine'[i].kind = "return", toEngine'[i].id = Special
        PROVE  vm'.shutDown
    <3>1. CASE i \in 1 .. Len(toEngine)
      BY <1>3, <2>1, <3>1 DEF Safe, ShutdownInv
    <3>2. CASE i = Len(toEngine) + 1
      BY <1>3, <2>1, <3>2
    <3> QED
      BY <1>2, <1>3, <3>1, <3>2
  <2> QED
    BY <2>1 DEF Safe, ShutdownInv, Excused
<1>6. ReturnsMatch' /\ ShutdownRuns'
  BY DEF Safe, ReturnsMatch, ShutdownRuns
<1> QED
  BY <1>1, <1>4, <1>5, <1>6

LEMMA VMAsksStep ==
    ASSUME TypesInv, TypesInv', Safe, VMAsks
    PROVE  Safe'
<1> DEFINE m == Message("ask", asks + 1)
<1>1. /\ vm.stack # <<>> /\ ~Waits(vm.stack) /\ Alive
      /\ vm.stack' = Append(vm.stack, Sent(asks + 1)) /\ vm'.shutDown = vm.shutDown
      /\ vm'.life = vm.life /\ toEngine' = Append(toEngine, m)
      /\ UNCHANGED <<engine, toVM, calls, wrong, excuses>>
  BY DEF VMAsks, VMActs, TypesInv
<1>2. /\ m \in ToEngine /\ m.kind = "ask" /\ m.id = asks + 1
      /\ Sent(asks + 1) \in VMFrames /\ Sent(asks + 1).kind = "sent"
  BY Fields, FramesAndMessages DEF Message, Sent
<1> HIDE DEF m
<1>3. /\ toEngine \in Seq(ToEngine) /\ toEngine' \in Seq(ToEngine) /\ Pushed(toEngine, toEngine', m)
      /\ TurnInv' /\ ShutdownInv' /\ ReturnsMatch' /\ ShutdownRuns'
  BY <1>1, <1>2, Fields, SentToEngine
<1>4. /\ engine.stack \in Seq(EngineFrames) /\ vm.stack \in Seq(VMFrames)
      /\ vm.stack' \in Seq(VMFrames) /\ Pushed(vm.stack, vm.stack', Sent(asks + 1))
  BY <1>1, <1>2, Fields, AppendPushes
<1>5. StacksInv'
  <2>1. VMStack(vm.stack')
    BY <1>1, <1>2, <1>4, VMPush DEF Safe, StacksInv
  <2> QED
    BY <1>1, <2>1 DEF Safe, StacksInv, FlagsInv
<1>6. NestInv'
  <2>1. ASSUME Joined(engine.stack, vm.stack, toVM, toEngine)
        PROVE  Joined(engine.stack, vm.stack', toVM, toEngine')
    BY <1>1, <1>2, <1>3, <1>4, <2>1, AskJoins
  <2> QED
    BY <1>1, <2>1 DEF Safe, NestInv, Over
<1> QED
  BY <1>3, <1>5, <1>6 DEF Safe

LEMMA VMNotesStep ==
    ASSUME TypesInv, TypesInv', Safe, VMNotes
    PROVE  Safe'
<1> DEFINE m == Message("note", asks + 1)
<1>1. /\ VMActs /\ vm.stack # <<>> /\ ~Waits(vm.stack) /\ toEngine' = Append(toEngine, m)
      /\ UNCHANGED <<engine, vm, toVM, calls, wrong, excuses>>
  BY DEF VMNotes, VMActs
<1>2. m \in ToEngine /\ m.kind = "note" /\ vm.shutDown \in BOOLEAN
  BY Fields, FramesAndMessages DEF Message
<1> HIDE DEF m
<1>3. /\ toEngine \in Seq(ToEngine) /\ toEngine' \in Seq(ToEngine) /\ Pushed(toEngine, toEngine', m)
      /\ ShutdownInv' /\ ReturnsMatch' /\ ShutdownRuns'
  BY <1>1, <1>2, SentToEngine
<1>4. StacksInv' /\ TurnInv'
  BY <1>1 DEF Safe, StacksInv, FlagsInv, TurnInv, VMActs, Alive
<1>5. NestInv'
  <2>1. ASSUME Joined(engine.stack, vm.stack, toVM, toEngine)
        PROVE  Joined(engine.stack, vm.stack, toVM, toEngine')
    BY <1>1, <1>2, <1>3, <2>1, Fields, NoteJoins
  <2> QED
    BY <1>1, <2>1 DEF Safe, NestInv, Over
<1> QED
  BY <1>3, <1>4, <1>5 DEF Safe

LEMMA VMFinishesStep ==
    ASSUME TypesInv, TypesInv', Safe, VMFinishes
    PROVE  Safe'
<1> DEFINE m == Message("return", Last(vm.stack).id)
<1>1. /\ vm.stack # <<>> /\ ~Waits(vm.stack) /\ Alive /\ vm.stack' = Front(vm.stack)
      /\ vm'.shutDown = (vm.shutDown \/ Last(vm.stack).id = Special)
      /\ vm'.life = vm.life /\ toEngine' = Append(toEngine, m)
      /\ UNCHANGED <<engine, toVM, calls, wrong, excuses>>
  BY DEF VMFinishes, VMActs, TypesInv
<1>2. /\ engine.stack \in Seq(EngineFrames) /\ vm.stack \in Seq(VMFrames)
      /\ vm.stack' \in Seq(VMFrames) /\ Last(vm.stack) \in VMFrames
      /\ Pushed(vm.stack', vm.stack, Last(vm.stack))
  BY <1>1, Fields, FrontPops
<1>3. m \in ToEngine /\ m.kind = "return" /\ m.id = Last(vm.stack).id
  BY <1>2, FramesAndMessages DEF Message, VMFrames
<1> HIDE DEF m
<1>4. /\ toEngine \in Seq(ToEngine) /\ toEngine' \in Seq(ToEngine) /\ Pushed(toEngine, toEngine', m)
      /\ TurnInv' /\ ShutdownInv' /\ ReturnsMatch' /\ ShutdownRuns'
  BY <1>1, <1>3, SentToEngine
<1>5. StacksInv'
  <2>1. VMStack(vm.stack')
    BY <1>2, VMPop DEF Safe, StacksInv
  <2> QED
    BY <1>1, <2>1 DEF Safe, StacksInv, FlagsInv
<1>6. NestInv'
  <2>1. ASSUME Joined(engine.stack, vm.stack, toVM, toEngine)
        PROVE  Joined(engine.stack, vm.stack', toVM, toEngine')
    BY <1>1, <1>2, <1>3, <1>4, <2>1, ReturnJoins DEF Safe, StacksInv
  <2> QED
    BY <1>1, <2>1 DEF Safe, NestInv, Over
<1> QED
  BY <1>4, <1>5, <1>6 DEF Safe

LEMMA VMErrsStep ==
    ASSUME TypesInv, TypesInv', Safe, VMErrs
    PROVE  Safe'
<1>1. VMActs /\ UNCHANGED <<engine, toVM, calls, wrong, excuses>>
  BY DEF VMErrs
<1>2. CASE vm.errors = 0 /\ vm' = Told /\ toEngine' = Append(toEngine, Message("error", Special))
  <2> DEFINE m == Message("error", Special)
  <2>1. /\ vm.stack # <<>> /\ ~Waits(vm.stack) /\ Alive
        /\ vm.stack' = Append(vm.stack, Sent(Special)) /\ vm'.shutDown = vm.shutDown
        /\ vm'.life = vm.life /\ toEngine' = Append(toEngine, m)
    BY <1>1, <1>2 DEF VMActs, TypesInv, Told
  <2>2. /\ m \in ToEngine /\ m.kind = "error" /\ m.id = Special
        /\ Sent(Special) \in VMFrames /\ Sent(Special).kind = "sent"
    BY FramesAndMessages DEF Message, Sent, Special
  <2> HIDE DEF m
  <2>3. /\ toEngine \in Seq(ToEngine) /\ toEngine' \in Seq(ToEngine) /\ Pushed(toEngine, toEngine', m)
        /\ TurnInv' /\ ShutdownInv' /\ ReturnsMatch' /\ ShutdownRuns'
    BY <1>1, <2>1, <2>2, Fields, SentToEngine
  <2>4. /\ engine.stack \in Seq(EngineFrames) /\ vm.stack \in Seq(VMFrames)
        /\ vm.stack' \in Seq(VMFrames) /\ Pushed(vm.stack, vm.stack', Sent(Special))
    BY <2>1, <2>2, Fields, AppendPushes
  <2>5. StacksInv'
    <3>1. VMStack(vm.stack')
      BY <2>1, <2>2, <2>4, VMPush DEF Safe, StacksInv
    <3> QED
      BY <1>1, <3>1 DEF Safe, StacksInv, FlagsInv
  <2>6. NestInv'
    <3>1. ASSUME Joined(engine.stack, vm.stack, toVM, toEngine)
          PROVE  Joined(engine.stack, vm.stack', toVM, toEngine')
      BY <2>1, <2>2, <2>3, <2>4, <3>1, AskJoins
    <3> QED
      BY <1>1, <2>1, <3>1 DEF Safe, NestInv, Over
  <2> QED
    BY <2>3, <2>5, <2>6 DEF Safe
<1>3. CASE vm' = [vm EXCEPT !.errors = 2, !.life = "exited"] /\ UNCHANGED toEngine
  <2>1. /\ vm'.life = "exited" /\ vm.stack' = vm.stack /\ vm'.shutDown = vm.shutDown /\ Alive
        /\ UNCHANGED <<engine, toVM, toEngine, wrong, excuses>>
    BY <1>1, <1>3 DEF TypesInv, VMActs
  <2> QED
    BY <2>1 DEF Safe, StacksInv, FlagsInv, TurnInv, NestInv, Over, Alive, ShutdownInv,
                ReturnsMatch, ShutdownRuns, Excused
<1> QED
  BY <1>2, <1>3 DEF VMErrs

LEMMA VMCrashesStep ==
    ASSUME TypesInv, TypesInv', Safe, VMCrashes
    PROVE  Safe'
<1>1. /\ vm'.life = "crashed" /\ vm.stack' = vm.stack /\ vm'.shutDown = vm.shutDown /\ Alive
      /\ UNCHANGED <<engine, toVM, toEngine, wrong, excuses>>
  BY DEF VMCrashes, TypesInv
<1> QED
  BY <1>1 DEF Safe, StacksInv, FlagsInv, TurnInv, NestInv, Over, Alive, ShutdownInv,
              ReturnsMatch, ShutdownRuns, Excused

LEMMA UnchangedStep ==
    ASSUME Safe, UNCHANGED vars
    PROVE  Safe'
<1>1. UNCHANGED <<engine, vm, toVM, toEngine, wrong, excuses>>
  BY DEF vars
<1>2. StacksInv' /\ TurnInv'
  BY <1>1 DEF Safe, StacksInv, FlagsInv, TurnInv, VMActs, Alive
<1>3. NestInv'
  BY <1>1 DEF Safe, NestInv, Over
<1>4. ShutdownInv' /\ ReturnsMatch' /\ ShutdownRuns'
  BY <1>1 DEF Safe, ShutdownInv, ReturnsMatch, ShutdownRuns, Excused
<1> QED
  BY <1>2, <1>3, <1>4 DEF Safe

-----------------------------------------------------------------------------
\* The initial states satisfy the inductive invariant.
LEMMA InitIInv == Init => IInv
<1> SUFFICES ASSUME Init PROVE IInv
  OBVIOUS
<1>1. /\ engine.stack = <<>> /\ engine.canSync /\ engine.phase = "running"
      /\ vm.stack = <<>> /\ vm.shutDown = FALSE
      /\ toVM = <<>> /\ toEngine = <<>> /\ wrong = {}
  BY DEF Init
<1>2. TypesInv
  <2>1. 0 \in 0 .. 2
    OBVIOUS
  <2> QED
    BY <2>1 DEF Init, TypesInv, Phases
<1>3. Len(<<>>) = 0 /\ 1 .. 0 - 1 = {} /\ 1 .. 0 = {}
  OBVIOUS
<1>4. StacksInv /\ TurnInv
  BY <1>1, EmptyStacks DEF StacksInv, FlagsInv, TurnInv, EngineHolds
<1>5. NestInv
  <2>1. Joined(<<>>, vm.stack, toVM, toEngine)
    BY <1>1, <1>2, Fields, Unwinds DEF VMIdle
  <2> QED
    BY <1>1, <2>1 DEF NestInv
<1>6. ShutdownInv /\ ReturnsMatch /\ ShutdownRuns
  BY <1>1, <1>3 DEF ShutdownInv, ReturnsMatch, ShutdownRuns
<1> QED
  BY <1>2, <1>4, <1>5, <1>6 DEF IInv

\* Every step, and a stutter, keeps it.
LEMMA NextIInv == IInv /\ [Next]_vars => IInv'
<1> SUFFICES ASSUME IInv, [Next]_vars PROVE IInv'
  OBVIOUS
<1>1. TypesInv /\ TypesInv' /\ Safe
  BY TypesStep DEF IInv, Safe
<1>2. ASSUME EngineCalls \/ EngineReceivesReturn \/ EngineReceives \/ EngineReceivesError
      PROVE  Safe'
  BY <1>1, <1>2, EngineCallsStep, EngineReceivesReturnStep, EngineReceivesStep,
     EngineReceivesErrorStep
<1>3. ASSUME EngineFinishes \/ EngineDrops \/ EngineGivesUp PROVE Safe'
  BY <1>1, <1>3, EngineFinishesStep, EngineDropsStep, EngineGivesUpStep
<1>4. ASSUME EngineStops \/ EngineShutsDown \/ EngineFrees PROVE Safe'
  BY <1>1, <1>4, EngineStopsStep, EngineShutsDownStep, EngineFreesStep
<1>5. ASSUME VMReceives \/ VMReceivesReturn \/ VMAsks \/ VMNotes PROVE Safe'
  BY <1>1, <1>5, VMReceivesStep, VMReceivesReturnStep, VMAsksStep, VMNotesStep
<1>6. ASSUME VMFinishes \/ VMErrs \/ VMCrashes PROVE Safe'
  <2>1. CASE VMFinishes
    BY <1>1, <2>1, VMFinishesStep
  <2>2. CASE VMErrs
    BY <1>1, <2>2, VMErrsStep
  <2>3. CASE VMCrashes
    BY <1>1, <2>3, VMCrashesStep
  <2> QED
    BY <1>6, <2>1, <2>2, <2>3
<1>7. ASSUME UNCHANGED vars PROVE Safe'
  BY <1>1, <1>7, UnchangedStep
<1>8. Safe'
  BY <1>2, <1>3, <1>4, <1>5, <1>6, <1>7 DEF Next
<1> QED
  BY <1>1, <1>8 DEF IInv, Safe

\* So it holds in every behaviour.
LEMMA Invariant == Spec => []IInv
  BY InitIInv, NextIInv, PTL DEF Spec

-----------------------------------------------------------------------------
\* However deep the two programs call each other, and after whatever errors, a return
\* is taken for the call it is of, by both, until a call of the engine times out
\* (SendMsg and HandleMsg in CommonSyscalls, RecvMsg in VirtualMachine).
THEOREM Returns == Spec => []ReturnsMatch
<1>1. IInv => ReturnsMatch
  BY DEF IInv
<1> QED
  BY <1>1, Invariant, PTL

\* Whenever the engine waits for its VM and the VM for the engine, there is a message
\* on its way to one of them, after errors and time-outs as well.
THEOREM NoDeadlock == Spec => []NoMutualWait
<1>1. IInv => NoMutualWait
  <2> SUFFICES ASSUME IInv, Waits(engine.stack), Alive, ~VMActs
               PROVE  toVM # <<>> \/ toEngine # <<>>
    BY DEF NoMutualWait
  <2>1. ~EngineHolds(engine.stack)
    BY DEF EngineHolds, Waits, Last
  <2>2. toEngine = <<>> => 1 .. Len(toEngine) = {}
    OBVIOUS
  <2> QED
    BY <2>1, <2>2 DEF IInv, TurnInv
<1> QED
  BY <1>1, Invariant, PTL

\* A VM that has been freed has run its shutdown, unless a call timed out, the
\* shutdown itself met an error, or an error came from the handler of a message
\* without return (SV_ShutdownGameProgs, CL_ShutdownCGame, VMBase::Free).
THEOREM ShutdownNotForgotten == Spec => []ShutdownRuns
<1>1. IInv => ShutdownRuns
  BY DEF IInv
<1> QED
  BY <1>1, Invariant, PTL
=============================================================================
