----------------------------- MODULE IpcChannel -----------------------------
(***************************************************************************)
(* The engine and the process of a game module (the VM), which send each   *)
(* other messages over a pair of sockets.  The sender of a synchronous     *)
(* message waits for its return, and answers what the other one sends      *)
(* meanwhile: calls nest in both directions, and nothing in a return tells *)
(* which call it is of.  An error of the engine unwinds its stack while    *)
(* the VM is in the middle of something; the engine then shuts the VM down *)
(* and goes back to the menu.                                              *)
(*                                                                         *)
(* One VM is created, used and freed, as in a process of its own: a call   *)
(* that is not answered within two seconds fails.  The numbers of calls    *)
(* are not in the code, they are there to tell whose return is whose.      *)
(***************************************************************************)
EXTENDS Naturals, SequencesExt

CONSTANTS
    MaxCalls,       \* how many calls of the engine, at most
    MaxAsks         \* how many messages of the VM, at most

ASSUME BoundsAssumption == {MaxCalls, MaxAsks} \subseteq Nat

VARIABLES
    engine,         \* its stack, canSendSyncMsg, and how far the shutdown is
    vm,             \* its stack, errorEntered, and whether it runs
    toVM, toEngine, \* the two directions of the root socket
    calls, asks,    \* how many there have been
    wrong,          \* returns taken for the return of another call
    excuses         \* what went wrong on the side of the engine

vars == <<engine, vm, toVM, toEngine, calls, asks, wrong, excuses>>

\* Number of the engine's shutdown call, and of the VM's error message.
Special == 0

Init ==
    /\ engine = [stack |-> <<>>, canSync |-> TRUE, phase |-> "running"]
    /\ vm = [stack |-> <<>>, errors |-> 0, life |-> "alive", shutDown |-> FALSE]
    /\ toVM = <<>> /\ toEngine = <<>>
    /\ calls = 0 /\ asks = 0
    /\ wrong = {} /\ excuses = {}

Message(kind, id) == [kind |-> kind, id |-> id]

\* A program that has sent a synchronous message waits.
Waits(stack) == stack # <<>> /\ Last(stack).kind = "sent"

Sent(id) == [kind |-> "sent", id |-> id]

Alive == vm.life = "alive" /\ engine.phase # "freed"

-----------------------------------------------------------------------------
(* The engine. *)

\* HandleMsg restores the flags when the handler returns.
\* Mutant: it does not.
KeptFlag(saved) == engine.canSync

RestoredFlag(saved) == saved

\* An error: no destructor restores the flags.
\* Mutant: one does.
RestoredOnError ==
    LET saves == { i \in DOMAIN engine.stack : engine.stack[i].kind # "sent" }
    IN  IF saves = {} THEN engine.canSync
        ELSE engine.stack[CHOOSE i \in saves : \A j \in saves : i <= j].saved

FlagOnError == engine.canSync

\* Sys::Drop leaves every call for OnDrop, which stops the VM; an error in the
\* shutdown call is ignored (GameShutdown, CGameShutdown).
Unwound(flag) ==
    [stack |-> <<>>, canSync |-> flag, phase |-> IF engine.phase = "running" THEN "stop" ELSE "free"]

Drop(flag, excuse) ==
    /\ engine' = Unwound(flag)
    /\ excuses' = excuses \cup {excuse} \cup IF engine.phase = "stop" THEN {"in shutdown"} ELSE {}
    /\ UNCHANGED <<vm, toVM, calls, asks, wrong>>

\* The engine's own code runs: its frame, or the handler of a message.
InCode ==
    /\ ~Waits(engine.stack)
    /\ \/ engine.phase = "running"
       \/ engine.phase = "stop" /\ engine.stack # <<>>

\* SendMsg of a message that is synchronous, as all of the engine's are.
\* Mutant: it is not asked whether it may be sent.
MaySendAny == TRUE

MaySend == engine.canSync

EngineCalls ==
    /\ InCode
    /\ calls < MaxCalls /\ MaySend /\ Alive
    /\ calls' = calls + 1
    /\ engine' = [engine EXCEPT !.stack = Append(@, Sent(calls'))]
    /\ toVM' = Append(toVM, Message("call", calls'))
    /\ UNCHANGED <<vm, toEngine, asks, wrong, excuses>>

EngineHears(kinds) ==
    /\ Waits(engine.stack)
    /\ toEngine # <<>> /\ Head(toEngine).kind \in kinds
    /\ toEngine' = Tail(toEngine)

\* SendMsg gets a return, whichever it is, and is done.
EngineReceivesReturn ==
    /\ EngineHears({"return"})
    /\ engine' = [engine EXCEPT !.stack = Front(@), !.phase = IF @ = "stop" /\ Len(engine.stack) = 1
                                                              THEN "free" ELSE @]
    /\ wrong' = wrong \cup IF Last(engine.stack).id = Head(toEngine).id THEN {} ELSE {"engine"}
    /\ UNCHANGED <<vm, toVM, calls, asks, excuses>>

\* While it waits, it handles what the VM sends.
EngineReceives ==
    /\ EngineHears({"ask", "note"})
    /\ engine' = [engine EXCEPT
            !.stack = Append(@, [kind |-> Head(toEngine).kind, id |-> Head(toEngine).id,
                                 saved |-> engine.canSync]),
            !.canSync = Head(toEngine).kind = "ask"]
    /\ UNCHANGED <<vm, toVM, calls, asks, wrong, excuses>>

\* ErrorMsg, a synchronous message whose handler does nothing but drop.
EngineReceivesError ==
    /\ EngineHears({"error"})
    /\ Drop(TRUE, "error")

\* HandleMsg answers a synchronous message.
\* Mutant: only the outermost one.
AnswerToOutermost(frame) ==
    IF frame.kind = "ask" /\ Len(engine.stack) = 2 THEN <<Message("return", frame.id)>> ELSE <<>>

Answer(frame) == IF frame.kind = "ask" THEN <<Message("return", frame.id)>> ELSE <<>>

EngineFinishes ==
    /\ engine.stack # <<>> /\ ~Waits(engine.stack)
    /\ engine' = [engine EXCEPT !.stack = Front(@), !.canSync = RestoredFlag(Last(engine.stack).saved)]
    /\ toVM' = toVM \o Answer(Last(engine.stack))
    /\ UNCHANGED <<vm, toEngine, calls, asks, wrong, excuses>>

\* An error anywhere in the engine's own code, or a message that it must not send.
EngineDrops ==
    /\ InCode
    /\ Drop(FlagOnError, IF engine.stack # <<>> /\ Last(engine.stack).kind = "note"
                         THEN "in a note" ELSE "drop")
    /\ UNCHANGED toEngine

\* RecvMsg fails after two seconds, or when the socket is closed.
NothingToReceive == toEngine = <<>>

EngineGivesUp ==
    /\ Waits(engine.stack) /\ NothingToReceive
    /\ Drop(FlagOnError, IF Alive THEN "time-out" ELSE "closed")
    /\ UNCHANGED toEngine

\* SV_ShutdownGameProgs and CL_ShutdownCGame: at a change of level or a disconnect,
EngineStops ==
    /\ engine.phase = "running" /\ engine.stack = <<>>
    /\ engine' = [engine EXCEPT !.phase = "stop"]
    /\ UNCHANGED <<vm, toVM, toEngine, calls, asks, wrong, excuses>>

\* which first call the VM's own shutdown, when they may and the socket is open,
EngineShutsDown ==
    /\ engine.phase = "stop" /\ engine.stack = <<>>
    /\ IF MaySend /\ Alive
       THEN /\ engine' = [engine EXCEPT !.stack = <<Sent(Special)>>]
            /\ toVM' = Append(toVM, Message("call", Special))
       ELSE engine' = [engine EXCEPT !.phase = "free"] /\ UNCHANGED toVM
    /\ UNCHANGED <<vm, toEngine, calls, asks, wrong, excuses>>

\* and then free it (ID_EXIT, kill); a closed socket is an error there, which
\* OnDrop meets again and which is fatal.
EngineFrees ==
    /\ engine.phase = "free"
    /\ engine' = [engine EXCEPT !.phase = IF Alive THEN "freed" ELSE "fatal"]
    /\ UNCHANGED <<vm, toVM, toEngine, calls, asks, wrong, excuses>>

-----------------------------------------------------------------------------
(* The VM.  Its top level only receives (CommonInit). *)

VMActs == Alive /\ vm.stack # <<>> /\ ~Waits(vm.stack)

VMHears(kind) ==
    /\ Alive /\ ~VMActs
    /\ toVM # <<>> /\ Head(toVM).kind = kind
    /\ toVM' = Tail(toVM)

VMReceives ==
    /\ VMHears("call")
    /\ vm' = [vm EXCEPT !.stack = Append(@, Head(toVM))]
    /\ UNCHANGED <<engine, toEngine, calls, asks, wrong, excuses>>

VMReceivesReturn ==
    /\ VMHears("return") /\ vm.stack # <<>>
    /\ vm' = [vm EXCEPT !.stack = Front(@)]
    /\ wrong' = wrong \cup IF Last(vm.stack).id = Head(toVM).id THEN {} ELSE {"vm"}
    /\ UNCHANGED <<engine, toEngine, calls, asks, excuses>>

VMAsks ==
    /\ VMActs /\ asks < MaxAsks
    /\ asks' = asks + 1
    /\ vm' = [vm EXCEPT !.stack = Append(@, Sent(asks'))]
    /\ toEngine' = Append(toEngine, Message("ask", asks'))
    /\ UNCHANGED <<engine, toVM, calls, wrong, excuses>>

\* A message without a return.
VMNotes ==
    /\ VMActs /\ asks < MaxAsks
    /\ asks' = asks + 1
    /\ toEngine' = Append(toEngine, Message("note", asks'))
    /\ UNCHANGED <<engine, vm, toVM, calls, wrong, excuses>>

VMFinishes ==
    /\ VMActs
    /\ vm' = [vm EXCEPT !.stack = Front(@), !.shutDown = @ \/ Last(vm.stack).id = Special]
    /\ toEngine' = Append(toEngine, Message("return", Last(vm.stack).id))
    /\ UNCHANGED <<engine, toVM, calls, asks, wrong, excuses>>

\* Sys::Error: the VM after its first error, which has told the engine and waits.
\* Mutant: it exits.
Gone == [vm EXCEPT !.errors = @ + 1, !.life = "exited"]

Told == [vm EXCEPT !.errors = @ + 1, !.stack = Append(@, Sent(Special))]

VMErrs ==
    /\ VMActs
    /\ \/ /\ vm.errors = 0
          /\ vm' = Told
          /\ toEngine' = Append(toEngine, Message("error", Special))
       \/ /\ vm.errors > 0
          /\ vm' = [vm EXCEPT !.errors = 2, !.life = "exited"]
          /\ UNCHANGED toEngine
    /\ UNCHANGED <<engine, toVM, calls, asks, wrong, excuses>>

VMCrashes ==
    /\ Alive
    /\ vm' = [vm EXCEPT !.life = "crashed"]
    /\ UNCHANGED <<engine, toVM, toEngine, calls, asks, wrong, excuses>>

-----------------------------------------------------------------------------
Next ==
    \/ EngineCalls \/ EngineReceivesReturn \/ EngineReceives \/ EngineReceivesError
    \/ EngineFinishes \/ EngineDrops \/ EngineGivesUp
    \/ EngineStops \/ EngineShutsDown \/ EngineFrees
    \/ VMReceives \/ VMReceivesReturn \/ VMAsks \/ VMNotes \/ VMFinishes
    \/ VMErrs \/ VMCrashes

\* The engine goes on: its handlers return or fail, and its socket times out.
\* Nothing is asked of the VM.
Fairness ==
    /\ WF_vars(EngineReceivesReturn \/ EngineReceives \/ EngineReceivesError)
    /\ WF_vars(EngineFinishes)
    /\ WF_vars(EngineGivesUp)
    /\ WF_vars(EngineShutsDown)
    /\ WF_vars(EngineFrees)

Spec == Init /\ [][Next]_vars /\ Fairness

-----------------------------------------------------------------------------
(* Properties *)

\* The state is of its type.
TypeOK ==
    /\ engine.phase \in {"running", "stop", "free", "freed", "fatal"}
    /\ engine.canSync \in BOOLEAN
    /\ \A i \in DOMAIN engine.stack : engine.stack[i].kind \in {"sent", "ask", "note"}
    /\ \A i \in DOMAIN vm.stack : vm.stack[i].kind \in {"sent", "call"}
    /\ vm.errors \in 0 .. 2 /\ vm.life \in {"alive", "exited", "crashed"}
    /\ wrong \subseteq {"engine", "vm"}

\* Every return is taken for the call it is of, in both programs and at any depth,
\* as long as no call has timed out: an error of the engine in the middle of a call
\* leaves either a VM that waits, or a channel that the shutdown is not sent over.
ReturnsMatch == wrong # {} => "time-out" \in excuses

\* The two never wait for each other: while the engine waits and so does the VM,
\* there is a message for one of them, after errors and time-outs too.
NoMutualWait ==
    Waits(engine.stack) /\ Alive /\ ~VMActs => toVM # <<>> \/ toEngine # <<>>

\* An error that the VM reports ends with a VM that is freed and an engine that
\* goes on, unless the VM crashes or has another error in its shutdown.
ErrorEndsInMenu ==
    vm.errors = 1 ~> engine.phase = "freed" \/ vm.errors = 2 \/ vm.life = "crashed"

\* A VM that is freed has run its shutdown, which saves what is to be kept, but for
\* a time-out, an error during the shutdown, and an error of the engine while it
\* handled a message without return.
ShutdownRuns ==
    engine.phase = "freed" /\ ~vm.shutDown
    => excuses \cap {"time-out", "in shutdown", "in a note"} # {}

\* Expected, but not so: an error in a handler does not keep the VM from its
\* shutdown.  After one in the handler of a message without return the flag is
\* still off, and the shutdown call is an error of its own, which is ignored.
ShutdownRunsAfterDrop ==
    engine.phase = "freed" /\ ~vm.shutDown => excuses \cap {"time-out", "in shutdown"} # {}

\* Expected, but not so: an engine that gives up on a slow VM waits for its shutdown.
\* The late return of the call that timed out is taken for the one of the shutdown.
ShutdownIsAwaited == "engine" \notin wrong

\* Expected, but not so: the engine survives the crash of a VM and goes back to the
\* menu (System.cpp).  Freeing the VM sends to it, and that is an error in OnDrop.
CrashEndsInMenu == engine.phase # "fatal"
=============================================================================
