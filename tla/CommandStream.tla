--------------------------- MODULE CommandStream ----------------------------
(***************************************************************************)
(* What the command buffer promises the cgame: the engine executes every   *)
(* command once and in the order they were issued, while the cgame is      *)
(* running, and has executed all of them when a call that flushes the      *)
(* buffer returns.                                                         *)
(***************************************************************************)
EXTENDS Naturals, Sequences

CONSTANT Messages

VARIABLES runs, issued, executed

vars == <<runs, issued, executed>>

\* Who runs: the cgame, or the engine after a call that flushed or did not.
Init ==
    /\ runs = "engine"
    /\ issued = <<>> /\ executed = <<>>

Call ==
    /\ runs # "cgame" /\ runs' = "cgame"
    /\ UNCHANGED <<issued, executed>>

Issue(m) ==
    /\ runs = "cgame"
    /\ issued' = Append(issued, m)
    /\ UNCHANGED <<runs, executed>>

Execute ==
    /\ runs = "cgame" /\ Len(executed) < Len(issued)
    /\ executed' = Append(executed, issued[Len(executed) + 1])
    /\ UNCHANGED <<runs, issued>>

Return ==
    /\ runs = "cgame" /\ runs' = "engine"
    /\ UNCHANGED <<issued, executed>>

FlushAndReturn ==
    /\ runs = "cgame" /\ runs' = "flushed"
    /\ executed = issued
    /\ UNCHANGED <<issued, executed>>

Next ==
    \/ Call
    \/ \E m \in Messages : Issue(m)
    \/ Execute
    \/ Return
    \/ FlushAndReturn

Spec == Init /\ [][Next]_vars
=============================================================================
