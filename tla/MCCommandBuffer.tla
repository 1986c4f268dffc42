-------------------------- MODULE MCCommandBuffer ---------------------------
(***************************************************************************)
(* CommandBuffer on a small instance: commands that fill whole words, that *)
(* do not, that fill the ring, and that are too long for it.  Every byte   *)
(* differs from every other.                                               *)
(***************************************************************************)
EXTENDS CommandBuffer

CONSTANTS Lengths, Variants

MCByte(n, v, i) == [command |-> 10 * n + v, place |-> i]

MCBytes == { MCByte(n, v, i) : n \in Lengths, v \in Variants, i \in 0 .. Size - 1 }

MCCommand(n, v) == [length |-> n, data |-> [i \in 0 .. n - 1 |-> MCByte(n, v, i)]]

MCCommands == { MCCommand(n, v) : n \in Lengths, v \in Variants }
=============================================================================
