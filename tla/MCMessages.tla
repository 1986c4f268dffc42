----------------------------- MODULE MCMessages -----------------------------
(***************************************************************************)
(* The messages the channel models are checked with: for each length,      *)
(* Variants messages of which every byte differs from every other, so that *)
(* no mixture of two messages passes for a third.                          *)
(***************************************************************************)
EXTENDS Naturals

CONSTANTS Lengths, Variants

MCBytes == 0 .. 299

MCMessage(n, v) ==
    [length |-> n, data |-> [i \in 0 .. n - 1 |-> 30 * n + 10 * v + i]]

MCMessageSet == { MCMessage(n, v) : n \in Lengths, v \in 0 .. Variants - 1 }
=============================================================================
