----------------------------- MODULE MCNetchan ------------------------------
(***************************************************************************)
(* Netchan on a small instance: fragments of two bytes, messages of one    *)
(* byte (sent whole), of an exact multiple of the fragment size and of     *)
(* one and two fragments and a bit.                                        *)
(***************************************************************************)
EXTENDS Netchan, MCMessages
=============================================================================
