------------------------------ MODULE MCVotes -------------------------------
(* Votes for TLC: which of the clients is which makes no difference. *)
EXTENDS Votes

Symmetry == Permutations(Slots)
=============================================================================
