---------------------------- MODULE MCSnapshots -----------------------------
(***************************************************************************)
(* Snapshots on a small instance: two worlds that differ by an entity that *)
(* appears before the others and one that changes, while another stays.    *)
(***************************************************************************)
EXTENDS Snapshots

MCWorlds == { <<Entity(2, 1), Entity(3, 1)>>,
              <<Entity(1, 1), Entity(2, 2), Entity(3, 1)>> }
=============================================================================
