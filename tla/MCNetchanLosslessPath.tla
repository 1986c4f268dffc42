----------------------- MODULE MCNetchanLosslessPath ------------------------
(***************************************************************************)
(* NetchanLosslessPath on a small instance.                                *)
(***************************************************************************)
EXTENDS NetchanLosslessPath, MCMessages
=============================================================================
