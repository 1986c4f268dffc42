---------------------------- MODULE MCSvNetchan -----------------------------
(***************************************************************************)
(* SvNetchan on a small instance: a short message, an exact multiple of    *)
(* the fragment size and one that ends with part of a fragment.            *)
(***************************************************************************)
EXTENDS SvNetchan, MCMessages
=============================================================================
