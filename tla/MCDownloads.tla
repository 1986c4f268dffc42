---------------------------- MODULE MCDownloads -----------------------------
(***************************************************************************)
(* Downloads on small instances: files shorter than the window, which the  *)
(* server may send as a whole, and files at least as long.                 *)
(***************************************************************************)
EXTENDS Downloads

MCShortFile == <<1>>
MCShortFiles == <<1, 1>>
MCLongFile == <<2>>
MCLongFiles == <<2, 3>>
MCLongerFiles == <<3, 4>>
=============================================================================
