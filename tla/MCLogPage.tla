----------------------------- MODULE MCLogPage ------------------------------
(* Instances of LogPage small enough for TLC.                              *)
EXTENDS LogPage, TLC
=============================================================================
