------------------------------ MODULE MCGcHeap ------------------------------
(***************************************************************************)
(* GcHeap for TLC.                                                         *)
(***************************************************************************)
EXTENDS GcHeap
=============================================================================
