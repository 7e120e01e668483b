----------------------------- MODULE MCVmMemory -----------------------------
(***************************************************************************)
(* VmMemory for TLC.                                                       *)
(***************************************************************************)
EXTENDS VmMemory
=============================================================================
