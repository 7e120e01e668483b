-------------------------- MODULE MCFiberScheduler --------------------------
(***************************************************************************)
(* FiberScheduler and FiberTurns for TLC.                                  *)
(***************************************************************************)
EXTENDS FiberTurns
=============================================================================
