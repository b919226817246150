---------------------------- MODULE MCDualProcess ----------------------------
(***************************************************************************)
(* The two-process task for TLC.                                           *)
(***************************************************************************)
EXTENDS DualProcess
=============================================================================
