---------------------------- MODULE MCSemPV ----------------------------
(***************************************************************************)
(* The semaphore program for TLC.                                          *)
(***************************************************************************)
EXTENDS SemPV
=============================================================================
