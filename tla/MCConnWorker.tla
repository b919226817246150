---------------------------- MODULE MCConnWorker ----------------------------
(***************************************************************************)
(* ConnWorker for TLC.                                                     *)
(***************************************************************************)
EXTENDS ConnWorker
=============================================================================
