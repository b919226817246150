---------------------------- MODULE MCEchoServer ----------------------------
(***************************************************************************)
(* EchoServer, with the WorkQueue it is built on, for TLC.                 *)
(***************************************************************************)
EXTENDS EchoServer
=============================================================================
