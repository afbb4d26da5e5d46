---------------------------- MODULE MCRemoteSync ----------------------------
(***************************************************************************)
(* RemoteSync with the values of MCRemoteSync.cfg.                         *)
(***************************************************************************)
EXTENDS RemoteSync
=============================================================================
