-------------------------- MODULE MCSshSessionRegistry --------------------------
(* Small instances of the bare registry for TLC.                           *)
EXTENDS SshSessionRegistry
=============================================================================
