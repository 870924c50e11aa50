-------------------------- MODULE MCSshSessionService --------------------------
(* Small instances of the session service for TLC.                         *)
EXTENDS SshSessionService
=============================================================================
