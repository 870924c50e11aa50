-------------------------- MODULE MCSshSessionManager --------------------------
(* A small instance of one session manager for TLC.                        *)
EXTENDS SshSessionManager, TLC
=============================================================================
