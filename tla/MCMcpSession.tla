---------------------------- MODULE MCMcpSession ----------------------------
(***************************************************************************)
(* McpSession for TLC: all three operations, with the constants of         *)
(* MCMcpSession.cfg.                                                       *)
(***************************************************************************)
EXTENDS McpSession
=============================================================================
