-------------------------- MODULE MCPushConnection --------------------------
(***************************************************************************)
(* The instance of PushConnection that TLC checks is all in its .cfg.      *)
(***************************************************************************)
EXTENDS PushConnection

=============================================================================
