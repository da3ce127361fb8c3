--------------------------- MODULE MCAgentCredential ---------------------------
(***************************************************************************)
(* The instance of AgentCredential for TLC.                                *)
(***************************************************************************)
EXTENDS AgentCredential
=============================================================================
