---------------------------- MODULE MCAgentLink ----------------------------
(* AgentLink on a small instance; the constants are given in the cfg files. *)
EXTENDS AgentLink
=============================================================================
