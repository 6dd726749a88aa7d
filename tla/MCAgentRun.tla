------------------------------- MODULE MCAgentRun -------------------------------
(***************************************************************************)
(* Instances of AgentTools, and with it of AgentRun, for TLC.              *)
(***************************************************************************)
EXTENDS AgentTools
=============================================================================
