---------------------------- MODULE MCAgentRuntime ----------------------------
(***************************************************************************)
(* Small instances of AgentRuntime for TLC. "deploy" stands for a billable *)
(* host tool that always asks, "fetch" for a network tool, "nonesuch" for  *)
(* a name the model invented.                                              *)
(***************************************************************************)
EXTENDS AgentRuntime

MCRisk == [tool \in Tools |->
    CASE tool = "write_file" -> "write"
      [] tool = "bash" -> "execute"
      [] tool = "fetch" -> "network"
      [] tool = "deploy" -> "billing"
      [] OTHER -> "read"]
==============================================================================
