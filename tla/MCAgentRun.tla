------------------------------ MODULE MCAgentRun ------------------------------
EXTENDS AgentRun

(* What AgentSession.build_task_contract asks for: nothing, or research.   *)
SessionContracts == {{}, {"research"}}
================================================================================
