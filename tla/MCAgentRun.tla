----------------------------- MODULE MCAgentRun -----------------------------
(***************************************************************************)
(* AgentRun with two retries in place, the default: with one there is no   *)
(* difference between a counter that counts and a flag.                    *)
(***************************************************************************)
EXTENDS AgentRun
=============================================================================
