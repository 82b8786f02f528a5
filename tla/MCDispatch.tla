----------------------------- MODULE MCDispatch -----------------------------
(***************************************************************************)
(* Dispatch with two agents that both dispatch, so that a chain could      *)
(* close on itself; the ceilings are dispatch switched off, the default,   *)
(* and what run.sh sets.                                                   *)
(***************************************************************************)
EXTENDS Dispatch

CONSTANTS implementer, coordinator

MCAgents == {implementer, coordinator}
Symmetric == Permutations(MCAgents)
=============================================================================
