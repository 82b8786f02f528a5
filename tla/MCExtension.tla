---------------------------- MODULE MCExtension -----------------------------
(***************************************************************************)
(* The agent-workflow extension, one part per behaviour: its runs as in    *)
(* MCRunControl, an agent call as in MCAgentRun, the panes that dispatches *)
(* get beside the terminal, or the widget.  The parts share no state here; *)
(* the parts not picked have one initial state.                            *)
(***************************************************************************)
EXTENDS MCRunControl, MCAgentRun, Panes, StatusPanel

VARIABLE part

\* Panes: two dispatches of one agent.
MCDispatchIds == {"worker-1", "worker-2"}
MCAgentOf == [c \in MCDispatchIds |-> "worker"]

\* StatusPanel.
MCAgents == <<"i", "v", "r">>

MCInit ==
  /\ part \in {"control", "call", "panes", "panel"}
  /\ ControlInit
  /\ Init /\ (part # "call" => ~dispatched /\ ~distinct /\ ~stallGuard /\ ~timeLimit /\ pi = "alive")
  /\ PanesInit /\ (part # "panes" => tty /\ kills /\ limit = 0)
  /\ PanelInit /\ (part # "panel" => full /\ rows = (CHOOSE r \in Heights : TRUE) /\ todos.total = 0)

MCNext ==
  /\ UNCHANGED part
  /\ \/ part = "control" /\ ControlNext /\ UNCHANGED <<vars, panesVars, panelVars>>
     \/ part = "call" /\ Next /\ UNCHANGED <<controlVars, panesVars, panelVars>>
     \/ part = "panes" /\ PanesNext /\ UNCHANGED <<controlVars, vars, panelVars>>
     \/ part = "panel" /\ PanelNext /\ UNCHANGED <<controlVars, vars, panesVars>>

\* Fairness is the call's: of the other parts only safety is asked.
MCSpec == MCInit /\ [][MCNext]_<<part, controlVars, vars, panesVars, panelVars>> /\ Fairness
=============================================================================
