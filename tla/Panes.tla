------------------------------- MODULE Panes -------------------------------
(***************************************************************************)
(* The viewer panes of dispatched agents (utils/workflow/pane-mux.ts,      *)
(* obs/obs-watch.ts and the spawn in workflow-core.ts): the process that   *)
(* spawns an agent may open a pane beside the terminal, in which a viewer  *)
(* of its own tails the event sink and shows the events of that agent.     *)
(***************************************************************************)
EXTENDS Naturals, Sequences

CONSTANTS DispatchIds, AgentOf, \* the dispatch ids and their agents
          PaneDepths,     \* what maxPaneDepth may be
          MaxSpawned       \* bound

ASSUME PanesAssumption == PaneDepths \subseteq Nat /\ MaxSpawned \in Nat

VARIABLES
  tty,     \* hasUI of the root: is there a terminal with a person at it
  limit,   \* maxPaneDepth, which the whole tree inherits
  kills,   \* can the multiplexer close a pane (zellij cannot)
  steered, \* busy: is the root at work on an injected prompt
  procs,   \* the processes started, the root first, each with its pane
  sink     \* the run's events of the spawned agents

panesVars == <<tty, limit, kills, steered, procs, sink>>

NoPane == [at |-> "none", pos |-> 0, lock |-> 0, shown |-> {}]
Process(call, by, depth, marked) ==
  [call |-> call, by |-> by, depth |-> depth, marked |-> marked, at |-> "running", said |-> 0, pane |-> NoPane]

PanesInit ==
  /\ tty \in BOOLEAN /\ limit \in PaneDepths /\ kills \in BOOLEAN /\ steered = FALSE /\ sink = <<>>
  /\ procs = <<Process("root", 0, 0, FALSE)>>

Running(p) == p > 0 /\ procs[p].at = "running"
PaneOpen(p) == procs[p].pane.at \notin {"none", "gone"}

-----------------------------------------------------------------------------
\* The root's prompt comes from its terminal, or from the bridge or the chat page.
Prompted ==
  /\ Running(1) /\ steered' = ~steered
  /\ UNCHANGED <<tty, limit, kills, procs, sink>>

\* panesReason: a spawned agent has no terminal and goes by the mark it was given.
PanesEnabled(p) == ((p = 1 /\ tty) \/ procs[p].marked) /\ procs[p].depth <= limit

\* subagentEnv: the mark is passed on, too.
\* Mutant: every child is told that panes are fine.
AlwaysMarked(p) == TRUE

MarksChild(p) == procs[p].marked \/ PanesEnabled(p)

Opens(p) == PanesEnabled(p) /\ ~(p = 1 /\ steered)

\* Mutant: the pane of a spawn that throws stays.
ClosedPaneLater(pane) == pane

ClosedPane(pane) == IF kills /\ pane.at # "none" THEN [pane EXCEPT !.at = "gone"] ELSE pane

\* A first attempt of a call or, by the same process, a retry.
MaySpawn(p, c) ==
  LET of == {q \in DOMAIN procs : procs[q].call = c}
  IN \A q \in of : procs[q].by = p /\ ~Running(q)

SpawnAgent(p, c) ==
  /\ Running(p) /\ MaySpawn(p, c) /\ Len(procs) <= MaxSpawned
  /\ \E opened \in {Opens(p), FALSE}, throws \in BOOLEAN :
       LET new == Process(c, p, procs[p].depth + 1, MarksChild(p))
           pane == IF opened THEN [NoPane EXCEPT !.at = "starting"] ELSE NoPane
       IN procs' = Append(procs, IF throws THEN [new EXCEPT !.at = "over", !.pane = ClosedPane(pane)]
                                           ELSE [new EXCEPT !.pane = pane])
  /\ UNCHANGED <<tty, limit, kills, steered, sink>>

\* session_start, which carries the dispatch id, and session_end.
EmitEvent(p) ==
  /\ p > 1 /\ Running(p) /\ procs[p].said < 2
  /\ procs' = [procs EXCEPT ![p].said = @ + 1]
  /\ sink' = Append(sink, [session |-> p, type |-> IF procs[p].said = 0 THEN "start" ELSE "end"])
  /\ UNCHANGED <<tty, limit, kills, steered>>

\* Done, failed or killed; the process that spawned it, if it lives, closes the pane.
Ends(p) ==
  /\ Running(p)
  /\ procs' = [procs EXCEPT ![p].at = "over",
                            ![p].pane = IF Running(procs[p].by) THEN ClosedPane(@) ELSE @]
  /\ UNCHANGED <<tty, limit, kills, steered, sink>>

-----------------------------------------------------------------------------
\* obs-watch.ts.

\* The viewer starts at the end of the file.
StartViewer(p) ==
  /\ procs[p].pane.at = "starting"
  /\ procs' = [procs EXCEPT ![p].pane.at = "watching", ![p].pane.pos = Len(sink)]
  /\ UNCHANGED <<tty, limit, kills, steered, sink>>

Agent(p) == AgentOf[procs[p].call]

\* Mutant: the first event of the agent's name.
LocksOnFirst(p, ev) == Agent(ev.session) = Agent(p)

Locks(p, ev) ==
  /\ Agent(ev.session) = Agent(p)
  /\ ev.type = "start" /\ procs[ev.session].call = procs[p].call

Watched(p, ev) ==
  LET pane == [procs[p].pane EXCEPT !.pos = @ + 1,
                                    !.lock = IF @ = 0 /\ Locks(p, ev) THEN ev.session ELSE @]
  IN IF ev.session # pane.lock THEN pane
     ELSE [pane EXCEPT !.shown = @ \cup {ev.session}, !.at = IF ev.type = "end" THEN "leaving" ELSE @]

OnLine(p) ==
  /\ procs[p].pane.at = "watching" /\ procs[p].pane.pos < Len(sink)
  /\ procs' = [procs EXCEPT ![p].pane = Watched(p, sink[procs[p].pane.pos + 1])]
  /\ UNCHANGED <<tty, limit, kills, steered, sink>>

\* A moment after session_end, or after a long silence of the whole run.
ExitViewer(p) ==
  /\ procs[p].pane.at \in {"watching", "leaving"}
  /\ procs[p].pane.at = "watching" => procs[p].pane.pos = Len(sink)
  /\ procs' = [procs EXCEPT ![p].pane.at = "gone"]
  /\ UNCHANGED <<tty, limit, kills, steered, sink>>

PanesNext ==
  \/ Prompted
  \/ \E p \in DOMAIN procs :
       \/ \E c \in DispatchIds : SpawnAgent(p, c)
       \/ EmitEvent(p) \/ Ends(p) \/ StartViewer(p) \/ OnLine(p) \/ ExitViewer(p)

PanesSpec == PanesInit /\ [][PanesNext]_panesVars

-----------------------------------------------------------------------------
(***************************************************************************)
(* Nobody's terminal is split on behalf of somebody who is not there: a    *)
(* tree of dispatches below a root without a terminal has no pane at any   *)
(* depth, and no tree has one deeper than the limit.                       *)
(***************************************************************************)
OnlyForItsUser ==
  \A p \in DOMAIN procs : PaneOpen(p) => tty /\ procs[procs[p].by].depth <= limit

(***************************************************************************)
(* A viewer shows one session only and it is one of its own dispatch, with *)
(* others of the same agent at work beside it and after a retry under the  *)
(* same id, and however late the viewer starts.                            *)
(***************************************************************************)
OwnLane ==
  \A p \in DOMAIN procs :
    procs[p].pane.shown \subseteq {q \in {procs[p].pane.lock} \ {0} : procs[q].call = procs[p].call}

(***************************************************************************)
(* Where panes can be closed, one is open only while its agent runs, or    *)
(* once the process that would have closed it is dead itself.              *)
(***************************************************************************)
ClosedWithItsAgent ==
  \A p \in DOMAIN procs : kills /\ PaneOpen(p) => Running(p) \/ ~Running(procs[p].by)

PanesHold == OnlyForItsUser /\ OwnLane /\ ClosedWithItsAgent
=============================================================================
