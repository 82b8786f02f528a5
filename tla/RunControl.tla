----------------------------- MODULE RunControl -----------------------------
(***************************************************************************)
(* Who may run a pipeline, and who can stop it: the /agent-workflow        *)
(* command, the run_agent_workflow tool and the escape-cancel hook of      *)
(* extensions/agent-workflow.ts, over the entry guard and the abort checks *)
(* of orchestrator-core.ts.                                                *)
(*                                                                         *)
(* All of them share one state object and one host: the flag st.running,   *)
(* the active team, the signal the core's checkAbort reads, and the        *)
(* controller the cancel hook aborts.  A handler is suspended while a      *)
(* picker or a prompt is open, and while a phase's sub-agent works; other  *)
(* handlers run in between.  A pipeline is only its phases here (Pipeline  *)
(* has them in full): `left` says how many are still to be launched.       *)
(***************************************************************************)
EXTENDS Integers

CONSTANTS
  Runs,     \* bound: the invocations of the command or the tool
  Teams,    \* team names
  Phases    \* bound: phases of a pipeline

NoTeam == "no team"
NoRun == "no run"

ASSUME RunControlAssumption ==
  /\ NoTeam \notin Teams /\ NoRun \notin Runs
  /\ Phases \in Nat \ {0}

VARIABLES
  running,   \* st.running
  team,      \* st.activeTeamName
  signal,    \* host.signal: the run whose signal is installed
  runAbort,  \* the run whose controller the cancel hook would abort
  cancelled, \* runs whose signal has been raised
  at,        \* where each invocation is
  tool,      \* invocations made by the tool, not by the command
  left,      \* phases each run has still to launch
  outcome,   \* how it ended
  want,      \* history: the team each invocation chose
  ranAs,     \* history: the team whose roster its pipeline was built from
  latest,    \* history: the run started last
  overlap    \* history: it was started while another was still in a phase

controlVars == <<running, team, signal, runAbort, cancelled, at, tool, left, outcome,
                 want, ranAs, latest, overlap>>

Places == {"new", "picking", "typing", "phase", "over"}
Outcomes == {"none", "refused", "dropped", "cancelled", "error", "done"}

ControlTypeOK ==
  /\ running \in BOOLEAN /\ team \in Teams \cup {NoTeam}
  /\ signal \in Runs \cup {NoRun} /\ runAbort \in Runs \cup {NoRun}
  /\ latest \in Runs \cup {NoRun} /\ overlap \in BOOLEAN
  /\ cancelled \in SUBSET Runs /\ tool \in SUBSET Runs
  /\ at \in [Runs -> Places] /\ outcome \in [Runs -> Outcomes]
  /\ left \in [Runs -> 0..Phases]
  /\ want \in [Runs -> Teams \cup {NoTeam}] /\ ranAs \in [Runs -> Teams \cup {NoTeam}]

ControlInit ==
  /\ running = FALSE /\ team = NoTeam /\ signal = NoRun /\ runAbort = NoRun
  /\ latest = NoRun /\ overlap = FALSE /\ cancelled = {} /\ tool = {}
  /\ at = [r \in Runs |-> "new"] /\ outcome = [r \in Runs |-> "none"]
  /\ left = [r \in Runs |-> 0]
  /\ want = [r \in Runs |-> NoTeam] /\ ranAs = [r \in Runs |-> NoTeam]

InPhase == {r \in Runs : at[r] = "phase"}

\* A picker or a prompt has the keyboard: nothing else can be typed meanwhile.
AtDialog == {r \in Runs : at[r] \in {"picking", "typing"}}

Move(r, place) == at' = [at EXCEPT ![r] = place]

Choose(r, t) == want' = [want EXCEPT ![r] = t]

(***************************************************************************)
(* From the last guard of a handler to its first phase there is no await:  *)
(* the checkpoint, the controller, host.signal, the core's own guard, the  *)
(* set-up and the launch happen in one stretch.                            *)
(***************************************************************************)
Launch(r, roster) ==
  /\ running' = TRUE /\ team' = roster
  /\ runAbort' = r /\ signal' = r /\ latest' = r
  /\ ranAs' = [ranAs EXCEPT ![r] = roster]
  /\ left' = [left EXCEPT ![r] = Phases - 1]
  /\ Move(r, "phase")
  /\ UNCHANGED outcome

\* The core refuses the request (no such agent, no plan, too short a brief): the
\* signal and the controller were installed, and are taken down again.
TurnDown(r) ==
  /\ running' = FALSE /\ team' = NoTeam
  /\ runAbort' = NoRun /\ signal' = NoRun
  /\ Move(r, "over") /\ outcome' = [outcome EXCEPT ![r] = "error"]
  /\ UNCHANGED <<latest, ranAs, left>>

Start(r, roster) ==
  /\ Launch(r, roster) \/ TurnDown(r)
  /\ overlap' = (InPhase # {})

\* Return without having called the core.
Leave(r, how) ==
  /\ Move(r, "over")
  /\ outcome' = [outcome EXCEPT ![r] = how]
  /\ UNCHANGED <<running, signal, runAbort, latest, left, ranAs, overlap>>

Suspend(r, place) ==
  /\ Move(r, place)
  /\ UNCHANGED <<running, signal, runAbort, latest, left, ranAs, outcome, overlap>>

StartOrPrompt(r, t, typed) ==
  /\ Choose(r, t)
  /\ IF typed THEN Start(r, t) ELSE Suspend(r, "typing") /\ team' = t
  /\ UNCHANGED <<cancelled, tool>>

\* The command with a team (named, or inferred from the request).
Command(r, t, typed) ==
  at[r] = "new" /\ AtDialog = {} /\ ~running /\ StartOrPrompt(r, t, typed)

CommandAsksTeam(r) ==
  /\ at[r] = "new" /\ AtDialog = {} /\ ~running
  /\ Suspend(r, "picking")
  /\ UNCHANGED <<team, cancelled, tool, want>>

PickUnchecked(r, t, typed) == at[r] = "picking" /\ StartOrPrompt(r, t, typed)

Pick(r, t, typed) == at[r] = "picking" /\ ~running /\ StartOrPrompt(r, t, typed)

PickRefused(r) ==
  /\ at[r] = "picking" /\ running
  /\ Leave(r, "refused")
  /\ UNCHANGED <<team, cancelled, tool, want>>

PickDropped(r) ==
  /\ at[r] = "picking"
  /\ Leave(r, "dropped")
  /\ UNCHANGED <<team, cancelled, tool, want>>

\* The request has been typed; the team was activated before the prompt.
Submit(r) ==
  /\ at[r] = "typing"
  /\ IF running THEN Leave(r, "refused") /\ UNCHANGED team ELSE Start(r, team)
  /\ UNCHANGED <<cancelled, tool, want>>

TypingDroppedAlways(r) ==
  /\ at[r] = "typing"
  /\ Leave(r, "dropped")
  /\ team' = NoTeam
  /\ UNCHANGED <<cancelled, tool, want>>

TypingDropped(r) ==
  /\ at[r] = "typing"
  /\ Leave(r, "dropped")
  /\ team' = IF running THEN team ELSE NoTeam
  /\ UNCHANGED <<cancelled, tool, want>>

\* The tool runs alone among tools (executionMode "sequential").
Tool(r, t) ==
  /\ at[r] = "new" /\ ~running /\ InPhase \cap tool = {}
  /\ Choose(r, t)
  /\ Start(r, t)
  /\ tool' = tool \cup {r}
  /\ UNCHANGED cancelled

(***************************************************************************)
(* A phase comes back.  checkAbort reads host.signal, whoever's it is.     *)
(***************************************************************************)
SignalRaised == signal \in cancelled

\* The signal stays installed after the run.
OverKeepsSignal(r, how) ==
  /\ running' = FALSE /\ team' = NoTeam
  /\ signal' = signal
  /\ runAbort' = IF runAbort = r THEN NoRun ELSE runAbort
  /\ Move(r, "over") /\ outcome' = [outcome EXCEPT ![r] = how]

\* Whoever's controller and signal are installed are taken down.
OverUnguarded(r, how) ==
  /\ running' = FALSE /\ team' = NoTeam
  /\ signal' = NoRun /\ runAbort' = NoRun
  /\ Move(r, "over") /\ outcome' = [outcome EXCEPT ![r] = how]

\* Return from the core and from the handler that awaited it.
Over(r, how) ==
  /\ running' = FALSE /\ team' = NoTeam
  /\ signal' = IF signal = r THEN NoRun ELSE signal
  /\ runAbort' = IF runAbort = r THEN NoRun ELSE runAbort
  /\ Move(r, "over") /\ outcome' = [outcome EXCEPT ![r] = how]

\* No abort check between two phases.
PhaseOkUnchecked(r) ==
  /\ at[r] = "phase"
  /\ \/ left[r] = 0 /\ Over(r, "done") /\ UNCHANGED left
     \/ /\ left[r] > 0
        /\ left' = [left EXCEPT ![r] = @ - 1]
        /\ UNCHANGED <<running, team, signal, runAbort, at, outcome>>
  /\ UNCHANGED <<cancelled, tool, want, ranAs, latest, overlap>>

PhaseOk(r) ==
  /\ at[r] = "phase"
  /\ \/ left[r] = 0 /\ Over(r, "done") /\ UNCHANGED left
     \/ left[r] > 0 /\ SignalRaised /\ Over(r, "cancelled") /\ UNCHANGED left
     \/ /\ left[r] > 0 /\ ~SignalRaised
        /\ left' = [left EXCEPT ![r] = @ - 1]
        /\ UNCHANGED <<running, team, signal, runAbort, at, outcome>>
  /\ UNCHANGED <<cancelled, tool, want, ranAs, latest, overlap>>

PhaseFails(r) ==
  /\ at[r] = "phase"
  /\ Over(r, IF SignalRaised THEN "cancelled" ELSE "error")
  /\ UNCHANGED <<cancelled, tool, left, want, ranAs, latest, overlap>>

(***************************************************************************)
(* Cancelling.  The hook aborts the current controller, kills every live   *)
(* sub-agent and clears the flag at once; the cancelled run's function is  *)
(* still suspended until its sub-agent is gone.                            *)
(***************************************************************************)
KillKeepsRunning(who) ==
  /\ cancelled' = cancelled \cup who \cup ({runAbort} \ {NoRun})
  /\ runAbort' = NoRun
  /\ UNCHANGED running

Kill(who) ==
  /\ cancelled' = cancelled \cup who \cup ({runAbort} \ {NoRun})
  /\ runAbort' = NoRun
  /\ running' = FALSE

EscapeCancel ==
  /\ InPhase # {}
  /\ Kill({})
  /\ UNCHANGED <<team, signal, at, tool, left, outcome, want, ranAs, latest, overlap>>

\* The turn of a tool call is aborted: its own signal is raised as well.
TurnAborted(r) ==
  /\ r \in tool /\ at[r] = "phase" /\ r \notin cancelled
  /\ Kill({r})
  /\ UNCHANGED <<team, signal, at, tool, left, outcome, want, ranAs, latest, overlap>>

PhaseEnds(r) == PhaseOk(r) \/ PhaseFails(r)

ControlNext ==
  \/ \E r \in Runs, t \in Teams, typed \in BOOLEAN : Command(r, t, typed) \/ Pick(r, t, typed)
  \/ \E r \in Runs, t \in Teams \cup {NoTeam} : Tool(r, t)
  \/ \E r \in Runs : \/ CommandAsksTeam(r) \/ PickRefused(r) \/ PickDropped(r)
                     \/ Submit(r) \/ TypingDropped(r)
                     \/ PhaseEnds(r) \/ TurnAborted(r)
  \/ EscapeCancel

ControlSpec == ControlInit /\ [][ControlNext]_controlVars

(***************************************************************************)
(* Properties.                                                             *)
(***************************************************************************)
Live == InPhase \ cancelled

\* The comment on the identity guards of both handlers: "clearing it would disarm
\* its escape-cancel".  A run that returns after another one has started leaves the
\* later run's signal and controller installed.
DisarmsOnlyItself ==
  [][\A q, r \in Runs :
       /\ q # r /\ at[q] = "phase" /\ at'[q] = "over"
       => /\ signal = r => signal' = r
          /\ runAbort = r => runAbort' = r]_controlVars

\* A run that is over has released the host: its signal is not left installed.
SignalReleased == signal # NoRun => at[signal] = "phase"

\* While a live run owns the dashboard, the active team is the one it was built
\* from: no handler that was suspended at a prompt changes it under the run.  (A run
\* that was cancelled and is still winding down does, when it returns.)
TeamKept == ~overlap /\ latest \in Live => team = ranAs[latest]

\* A run touches no other run's handles: the host is released by the run that holds it,
\* the team is changed under no run, and no run disarms the cancel of another.
HandsOff == [](ControlTypeOK /\ SignalReleased /\ TeamKept) /\ DisarmsOnlyItself

\* The comment on the entry guard: a refused start "can't trip the finally below
\* and clear the FIRST run's `running` flag".  While a run nobody cancelled is at
\* work, the flag that keeps others out is up, and it is up for no other reason,
\* unless that run was started beside one that was still winding down.
RunningTruth == ~overlap => (running <=> Live # {})

LaunchesNothing(S) == \A r \in S : left'[r] = left[r]

\* A cancelled run launches no further phase as long as nobody starts another one
\* before it has returned.
CancelHoldsAlone == [][~overlap => LaunchesNothing(cancelled)]_controlVars

\* The comment on the cancel hook: "Also stop the pipeline at its next
\* between-phase abort check".  A cancelled run launches no further phase, whatever
\* is started after it.
CancelHolds == [][LaunchesNothing(cancelled)]_controlVars

\* The comment on the team picker: "A team is selected per job: naming a team
\* selects it, otherwise the picker does".  A pipeline is built from the roster of
\* the team its own invocation chose.
RunsItsTeam == \A r \in InPhase : ranAs[r] = want[r]
=============================================================================
