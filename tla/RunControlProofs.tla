-------------------------- MODULE RunControlProofs --------------------------
(***************************************************************************)
(* Proofs about RunControl, for any invocations, teams and phases: the     *)
(* flag that keeps others out is up exactly while a run nobody cancelled   *)
(* is at work, no run touches the handles of another, and a cancelled run  *)
(* launches nothing more while it is alone.                                *)
(*                                                                         *)
(* The properties are not inductive.  Two facts strengthen them: Handles,  *)
(* that what the host holds belongs to a run in a phase which has not been *)
(* cancelled, and Solo, that unless runs overlap the one in a phase is the *)
(* one started last, its signal is the one installed, and the cancel hook  *)
(* holds its controller.                                                   *)
(***************************************************************************)
EXTENDS RunControl, TLAPS

Unstarted == {"new", "picking", "typing"}

Handles ==
  /\ signal # NoRun => at[signal] = "phase"
  /\ runAbort # NoRun => at[runAbort] = "phase" /\ runAbort \notin cancelled
  /\ \A r \in cancelled : at[r] \in {"phase", "over"}

\* The run in a phase, if any, is the one started last; the flag, the signal and the
\* controller are its.
Solo ==
  ~overlap =>
    \/ InPhase = {} /\ ~running
    \/ /\ InPhase = {latest} /\ latest \in Runs /\ signal = latest
       /\ running <=> latest \notin cancelled
       /\ latest \notin cancelled => runAbort = latest /\ team = ranAs[latest]

Inv == ControlTypeOK /\ Handles /\ Solo

\* A step of a handler that has not called the core: it moves to a prompt, or returns.
Waits(r) ==
  /\ at[r] \in Unstarted
  /\ \E place \in {"picking", "typing", "over"} : Move(r, place)
  /\ outcome' \in [Runs -> Outcomes]
  /\ UNCHANGED <<running, signal, runAbort, latest, left, ranAs, overlap, cancelled, tool>>
  /\ want' \in [Runs -> Teams \cup {NoTeam}] /\ team' \in Teams \cup {NoTeam}
  /\ running => team' = team

\* ... that calls it.
Starts(r, roster) ==
  /\ at[r] \in Unstarted /\ ~running
  /\ Start(r, roster)
  /\ UNCHANGED cancelled /\ tool' \in SUBSET Runs
  /\ want' \in [Runs -> Teams \cup {NoTeam}]

\* ... of a phase that comes back.
Returns(r) ==
  /\ at[r] = "phase"
  /\ \/ \E how \in Outcomes : Over(r, how) /\ UNCHANGED left
     \/ /\ left[r] > 0 /\ ~SignalRaised /\ left' = [left EXCEPT ![r] = @ - 1]
        /\ UNCHANGED <<running, team, signal, runAbort, at, outcome>>
  /\ UNCHANGED <<cancelled, tool, want, ranAs, latest, overlap>>

\* ... of the cancel hook.
Cancels ==
  /\ InPhase # {}
  /\ \E who \in SUBSET InPhase : Kill(who)
  /\ UNCHANGED <<team, signal, at, tool, left, outcome, want, ranAs, latest, overlap>>

-----------------------------------------------------------------------------
\* Every step is one of the four kinds.
LEMMA StepKinds ==
  ASSUME ControlTypeOK, ControlNext
  PROVE  \E r \in Runs : \/ Waits(r) \/ Returns(r) \/ Cancels
                         \/ \E roster \in Teams \cup {NoTeam} : Starts(r, roster)
<1> USE DEF Unstarted, Outcomes
<1>1. ASSUME NEW r \in Runs, NEW t \in Teams, NEW typed \in BOOLEAN,
             at[r] \in {"new", "picking"}, ~running, StartOrPrompt(r, t, typed)
      PROVE  Waits(r) \/ Starts(r, t)
  <2>1. want' \in [Runs -> Teams \cup {NoTeam}]
    BY <1>1 DEF StartOrPrompt, Choose, ControlTypeOK
  <2>2. CASE typed
    BY <1>1, <2>1, <2>2 DEF StartOrPrompt, Starts, ControlTypeOK
  <2>3. CASE ~typed
    BY <1>1, <2>1, <2>3 DEF StartOrPrompt, Waits, Suspend, ControlTypeOK
  <2> QED
    BY <2>2, <2>3
<1>2. ASSUME NEW r \in Runs, NEW t \in Teams, NEW typed \in BOOLEAN,
             Command(r, t, typed) \/ Pick(r, t, typed)
      PROVE  Waits(r) \/ Starts(r, t)
  BY <1>1, <1>2 DEF Command, Pick
<1>3. ASSUME NEW r \in Runs, NEW t \in Teams \cup {NoTeam}, Tool(r, t)
      PROVE  Starts(r, t)
  <2>1. want' \in [Runs -> Teams \cup {NoTeam}]
    BY <1>3 DEF Tool, Choose, ControlTypeOK
  <2> QED
    BY <1>3, <2>1 DEF Tool, Starts, ControlTypeOK
<1>4. ASSUME NEW r \in Runs, CommandAsksTeam(r) \/ PickRefused(r) \/ PickDropped(r)
      PROVE  Waits(r)
  BY <1>4 DEF CommandAsksTeam, PickRefused, PickDropped, Suspend, Leave, Waits, ControlTypeOK
<1>5. ASSUME NEW r \in Runs, Submit(r)
      PROVE  Waits(r) \/ \E roster \in Teams \cup {NoTeam} : Starts(r, roster)
  <2>1. CASE running
    BY <1>5, <2>1 DEF Submit, Leave, Waits, ControlTypeOK
  <2>2. CASE ~running
    BY <1>5, <2>2 DEF Submit, Starts, ControlTypeOK
  <2> QED
    BY <2>1, <2>2
<1>6. ASSUME NEW r \in Runs, TypingDropped(r)
      PROVE  Waits(r)
  BY <1>6 DEF TypingDropped, Leave, Waits, ControlTypeOK
<1>7. ASSUME NEW r \in Runs, PhaseEnds(r)
      PROVE  Returns(r)
  <2>1. CASE PhaseOk(r)
    BY <2>1 DEF PhaseOk, Returns
  <2>2. CASE PhaseFails(r)
    BY <2>2 DEF PhaseFails, Returns
  <2> QED
    BY <1>7, <2>1, <2>2 DEF PhaseEnds
<1>8. ASSUME NEW r \in Runs, TurnAborted(r)
      PROVE  Cancels
  <2>1. {r} \in SUBSET InPhase /\ Kill({r})
    BY <1>8 DEF TurnAborted, InPhase
  <2> QED
    BY <1>8, <2>1 DEF TurnAborted, Cancels
<1>9. CASE EscapeCancel
  <2>1. Cancels
    BY <1>9 DEF EscapeCancel, Cancels
  <2>2. Runs # {}
    BY <1>9 DEF EscapeCancel, InPhase
  <2> QED
    BY <2>1, <2>2
<1> QED
  BY <1>2, <1>3, <1>4, <1>5, <1>6, <1>7, <1>8, <1>9 DEF ControlNext

\* The program starts with nothing running.
LEMMA InitInv == ControlInit => Inv
<1> SUFFICES ASSUME ControlInit PROVE Inv
  OBVIOUS
<1>1. /\ at \in [Runs -> Places] /\ outcome \in [Runs -> Outcomes] /\ left \in [Runs -> 0..Phases]
      /\ want \in [Runs -> Teams \cup {NoTeam}] /\ ranAs \in [Runs -> Teams \cup {NoTeam}]
  BY RunControlAssumption DEF ControlInit, Places, Outcomes
<1>2. ControlTypeOK
  BY <1>1 DEF ControlInit, ControlTypeOK
<1>3. InPhase = {} /\ Handles
  BY DEF ControlInit, InPhase, Handles
<1> QED
  BY <1>2, <1>3 DEF ControlInit, Inv, Solo

\* A handler that waits for the user, or returns at once, disturbs nothing.
LEMMA WaitsKeeps ==
  ASSUME Inv, NEW r \in Runs, Waits(r)
  PROVE  Inv'
<1>1. PICK place \in {"picking", "typing", "over"} : at' = [at EXCEPT ![r] = place]
  BY DEF Waits, Move
<1>2. at[r] \in Unstarted /\ at \in [Runs -> Places]
  BY DEF Waits, Inv, ControlTypeOK
<1>3. ControlTypeOK'
  BY <1>1 DEF Waits, Inv, ControlTypeOK, Places
<1>4. InPhase' = InPhase
  BY <1>1, <1>2 DEF InPhase, Unstarted
<1>5. Handles'
  BY <1>1, <1>2 DEF Waits, Inv, ControlTypeOK, Handles, Unstarted
<1>6. Solo'
  BY <1>4 DEF Waits, Inv, Solo
<1> QED
  BY <1>3, <1>5, <1>6 DEF Inv

\* A run that starts with nobody in a phase is alone; with somebody, they overlap.
LEMMA StartsKeeps ==
  ASSUME Inv, NEW r \in Runs, NEW roster \in Teams \cup {NoTeam}, Starts(r, roster)
  PROVE  Inv'
<1>1. at \in [Runs -> Places] /\ at[r] \in Unstarted /\ cancelled' = cancelled
  BY DEF Starts, Inv, ControlTypeOK
<1>2. r \notin cancelled /\ r # NoRun
  BY <1>1, RunControlAssumption DEF Inv, Handles, Unstarted
<1>3. overlap' = (InPhase # {})
  BY DEF Starts, Start
<1>4. CASE Launch(r, roster)
  <2>1. at' = [at EXCEPT ![r] = "phase"] /\ left' = [left EXCEPT ![r] = Phases - 1]
    BY <1>4 DEF Launch, Move
  <2>2. Phases - 1 \in 0..Phases
    BY RunControlAssumption
  <2>3. ControlTypeOK'
    BY <1>1, <1>3, <1>4, <2>1, <2>2 DEF Starts, Launch, Inv, ControlTypeOK, Places
  <2>4. Handles'
    BY <1>1, <1>2, <1>4, <2>1 DEF Launch, Inv, Handles, ControlTypeOK, Places
  <2>5. InPhase' = InPhase \cup {r}
    BY <1>1, <2>1 DEF InPhase
  <2>6. ranAs'[r] = roster /\ team' = roster
    BY <1>4 DEF Launch, Inv, ControlTypeOK
  <2>7. Solo'
    BY <1>1, <1>2, <1>3, <1>4, <2>5, <2>6 DEF Launch, Solo
  <2> QED
    BY <2>3, <2>4, <2>7 DEF Inv
<1>5. CASE TurnDown(r)
  <2>1. at' = [at EXCEPT ![r] = "over"]
    BY <1>5 DEF TurnDown, Move
  <2>2. ControlTypeOK'
    BY <1>1, <1>3, <1>5, <2>1 DEF Starts, TurnDown, Inv, ControlTypeOK, Places, Outcomes
  <2>3. Handles'
    BY <1>1, <1>2, <1>5, <2>1 DEF TurnDown, Inv, Handles, ControlTypeOK, Places
  <2>4. InPhase' = InPhase
    BY <1>1, <2>1 DEF InPhase, Unstarted
  <2>5. Solo'
    BY <1>3, <1>5, <2>4 DEF TurnDown, Solo
  <2> QED
    BY <2>2, <2>3, <2>5 DEF Inv
<1> QED
  BY <1>4, <1>5 DEF Starts, Start

\* A run that returns takes down its own handles.
LEMMA ReturnsKeeps ==
  ASSUME Inv, NEW r \in Runs, Returns(r)
  PROVE  Inv'
<1>1. at \in [Runs -> Places] /\ at[r] = "phase" /\ r # NoRun
  BY RunControlAssumption DEF Returns, Inv, ControlTypeOK
<1>2. ASSUME NEW how \in Outcomes, Over(r, how), UNCHANGED left
      PROVE  Inv'
  <2>1. at' = [at EXCEPT ![r] = "over"]
    BY <1>2 DEF Over, Move
  <2>2. ControlTypeOK'
    BY <1>1, <1>2, <2>1 DEF Returns, Over, Inv, ControlTypeOK, Places
  <2>3. Handles'
    BY <1>1, <1>2, <2>1 DEF Returns, Over, Inv, Handles, ControlTypeOK, Places
  <2>4. InPhase' = InPhase \ {r}
    BY <1>1, <2>1 DEF InPhase
  <2>5. r \in InPhase
    BY <1>1 DEF InPhase
  <2>6. Solo'
    BY <1>2, <2>4, <2>5 DEF Returns, Over, Inv, Solo
  <2> QED
    BY <2>2, <2>3, <2>6 DEF Inv
<1>3. ASSUME left[r] > 0, left' = [left EXCEPT ![r] = @ - 1],
             UNCHANGED <<running, team, signal, runAbort, at, outcome>>
      PROVE  Inv'
  <2>1. left[r] - 1 \in 0..Phases
    BY <1>3, RunControlAssumption DEF Inv, ControlTypeOK
  <2>2. ControlTypeOK'
    BY <1>3, <2>1 DEF Returns, Inv, ControlTypeOK
  <2> QED
    BY <1>3, <2>2 DEF Returns, Inv, Handles, Solo, InPhase
<1> QED
  BY <1>2, <1>3 DEF Returns

\* The cancel hook raises the signal of the run whose controller it holds.
LEMMA CancelsKeeps ==
  ASSUME Inv, Cancels
  PROVE  Inv'
<1>1. PICK who \in SUBSET InPhase : Kill(who)
  BY DEF Cancels
<1>2. /\ cancelled' = cancelled \cup who \cup ({runAbort} \ {NoRun})
      /\ runAbort' = NoRun /\ running' = FALSE /\ at' = at /\ InPhase' = InPhase
  BY <1>1 DEF Cancels, Kill, InPhase
<1>3. {runAbort} \ {NoRun} \subseteq InPhase /\ InPhase \subseteq Runs
  BY DEF Inv, ControlTypeOK, Handles, InPhase
<1>4. ControlTypeOK'
  BY <1>2, <1>3 DEF Cancels, Inv, ControlTypeOK
<1>5. Handles'
  BY <1>2, <1>3 DEF Cancels, Inv, Handles, InPhase
<1>6. Solo'
  <2>1. SUFFICES ASSUME ~overlap PROVE Solo'
    BY DEF Cancels, Solo
  <2>2. /\ InPhase = {latest} /\ latest \in Runs /\ signal = latest
        /\ latest \notin cancelled => runAbort = latest
    BY <2>1 DEF Cancels, Inv, Solo
  <2>3. latest \in cancelled'
    BY <1>2, <2>2, RunControlAssumption
  <2> QED
    BY <1>2, <2>2, <2>3 DEF Cancels, Solo
<1> QED
  BY <1>4, <1>5, <1>6 DEF Inv

\* Every step keeps the invariant.
LEMMA StepInv == Inv /\ [ControlNext]_controlVars => Inv'
<1> SUFFICES ASSUME Inv, [ControlNext]_controlVars PROVE Inv'
  OBVIOUS
<1>1. CASE ControlNext
  BY <1>1, StepKinds, WaitsKeeps, StartsKeeps, ReturnsKeeps, CancelsKeeps DEF Inv
<1>2. CASE UNCHANGED controlVars
  BY <1>2 DEF controlVars, Inv, ControlTypeOK, Handles, Solo, InPhase
<1> QED
  BY <1>1, <1>2

-----------------------------------------------------------------------------
\* The invariant holds of every behaviour.
LEMMA InvHolds == ControlSpec => []Inv
<1> QED
  BY InitInv, StepInv, PTL DEF ControlSpec

\* A state in which the invariant holds has the properties that speak of one state.
LEMMA InvImplies == Inv => ControlTypeOK /\ SignalReleased /\ TeamKept /\ RunningTruth
BY DEF Inv, Handles, Solo, SignalReleased, TeamKept, RunningTruth, Live, InPhase

\* The flag that keeps others out is up exactly while a run nobody cancelled is at work,
\* unless that run was started beside one that was still winding down.
THEOREM FlagIsTrue == ControlSpec => []RunningTruth
<1> QED
  BY InvHolds, InvImplies, PTL

\* A run that returns after another has started leaves the other's signal and
\* controller installed.
LEMMA NoDisarm ==
  ASSUME Inv, [ControlNext]_controlVars, NEW q \in Runs, NEW r \in Runs,
         q # r, at[q] = "phase", at'[q] = "over"
  PROVE  (signal = r => signal' = r) /\ (runAbort = r => runAbort' = r)
<1>1. at \in [Runs -> Places]
  BY DEF Inv, ControlTypeOK
<1>2. ASSUME NEW s \in Runs, Waits(s)
      PROVE  signal' = signal /\ runAbort' = runAbort
  BY <1>2 DEF Waits
<1>3. ASSUME NEW s \in Runs, NEW roster \in Teams \cup {NoTeam}, Starts(s, roster)
      PROVE  FALSE
  <2>1. at[s] \in Unstarted /\ \E place \in Places : at' = [at EXCEPT ![s] = place]
    BY <1>3 DEF Starts, Start, Launch, TurnDown, Move, Places
  <2> QED
    BY <1>1, <2>1 DEF Unstarted
<1>4. ASSUME NEW s \in Runs, Returns(s)
      PROVE  (signal = r => signal' = r) /\ (runAbort = r => runAbort' = r)
  <2>1. CASE s = q
    BY <1>4, <2>1 DEF Returns, Over
  <2>2. CASE s # q
    BY <1>1, <1>4, <2>2 DEF Returns, Over, Move
  <2> QED
    BY <2>1, <2>2
<1>5. CASE Cancels
  BY <1>5 DEF Cancels
<1>6. CASE UNCHANGED controlVars
  BY <1>6 DEF controlVars
<1> QED
  BY <1>2, <1>3, <1>4, <1>5, <1>6, StepKinds DEF Inv

\* A run touches no other run's handles: the host is released by the run that holds it,
\* the team is changed under no run, and no run disarms the cancel of another.
THEOREM HandsKeptOff == ControlSpec => HandsOff
<1>1. Inv /\ [ControlNext]_controlVars =>
        [\A q, r \in Runs :
           /\ q # r /\ at[q] = "phase" /\ at'[q] = "over"
           => /\ signal = r => signal' = r
              /\ runAbort = r => runAbort' = r]_controlVars
  BY NoDisarm
<1>2. ControlSpec => DisarmsOnlyItself
  BY <1>1, InvHolds, PTL DEF ControlSpec, DisarmsOnlyItself
<1>3. ControlSpec => [](ControlTypeOK /\ SignalReleased /\ TeamKept)
  BY InvHolds, InvImplies, PTL
<1> QED
  BY <1>2, <1>3, PTL DEF HandsOff
\* A step with no overlap launches no phase of a cancelled run: the run in a phase reads
\* its own signal.
LEMMA StepCancelHolds ==
  ASSUME Inv, [ControlNext]_controlVars, ~overlap
  PROVE  LaunchesNothing(cancelled)
<1> SUFFICES ASSUME NEW q \in cancelled PROVE left'[q] = left[q]
  BY DEF LaunchesNothing
<1> q \in Runs /\ at[q] \in {"phase", "over"} /\ left \in [Runs -> 0..Phases]
  BY DEF Inv, ControlTypeOK, Handles
<1>1. ASSUME NEW r \in Runs, Waits(r)
      PROVE  left'[q] = left[q]
  BY <1>1 DEF Waits
<1>2. ASSUME NEW r \in Runs, NEW roster \in Teams \cup {NoTeam}, Starts(r, roster)
      PROVE  left'[q] = left[q]
  BY <1>2 DEF Starts, Start, Launch, TurnDown, Unstarted
<1>3. ASSUME NEW r \in Runs, Returns(r)
      PROVE  left'[q] = left[q]
  <2>1. r = latest /\ signal = latest
    BY <1>3 DEF Returns, Inv, Solo, InPhase
  <2> QED
    BY <1>3, <2>1 DEF Returns, SignalRaised
<1>4. CASE Cancels
  BY <1>4 DEF Cancels
<1>5. CASE UNCHANGED controlVars
  BY <1>5 DEF controlVars
<1> QED
  BY <1>1, <1>2, <1>3, <1>4, <1>5, StepKinds DEF Inv

\* A cancelled run launches no further phase as long as nobody starts another one
\* before it has returned.
THEOREM CancelIsFinal == ControlSpec => CancelHoldsAlone
<1>1. Inv /\ [ControlNext]_controlVars => [~overlap => LaunchesNothing(cancelled)]_controlVars
  BY StepCancelHolds
<1> QED
  BY <1>1, InvHolds, PTL DEF ControlSpec, CancelHoldsAlone
=============================================================================
