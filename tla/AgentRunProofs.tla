--------------------------- MODULE AgentRunProofs ----------------------------
(***************************************************************************)
(* What holds of AgentRun for every retry limit, with any of the watchdogs *)
(* on or off, and of the Panes that dispatches get, for any tree of        *)
(* processes.                                                              *)
(***************************************************************************)
EXTENDS AgentRun, Panes, TLAPS

-----------------------------------------------------------------------------
\* The call of an agent.

(***************************************************************************)
(* Types.                                                                  *)
(***************************************************************************)
\* The initial state is well typed.
LEMMA TypeInit == Init => TypeOK
<1> SUFFICES ASSUME Init PROVE TypeOK
    OBVIOUS
<1>1. CallType
  <2>1. tries \in 0..MaxTransient /\ round \in {1, 2} /\ spawns \in Nat
        BY AgentRunAssumption DEF Init
  <2> QED
      BY <2>1, Zenon DEF Init, CallType
<1>2. FlagType
      BY Zenon DEF Init, FlagType
<1>3. ChildType
      BY DEF Init, ChildType, Texts
<1> QED
    BY <1>1, <1>2, <1>3 DEF TypeOK

\* A new child is well typed.
LEMMA SpawnType == Spawn => FlagType' /\ ChildType'
<1> SUFFICES ASSUME Spawn PROVE FlagType' /\ ChildType'
    OBVIOUS
<1>1. FlagType'
      BY Zenon DEF Spawn, FlagType
<1>2. ChildType'
      BY DEF Spawn, ChildType, Texts
<1> QED
    BY <1>1, <1>2

\* Every step keeps the types.
LEMMA TypeStep == TypeOK /\ [Next]_vars => TypeOK'
<1> SUFFICES ASSUME TypeOK, [Next]_vars PROVE TypeOK'
    OBVIOUS
<1> USE DEF caller, retry, child
<1>1. CallType'
  <2> USE AgentRunAssumption DEF TypeOK, CallType
  <2>1. CASE Close
        BY <2>1 DEF Close, Spawn, RetryInPlace, Result
  <2>2. CASE WakesUp
        BY <2>2 DEF WakesUp, Spawn
  <2>3. CASE Cancel
        BY <2>3 DEF Cancel
  <2>4. CASE UNCHANGED <<pc, caller, retry, aborted, result, spawns>>
        BY <2>4
  <2> QED
      BY <2>1, <2>2, <2>3, <2>4 DEF Next, vars, StartsTool, FallsSilent, ToolEnds,
         PiExits, TimesOut, Stalls, Escalate
<1>2. CASE Close \/ WakesUp
      BY <1>1, <1>2, SpawnType DEF TypeOK, FlagType, ChildType, Close, WakesUp
<1>3. CASE PiExits \/ Escalate
  <2>1. FlagType'
        BY <1>3 DEF TypeOK, FlagType, PiExits, Escalate
  <2>2. ChildType'
        BY <1>3 DEF TypeOK, ChildType, PiExits, Escalate
  <2> QED
      BY <1>1, <2>1, <2>2 DEF TypeOK
<1>4. CASE StartsTool \/ FallsSilent \/ ToolEnds \/ TimesOut \/ Stalls \/ Cancel
  <2>1. FlagType'
        BY <1>4 DEF TypeOK, FlagType, StartsTool, FallsSilent, ToolEnds, TimesOut, Stalls,
           Cancel
  <2>2. ChildType'
        BY <1>4 DEF TypeOK, ChildType, StartsTool, FallsSilent, ToolEnds, TimesOut, Stalls,
           Cancel
  <2> QED
      BY <1>1, <2>1, <2>2 DEF TypeOK
<1>5. CASE UNCHANGED vars
      BY <1>1, <1>5 DEF TypeOK, FlagType, ChildType, vars
<1> QED
    BY <1>2, <1>3, <1>4, <1>5 DEF Next

\* Every reachable state is well typed.
THEOREM TypeCorrect == Spec => []TypeOK
<1> QED
    BY TypeInit, TypeStep, PTL DEF Spec

(***************************************************************************)
(* The budget.  What has been spent is known from where the loops are: a   *)
(* full set of attempts for every round and model already left, and the    *)
(* tries of the current one; a retry that is still asleep is counted but   *)
(* not yet started.                                                        *)
(***************************************************************************)
LeftBehind ==
  (IF round = 1 THEN 0 ELSE 2 * Attempts) + (IF model = "primary" THEN 0 ELSE Attempts)

Spent == spawns <= LeftBehind + tries + (IF pc = "sleep" THEN 0 ELSE 1)

\* The first child is the first attempt.
LEMMA SpentInit == Init => Spent
BY AgentRunAssumption DEF Init, Spent, LeftBehind, Attempts

\* Every step keeps the account.
LEMMA SpentStep == TypeOK /\ Spent /\ [Next]_vars => Spent'
<1> SUFFICES ASSUME TypeOK, Spent, [Next]_vars PROVE Spent'
    OBVIOUS
<1> USE AgentRunAssumption DEF TypeOK, CallType, Spent, LeftBehind, Attempts, retry, caller, child
<1>1. CASE Close
  <2>1. CASE RetryInPlace /\ pc' = "sleep" /\ tries' = tries + 1
                /\ UNCHANGED <<round, model, spawns>>
        BY <1>1, <2>1 DEF Close, Reported
  <2>2. CASE FallBack /\ model' = "fallback" /\ tries' = 0 /\ Spawn /\ UNCHANGED round
        BY <1>1, <2>2 DEF Close, Reported, FallBack, Spawn
  <2>3. CASE EmptyRetry /\ round' = 2 /\ model' = "primary" /\ tries' = 0 /\ Spawn
        BY <1>1, <2>3 DEF Close, Reported, EmptyRetry, Spawn
  <2>4. CASE pc' = "done" /\ UNCHANGED <<round, model, tries, spawns>>
        BY <1>1, <2>4 DEF Close, Reported
  <2> QED
      BY <1>1, <2>1, <2>2, <2>3, <2>4 DEF Close
<1>2. CASE WakesUp
      BY <1>2 DEF WakesUp, Spawn
<1>3. CASE UNCHANGED <<pc, round, model, tries, spawns>>
      BY <1>3
<1> QED
    BY <1>1, <1>2, <1>3 DEF Next, vars, StartsTool, FallsSilent, ToolEnds, PiExits,
       TimesOut, Stalls, Cancel, Escalate

\* A call starts at most 2 (MaxTransient + 1) children, twice as many for a dispatch
\* that came back empty.
THEOREM BudgetHolds == Spec => []SpawnBudget
<1>1. TypeOK /\ Spent => SpawnBudget
      BY AgentRunAssumption DEF TypeOK, CallType, Spent, LeftBehind, SpawnBudget, Attempts
<1> QED
    BY TypeInit, TypeStep, SpentInit, SpentStep, <1>1, PTL DEF Spec

(***************************************************************************)
(* Results and retries.                                                    *)
(***************************************************************************)
\* Between two children nothing of the last one is left; a result is final; and a child
\* that could not be started has not succeeded.
Settled ==
  /\ pc # "await" => pi # "alive" /\ ~held
  /\ result # "none" => pc = "done"
  /\ pi = "none" => code = 1
  /\ OkMeansFinished

\* Settled holds initially.
LEMMA SettledInit == Init => Settled
BY DEF Init, Settled, OkMeansFinished

\* Every step keeps it: nothing touches a child that has been reported.
LEMMA SettledStep == TypeOK /\ Settled /\ [Next]_vars => Settled'
<1> SUFFICES ASSUME TypeOK, Settled, [Next]_vars PROVE Settled'
    OBVIOUS
<1> USE DEF TypeOK, CallType, FlagType, ChildType, Settled, OkMeansFinished, caller, retry, child
<1>1. CASE Close
  <2>1. CASE pc' = "done" /\ result' = Result /\ UNCHANGED child
        BY <1>1, <2>1 DEF Close, Reported, Result, Failed
  <2>2. CASE RetryInPlace /\ pc' = "sleep" /\ UNCHANGED <<child, result>>
        BY <1>1, <2>2 DEF Close, Reported
  <2>3. CASE Spawn /\ UNCHANGED result
        BY <1>1, <2>3 DEF Close, Reported, Spawn
  <2> QED
      BY <1>1, <2>1, <2>2, <2>3 DEF Close
<1>2. CASE WakesUp
      BY <1>2 DEF WakesUp, Spawn
<1>3. CASE PiExits
      BY <1>3 DEF PiExits
<1>4. CASE Escalate
      BY <1>4 DEF Escalate
<1>5. CASE TimesOut \/ Stalls \/ Cancel
      BY <1>5 DEF TimesOut, Stalls, Cancel
<1>6. CASE StartsTool \/ FallsSilent \/ ToolEnds
      BY <1>6 DEF StartsTool, FallsSilent, ToolEnds
<1>7. CASE UNCHANGED vars
      BY <1>7 DEF vars
<1> QED
    BY <1>1, <1>2, <1>3, <1>4, <1>5, <1>6, <1>7 DEF Next

\* Only a child that ended by itself, in time and with success makes a good result.
THEOREM OkIsFinished == Spec => []OkMeansFinished
<1>1. Settled => OkMeansFinished
      BY DEF Settled
<1> QED
    BY TypeInit, TypeStep, SettledInit, SettledStep, <1>1, PTL DEF Spec

\* A failed child of a cancelled call is neither retried nor replaced.
THEOREM KilledIsFinal == Spec => KilledStaysDead
<1>1. ASSUME [Next]_vars, aborted, pc = "await", Failed
      PROVE  spawns' = spawns /\ pc' # "sleep"
  <2>1. CASE Close
    <3>1. ~RetryInPlace /\ ~FallBack /\ ~EmptyRetry
          BY <1>1 DEF RetryInPlace, FallBack, EmptyRetry, LooksEmpty
    <3> QED
        BY <1>1, <2>1, <3>1 DEF Close
  <2>2. CASE WakesUp
        BY <1>1, <2>2 DEF WakesUp
  <2>3. CASE UNCHANGED <<pc, spawns>>
        BY <1>1, <2>3
  <2> QED
      BY <1>1, <2>1, <2>2, <2>3 DEF Next, vars, StartsTool, FallsSilent, ToolEnds,
         PiExits, TimesOut, Stalls, Cancel, Escalate
<1>2. [Next]_vars => [aborted /\ pc = "await" /\ Failed
                        => spawns' = spawns /\ pc' # "sleep"]_vars
      BY <1>1
<1> QED
    BY <1>2, PTL DEF Spec, KilledStaysDead

\* Children follow each other: none is started, and no result given, while the one
\* before runs or its pipes are held.
THEOREM ChildrenInTurn == Spec => OneChildAtATime
<1>1. TypeOK /\ Settled /\ [Next]_vars
        => [spawns' # spawns \/ pc' # pc => pi # "alive" /\ ~held]_vars
  <2> SUFFICES ASSUME Settled, Next, spawns' # spawns \/ pc' # pc
               PROVE  pi # "alive" /\ ~held
      OBVIOUS
  <2>1. Close \/ WakesUp
        BY DEF Next, StartsTool, FallsSilent, ToolEnds, PiExits, TimesOut, Stalls, Cancel,
           Escalate
  <2> QED
      BY <2>1 DEF Close, Reported, WakesUp, Settled
<1> QED
    BY TypeInit, TypeStep, SettledInit, SettledStep, <1>1, PTL DEF Spec, OneChildAtATime

-----------------------------------------------------------------------------
\* The panes.

(***************************************************************************)
(* The panes.  What is never undone: a process keeps its call, its parent, *)
(* its depth and its mark, and once over stays over; and only a first      *)
(* event of a lane of the same dispatch gives a viewer its lane.           *)
(***************************************************************************)
PaneType ==
  [at : {"none", "starting", "watching", "leaving", "gone"}, pos : Nat, lock : Nat, shown : SUBSET Nat]

ProcType ==
  [call : DispatchIds \cup {"root"}, by : Nat, depth : Nat, marked : BOOLEAN,
   at : {"running", "over"}, said : Nat, pane : PaneType]

PanesTypeOK ==
  /\ tty \in BOOLEAN /\ limit \in Nat /\ kills \in BOOLEAN /\ steered \in BOOLEAN
  /\ procs \in Seq(ProcType)
  /\ sink \in Seq([session : Nat, type : {"start", "end"}])

Parent(p) == procs[p].by

\* A pane is by the leave of somebody at the terminal, at most as deep as the limit.
PaneAllowed ==
  \A p \in DOMAIN procs :
    /\ procs[p].marked => tty
    /\ Parent(p) < p
    /\ procs[p].pane.at # "none" => tty /\ Parent(p) > 0 /\ procs[Parent(p)].depth <= limit

LaneOwned ==
  \A p \in DOMAIN procs :
    /\ procs[p].pane.shown \subseteq {procs[p].pane.lock} \ {0}
    /\ procs[p].pane.lock # 0 => /\ procs[p].pane.lock \in DOMAIN procs
                                 /\ procs[procs[p].pane.lock].call = procs[p].call

SpeakersExist == \A i \in DOMAIN sink : sink[i].session \in DOMAIN procs

PanesInv == PanesTypeOK /\ PaneAllowed /\ LaneOwned /\ SpeakersExist /\ ClosedWithItsAgent

\* The root is the one process, without a pane.
LEMMA PanesInitInv == PanesInit => PanesInv
<1> SUFFICES ASSUME PanesInit PROVE PanesInv
  OBVIOUS
<1> DEFINE r == Process("root", 0, 0, FALSE)
<1>1. r \in ProcType /\ r.by = 0 /\ r.marked = FALSE /\ r.pane.at = "none" /\ r.pane.lock = 0
      /\ r.pane.shown = {}
  BY DEF Process, ProcType, PaneType, NoPane
<1>2. procs = <<r>>
  BY DEF PanesInit
<1> HIDE DEF r
<1>3. procs \in Seq(ProcType) /\ DOMAIN procs = {1} /\ procs[1] = r
  BY <1>1, <1>2
<1>4. sink = <<>> /\ sink \in Seq([session : Nat, type : {"start", "end"}]) /\ DOMAIN sink = {}
  BY DEF PanesInit
<1>5. PanesTypeOK /\ SpeakersExist
  BY <1>3, <1>4, PanesAssumption DEF PanesInit, PanesTypeOK, SpeakersExist
<1> QED
  BY <1>1, <1>3, <1>5 DEF PanesInv, PaneAllowed, LaneOwned, ClosedWithItsAgent, PaneOpen, Parent

\* One process changes, in what it says or in its pane, or it ends.
OneChanges(p) ==
  /\ UNCHANGED <<tty, limit, kills, steered>>
  /\ procs' \in Seq(ProcType) /\ Len(procs') = Len(procs)
  /\ \A q \in DOMAIN procs \ {p} : procs'[q] = procs[q]
  /\ procs'[p].call = procs[p].call /\ procs'[p].by = procs[p].by
  /\ procs'[p].depth = procs[p].depth /\ procs'[p].marked = procs[p].marked
  /\ procs[p].at = "over" => procs'[p].at = "over"
  /\ procs'[p].pane.at # "none" => procs[p].pane.at # "none"
  /\ procs'[p].pane.at \notin {"none", "gone"} => PaneOpen(p)

\* Whatever that change is, if the lane of its viewer is one of its own call.
LEMMA OneKeeps ==
  ASSUME PanesInv, NEW p \in DOMAIN procs, OneChanges(p), UNCHANGED sink,
         procs'[p].pane.shown \subseteq {procs'[p].pane.lock} \ {0},
         procs'[p].pane.lock # 0 => /\ procs'[p].pane.lock \in DOMAIN procs
                                    /\ procs[procs'[p].pane.lock].call = procs[p].call,
         procs[p].at = procs'[p].at
  PROVE  PanesInv'
<1>1. /\ DOMAIN procs' = DOMAIN procs /\ p > 0
      /\ \A q \in DOMAIN procs : q \in Nat /\ procs'[q] \in ProcType /\ procs[q] \in ProcType
  BY DEF OneChanges, PanesInv, PanesTypeOK
<1>2. PanesTypeOK' /\ SpeakersExist'
  BY <1>1 DEF OneChanges, PanesInv, PanesTypeOK, SpeakersExist
<1>3. \A q \in DOMAIN procs : /\ procs'[q].call = procs[q].call /\ procs'[q].by = procs[q].by
                              /\ procs'[q].depth = procs[q].depth /\ procs'[q].marked = procs[q].marked
                              /\ procs'[q].at = procs[q].at
                              /\ (procs'[q].pane.at # "none" => procs[q].pane.at # "none")
                              /\ (PaneOpen(q)' => PaneOpen(q))
  BY DEF OneChanges, PaneOpen
<1>4. \A q \in DOMAIN procs : Parent(q) < q /\ Parent(q) \in Nat
  BY <1>1 DEF PanesInv, PaneAllowed, Parent, ProcType
<1>5. \A q \in DOMAIN procs : Parent(q) > 0 => Parent(q) \in DOMAIN procs
  BY <1>1, <1>4 DEF PanesInv, PanesTypeOK
<1>6. PaneAllowed'
  BY <1>1, <1>3, <1>4, <1>5 DEF PanesInv, PaneAllowed, Parent, OneChanges
<1>7. LaneOwned'
  BY <1>1, <1>3 DEF PanesInv, LaneOwned, OneChanges
<1>8. ClosedWithItsAgent'
  BY <1>1, <1>3, <1>4, <1>5 DEF PanesInv, ClosedWithItsAgent, Running, Parent, OneChanges
<1> QED
  BY <1>2, <1>6, <1>7, <1>8 DEF PanesInv

\* A step that leaves every process as it is, but for what somebody says.
LEMMA SinkKeeps ==
  ASSUME PanesInv, NEW p \in DOMAIN procs, EmitEvent(p)
  PROVE  PanesInv'
<1> DEFINE ev == [session |-> p, type |-> IF procs[p].said = 0 THEN "start" ELSE "end"]
<1>1. /\ procs' = [procs EXCEPT ![p].said = @ + 1] /\ sink' = Append(sink, ev)
      /\ UNCHANGED <<tty, limit, kills, steered>>
  BY DEF EmitEvent
<1>2. \A q \in DOMAIN procs : q \in Nat /\ q > 0 /\ procs[q] \in ProcType
  BY DEF PanesInv, PanesTypeOK
<1>3. ev \in [session : Nat, type : {"start", "end"}] /\ ev.session = p
  BY <1>2
<1> HIDE DEF ev
<1>4. /\ sink' \in Seq([session : Nat, type : {"start", "end"}])
      /\ \A i \in DOMAIN sink' : sink'[i].session \in DOMAIN procs
  BY <1>1, <1>3 DEF PanesInv, PanesTypeOK, SpeakersExist
<1>5. [procs[p] EXCEPT !.said = @ + 1] \in ProcType
  BY <1>2 DEF ProcType
<1>6. procs' \in Seq(ProcType) /\ DOMAIN procs' = DOMAIN procs
  BY <1>1, <1>5 DEF PanesInv, PanesTypeOK
<1>7. \A q \in DOMAIN procs : /\ procs'[q].call = procs[q].call /\ procs'[q].by = procs[q].by
                              /\ procs'[q].depth = procs[q].depth /\ procs'[q].marked = procs[q].marked
                              /\ procs'[q].at = procs[q].at /\ procs'[q].pane = procs[q].pane
  BY <1>1, <1>2 DEF ProcType, PanesInv, PanesTypeOK
<1>8. \A q \in DOMAIN procs : Parent(q) < q /\ Parent(q) \in Nat
  BY <1>2 DEF PanesInv, PaneAllowed, Parent, ProcType
<1>9. \A q \in DOMAIN procs : Parent(q) > 0 => Parent(q) \in DOMAIN procs
  BY <1>2, <1>8 DEF PanesInv, PanesTypeOK
<1>10. PanesTypeOK' /\ SpeakersExist'
  BY <1>1, <1>4, <1>6 DEF PanesInv, PanesTypeOK, SpeakersExist
<1>11. PaneAllowed'
  BY <1>1, <1>6, <1>7, <1>8, <1>9 DEF PanesInv, PaneAllowed, Parent
<1>12. LaneOwned'
  BY <1>6, <1>7 DEF PanesInv, LaneOwned
<1>13. ClosedWithItsAgent'
  BY <1>1, <1>6, <1>7, <1>8, <1>9 DEF PanesInv, ClosedWithItsAgent, Running, Parent, PaneOpen
<1> QED
  BY <1>10, <1>11, <1>12, <1>13 DEF PanesInv

\* A process is over, and the one that spawned it closes its pane where it can.
LEMMA EndKeeps ==
  ASSUME PanesInv, NEW p \in DOMAIN procs, Ends(p)
  PROVE  PanesInv'
<1> DEFINE pane == IF Running(procs[p].by) THEN ClosedPane(procs[p].pane) ELSE procs[p].pane
<1>1. /\ procs' = [procs EXCEPT ![p].at = "over", ![p].pane = pane]
      /\ UNCHANGED <<tty, limit, kills, steered, sink>>
  BY DEF Ends
<1>2. \A q \in DOMAIN procs : q \in Nat /\ q > 0 /\ procs[q] \in ProcType
  BY DEF PanesInv, PanesTypeOK
<1>3. /\ pane \in PaneType /\ pane.lock = procs[p].pane.lock /\ pane.shown = procs[p].pane.shown
      /\ (pane.at # "none" => procs[p].pane.at # "none")
      /\ (pane.at \notin {"none", "gone"} => PaneOpen(p))
      /\ (kills /\ Running(procs[p].by) => pane.at \in {"none", "gone"})
  BY <1>2 DEF ProcType, PaneType, ClosedPane, PaneOpen
<1> HIDE DEF pane
<1>4. [procs[p] EXCEPT !.at = "over", !.pane = pane] \in ProcType
  BY <1>2, <1>3 DEF ProcType
<1>5. procs' = [procs EXCEPT ![p] = [procs[p] EXCEPT !.at = "over", !.pane = pane]]
  BY <1>1
<1>51. procs' \in Seq(ProcType) /\ DOMAIN procs' = DOMAIN procs
  BY <1>4, <1>5 DEF PanesInv, PanesTypeOK
<1>6. /\ \A q \in DOMAIN procs : /\ procs'[q].call = procs[q].call /\ procs'[q].by = procs[q].by
                              /\ procs'[q].depth = procs[q].depth /\ procs'[q].marked = procs[q].marked
      /\ \A q \in DOMAIN procs \ {p} : procs'[q].at = procs[q].at /\ procs'[q].pane = procs[q].pane
      /\ procs'[p].at = "over" /\ procs'[p].pane = pane
  BY <1>5, <1>2 DEF ProcType, PanesInv, PanesTypeOK
<1>8. \A q \in DOMAIN procs : Parent(q) < q /\ Parent(q) \in Nat
  BY <1>2 DEF PanesInv, PaneAllowed, Parent, ProcType
<1>9. \A q \in DOMAIN procs : Parent(q) > 0 => Parent(q) \in DOMAIN procs
  BY <1>2, <1>8 DEF PanesInv, PanesTypeOK
<1>10. PanesTypeOK' /\ SpeakersExist'
  BY <1>1, <1>51 DEF PanesInv, PanesTypeOK, SpeakersExist
<1>11. PaneAllowed'
  BY <1>1, <1>3, <1>51, <1>6, <1>8, <1>9 DEF PanesInv, PaneAllowed, Parent
<1>12. LaneOwned'
  BY <1>3, <1>51, <1>6 DEF PanesInv, LaneOwned
<1>13. ClosedWithItsAgent'
  <2> SUFFICES ASSUME NEW q \in DOMAIN procs, kills, PaneOpen(q)', Running(procs[q].by)'
               PROVE  Running(q)'
    BY <1>1, <1>51, <1>6 DEF ClosedWithItsAgent
  <2>1. Running(procs[q].by)
    BY <1>51, <1>6, <1>8, <1>9 DEF Running, Parent
  <2>2. q # p
    BY <1>3, <1>6, <2>1 DEF PaneOpen
  <2> QED
    BY <1>2, <1>6, <2>1, <2>2 DEF PanesInv, ClosedWithItsAgent, PaneOpen, Running
<1> QED
  BY <1>10, <1>11, <1>12, <1>13 DEF PanesInv

\* A viewer starts, reads a line, or leaves.
LEMMA ViewerKeeps ==
  ASSUME PanesInv, NEW p \in DOMAIN procs, NEW pane \in PaneType,
         procs' = [procs EXCEPT ![p].pane = pane], UNCHANGED <<tty, limit, kills, steered, sink>>,
         PaneOpen(p),
         pane.shown \subseteq {pane.lock} \ {0},
         pane.lock # 0 => pane.lock \in DOMAIN procs /\ procs[pane.lock].call = procs[p].call
  PROVE  PanesInv'
<1>1. \A q \in DOMAIN procs : procs[q] \in ProcType
  BY DEF PanesInv, PanesTypeOK
<1>2. /\ [procs[p] EXCEPT !.pane = pane] \in ProcType
      /\ procs'[p] = [procs[p] EXCEPT !.pane = pane]
  BY <1>1 DEF ProcType, PanesInv, PanesTypeOK
<1>3. procs' \in Seq(ProcType) /\ DOMAIN procs' = DOMAIN procs /\ Len(procs') = Len(procs)
  BY <1>2 DEF PanesInv, PanesTypeOK
<1>4. /\ procs'[p].call = procs[p].call /\ procs'[p].by = procs[p].by
      /\ procs'[p].depth = procs[p].depth /\ procs'[p].marked = procs[p].marked
      /\ procs'[p].at = procs[p].at /\ procs'[p].pane = pane
  BY <1>1, <1>2 DEF ProcType
<1>5. \A q \in DOMAIN procs \ {p} : procs'[q] = procs[q]
  BY DEF PanesInv, PanesTypeOK
<1>6. OneChanges(p)
  BY <1>3, <1>4, <1>5 DEF OneChanges, PaneOpen
<1> QED
  BY <1>3, <1>4, <1>6, OneKeeps

\* A viewer starts at the end of the sink.
LEMMA StartViewerKeeps ==
  ASSUME PanesInv, NEW p \in DOMAIN procs, StartViewer(p)
  PROVE  PanesInv'
<1> DEFINE pane == [procs[p].pane EXCEPT !.at = "watching", !.pos = Len(sink)]
<1>1. procs[p] \in ProcType /\ Len(sink) \in Nat
  BY DEF PanesInv, PanesTypeOK
<1>2. pane \in PaneType /\ pane.lock = procs[p].pane.lock /\ pane.shown = procs[p].pane.shown
  BY <1>1 DEF ProcType, PaneType
<1>3. procs' = [procs EXCEPT ![p].pane = pane] /\ UNCHANGED <<tty, limit, kills, steered, sink>>
  BY DEF StartViewer
<1>4. PaneOpen(p)
  BY DEF StartViewer, PaneOpen
<1> HIDE DEF pane
<1> QED
  BY <1>2, <1>3, <1>4, ViewerKeeps DEF PanesInv, LaneOwned

\* A viewer leaves, and its pane with it.
LEMMA ExitViewerKeeps ==
  ASSUME PanesInv, NEW p \in DOMAIN procs, ExitViewer(p)
  PROVE  PanesInv'
<1> DEFINE pane == [procs[p].pane EXCEPT !.at = "gone"]
<1>1. procs[p] \in ProcType
  BY DEF PanesInv, PanesTypeOK
<1>2. pane \in PaneType /\ pane.lock = procs[p].pane.lock /\ pane.shown = procs[p].pane.shown
  BY <1>1 DEF ProcType, PaneType
<1>3. procs' = [procs EXCEPT ![p].pane = pane] /\ UNCHANGED <<tty, limit, kills, steered, sink>>
  BY DEF ExitViewer
<1>4. PaneOpen(p)
  BY DEF ExitViewer, PaneOpen
<1> HIDE DEF pane
<1> QED
  BY <1>2, <1>3, <1>4, ViewerKeeps DEF PanesInv, LaneOwned

\* A viewer reads a line; the first start of a session of its call is its lane.
LEMMA OnLineKeeps ==
  ASSUME PanesInv, NEW p \in DOMAIN procs, OnLine(p)
  PROVE  PanesInv'
<1> DEFINE old == procs[p].pane
           ev == sink[old.pos + 1]
           lock == IF old.lock = 0 /\ Locks(p, ev) THEN ev.session ELSE old.lock
           pane == Watched(p, ev)
<1>0. procs[p] \in ProcType /\ sink \in Seq([session : Nat, type : {"start", "end"}])
  BY DEF PanesInv, PanesTypeOK
<1>1. old \in PaneType /\ old.pos \in Nat /\ old.pos + 1 \in DOMAIN sink
  BY <1>0 DEF ProcType, PaneType, OnLine
<1>2. ev.session \in DOMAIN procs /\ ev.session \in Nat \ {0}
  <2> HIDE DEF old
  <2> QED
    BY <1>0, <1>1 DEF PanesInv, PanesTypeOK, SpeakersExist
<1>3. old.shown \subseteq {old.lock} \ {0}
      /\ (old.lock # 0 => old.lock \in DOMAIN procs /\ procs[old.lock].call = procs[p].call)
  BY DEF PanesInv, LaneOwned
<1>4. lock \in Nat /\ (lock # 0 => lock \in DOMAIN procs /\ procs[lock].call = procs[p].call)
  BY <1>1, <1>2, <1>3 DEF PaneType, Locks
<1>5. old.shown \subseteq {lock} \ {0}
  BY <1>3
<1>6. procs' = [procs EXCEPT ![p].pane = pane] /\ UNCHANGED <<tty, limit, kills, steered, sink>>
  BY DEF OnLine
<1>7. PaneOpen(p)
  BY DEF OnLine, PaneOpen
<1> DEFINE seen == [old EXCEPT !.pos = @ + 1, !.lock = lock]
<1>8. /\ seen \in PaneType /\ seen.lock = lock /\ seen.shown = old.shown /\ seen.at = old.at
  <2> HIDE DEF old, lock
  <2>1. old \in [at : {"none", "starting", "watching", "leaving", "gone"}, pos : Nat, lock : Nat,
                shown : SUBSET Nat]
    BY <1>1 DEF PaneType
  <2>2. lock \in Nat /\ old.pos + 1 \in Nat
    BY <1>1, <1>4
  <2> QED
    BY <2>1, <2>2 DEF PaneType
<1>9. pane = IF ev.session # seen.lock THEN seen
             ELSE [seen EXCEPT !.shown = @ \cup {ev.session},
                               !.at = IF ev.type = "end" THEN "leaving" ELSE @]
  BY DEF Watched
<1> HIDE DEF seen, lock, pane, ev, old
<1>10. pane \in PaneType /\ pane.lock = lock
       /\ \/ pane.shown = seen.shown
          \/ /\ ev.session = lock /\ pane.shown = seen.shown \cup {ev.session}
  BY <1>2, <1>8, <1>9 DEF PaneType
<1>11. pane.shown \subseteq {pane.lock} \ {0}
  BY <1>2, <1>5, <1>8, <1>10
<1> QED
  BY <1>4, <1>6, <1>7, <1>10, <1>11, ViewerKeeps

\* A process dispatches another, with or without a pane.
LEMMA SpawnKeeps ==
  ASSUME PanesInv, NEW p \in DOMAIN procs, NEW c \in DispatchIds, SpawnAgent(p, c)
  PROVE  PanesInv'
<1>1. PICK opened \in {Opens(p), FALSE}, throws \in BOOLEAN :
        LET new == Process(c, p, procs[p].depth + 1, MarksChild(p))
            pane == IF opened THEN [NoPane EXCEPT !.at = "starting"] ELSE NoPane
        IN procs' = Append(procs, IF throws THEN [new EXCEPT !.at = "over", !.pane = ClosedPane(pane)]
                                            ELSE [new EXCEPT !.pane = pane])
  BY DEF SpawnAgent
<1> DEFINE new == Process(c, p, procs[p].depth + 1, MarksChild(p))
           first == IF opened THEN [NoPane EXCEPT !.at = "starting"] ELSE NoPane
           pane == IF throws THEN ClosedPane(first) ELSE first
           r == IF throws THEN [new EXCEPT !.at = "over", !.pane = ClosedPane(first)]
                          ELSE [new EXCEPT !.pane = first]
<1>0. PICK n \in Nat : n = Len(procs) + 1
  BY DEF PanesInv, PanesTypeOK
<1>2. \A q \in DOMAIN procs : q \in Nat /\ q > 0 /\ procs[q] \in ProcType
  BY DEF PanesInv, PanesTypeOK
<1>3. /\ pane \in PaneType /\ pane.lock = 0 /\ pane.shown = {}
      /\ (pane.at # "none" => opened)
      /\ (throws /\ kills => pane.at \in {"none", "gone"})
  BY DEF NoPane, ClosedPane, PaneType
<1>4. opened => PanesEnabled(p)
  BY DEF Opens
<1>5. MarksChild(p) \in BOOLEAN /\ (MarksChild(p) => tty) /\ (opened => tty /\ procs[p].depth <= limit)
  BY <1>2, <1>4 DEF MarksChild, PanesEnabled, PanesInv, PanesTypeOK, PaneAllowed, ProcType
<1>6. /\ r.call = c /\ r.by = p /\ r.depth = procs[p].depth + 1 /\ r.marked = MarksChild(p)
      /\ r.at = (IF throws THEN "over" ELSE "running") /\ r.said = 0 /\ r.pane = pane
      /\ r = [call |-> r.call, by |-> r.by, depth |-> r.depth, marked |-> r.marked, at |-> r.at,
              said |-> r.said, pane |-> r.pane]
  BY DEF Process
<1> HIDE DEF new, first, pane
<1>7. r \in ProcType
  <2>1. /\ r.call \in DispatchIds \cup {"root"} /\ r.by \in Nat /\ r.depth \in Nat
        /\ r.marked \in BOOLEAN /\ r.at \in {"running", "over"} /\ r.said \in Nat /\ r.pane \in PaneType
    BY <1>2, <1>3, <1>5, <1>6 DEF ProcType
  <2> HIDE DEF r
  <2> QED
    BY <1>6, <2>1 DEF ProcType
<1>8. /\ procs' = Append(procs, r) /\ Running(p) /\ UNCHANGED <<tty, limit, kills, steered, sink>>
  BY <1>1 DEF SpawnAgent, new, first
<1> HIDE DEF r
<1>9. /\ procs' \in Seq(ProcType) /\ DOMAIN procs' = DOMAIN procs \cup {n} /\ procs'[n] = r
      /\ n \in Nat /\ n \notin DOMAIN procs /\ p < n
      /\ \A q \in DOMAIN procs : procs'[q] = procs[q] /\ q # n
  BY <1>0, <1>7, <1>8 DEF PanesInv, PanesTypeOK
<1>10. \A q \in DOMAIN procs : Parent(q) < q /\ Parent(q) \in Nat
  BY <1>2 DEF PanesInv, PaneAllowed, Parent, ProcType
<1>11. \A q \in DOMAIN procs : Parent(q) > 0 => Parent(q) \in DOMAIN procs
  BY <1>2, <1>10 DEF PanesInv, PanesTypeOK
<1>12. PanesTypeOK' /\ SpeakersExist'
  BY <1>8, <1>9 DEF PanesInv, PanesTypeOK, SpeakersExist
<1>13. PaneAllowed'
  <2>1. \A q \in DOMAIN procs :
          /\ procs'[q].marked => tty'
          /\ Parent(q)' < q
          /\ procs'[q].pane.at # "none" => tty' /\ Parent(q)' > 0 /\ procs'[Parent(q)'].depth <= limit'
    BY <1>8, <1>9, <1>10, <1>11 DEF PanesInv, PaneAllowed, Parent
  <2>2. /\ procs'[n].marked => tty'
        /\ Parent(n)' < n
        /\ procs'[n].pane.at # "none" => tty' /\ Parent(n)' > 0 /\ procs'[Parent(n)'].depth <= limit'
    <3>1. Parent(n)' = p /\ procs'[p] = procs[p] /\ p > 0
      BY <1>2, <1>6, <1>9 DEF Parent
    <3> QED
      BY <1>3, <1>5, <1>6, <1>8, <1>9, <3>1
  <2>3. DOMAIN procs' = DOMAIN procs \cup {n}
    BY <1>9
  <2> QED
    BY <2>1, <2>2, <2>3 DEF PaneAllowed, Parent
<1>14. LaneOwned'
  BY <1>3, <1>6, <1>9 DEF PanesInv, LaneOwned
<1>15. ClosedWithItsAgent'
  <2>1. ASSUME NEW q \in DOMAIN procs, kills, PaneOpen(q)' PROVE Running(q)' \/ ~Running(procs[q].by)'
    BY <1>8, <1>9, <1>10, <1>11, <2>1 DEF PanesInv, ClosedWithItsAgent, Running, PaneOpen, Parent
  <2>2. kills /\ PaneOpen(n)' => Running(n)'
    <3>1. procs'[n].pane = pane /\ procs'[n].at = (IF throws THEN "over" ELSE "running") /\ n > 0
      BY <1>2, <1>6, <1>9
    <3> QED
      BY <1>3, <3>1 DEF PaneOpen, Running
  <2>3. procs'[n].by = p /\ procs'[p] = procs[p] /\ p > 0
    BY <1>2, <1>6, <1>9
  <2>4. \A q \in DOMAIN procs : procs'[q].by = procs[q].by
    BY <1>9
  <2> QED
    BY <1>8, <1>9, <2>1, <2>2, <2>3, <2>4 DEF ClosedWithItsAgent
<1> QED
  BY <1>12, <1>13, <1>14, <1>15 DEF PanesInv

\* One step of any kind keeps the invariant.
LEMMA PanesStepInv == PanesInv /\ [PanesNext]_panesVars => PanesInv'
<1> SUFFICES ASSUME PanesInv, [PanesNext]_panesVars PROVE PanesInv'
  OBVIOUS
<1>1. CASE Prompted
  BY <1>1 DEF Prompted, PanesInv, PanesTypeOK, PaneAllowed, LaneOwned, SpeakersExist,
              ClosedWithItsAgent, Running, PaneOpen, Parent
<1>2. CASE UNCHANGED panesVars
  BY <1>2 DEF panesVars, PanesInv, PanesTypeOK, PaneAllowed, LaneOwned, SpeakersExist,
              ClosedWithItsAgent, Running, PaneOpen, Parent
<1> QED
  BY <1>1, <1>2, SpawnKeeps, SinkKeeps, EndKeeps, StartViewerKeeps, OnLineKeeps, ExitViewerKeeps
     DEF PanesNext

(***************************************************************************)
(* Whatever the tree of processes, whichever of them are killed and however*)
(* late the viewers start: no pane without a person at the root's terminal *)
(* or below the depth limit, no viewer shows another dispatch's session,   *)
(* and, where panes can be closed, none outlives its agent while the       *)
(* process that is to close it lives.                                      *)
(***************************************************************************)
THEOREM PanesAreOwn == PanesSpec => []PanesHold
<1>1. PanesInv => PanesHold
  <2> SUFFICES ASSUME PanesInv PROVE PanesHold
    OBVIOUS
  <2>1. OnlyForItsUser
    BY DEF PanesInv, PaneAllowed, Parent, OnlyForItsUser, PaneOpen
  <2>2. OwnLane
    <3> SUFFICES ASSUME NEW p \in DOMAIN procs, NEW q \in procs[p].pane.shown
                 PROVE  q \in {procs[p].pane.lock} \ {0} /\ procs[q].call = procs[p].call
      BY DEF OwnLane
    <3> QED
      BY DEF PanesInv, LaneOwned
  <2> QED
    BY <2>1, <2>2 DEF PanesInv, PanesHold
<1> QED
  BY <1>1, PanesInitInv, PanesStepInv, PTL DEF PanesSpec
=============================================================================
