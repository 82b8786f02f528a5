--------------------------- MODULE PipelineProofs ---------------------------
(***************************************************************************)
(* Theorems about Pipeline, for every set of teams, every loop limit, any  *)
(* plan phases and any number of runs: its types and its outcome, how many *)
(* sub-agent sessions its two fix loops can launch, that no fix is left    *)
(* unjudged, and what is said of the files a run leaves for the next one,  *)
(* the plan it builds from and the progress ledger.                        *)
(***************************************************************************)
EXTENDS Pipeline, TLAPS

(***************************************************************************)
(* Type correctness.  A step is shown to keep the groups of variables it   *)
(* writes in their types; the groups it leaves alone are kept by Kept.     *)
(***************************************************************************)
LEMMA StatusType ==
  ASSUME NEW paused \in BOOLEAN, TypeOK
  PROVE  TerminalStatus(paused) \in Statuses
BY DEF TerminalStatus, Statuses, Landed

\* The mode a team gives its run is a mode.
LEMMA ModeType ==
  ASSUME NEW r
  PROVE  ModeOf(r) \in Modes
BY DEF ModeOf, Modes

\* What the plan gate loads is a plan, a brief or nothing.
LEMMA FinalPlanType == PlanType => FinalPlan \in PlanFiles \cup {"brief"}
BY DEF FinalPlan, PlanType, PlanFiles

\* A group of variables that a step leaves alone keeps its types.
LEMMA Kept ==
  /\ ControlType /\ UNCHANGED control => ControlType'
  /\ RequestType /\ UNCHANGED request => RequestType'
  /\ VerdictType /\ UNCHANGED verdictVars => VerdictType'
  /\ PlanType /\ UNCHANGED planVars => PlanType'
  /\ LedgerType /\ UNCHANGED ledgerVars => LedgerType'
  /\ WorkType /\ UNCHANGED work => WorkType'
<1>1. ControlType /\ UNCHANGED control => ControlType'
  BY DEF ControlType, control, Sites, ImplementerSites, Statuses, Landed
<1>2. RequestType /\ UNCHANGED request => RequestType'
  BY DEF RequestType, request, Modes, Roles
<1>3. VerdictType /\ UNCHANGED verdictVars => VerdictType'
  BY DEF VerdictType, verdictVars, Reviews, Verdicts
<1>4. PlanType /\ UNCHANGED planVars => PlanType'
  BY DEF PlanType, planVars, PlanFiles
<1>5. LedgerType /\ UNCHANGED ledgerVars => LedgerType'
  BY DEF LedgerType, ledgerVars, AllRows
<1>6. WorkType /\ UNCHANGED work => WorkType'
  BY DEF WorkType, work
<1>7. QED
  BY <1>1, <1>2, <1>3, <1>4, <1>5, <1>6

\* Every step keeps every variable in its type.
LEMMA TypeStep == TypeOK /\ [Next]_vars => TypeOK'
<1> SUFFICES ASSUME TypeOK, [Next]_vars PROVE TypeOK' OBVIOUS
<1> USE DEF TypeOK
<1>1. ASSUME NEW r \in Rosters, NEW long \in BOOLEAN, NEW missing \in BOOLEAN,
             Refuse(r, long, missing)
      PROVE  TypeOK'
  <2>1. ControlType'
    BY <1>1 DEF Refuse, FinalizeError, Return, ControlType, Sites, ImplementerSites,
       Statuses, Landed
  <2>2. RequestType'
    BY <1>1 DEF Refuse, RequestType
  <2>3. QED
    BY <1>1, <2>1, <2>2, Kept DEF Refuse
<1>2. ASSUME NEW r \in Rosters, NEW limit \in LoopLimits, NEW long \in BOOLEAN,
             Begin(r, limit, long)
      PROVE  TypeOK'
  <2>1. ControlType'
    BY <1>2 DEF Begin, ControlType, Sites, ImplementerSites, Statuses, Landed
  <2>2. RequestType'
    BY <1>2, ModeType, PipelineAssumption DEF Begin, RequestType
  <2>3. VerdictType'
    BY <1>2 DEF Begin, FreshVerdicts, VerdictType, Reviews, Verdicts
  <2>4. PlanType'
    BY <1>2 DEF Begin, ResetRunScratch, PlanType, PlanFiles
  <2>5. LedgerType'
    BY <1>2 DEF Begin, ResetRunScratch, LedgerType, ledgerVars, AllRows
  <2>6. WorkType'
    BY <1>2 DEF Begin, FreshVerdicts, WorkType
  <2>7. QED
    BY <1>2, <2>1, <2>2, <2>3, <2>4, <2>5, <2>6, Kept DEF Begin
<1>3. CASE BeginPing
  <2>1. ControlType'
    BY <1>3 DEF BeginPing, ControlType, Sites, ImplementerSites, Statuses, Landed
  <2>2. RequestType'
    BY <1>3 DEF BeginPing, RequestType, Modes, Roles
  <2>3. VerdictType'
    BY <1>3 DEF BeginPing, FreshVerdicts, VerdictType, Reviews, Verdicts
  <2>4. WorkType'
    BY <1>3 DEF BeginPing, FreshVerdicts, WorkType
  <2>5. QED
    BY <1>3, <2>1, <2>2, <2>3, <2>4, Kept DEF BeginPing
<1>4. ASSUME NEW allOk \in BOOLEAN, EndPing(allOk) PROVE TypeOK'
  BY <1>4, Kept DEF EndPing, Return, ControlType, Sites, ImplementerSites, Statuses,
     Landed
<1>5. CASE Scout
  BY <1>5, Kept DEF Scout, Goto, Launch, Skip, Ok, ControlType, Sites,
     ImplementerSites, Statuses, Landed
<1>6. CASE Roadmap
  BY <1>6, Kept DEF Roadmap, Goto, Launch, Skip, Ok, FinalizeError, Return,
     ControlType, Sites, ImplementerSites, Statuses, Landed
<1>7. CASE Plan
  <2>1. ControlType'
    BY <1>7 DEF Plan, Goto, Launch, Skip, Ok, ControlType, Sites, ImplementerSites,
       Statuses, Landed
  <2>2. PlanType'
    BY <1>7 DEF Plan, SelectPlan, RequestType, PlanType, planVars, PlanFiles
  <2>3. QED
    BY <1>7, <2>1, <2>2, Kept DEF Plan
<1>8. CASE Refine
  <2>1. ControlType'
    BY <1>8 DEF Refine, SavePlanDraft, Goto, Launch, Skip, Ok, ControlType, Sites, ImplementerSites,
       Statuses, Landed
  <2>2. PlanType'
    BY <1>8 DEF Refine, SavePlanDraft, SelectPlan, RequestType, PlanType, planVars, PlanFiles
  <2>3. QED
    BY <1>8, <2>1, <2>2, Kept DEF Refine, SavePlanDraft
<1>9. CASE PlanGate
  <2>1. ControlType'
    BY <1>9 DEF PlanGate, Goto, Launch, Skip, Ok, FinalizeError, Return, ControlType,
       Sites, ImplementerSites, Statuses, Landed
  <2>2. PlanType'
    BY <1>9, FinalPlanType DEF PlanGate, PlanType, PlanFiles
  <2>3. QED
    BY <1>9, <2>1, <2>2, Kept DEF PlanGate
<1>10. CASE Implement
  <2>1. ControlType'
    BY <1>10 DEF Implement, Goto, Launch, Skip, Ok, ControlType, Sites,
       ImplementerSites, Statuses, Landed
  <2>2. VerdictType'
    BY <1>10 DEF Implement, VerdictType
  <2>3. LedgerType'
    BY <1>10 DEF Implement, PrepareLedger, Unledger, ledgerVars, LedgerType, AllRows
  <2>4. WorkType'
    BY <1>10 DEF Implement, WorkType
  <2>5. QED
    BY <1>10, <2>1, <2>2, <2>3, <2>4, Kept DEF Implement
<1>11. CASE FreshContextRetry
  <2>1. ControlType'
    BY <1>11 DEF FreshContextRetry, Goto, Launch, Skip, Ok, ControlType, Sites,
       ImplementerSites, Statuses, Landed
  <2>2. VerdictType'
    BY <1>11 DEF FreshContextRetry, VerdictType
  <2>3. WorkType'
    BY <1>11 DEF FreshContextRetry, WorkType
  <2>4. QED
    BY <1>11, <2>1, <2>2, <2>3, Kept DEF FreshContextRetry
<1>12. CASE Review
  <2>1. ControlType'
    BY <1>12 DEF Review, Goto, Launch, Skip, Ok, ControlType, Sites, ImplementerSites,
       Statuses, Landed
  <2>2. VerdictType'
    BY <1>12 DEF Review, VerdictType, WorkType
  <2>3. QED
    BY <1>12, <2>1, <2>2, Kept DEF Review
<1>13. CASE ReviewFix
  <2>1. ControlType'
    BY <1>13 DEF ReviewFix, Goto, Launch, Skip, Ok, ControlType, Sites,
       ImplementerSites, Statuses, Landed
  <2>2. VerdictType'
    BY <1>13 DEF ReviewFix, VerdictType
  <2>3. WorkType'
    BY <1>13 DEF ReviewFix, WorkType
  <2>4. QED
    BY <1>13, <2>1, <2>2, <2>3, Kept DEF ReviewFix
<1>14. CASE Validate
  <2>1. ControlType'
    BY <1>14 DEF Validate, Goto, Launch, Skip, Ok, AfterVerdict, ControlType, Sites,
       ImplementerSites, Statuses, Landed
  <2>2. verdict' \in Verdicts /\ reviewVerdict' \in Reviews
    BY <1>14 DEF Validate, VerdictType
  <2>3. loop' \in Nat /\ reviewed' \in Nat /\ validated' \in Nat /\ verdicts' \in Nat
    BY <1>14 DEF Validate, VerdictType, WorkType
  <2>4. revalidated' \in BOOLEAN
    BY <1>14 DEF Validate, VerdictType
  <2>5. QED
    BY <1>14, <2>1, <2>2, <2>3, <2>4, Kept DEF Validate, VerdictType
<1>15. CASE ReaskVerdict
  <2>1. ControlType'
    BY <1>15 DEF ReaskVerdict, Goto, Launch, Skip, Ok, AfterVerdict, ControlType,
       Sites, ImplementerSites, Statuses, Landed
  <2>2. VerdictType'
    BY <1>15 DEF ReaskVerdict, VerdictType, WorkType
  <2>3. QED
    BY <1>15, <2>1, <2>2, Kept DEF ReaskVerdict
<1>16. CASE ValidationFix
  <2>1. ControlType'
    BY <1>16 DEF ValidationFix, Goto, Launch, Skip, Ok, ControlType, Sites,
       ImplementerSites, Statuses, Landed
  <2>2. VerdictType'
    BY <1>16 DEF ValidationFix, VerdictType
  <2>3. WorkType'
    BY <1>16 DEF ValidationFix, WorkType
  <2>4. QED
    BY <1>16, <2>1, <2>2, <2>3, Kept DEF ValidationFix
<1>17. CASE Settle
  <2>1. ControlType'
    BY <1>17 DEF Settle, Goto, Launch, Skip, Ok, ControlType, Sites, ImplementerSites,
       Statuses, Landed
  <2>2. LedgerType'
    BY <1>17 DEF Settle, MarkAllPhasesDone, LedgerType, AllRows, Rows
  <2>3. QED
    BY <1>17, <2>1, <2>2, Kept DEF Settle
<1>18. CASE Document
  BY <1>18, Kept DEF Document, Goto, Launch, Skip, Ok, ControlType, Sites,
     ImplementerSites, Statuses, Landed
<1>19. CASE Ship
  <2>1. ControlType'
    BY <1>19 DEF Ship, Goto, Launch, Skip, Ok, ControlType, Sites, ImplementerSites,
       Statuses, Landed
  <2>2. WorkType'
    BY <1>19 DEF Ship, WorkType
  <2>3. QED
    BY <1>19, <2>1, <2>2, Kept DEF Ship
<1>20. CASE Finish
  BY <1>20, Kept, StatusType DEF Finish, Return, ControlType, Sites, ImplementerSites,
     Statuses, Landed
<1>21. CASE AbortBetweenPhases
  BY <1>21, Kept DEF AbortBetweenPhases, Aborted, Return, ControlType, Sites,
     ImplementerSites, Statuses, Landed
<1>22. CASE PhaseFails
  BY <1>22, Kept DEF PhaseFails, Goto, Fail, Aborted, FinalizeError, Return,
     ControlType, Sites, ImplementerSites, Statuses, Landed
<1>23. CASE Throws
  BY <1>23, Kept DEF Throws, FinalizeError, Return, ControlType, Sites,
     ImplementerSites, Statuses, Landed
<1>24. CASE Cancel
  BY <1>24, Kept DEF Cancel, ControlType, Sites, ImplementerSites, Statuses, Landed
<1>25. CASE AgentWritesPlan
  <2>1. PlanType'
    BY <1>25 DEF AgentWritesPlan, RequestType, PlanType, PlanFiles
  <2>2. QED
    BY <1>25, <2>1, Kept DEF AgentWritesPlan
<1>26. CASE AgentMarksLedger
  <2>1. LedgerType'
    BY <1>26 DEF AgentMarksLedger, LedgerType, AllRows, Rows
  <2>2. QED
    BY <1>26, <2>1, Kept DEF AgentMarksLedger
<1>27. CASE UNCHANGED vars
  BY <1>27, Kept DEF vars
<1>28. QED
  BY <1>1, <1>2, <1>3, <1>4, <1>5, <1>6, <1>7, <1>8, <1>9, <1>10, <1>11, <1>12, <1>13,
     <1>14, <1>15, <1>16, <1>17, <1>18, <1>19, <1>20, <1>21, <1>22, <1>23, <1>24,
     <1>25, <1>26, <1>27 DEF Next, PhaseStep

\* Type correctness: every variable of the pipeline stays in its type.
THEOREM TypeCorrect == Spec => []TypeOK
<1>1. Init => TypeOK
  <2> SUFFICES ASSUME Init PROVE TypeOK  OBVIOUS
  <2>1. ControlType
    BY DEF Init, ControlType, Sites, Statuses
  <2>2. RequestType /\ VerdictType /\ PlanType
    BY DEF Init, RequestType, VerdictType, PlanType, Modes, Reviews, Verdicts, PlanFiles
  <2>3. LedgerType /\ WorkType
    BY DEF Init, LedgerType, WorkType
  <2>4. QED
    BY <2>1, <2>2, <2>3 DEF TypeOK
<1>2. QED
  BY <1>1, TypeStep, PTL DEF Spec

(***************************************************************************)
(* The release gate.  ShipGated is not inductive: that a PASS is about the *)
(* code that ships rests on where a PASS can be held at all.  Outside the  *)
(* settled part of a run the verdict is never "pass" (a PASS leaves the    *)
(* validate loop at once), so every implementer session happens under a    *)
(* verdict that is not a PASS, and none happens after it.                  *)
(***************************************************************************)
Settled == {"settle", "document", "ship", "finish", "idle"}

VerdictOpen == pc \notin Settled => verdict # "pass"

PassIsFresh == verdict = "pass" => validated = version

ShipsOnce ==
  /\ ships \in {0, 1}
  /\ ships = 1 => pc \in {"ship", "finish", "idle"} /\ Passed /\ ReviewOk
  /\ pc = "ship" => (ships = 1 <=> busy)

ShipperRan == pc = "finish" /\ Due("ship") => ships = 1

\* A gate's sub-agent only runs in a team that has it.
GateKeepers ==
  /\ pc = "review" /\ busy => Has("reviewer")
  /\ (pc = "validate" /\ busy) \/ pc = "reask" => Has("validator")

GateInv ==
  /\ VerdictOpen /\ PassIsFresh /\ ShipsOnce /\ ShipperRan /\ GateKeepers
  /\ StatusTellsTruth

\* Before the first run every gate is closed and nothing has shipped.
LEMMA GateInit == Init => GateInv
BY DEF Init, GateInv, VerdictOpen, Settled, PassIsFresh, ShipsOnce, ShipperRan,
       GateKeepers, StatusTellsTruth

\* Every step keeps the gate invariant.
LEMMA GateStep == TypeOK /\ GateInv /\ [Next]_vars => GateInv'
<1> SUFFICES ASSUME TypeOK, GateInv, [Next]_vars PROVE GateInv' OBVIOUS
<1> USE DEF GateInv, VerdictOpen, Settled, PassIsFresh, ShipsOnce, ShipperRan,
            GateKeepers, StatusTellsTruth, Passed, ReviewOk, Has, Due
<1>1. ASSUME NEW r \in Rosters, NEW long \in BOOLEAN, NEW missing \in BOOLEAN,
             Refuse(r, long, missing)
      PROVE  GateInv'
  BY <1>1 DEF Refuse, FinalizeError, Return, request, verdictVars, work
<1>2. ASSUME NEW r \in Rosters, NEW limit \in LoopLimits, NEW long \in BOOLEAN,
             Begin(r, limit, long)
      PROVE  GateInv'
  BY <1>2 DEF Begin, FreshVerdicts, request, verdictVars, work
<1>3. CASE BeginPing
  BY <1>3 DEF BeginPing, FreshVerdicts, request, verdictVars, work
<1>4. ASSUME NEW allOk \in BOOLEAN, EndPing(allOk) PROVE GateInv'
  BY <1>4 DEF EndPing, Return, request, verdictVars, work
<1>5. CASE Scout
  BY <1>5 DEF Scout, Goto, Launch, Skip, Ok, request, verdictVars, work
<1>6. CASE Roadmap
  BY <1>6 DEF Roadmap, Goto, Launch, Skip, Ok, FinalizeError, Return, request,
     verdictVars, work
<1>7. CASE Plan
  BY <1>7 DEF Plan, Goto, Launch, Skip, Ok, request, verdictVars, work
<1>8. CASE Refine
  BY <1>8 DEF Refine, SavePlanDraft, Goto, Launch, Skip, Ok, request, verdictVars, work
<1>9. CASE PlanGate
  BY <1>9 DEF PlanGate, Goto, Launch, Skip, Ok, FinalizeError, Return, request,
     verdictVars, work
<1>10. CASE Implement
  BY <1>10 DEF Implement, Goto, Launch, Skip, Ok, request, verdictVars, work
<1>11. CASE FreshContextRetry
  BY <1>11 DEF FreshContextRetry, Goto, Launch, Skip, Ok, request, verdictVars, work
<1>12. CASE Review
  BY <1>12 DEF Review, Goto, Launch, Skip, Ok, request, verdictVars, work
<1>13. CASE ReviewFix
  BY <1>13 DEF ReviewFix, Goto, Launch, Skip, Ok, request, verdictVars, work
<1>14. CASE Validate
  BY <1>14 DEF Validate, Goto, Launch, Skip, Ok, AfterVerdict, request, verdictVars,
     work
<1>15. CASE ReaskVerdict
  BY <1>15 DEF ReaskVerdict, Goto, Launch, Skip, Ok, AfterVerdict, request,
     verdictVars, work
<1>16. CASE ValidationFix
  BY <1>16 DEF ValidationFix, Goto, Launch, Skip, Ok, request, verdictVars, work
<1>17. CASE Settle
  BY <1>17 DEF Settle, Goto, Launch, Skip, Ok, request, verdictVars, work
<1>18. CASE Document
  BY <1>18 DEF Document, Goto, Launch, Skip, Ok, request, verdictVars, work
<1>19. CASE Ship
  BY <1>19 DEF Ship, Goto, Launch, Skip, Ok, Due, request, verdictVars, work
<1>20. CASE Finish
  BY <1>20 DEF Finish, Return, TerminalStatus, request, verdictVars, work
<1>21. CASE AbortBetweenPhases
  BY <1>21 DEF AbortBetweenPhases, Aborted, Return, request, verdictVars, work
<1>22. CASE PhaseFails
  BY <1>22 DEF PhaseFails, Goto, Fail, Aborted, FinalizeError, Return, request,
     verdictVars, work
<1>23. CASE Throws
  BY <1>23 DEF Throws, FinalizeError, Return, request, verdictVars, work
<1>24. CASE Cancel
  BY <1>24 DEF Cancel, request, verdictVars, work
<1>25. CASE AgentWritesPlan
  BY <1>25 DEF AgentWritesPlan, control, request, verdictVars, work
<1>26. CASE AgentMarksLedger
  BY <1>26 DEF AgentMarksLedger, control, request, verdictVars, work
<1>27. CASE UNCHANGED vars
  BY <1>27 DEF vars, control, request, verdictVars, work
<1>28. QED
  BY <1>1, <1>2, <1>3, <1>4, <1>5, <1>6, <1>7, <1>8, <1>9, <1>10, <1>11, <1>12, <1>13,
     <1>14, <1>15, <1>16, <1>17, <1>18, <1>19, <1>20, <1>21, <1>22, <1>23, <1>24,
     <1>25, <1>26, <1>27 DEF Next, PhaseStep

\* The gate invariant and the types hold in every reachable state.
LEMMA GateInvariant == Spec => [](TypeOK /\ GateInv)
<1>1. Spec => []TypeOK
  BY TypeCorrect
<1>2. Init => GateInv
  BY GateInit
<1>3. TypeOK /\ GateInv /\ [Next]_vars => GateInv'
  BY GateStep
<1>4. QED
  BY <1>1, <1>2, <1>3, PTL DEF Spec

\* Nothing is shipped that has not passed every gate of the team, and the PASS is
\* about the very code that ships.
THEOREM GateSafe == Spec => []ShipGated
<1>1. GateInv => ShipGated
  BY DEF GateInv, PassIsFresh, ShipsOnce, ShipGated, Passed
<1>2. QED
  BY <1>1, GateInvariant, PTL

\* The reported status tells whether a shipper ran.
THEOREM StatusTruthful == Spec => []StatusTellsTruth
<1>1. GateInv => StatusTellsTruth
  BY DEF GateInv
<1>2. QED
  BY <1>1, GateInvariant, PTL

\* Of the steps that leave the abort signal raised, none takes the pipeline from
\* running to waiting for a sub-agent.
LEMMA LaunchStep == [Next]_vars /\ signal /\ signal' /\ ~busy => ~busy'
<1> SUFFICES ASSUME [Next]_vars, signal, signal', ~busy PROVE ~busy'
  OBVIOUS
<1>1. ASSUME NEW r \in Rosters, NEW long \in BOOLEAN, NEW missing \in BOOLEAN,
             Refuse(r, long, missing)
      PROVE  ~busy'
  BY <1>1 DEF Refuse, FinalizeError, Return
<1>2. ASSUME NEW r \in Rosters, NEW limit \in LoopLimits, NEW long \in BOOLEAN,
             Begin(r, limit, long)
      PROVE  ~busy'
  BY <1>2 DEF Begin
<1>3. CASE BeginPing
  BY <1>3 DEF BeginPing
<1>4. ASSUME NEW allOk \in BOOLEAN, EndPing(allOk) PROVE ~busy'
  BY <1>4 DEF EndPing, Return
<1>5. CASE Scout
  BY <1>5 DEF Scout, Goto, Launch, Skip, Ok
<1>6. CASE Roadmap
  BY <1>6 DEF Roadmap, Goto, Launch, Skip, Ok, FinalizeError, Return
<1>7. CASE Plan
  BY <1>7 DEF Plan, Goto, Launch, Skip, Ok
<1>8. CASE Refine
  BY <1>8 DEF Refine, SavePlanDraft, Goto, Launch, Skip, Ok
<1>9. CASE PlanGate
  BY <1>9 DEF PlanGate, Goto, Launch, Skip, Ok, FinalizeError, Return
<1>10. CASE Implement
  BY <1>10 DEF Implement, Goto, Launch, Skip, Ok
<1>11. CASE FreshContextRetry
  BY <1>11 DEF FreshContextRetry, Goto, Launch, Skip, Ok
<1>12. CASE Review
  BY <1>12 DEF Review, Goto, Launch, Skip, Ok
<1>13. CASE ReviewFix
  BY <1>13 DEF ReviewFix, Goto, Launch, Skip, Ok
<1>14. CASE Validate
  BY <1>14 DEF Validate, Goto, Launch, Skip, Ok, AfterVerdict
<1>15. CASE ReaskVerdict
  BY <1>15 DEF ReaskVerdict, Goto, Launch, Skip, Ok, AfterVerdict
<1>16. CASE ValidationFix
  BY <1>16 DEF ValidationFix, Goto, Launch, Skip, Ok
<1>17. CASE Settle
  BY <1>17 DEF Settle, Goto, Launch, Skip, Ok
<1>18. CASE Document
  BY <1>18 DEF Document, Goto, Launch, Skip, Ok
<1>19. CASE Ship
  BY <1>19 DEF Ship, Goto, Launch, Skip, Ok
<1>20. CASE Finish
  BY <1>20 DEF Finish, Return
<1>21. CASE AbortBetweenPhases
  BY <1>21 DEF AbortBetweenPhases, Aborted, Return
<1>22. CASE PhaseFails
  BY <1>22 DEF PhaseFails, Goto, Fail, Aborted, FinalizeError, Return
<1>23. CASE Throws
  BY <1>23 DEF Throws, FinalizeError, Return
<1>24. CASE Cancel
  BY <1>24 DEF Cancel
<1>25. CASE AgentWritesPlan
  BY <1>25 DEF AgentWritesPlan, control
<1>26. CASE AgentMarksLedger
  BY <1>26 DEF AgentMarksLedger, control
<1>27. CASE UNCHANGED vars
  BY <1>27 DEF vars, control
<1>28. QED
  BY <1>1, <1>2, <1>3, <1>4, <1>5, <1>6, <1>7, <1>8, <1>9, <1>10, <1>11, <1>12, <1>13,
     <1>14, <1>15, <1>16, <1>17, <1>18, <1>19, <1>20, <1>21, <1>22, <1>23, <1>24,
     <1>25, <1>26, <1>27 DEF Next, PhaseStep

\* A cancelled run launches nothing more.
THEOREM CancelStops == Spec => NoLaunchAfterCancel
<1>1. [Next]_vars => [signal /\ signal' /\ ~busy => ~busy']_vars
  BY LaunchStep
<1>2. QED
  BY <1>1, PTL DEF Spec, NoLaunchAfterCancel

(***************************************************************************)
(* Refinement.  Starting a run is NewRun; launching an implementer is      *)
(* Produce; a review or a validation that came back is Judge; launching    *)
(* the shipper is Release.  Everything else leaves the gate as it is.      *)
(***************************************************************************)
GateView == <<roster, reviewVerdict, verdict, validated, version, ships>>

\* A step that changes none of what the gate is about is a stutter.
LEMMA GateStutter == UNCHANGED GateView => UNCHANGED Gate!gateVars
BY DEF GateView, Gate!gateVars, GatesOf, Objections, Has

\* A new run is a new set of gates, with the validator's objection standing.
LEMMA GateNewRun ==
  ASSUME roster' \in SUBSET Roles, FreshVerdicts
  PROVE  Gate!Next
<1>1. GatesOf(roster') \in SUBSET Gate!Gates
  BY DEF GatesOf, Gate!Gates
<1>2. Gate!NewRun(GatesOf(roster'))
  BY DEF Gate!NewRun, FreshVerdicts, GatesOf, Objections, Has
<1>3. QED
  BY <1>1, <1>2 DEF Gate!Next

\* Implementer sessions are launched before anything ships, under no PASS.
LEMMA GateProduce ==
  ASSUME ships = 0, verdict # "pass", version \in Nat, version' = version + 1,
         UNCHANGED <<roster, reviewVerdict, verdict, validated, ships>>
  PROVE  Gate!Next
<1>1. Gate!Produce
  BY DEF Gate!Produce, Gate!Unproven, GatesOf, Objections, Has
<1>2. QED
  BY <1>1 DEF Gate!Next

\* A review that came back is the reviewer's judgement.
LEMMA GateReview ==
  ASSUME ships = 0, Has("reviewer"),
         UNCHANGED <<roster, verdict, validated, version, ships>>
  PROVE  Gate!Next
<1>1. Gate!Judge("review")
  BY DEF Gate!Judge, GatesOf, Objections, Has
<1>2. QED
  BY <1>1 DEF Gate!Next, Gate!Gates

\* A validation that came back is the validator's judgement.
LEMMA GateValidation ==
  ASSUME ships = 0, Has("validator"),
         UNCHANGED <<roster, reviewVerdict, version, ships>>
  PROVE  Gate!Next
<1>1. Gate!Judge("validation")
  BY DEF Gate!Judge, GatesOf, Objections, Has
<1>2. QED
  BY <1>1 DEF Gate!Next, Gate!Gates

\* The shipper is launched when nobody objects any more.
LEMMA GateRelease ==
  ASSUME GateInv, pc = "ship", ~busy, Passed, ReviewOk, ships' = ships + 1,
         UNCHANGED <<roster, reviewVerdict, verdict, validated, version>>
  PROVE  Gate!Next
<1>1. ships = 0
  BY DEF GateInv, ShipsOnce
<1>2. Objections = {}
  BY DEF Objections, GateInv, PassIsFresh, Passed, ReviewOk
<1>3. Gate!Release
  BY <1>1, <1>2 DEF Gate!Release, GatesOf, Objections, Has
<1>4. QED
  BY <1>3 DEF Gate!Next

\* Every step of the pipeline is a step of the gate or leaves it as it is.
LEMMA GateRefines ==
  TypeOK /\ GateInv /\ [Next]_vars => [Gate!Next]_Gate!gateVars
<1> SUFFICES ASSUME TypeOK, GateInv, [Next]_vars PROVE [Gate!Next]_Gate!gateVars OBVIOUS
<1>1. ASSUME NEW r \in Rosters, NEW long \in BOOLEAN, NEW missing \in BOOLEAN,
             Refuse(r, long, missing)
      PROVE  [Gate!Next]_Gate!gateVars
  BY <1>1, GateStutter DEF Refuse, FinalizeError, Return, GateView, request,
     verdictVars, work
<1>2. ASSUME NEW r \in Rosters, NEW limit \in LoopLimits, NEW long \in BOOLEAN,
             Begin(r, limit, long)
      PROVE  [Gate!Next]_Gate!gateVars
  BY <1>2, PipelineAssumption, GateNewRun DEF Begin
<1>3. CASE BeginPing
  BY <1>3, GateNewRun DEF BeginPing
<1>4. ASSUME NEW allOk \in BOOLEAN, EndPing(allOk)
      PROVE  [Gate!Next]_Gate!gateVars
  BY <1>4, GateStutter DEF EndPing, Return, GateView, request, verdictVars, work
<1>5. CASE Scout
  BY <1>5, GateStutter DEF Scout, Goto, Launch, Skip, Ok, GateView, request,
     verdictVars, work
<1>6. CASE Roadmap
  BY <1>6, GateStutter DEF Roadmap, Goto, Launch, Skip, Ok, FinalizeError, Return,
     GateView, request, verdictVars, work
<1>7. CASE Plan
  BY <1>7, GateStutter DEF Plan, Goto, Launch, Skip, Ok, GateView, request,
     verdictVars, work
<1>8. CASE Refine
  BY <1>8, GateStutter DEF Refine, SavePlanDraft, Goto, Launch, Skip, Ok, GateView, request,
     verdictVars, work
<1>9. CASE PlanGate
  BY <1>9, GateStutter DEF PlanGate, Goto, Launch, Skip, Ok, FinalizeError, Return,
     GateView, request, verdictVars, work
<1>10. CASE Implement
  <2>1. CASE ~busy /\ busy'
    BY <1>10, <2>1, GateProduce DEF Implement, Goto, Launch, Skip, Ok, TypeOK,
       WorkType, GateInv, ShipsOnce, VerdictOpen, Settled, GateView, request,
       verdictVars, work
  <2>2. CASE ~(~busy /\ busy')
    BY <1>10, <2>2, GateStutter DEF Implement, Goto, Launch, Skip, Ok, GateView,
       request, verdictVars, work
  <2>3. QED
    BY <2>1, <2>2
<1>11. CASE FreshContextRetry
  <2>1. CASE ~busy /\ busy'
    BY <1>11, <2>1, GateProduce DEF FreshContextRetry, Goto, Launch, Skip, Ok, TypeOK,
       WorkType, GateInv, ShipsOnce, VerdictOpen, Settled, GateView, request,
       verdictVars, work
  <2>2. CASE ~(~busy /\ busy')
    BY <1>11, <2>2, GateStutter DEF FreshContextRetry, Goto, Launch, Skip, Ok,
       GateView, request, verdictVars, work
  <2>3. QED
    BY <2>1, <2>2
<1>12. CASE Review
  <2>1. CASE busy /\ ~busy'
    BY <1>12, <2>1, GateReview DEF Review, Goto, Launch, Skip, Ok, AfterVerdict,
       GateInv, ShipsOnce, VerdictOpen, Settled, GateKeepers, GateView, request,
       verdictVars, work
  <2>2. CASE ~(busy /\ ~busy')
    BY <1>12, <2>2, GateStutter DEF Review, Goto, Launch, Skip, Ok, AfterVerdict,
       GateView, request, verdictVars, work
  <2>3. QED
    BY <2>1, <2>2
<1>13. CASE ReviewFix
  <2>1. CASE ~busy /\ busy'
    BY <1>13, <2>1, GateProduce DEF ReviewFix, Goto, Launch, Skip, Ok, TypeOK,
       WorkType, GateInv, ShipsOnce, VerdictOpen, Settled, GateView, request,
       verdictVars, work
  <2>2. CASE ~(~busy /\ busy')
    BY <1>13, <2>2, GateStutter DEF ReviewFix, Goto, Launch, Skip, Ok, GateView,
       request, verdictVars, work
  <2>3. QED
    BY <2>1, <2>2
<1>14. CASE Validate
  <2>1. CASE busy /\ ~busy'
    BY <1>14, <2>1, GateValidation DEF Validate, Goto, Launch, Skip, Ok, AfterVerdict,
       GateInv, ShipsOnce, VerdictOpen, Settled, GateKeepers, GateView, request,
       verdictVars, work
  <2>2. CASE ~(busy /\ ~busy')
    BY <1>14, <2>2, GateStutter DEF Validate, Goto, Launch, Skip, Ok, AfterVerdict,
       GateView, request, verdictVars, work
  <2>3. QED
    BY <2>1, <2>2
<1>15. CASE ReaskVerdict
  <2>1. CASE busy /\ ~busy'
    BY <1>15, <2>1, GateValidation DEF ReaskVerdict, Goto, Launch, Skip, Ok,
       AfterVerdict, GateInv, ShipsOnce, VerdictOpen, Settled, GateKeepers, GateView,
       request, verdictVars, work
  <2>2. CASE ~(busy /\ ~busy')
    BY <1>15, <2>2, GateStutter DEF ReaskVerdict, Goto, Launch, Skip, Ok,
       AfterVerdict, GateView, request, verdictVars, work
  <2>3. QED
    BY <2>1, <2>2
<1>16. CASE ValidationFix
  <2>1. CASE ~busy /\ busy'
    BY <1>16, <2>1, GateProduce DEF ValidationFix, Goto, Launch, Skip, Ok, TypeOK,
       WorkType, GateInv, ShipsOnce, VerdictOpen, Settled, GateView, request,
       verdictVars, work
  <2>2. CASE ~(~busy /\ busy')
    BY <1>16, <2>2, GateStutter DEF ValidationFix, Goto, Launch, Skip, Ok, GateView,
       request, verdictVars, work
  <2>3. QED
    BY <2>1, <2>2
<1>17. CASE Settle
  BY <1>17, GateStutter DEF Settle, Goto, Launch, Skip, Ok, GateView, request,
     verdictVars, work
<1>18. CASE Document
  BY <1>18, GateStutter DEF Document, Goto, Launch, Skip, Ok, GateView, request,
     verdictVars, work
<1>19. CASE Ship
  <2>1. CASE ~busy /\ busy'
    BY <1>19, <2>1, GateRelease DEF Ship, Goto, Launch, Skip, Ok, Due, GateView,
       request, verdictVars, work
  <2>2. CASE ~(~busy /\ busy')
    BY <1>19, <2>2, GateStutter DEF Ship, Goto, Launch, Skip, Ok, GateView, request,
       verdictVars, work
  <2>3. QED
    BY <2>1, <2>2
<1>20. CASE Finish
  BY <1>20, GateStutter DEF Finish, Return, GateView, request, verdictVars, work
<1>21. CASE AbortBetweenPhases
  BY <1>21, GateStutter DEF AbortBetweenPhases, Aborted, Return, GateView, request,
     verdictVars, work
<1>22. CASE PhaseFails
  BY <1>22, GateStutter DEF PhaseFails, Goto, Fail, Aborted, FinalizeError, Return,
     GateView, request, verdictVars, work
<1>23. CASE Throws
  BY <1>23, GateStutter DEF Throws, FinalizeError, Return, GateView, request,
     verdictVars, work
<1>24. CASE Cancel
  BY <1>24, GateStutter DEF Cancel, GateView, request, verdictVars, work
<1>25. CASE AgentWritesPlan
  BY <1>25, GateStutter DEF AgentWritesPlan, control, GateView, request, verdictVars,
     work
<1>26. CASE AgentMarksLedger
  BY <1>26, GateStutter DEF AgentMarksLedger, control, GateView, request, verdictVars,
     work
<1>27. CASE UNCHANGED vars
  BY <1>27, GateStutter DEF vars, control, vars, GateView, request, verdictVars, work
<1>28. QED
  BY <1>1, <1>2, <1>3, <1>4, <1>5, <1>6, <1>7, <1>8, <1>9, <1>10, <1>11, <1>12, <1>13,
     <1>14, <1>15, <1>16, <1>17, <1>18, <1>19, <1>20, <1>21, <1>22, <1>23, <1>24,
     <1>25, <1>26, <1>27 DEF Next, PhaseStep

\* The pipeline implements ReleaseGate, whatever the teams and their loop limits.
THEOREM GateRefinement == Spec => GateImplemented
<1>1. Init => Gate!Init
  BY DEF Init, Gate!Init, GatesOf, Objections, Has
<1>2. TypeOK /\ GateInv /\ [Next]_vars => [Gate!Next]_Gate!gateVars
  BY GateRefines
<1>3. QED
  BY <1>1, <1>2, GateInvariant, PTL DEF Spec, GateImplemented, Gate!Spec

-----------------------------------------------------------------------------
\* The loops.

(***************************************************************************)
(* WorkBudget bounds a counter that every launch moves, so the invariant   *)
(* has to say at each site how much of the bound can have been spent: one  *)
(* session per review round before the current one, two for the first      *)
(* implementation and its fresh-context retry, and so on along the run.    *)
(***************************************************************************)
Rounds == IF maxLoops = 0 THEN 1 ELSE maxLoops
Reasked == IF revalidated THEN 1 ELSE 0
Waiting == IF busy THEN 1 ELSE 0

LoopRange ==
  /\ pc \in {"review", "validate", "reask"} => 1 <= loop /\ loop <= Rounds
  /\ pc \in {"reviewfix", "valfix"} => 1 <= loop /\ loop < maxLoops
  /\ pc = "reask" => loop <= maxLoops /\ revalidated
  /\ pc \in {"review", "validate"} /\ busy => loop <= maxLoops

SessionsSpent ==
  /\ pc \in {"ping", "scout", "roadmap", "plan", "refine", "gate"} => version = 0
  /\ pc = "implement" => version <= Waiting
  /\ pc = "freshctx" => version <= 1 + Waiting
  /\ pc = "review" => version <= loop + 1
  /\ pc = "reviewfix" => version <= loop + 1 + Waiting
  /\ pc \in {"validate", "reask"} => version <= Rounds + loop
  /\ pc = "valfix" => version <= Rounds + loop + Waiting
  /\ pc \in Settled => version <= Rounds + Rounds

VerdictsSpent ==
  /\ pc \in Sites \ {"validate", "reask", "valfix", "document", "ship"} => verdicts = 0
  /\ pc \in {"ping", "gate"} => verdicts = 0
  /\ pc = "validate" => verdicts <= loop - 1 + Reasked + Waiting
  /\ pc = "reask" => verdicts <= loop + Waiting
  /\ pc = "valfix" => verdicts <= loop + Reasked
  /\ verdicts <= IF maxLoops = 0 THEN 0 ELSE maxLoops + 1

LoopInv == LoopRange /\ SessionsSpent /\ VerdictsSpent /\ FixesRejudged

\* Before the first run no session has been spent.
LEMMA LoopInit == Init => LoopInv
BY DEF Init, LoopInv, LoopRange, SessionsSpent, VerdictsSpent, FixesRejudged, Rounds,
       Settled, Sites, ImplementerSites

\* Every step keeps the loop invariant.
LEMMA LoopStep == TypeOK /\ LoopInv /\ [Next]_vars => LoopInv'
<1> SUFFICES ASSUME TypeOK, LoopInv, [Next]_vars PROVE LoopInv' OBVIOUS
<1> USE DEF TypeOK, ControlType, RequestType, VerdictType, WorkType
<1> USE DEF LoopInv, LoopRange, SessionsSpent, VerdictsSpent, FixesRejudged, Rounds,
            Reasked, Waiting, Settled, Sites, ImplementerSites, Has, Due
<1>1. ASSUME NEW r \in Rosters, NEW long \in BOOLEAN, NEW missing \in BOOLEAN,
             Refuse(r, long, missing)
      PROVE  LoopInv'
  BY <1>1 DEF Refuse, FinalizeError, Return, request, verdictVars, work
<1>2. ASSUME NEW r \in Rosters, NEW limit \in LoopLimits, NEW long \in BOOLEAN,
             Begin(r, limit, long)
      PROVE  LoopInv'
  BY <1>2, PipelineAssumption DEF Begin, FreshVerdicts, request, verdictVars, work
<1>3. CASE BeginPing
  BY <1>3 DEF BeginPing, FreshVerdicts, request, verdictVars, work
<1>4. ASSUME NEW allOk \in BOOLEAN, EndPing(allOk) PROVE LoopInv'
  BY <1>4 DEF EndPing, Return, request, verdictVars, work
<1>5. CASE Scout
  BY <1>5 DEF Scout, Goto, Launch, Skip, Ok, request, verdictVars, work
<1>6. CASE Roadmap
  BY <1>6 DEF Roadmap, Goto, Launch, Skip, Ok, FinalizeError, Return, request,
     verdictVars, work
<1>7. CASE Plan
  BY <1>7 DEF Plan, Goto, Launch, Skip, Ok, request, verdictVars, work
<1>8. CASE Refine
  BY <1>8 DEF Refine, SavePlanDraft, Goto, Launch, Skip, Ok, request, verdictVars, work
<1>9. CASE PlanGate
  BY <1>9 DEF PlanGate, Goto, Launch, Skip, Ok, FinalizeError, Return, request,
     verdictVars, work
<1>10. CASE Implement
  BY <1>10 DEF Implement, Goto, Launch, Skip, Ok, request, verdictVars, work
<1>11. CASE FreshContextRetry
  BY <1>11 DEF FreshContextRetry, Goto, Launch, Skip, Ok, request, verdictVars, work
<1>12. CASE Review
  BY <1>12 DEF Review, Goto, Launch, Skip, Ok, request, verdictVars, work
<1>13. CASE ReviewFix
  BY <1>13 DEF ReviewFix, Goto, Launch, Skip, Ok, request, verdictVars, work
<1>14. CASE Validate
  BY <1>14 DEF Validate, Goto, Launch, Skip, Ok, AfterVerdict, request, verdictVars,
     work
<1>15. CASE ReaskVerdict
  BY <1>15 DEF ReaskVerdict, Goto, Launch, Skip, Ok, AfterVerdict, request,
     verdictVars, work
<1>16. CASE ValidationFix
  BY <1>16 DEF ValidationFix, Goto, Launch, Skip, Ok, request, verdictVars, work
<1>17. CASE Settle
  BY <1>17 DEF Settle, Goto, Launch, Skip, Ok, request, verdictVars, work
<1>18. CASE Document
  BY <1>18 DEF Document, Goto, Launch, Skip, Ok, request, verdictVars, work
<1>19. CASE Ship
  BY <1>19 DEF Ship, Goto, Launch, Skip, Ok, request, verdictVars, work
<1>20. CASE Finish
  BY <1>20 DEF Finish, Return, request, verdictVars, work
<1>21. CASE AbortBetweenPhases
  BY <1>21 DEF AbortBetweenPhases, Aborted, Return, request, verdictVars, work
<1>22. CASE PhaseFails
  BY <1>22 DEF PhaseFails, Goto, Fail, Aborted, FinalizeError, Return, request,
     verdictVars, work
<1>23. CASE Throws
  BY <1>23 DEF Throws, FinalizeError, Return, request, verdictVars, work
<1>24. CASE Cancel
  BY <1>24 DEF Cancel, request, verdictVars, work
<1>25. CASE AgentWritesPlan
  BY <1>25 DEF AgentWritesPlan, control, request, verdictVars, work
<1>26. CASE AgentMarksLedger
  BY <1>26 DEF AgentMarksLedger, control, request, verdictVars, work
<1>27. CASE UNCHANGED vars
  BY <1>27 DEF vars, control, request, verdictVars, work
<1>28. QED
  BY <1>1, <1>2, <1>3, <1>4, <1>5, <1>6, <1>7, <1>8, <1>9, <1>10, <1>11, <1>12, <1>13,
     <1>14, <1>15, <1>16, <1>17, <1>18, <1>19, <1>20, <1>21, <1>22, <1>23, <1>24,
     <1>25, <1>26, <1>27 DEF Next, PhaseStep

\* The loop invariant and the types hold in every reachable state.
LEMMA LoopInvariant == Spec => [](TypeOK /\ LoopInv)
<1>1. Spec => []TypeOK
  BY TypeCorrect
<1>2. Init => LoopInv
  BY LoopInit
<1>3. TypeOK /\ LoopInv /\ [Next]_vars => LoopInv'
  BY LoopStep
<1>4. QED
  BY <1>1, <1>2, <1>3, PTL DEF Spec

\* A run launches at most two implementer sessions per round of its loop limit, and
\* one validator session per round plus a single re-ask, whatever the limit is.
THEOREM BudgetHolds == Spec => []WorkBudget
<1>1. TypeOK /\ LoopInv => WorkBudget
  <2> SUFFICES ASSUME TypeOK, LoopInv PROVE WorkBudget OBVIOUS
  <2>1. version <= Rounds + Rounds
    BY DEF TypeOK, ControlType, RequestType, VerdictType, WorkType, LoopInv, LoopRange,
           SessionsSpent, Rounds, Waiting, Settled, Sites, ImplementerSites
  <2>2. QED
    BY <2>1 DEF TypeOK, RequestType, WorkType, LoopInv, VerdictsSpent, WorkBudget, Rounds
<1>2. QED
  BY <1>1, LoopInvariant, PTL

\* The last review read, and the last validation ran on, what the last fix produced.
THEOREM FixesAreRejudged == Spec => []FixesRejudged
<1>1. LoopInv => FixesRejudged
  BY DEF LoopInv
<1>2. QED
  BY <1>1, LoopInvariant, PTL

-----------------------------------------------------------------------------
\* The plan and the ledger.

(***************************************************************************)
(* The plan.  In a team with a planner, whatever plan text is around after *)
(* the reset was written in this run: the plan file, the refiner's         *)
(* fallback draft, and so what selectPlan makes of them.                   *)
(***************************************************************************)
ThisRunsPlan ==
  mode = "plan" /\ pc \notin {"idle", "ping"} =>
    /\ planFile # "none" => planBy = runs
    /\ draft # "none" => draftBy = runs
    /\ plan = "valid" => planOf = runs

\* The sites after the plan gate.
Building == ImplementerSites \cup {"review", "validate", "reask", "settle", "document",
                                   "ship", "finish"}

PlanReady ==
  pc \in Building =>
    /\ mode \in {"plan", "resume"} => plan = "valid"
    /\ mode = "brief" => plan = "brief"

HasImplementer ==
  /\ mode = "none" => ~Has("implementer")
  /\ pc \in {"freshctx", "reviewfix", "valfix"} \/ (pc = "implement" /\ busy)
       => Has("implementer")

PlanInv == ThisRunsPlan /\ PlanReady /\ HasImplementer

\* A run without a plan has no implementer.
LEMMA ModeNone ==
  ASSUME NEW r, ModeOf(r) = "none"
  PROVE  "implementer" \notin r
BY DEF ModeOf

\* Before the first run there is no plan.
LEMMA PlanInit == Init => PlanInv
BY DEF Init, PlanInv, ThisRunsPlan, PlanReady, Building, HasImplementer, Has,
       ImplementerSites

\* Every step keeps the plan invariant.
LEMMA PlanStep == TypeOK /\ PlanInv /\ [Next]_vars => PlanInv'
<1> SUFFICES ASSUME TypeOK, PlanInv, [Next]_vars PROVE PlanInv' OBVIOUS
<1> USE DEF TypeOK, RequestType, Modes, PlanInv, ThisRunsPlan, PlanReady, Building,
            HasImplementer, Has, Due, ImplementerSites
<1>1. ASSUME NEW r \in Rosters, NEW long \in BOOLEAN, NEW missing \in BOOLEAN,
             Refuse(r, long, missing)
      PROVE  PlanInv'
  BY <1>1 DEF Refuse, FinalizeError, Return, request, planVars
<1>2. ASSUME NEW r \in Rosters, NEW limit \in LoopLimits, NEW long \in BOOLEAN,
             Begin(r, limit, long)
      PROVE  PlanInv'
  BY <1>2, ModeNone DEF Begin, ResetRunScratch, request, planVars
<1>3. CASE BeginPing
  BY <1>3 DEF BeginPing, request, planVars
<1>4. ASSUME NEW allOk \in BOOLEAN, EndPing(allOk) PROVE PlanInv'
  BY <1>4 DEF EndPing, Return, request, planVars
<1>5. CASE Scout
  BY <1>5 DEF Scout, Goto, Launch, Skip, Ok, request, planVars
<1>6. CASE Roadmap
  BY <1>6 DEF Roadmap, Goto, Launch, Skip, Ok, FinalizeError, Return, request,
     planVars
<1>7. CASE Plan
  BY <1>7 DEF Plan, Goto, Launch, Skip, Ok, SelectPlan, request, planVars
<1>8. CASE Refine
  BY <1>8 DEF Refine, SavePlanDraft, Goto, Launch, Skip, Ok, SelectPlan, request, planVars
<1>9. CASE PlanGate
  BY <1>9 DEF PlanGate, Goto, Launch, Skip, Ok, FinalizeError, Return, FinalPlan,
     request, planVars
<1>10. CASE Implement
  BY <1>10 DEF Implement, Goto, Launch, Skip, Ok, request, planVars
<1>11. CASE FreshContextRetry
  BY <1>11 DEF FreshContextRetry, Goto, Launch, Skip, Ok, request, planVars
<1>12. CASE Review
  BY <1>12 DEF Review, Goto, Launch, Skip, Ok, request, planVars
<1>13. CASE ReviewFix
  BY <1>13 DEF ReviewFix, Goto, Launch, Skip, Ok, request, planVars
<1>14. CASE Validate
  BY <1>14 DEF Validate, Goto, Launch, Skip, Ok, AfterVerdict, request, planVars
<1>15. CASE ReaskVerdict
  BY <1>15 DEF ReaskVerdict, Goto, Launch, Skip, Ok, AfterVerdict, request, planVars
<1>16. CASE ValidationFix
  BY <1>16 DEF ValidationFix, Goto, Launch, Skip, Ok, request, planVars
<1>17. CASE Settle
  BY <1>17 DEF Settle, Goto, Launch, Skip, Ok, request, planVars
<1>18. CASE Document
  BY <1>18 DEF Document, Goto, Launch, Skip, Ok, request, planVars
<1>19. CASE Ship
  BY <1>19 DEF Ship, Goto, Launch, Skip, Ok, request, planVars
<1>20. CASE Finish
  BY <1>20 DEF Finish, Return, request, planVars
<1>21. CASE AbortBetweenPhases
  BY <1>21 DEF AbortBetweenPhases, Aborted, Return, request, planVars
<1>22. CASE PhaseFails
  BY <1>22 DEF PhaseFails, Goto, Fail, Aborted, FinalizeError, Return, request,
     planVars
<1>23. CASE Throws
  BY <1>23 DEF Throws, FinalizeError, Return, request, planVars
<1>24. CASE Cancel
  BY <1>24 DEF Cancel, request, planVars
<1>25. CASE AgentWritesPlan
  BY <1>25 DEF AgentWritesPlan, control, request, planVars
<1>26. CASE AgentMarksLedger
  BY <1>26 DEF AgentMarksLedger, control, request, planVars
<1>27. CASE UNCHANGED vars
  BY <1>27 DEF vars, control, request, planVars
<1>28. QED
  BY <1>1, <1>2, <1>3, <1>4, <1>5, <1>6, <1>7, <1>8, <1>9, <1>10, <1>11, <1>12, <1>13,
     <1>14, <1>15, <1>16, <1>17, <1>18, <1>19, <1>20, <1>21, <1>22, <1>23, <1>24,
     <1>25, <1>26, <1>27 DEF Next, PhaseStep

\* The plan invariant and the types hold in every reachable state.
LEMMA PlanInvariant == Spec => [](TypeOK /\ PlanInv)
<1>1. Spec => []TypeOK
  BY TypeCorrect
<1>2. Init => PlanInv
  BY PlanInit
<1>3. TypeOK /\ PlanInv /\ [Next]_vars => PlanInv'
  BY PlanStep
<1>4. QED
  BY <1>1, <1>2, <1>3, PTL DEF Spec

\* Every implementer session of every run works from a usable plan, and in a team
\* with a planner from one written in that run.
THEOREM PlanUsable == Spec => []ImplementsUsablePlan
<1>1. TypeOK /\ PlanInv => ImplementsUsablePlan
  BY DEF TypeOK, RequestType, Modes, PlanInv, ThisRunsPlan, PlanReady, Building,
         HasImplementer, ImplementsUsablePlan, ImplementerSites
<1>2. QED
  BY <1>1, PlanInvariant, PTL

(***************************************************************************)
(* The ledger.  Only two actions add marks: an implementer's own, and      *)
(* Settle, which does so on a PASS that the gate invariant shows to be     *)
(* about the current code.                                                 *)
(***************************************************************************)
Evidence ==
  Has("validator") /\ ~(done' \subseteq done)
    => \/ busy /\ pc \in ImplementerSites
       \/ verdict = "pass" /\ validated = version

\* What passed the validator passed as it stands.
LEMMA SettledPass ==
  ASSUME GateInv, Passed, Has("validator")
  PROVE  verdict = "pass" /\ validated = version
BY DEF GateInv, PassIsFresh, Passed

\* A step that adds marks has evidence for them.
LEMMA EvidenceStep == TypeOK /\ GateInv /\ [Next]_vars => Evidence
<1> SUFFICES ASSUME TypeOK, GateInv, [Next]_vars PROVE Evidence OBVIOUS
<1> USE DEF Evidence
<1>1. ASSUME NEW r \in Rosters, NEW long \in BOOLEAN, NEW missing \in BOOLEAN,
             Refuse(r, long, missing)
      PROVE  Evidence
  BY <1>1 DEF Refuse, FinalizeError, Return, ledgerVars
<1>2. ASSUME NEW r \in Rosters, NEW limit \in LoopLimits, NEW long \in BOOLEAN,
             Begin(r, limit, long)
      PROVE  Evidence
  BY <1>2 DEF Begin, ResetRunScratch, ledgerVars
<1>3. CASE BeginPing
  BY <1>3 DEF BeginPing, ledgerVars
<1>4. ASSUME NEW allOk \in BOOLEAN, EndPing(allOk) PROVE Evidence
  BY <1>4 DEF EndPing, Return, ledgerVars
<1>5. CASE Scout
  BY <1>5 DEF Scout, ledgerVars
<1>6. CASE Roadmap
  BY <1>6 DEF Roadmap, ledgerVars
<1>7. CASE Plan
  BY <1>7 DEF Plan, ledgerVars
<1>8. CASE Refine
  BY <1>8 DEF Refine, SavePlanDraft, ledgerVars
<1>9. CASE PlanGate
  BY <1>9 DEF PlanGate, ledgerVars
<1>10. CASE Implement
  BY <1>10 DEF Implement, PrepareLedger, Unledger, ledgerVars
<1>11. CASE FreshContextRetry
  BY <1>11 DEF FreshContextRetry, ledgerVars
<1>12. CASE Review
  BY <1>12 DEF Review, ledgerVars
<1>13. CASE ReviewFix
  BY <1>13 DEF ReviewFix, ledgerVars
<1>14. CASE Validate
  BY <1>14 DEF Validate, ledgerVars
<1>15. CASE ReaskVerdict
  BY <1>15 DEF ReaskVerdict, ledgerVars
<1>16. CASE ValidationFix
  BY <1>16 DEF ValidationFix, ledgerVars
<1>17. CASE Settle
  BY <1>17, SettledPass DEF Settle, MarkAllPhasesDone, Goto,
     ledgerVars
<1>18. CASE Document
  BY <1>18 DEF Document, ledgerVars
<1>19. CASE Ship
  BY <1>19 DEF Ship, ledgerVars
<1>20. CASE Finish
  BY <1>20 DEF Finish, Return, ledgerVars
<1>21. CASE AbortBetweenPhases
  BY <1>21 DEF AbortBetweenPhases, Aborted, Return, ledgerVars
<1>22. CASE PhaseFails
  BY <1>22 DEF PhaseFails, Goto, Fail, Aborted, FinalizeError, Return, ledgerVars
<1>23. CASE Throws
  BY <1>23 DEF Throws, FinalizeError, Return, ledgerVars
<1>24. CASE Cancel
  BY <1>24 DEF Cancel, ledgerVars
<1>25. CASE AgentWritesPlan
  BY <1>25 DEF AgentWritesPlan, control, ledgerVars
<1>26. CASE AgentMarksLedger
  BY <1>26 DEF AgentMarksLedger, control, ledgerVars
<1>27. CASE UNCHANGED vars
  BY <1>27 DEF vars, control, ledgerVars
<1>28. QED
  BY <1>1, <1>2, <1>3, <1>4, <1>5, <1>6, <1>7, <1>8, <1>9, <1>10, <1>11, <1>12, <1>13,
     <1>14, <1>15, <1>16, <1>17, <1>18, <1>19, <1>20, <1>21, <1>22, <1>23, <1>24,
     <1>25, <1>26, <1>27 DEF Next, PhaseStep

\* In a team with a validator a ledger row is marked done only by an implementer at
\* work or on a PASS for the code as it stands.
THEOREM MarksJustified == Spec => MarksNeedEvidence
<1>1. TypeOK /\ GateInv /\ [Next]_vars => [Evidence]_vars
  BY EvidenceStep
<1>2. [Evidence]_vars <=> [Has("validator") /\ ~(done' \subseteq done)
       => \/ busy /\ pc \in ImplementerSites
          \/ verdict = "pass" /\ validated = version]_vars
  BY DEF Evidence
<1>3. QED
  BY <1>1, <1>2, GateInvariant, PTL DEF Spec, MarksNeedEvidence
=============================================================================
