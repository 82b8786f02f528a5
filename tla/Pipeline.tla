------------------------------ MODULE Pipeline ------------------------------
(***************************************************************************)
(* The workflow pipeline: runWorkflowCore and runWorkflowCoreImpl of       *)
(* src/utils/workflow/orchestrator-core.ts, run after run in one project   *)
(* directory.                                                              *)
(*                                                                         *)
(* The orchestrator is one asynchronous function.  It is suspended only in *)
(* "await h.execution.runPhase(...)", while a sub-agent process works; all *)
(* the code between two awaits runs without interruption.  `pc` names the  *)
(* phase site the function has reached and `busy` says that it is          *)
(* suspended there.  What other callbacks do (escape-cancel, the           *)
(* sub-agent's own writes under .agent/) happens while `busy` holds.       *)
(*                                                                         *)
(* One run is in flight at a time here.  Overlapping starts, which share   *)
(* `running` and the abort signal, are the subject of RunControl.          *)
(***************************************************************************)
EXTENDS Integers

CONSTANTS
  Rosters,     \* the teams: sets of pipeline roles (agents/teams.yaml)
  LoopLimits,  \* the max_loops values a caller may pass
  PlanPhases,  \* the numbered phases of a structurally valid plan
  MaxRuns      \* bound: runs started in one behaviour

Roles == {"scout", "roadmapper", "planner", "refiner", "implementer",
          "reviewer", "validator", "documenter", "shipper"}

ASSUME PipelineAssumption ==
  /\ Rosters \subseteq SUBSET Roles
  /\ LoopLimits \subseteq Nat
  /\ MaxRuns \in Nat

VARIABLES
  pc,             \* site reached in runWorkflowCoreImpl, "idle" outside it
  busy,           \* suspended in the await of a sub-agent
  signal,         \* h.signal.aborted
  running,        \* s.running
  lastStatus,     \* s.lastStatus
  roster,         \* roles of the run's team that have a phase
  maxLoops,       \* the run's loop limit
  mode,           \* where the plan comes from: see Modes
  loop,           \* counter of the review or validate loop being executed
  revalidated,    \* the one corrective re-ask has been spent
  reviewVerdict,  \* detectCritique of the last review
  verdict,        \* detectVerdict of the last validation
  plan,           \* plan.output: "none", "valid", "invalid" or "brief"
  planFile,       \* .agent/plan.md: "none", "valid" or "invalid"
  draft,          \* .agent/plan.draft.md, same values
  ledger,         \* .agent/progress.md exists
  done,           \* its rows marked [x]
  runs,           \* runs begun so far
  version,        \* implementer sessions launched by this run
  reviewed,       \* the version the last review read, 0 before any
  validated,      \* the version the last validation ran on, 0 before any
  verdicts,       \* validator sessions launched by this run
  ships,          \* shipper sessions launched by this run
  planBy,         \* run that last wrote .agent/plan.md
  draftBy,        \* run that last wrote .agent/plan.draft.md
  planOf          \* run that wrote the text in `plan`

(***************************************************************************)
(* `version` to `planOf` are history variables: the code does not keep     *)
(* them and no guard reads them.                                           *)
(***************************************************************************)
control == <<pc, busy, signal, running, lastStatus>>
request == <<roster, maxLoops, mode, runs>>
verdictVars == <<loop, revalidated, reviewVerdict, verdict, reviewed, validated, verdicts>>
planVars == <<plan, planFile, draft, planBy, draftBy, planOf>>
ledgerVars == <<ledger, done>>
work == <<version, ships>>
vars == <<control, request, verdictVars, planVars, ledgerVars, work>>

Modes == {"plan", "resume", "brief", "none"}

\* validatePlan tells a valid plan from an invalid one.
PlanFiles == {"none", "valid", "invalid"}

\* What detectCritique and detectVerdict may read in an output.
Reviews == {"approved", "approved-with-reservations", "revise", "unknown"}
Verdicts == {"pass", "fail", "paused", "unknown"}

ImplementerSites == {"implement", "freshctx", "reviewfix", "valfix"}
Sites == {"scout", "roadmap", "plan", "refine", "review", "validate", "reask",
          "document", "ship"} \cup ImplementerSites
Landed == {"shipped", "shipped-local", "done"}
Statuses == Landed \cup {"idle", "running", "error", "aborted", "needs-review",
                         "failed-after-retries"}

\* A ledger has a row per numbered phase, or the one row "Implementation".
AllRows == PlanPhases \cup {"Implementation"}
Rows == IF plan = "valid" THEN PlanPhases ELSE {"Implementation"}

ControlType ==
  /\ pc \in Sites \cup {"idle", "ping", "gate", "settle", "finish"}
  /\ busy \in BOOLEAN /\ signal \in BOOLEAN /\ running \in BOOLEAN
  /\ lastStatus \in Statuses

RequestType ==
  roster \in SUBSET Roles /\ maxLoops \in Nat /\ mode \in Modes /\ runs \in Nat

VerdictType ==
  /\ loop \in Nat /\ revalidated \in BOOLEAN
  /\ reviewVerdict \in Reviews /\ verdict \in Verdicts
  /\ reviewed \in Nat /\ validated \in Nat /\ verdicts \in Nat

PlanType ==
  /\ plan \in PlanFiles \cup {"brief"} /\ planFile \in PlanFiles /\ draft \in PlanFiles
  /\ planBy \in Nat /\ draftBy \in Nat /\ planOf \in Nat

LedgerType == ledger \in BOOLEAN /\ done \in SUBSET AllRows

WorkType == version \in Nat /\ ships \in Nat

TypeOK == ControlType /\ RequestType /\ VerdictType /\ PlanType /\ LedgerType /\ WorkType

Init ==
  /\ pc = "idle" /\ busy = FALSE /\ signal = FALSE
  /\ running = FALSE /\ lastStatus = "idle"
  /\ roster = {} /\ maxLoops = 0 /\ mode = "none" /\ runs = 0
  /\ loop = 0 /\ revalidated = FALSE /\ reviewVerdict = "unknown" /\ verdict = "unknown"
  /\ reviewed = 0 /\ validated = 0 /\ verdicts = 0
  /\ version = 0 /\ ships = 0
  /\ plan = "none" /\ planFile = "none" /\ draft = "none"
  /\ planBy = 0 /\ draftBy = 0 /\ planOf = 0
  /\ ledger = FALSE /\ done = {}

Has(role) == role \in roster

(***************************************************************************)
(* Leaving the function.                                                   *)
(***************************************************************************)
Return(status) ==
  /\ pc' = "idle" /\ busy' = FALSE
  /\ running' = FALSE /\ lastStatus' = status
  /\ UNCHANGED signal

FinalizeError == Return("error")

\* checkAbort found the signal raised: the run ends "aborted", files untouched.
AbortedIfStillRunning == signal /\ running /\ Return("aborted")
Aborted == signal /\ Return("aborted")

\* fail(): a phase that came back not ok.  An abort outranks the error.
Fail == Aborted \/ (~signal /\ FinalizeError)

(***************************************************************************)
(* Moving through it.  A site's phase is due when the roster has its role  *)
(* and the gates before it are open.  Launch is checkAbort followed by the *)
(* call that suspends the function; Goto runs on to the next site.         *)
(***************************************************************************)
PassedUnlessFail == Has("validator") => verdict # "fail"
PassOverridesReview == Has("reviewer") => reviewVerdict # "revise" \/ verdict = "pass"
Passed == Has("validator") => verdict = "pass"
ReviewOk == Has("reviewer") => reviewVerdict # "revise"

Due(site) ==
  CASE site = "scout" -> Has("scout")
    [] site = "roadmap" -> Has("roadmapper")
    [] site = "plan" -> Has("planner")
    [] site = "refine" -> Has("refiner") /\ Has("planner")
    [] site = "implement" -> Has("implementer")
    [] site = "review" -> Has("reviewer") /\ loop <= maxLoops
    [] site = "validate" -> Has("validator") /\ loop <= maxLoops
    [] site = "document" -> Has("documenter") /\ Passed /\ ReviewOk
    [] site = "ship" -> Has("shipper") /\ Passed /\ ReviewOk
    [] OTHER -> TRUE

Goto(site) == pc' = site /\ busy' = FALSE /\ UNCHANGED <<signal, running, lastStatus>>

LaunchUnchecked(site) ==
  /\ pc = site /\ ~busy /\ Due(site)
  /\ busy' = TRUE
  /\ UNCHANGED <<pc, signal, running, lastStatus>>

Launch(site) ==
  /\ pc = site /\ ~busy /\ Due(site) /\ ~signal
  /\ busy' = TRUE
  /\ UNCHANGED <<pc, signal, running, lastStatus>>

Skip(site, next) == pc = site /\ ~busy /\ ~Due(site) /\ Goto(next)

\* The awaited phase resolved with ok = TRUE.
Ok(site) == pc = site /\ busy

(***************************************************************************)
(* Starting a run.  `long` says the request is long enough to stand in for *)
(* a plan; `missing` that a roster member has no agent definition.         *)
(***************************************************************************)
ModeOf(r) ==
  CASE "planner" \in r -> "plan"
    [] "planner" \notin r /\ "implementer" \notin r -> "none"
    [] "planner" \notin r /\ "implementer" \in r /\ planFile # "none" -> "resume"
    [] OTHER -> "brief"

Refused(r, long, missing) ==
  \/ missing
  \/ r = {}
  \/ ModeOf(r) = "brief" /\ ~long

\* Pre-run validation fails before anything is wiped.
Refuse(r, long, missing) ==
  /\ pc = "idle" /\ ~running /\ runs < MaxRuns
  /\ Refused(r, long, missing)
  /\ FinalizeError
  /\ runs' = runs + 1
  /\ UNCHANGED <<roster, maxLoops, mode, verdictVars, planVars, ledgerVars, work>>

ResetKeepsDraft ==
  /\ planFile' = "none" /\ planBy' = 0 /\ UNCHANGED <<draft, draftBy>>
  /\ ledger' = FALSE /\ done' = {}

ResetRunScratch ==
  /\ planFile' = "none" /\ draft' = "none" /\ planBy' = 0 /\ draftBy' = 0
  /\ ledger' = FALSE /\ done' = {}

\* The local variables a run starts from.
FreshVerdicts ==
  /\ loop' = 0 /\ revalidated' = FALSE
  /\ reviewVerdict' = "unknown" /\ verdict' = "unknown"
  /\ reviewed' = 0 /\ validated' = 0 /\ verdicts' = 0
  /\ version' = 0 /\ ships' = 0

Begin(r, limit, long) ==
  /\ pc = "idle" /\ ~running /\ runs < MaxRuns
  /\ ~Refused(r, long, FALSE)
  /\ pc' = "scout" /\ busy' = FALSE /\ signal' = FALSE
  /\ running' = TRUE /\ lastStatus' = "running"
  /\ roster' = r /\ maxLoops' = limit /\ mode' = ModeOf(r) /\ runs' = runs + 1
  /\ FreshVerdicts
  /\ plan' = "none" /\ planOf' = 0
  /\ IF mode' \in {"resume", "none"}
       THEN UNCHANGED <<planFile, draft, planBy, draftBy, ledgerVars>>
       ELSE ResetRunScratch

\* A trivial ping runs every loaded agent at once and touches no scratch file.
BeginPing ==
  /\ pc = "idle" /\ ~running /\ runs < MaxRuns
  /\ pc' = "ping" /\ busy' = TRUE /\ signal' = FALSE
  /\ running' = TRUE /\ lastStatus' = "running"
  /\ runs' = runs + 1 /\ maxLoops' = 1 /\ roster' = {} /\ mode' = "none"
  /\ FreshVerdicts
  /\ UNCHANGED <<planVars, ledgerVars>>

EndPing(allOk) ==
  /\ pc = "ping" /\ busy
  /\ Return(IF allOk THEN "done" ELSE "needs-review")
  /\ UNCHANGED <<request, verdictVars, planVars, ledgerVars, work>>

(***************************************************************************)
(* Scout and roadmap.  The roadmapper's deliverable is a file: a run whose *)
(* roadmapper did not write it ends in an error (`wrote` = FALSE).         *)
(***************************************************************************)
Scout ==
  /\ \/ Skip("scout", "roadmap")
     \/ Launch("scout")
     \/ Ok("scout") /\ Goto("roadmap")
  /\ UNCHANGED <<request, verdictVars, planVars, ledgerVars, work>>

Roadmap ==
  /\ \/ Skip("roadmap", "plan")
     \/ Launch("roadmap")
     \/ Ok("roadmap") /\ \E wrote \in BOOLEAN : IF wrote THEN Goto("plan") ELSE FinalizeError
  /\ UNCHANGED <<request, verdictVars, planVars, ledgerVars, work>>

(***************************************************************************)
(* Plan and refine.  selectPlan takes the first structurally valid         *)
(* candidate and writes it back to .agent/plan.md; when none is valid it   *)
(* returns the first that is not empty and writes nothing.  The message is *)
(* never empty here: runPhase is ok only with some output.                 *)
(***************************************************************************)
SelectPlan(message, fallback, fallbackBy) ==
  IF message = "valid"
    THEN /\ plan' = "valid" /\ planOf' = runs
         /\ planFile' = "valid" /\ planBy' = runs
  ELSE IF planFile = "valid"
    THEN plan' = "valid" /\ planOf' = planBy /\ UNCHANGED <<planFile, planBy>>
  ELSE IF fallback = "valid"
    THEN /\ plan' = "valid" /\ planOf' = fallbackBy
         /\ planFile' = "valid" /\ planBy' = fallbackBy
  ELSE plan' = "invalid" /\ planOf' = runs /\ UNCHANGED <<planFile, planBy>>

Plan ==
  /\ \/ Skip("plan", "refine") /\ UNCHANGED planVars
     \/ Launch("plan") /\ UNCHANGED planVars
     \/ /\ Ok("plan") /\ Goto("refine")
        /\ \E message \in {"valid", "invalid"} : SelectPlan(message, "none", 0)
        /\ UNCHANGED <<draft, draftBy>>
  /\ UNCHANGED <<request, verdictVars, ledgerVars, work>>

\* The draft is a copy of plan.md, when there is one, made before the refiner runs.
SavePlanDraft ==
  IF planFile = "none"
    THEN UNCHANGED <<draft, draftBy>>
    ELSE draft' = planFile /\ draftBy' = planBy

Refine ==
  /\ \/ Skip("refine", "gate") /\ UNCHANGED planVars
     \/ /\ Launch("refine")
        /\ SavePlanDraft
        /\ UNCHANGED <<plan, planFile, planBy, planOf>>
     \/ /\ Ok("refine") /\ Goto("gate")
        /\ \E message \in {"valid", "invalid"} : SelectPlan(message, draft, draftBy)
        /\ UNCHANGED <<draft, draftBy>>
  /\ UNCHANGED <<request, verdictVars, ledgerVars, work>>

(***************************************************************************)
(* The plan gate: load the plan the implementer will build, and check the  *)
(* structure of one that came from a planner or from disk.                 *)
(***************************************************************************)
FinalPlan ==
  CASE mode = "plan" -> plan
    [] mode = "resume" -> planFile
    [] mode = "brief" -> "brief"
    [] OTHER -> "none"

PlanGate ==
  /\ pc = "gate"
  /\ IF mode \in {"plan", "resume"} /\ FinalPlan # "valid"
       THEN FinalizeError /\ planFile' = "none" /\ planBy' = 0
       ELSE Goto("implement") /\ UNCHANGED <<planFile, planBy>>
  /\ plan' = FinalPlan
  /\ planOf' = IF mode = "resume" THEN planBy ELSE planOf
  /\ UNCHANGED <<request, verdictVars, draft, draftBy, ledgerVars, work>>

(***************************************************************************)
(* Implement.  The first launch seeds the ledger, except on a resume that  *)
(* finds one: that is reconciled with the work branch, which keeps the     *)
(* marks or reopens every row.  (The branches themselves are in            *)
(* WorkBranch.)  The fresh-context audit, whose evidence is the dispatch   *)
(* history, may ask for one more session while a row is unchecked.         *)
(***************************************************************************)
Unledger == done' = {}

PrepareLedger ==
  IF mode = "resume" /\ ledger
    THEN UNCHANGED ledger /\ (Unledger \/ UNCHANGED done)
    ELSE ledger' = TRUE /\ Unledger

\* The audit only objects to a plan of two phases or more.
MayViolate == plan = "valid" /\ \E p, q \in PlanPhases : p # q

Implement ==
  /\ \/ /\ Skip("implement", "review")
        /\ loop' = 1 /\ UNCHANGED <<version, ledgerVars>>
     \/ /\ Launch("implement")
        /\ PrepareLedger
        /\ version' = version + 1 /\ UNCHANGED loop
     \/ /\ Ok("implement")
        /\ \/ MayViolate /\ done # Rows /\ Goto("freshctx") /\ UNCHANGED loop
           \/ Goto("review") /\ loop' = 1
        /\ UNCHANGED <<version, ledgerVars>>
  /\ UNCHANGED <<request, revalidated, reviewVerdict, verdict, reviewed, validated,
                 verdicts, planVars, ships>>

FreshContextRetry ==
  /\ \/ Launch("freshctx") /\ version' = version + 1 /\ UNCHANGED loop
     \/ Ok("freshctx") /\ Goto("review") /\ loop' = 1 /\ UNCHANGED version
  /\ UNCHANGED <<request, revalidated, reviewVerdict, verdict, reviewed, validated,
                 verdicts, planVars, ledgerVars, ships>>

(***************************************************************************)
(* Review <-> implement.                                                   *)
(***************************************************************************)
Review ==
  /\ \/ /\ Skip("review", "validate")
        /\ loop' = 1 /\ UNCHANGED <<reviewVerdict, reviewed>>
     \/ Launch("review") /\ UNCHANGED <<loop, reviewVerdict, reviewed>>
     \/ /\ Ok("review")
        /\ reviewVerdict' \in Reviews
        /\ reviewed' = version
        /\ IF reviewVerdict' = "revise" /\ loop # maxLoops /\ Has("implementer")
             THEN Goto("reviewfix") /\ UNCHANGED loop
             ELSE Goto("validate") /\ loop' = 1
  /\ UNCHANGED <<request, revalidated, verdict, validated, verdicts, planVars,
                 ledgerVars, work>>

ReviewFix ==
  /\ \/ Launch("reviewfix") /\ version' = version + 1 /\ UNCHANGED loop
     \/ Ok("reviewfix") /\ Goto("review") /\ loop' = loop + 1 /\ UNCHANGED version
  /\ UNCHANGED <<request, revalidated, reviewVerdict, verdict, reviewed, validated,
                 verdicts, planVars, ledgerVars, ships>>

(***************************************************************************)
(* Validate <-> implement, with one re-ask for a missing verdict over the  *)
(* whole loop.                                                             *)
(***************************************************************************)
AfterVerdictNoLimit ==
  IF verdict' = "fail" /\ Has("implementer") THEN Goto("valfix") ELSE Goto("settle")

AfterVerdict ==
  IF verdict' = "fail" /\ loop # maxLoops /\ Has("implementer")
    THEN Goto("valfix")
    ELSE Goto("settle")

Validate ==
  /\ \/ /\ Skip("validate", "settle")
        /\ UNCHANGED <<revalidated, verdict, validated, verdicts>>
     \/ /\ Launch("validate")
        /\ verdicts' = verdicts + 1 /\ UNCHANGED <<revalidated, verdict, validated>>
     \/ /\ Ok("validate")
        /\ verdict' \in Verdicts
        /\ validated' = version
        /\ IF verdict' = "unknown" /\ ~revalidated
             THEN revalidated' = TRUE /\ Goto("reask")
             ELSE AfterVerdict /\ UNCHANGED revalidated
        /\ UNCHANGED verdicts
  /\ UNCHANGED <<request, loop, reviewVerdict, reviewed, planVars, ledgerVars, work>>

ReaskVerdict ==
  /\ \/ Launch("reask") /\ verdicts' = verdicts + 1 /\ UNCHANGED <<verdict, validated>>
     \/ /\ Ok("reask")
        /\ verdict' \in Verdicts
        /\ validated' = version
        /\ AfterVerdict
        /\ UNCHANGED verdicts
  /\ UNCHANGED <<request, loop, revalidated, reviewVerdict, reviewed, planVars,
                 ledgerVars, work>>

ValidationFix ==
  /\ \/ Launch("valfix") /\ version' = version + 1 /\ UNCHANGED loop
     \/ Ok("valfix") /\ Goto("validate") /\ loop' = loop + 1 /\ UNCHANGED version
  /\ UNCHANGED <<request, revalidated, reviewVerdict, verdict, reviewed, validated,
                 verdicts, planVars, ledgerVars, ships>>

(***************************************************************************)
(* Settle, document, ship, finish.                                         *)
(***************************************************************************)
MarkAllPhasesDone == done' = IF ledger THEN Rows ELSE done

SettleOnAnyVerdict ==
  /\ pc = "settle"
  /\ IF Has("implementer") THEN MarkAllPhasesDone ELSE UNCHANGED done
  /\ Goto("document")
  /\ UNCHANGED <<request, verdictVars, planVars, ledger, work>>

Settle ==
  /\ pc = "settle"
  /\ IF Passed /\ Has("implementer") THEN MarkAllPhasesDone ELSE UNCHANGED done
  /\ Goto("document")
  /\ UNCHANGED <<request, verdictVars, planVars, ledger, work>>

Document ==
  /\ \/ Skip("document", "ship")
     \/ Launch("document")
     \/ Ok("document") /\ Goto("ship")
  /\ UNCHANGED <<request, verdictVars, planVars, ledgerVars, work>>

StatusShipperFirst(paused) ==
  CASE ~Passed -> IF verdict = "fail" THEN "failed-after-retries" ELSE "needs-review"
    [] Passed /\ Has("shipper") -> IF paused THEN "shipped-local" ELSE "shipped"
    [] Passed /\ ~Has("shipper") /\ ~ReviewOk -> "needs-review"
    [] OTHER -> "done"

TerminalStatus(paused) ==
  CASE ~Passed -> IF verdict = "fail" THEN "failed-after-retries" ELSE "needs-review"
    [] Passed /\ ~ReviewOk -> "needs-review"
    [] Passed /\ ReviewOk /\ Has("shipper") -> IF paused THEN "shipped-local" ELSE "shipped"
    [] OTHER -> "done"

\* The shipper's report is read in the same uninterrupted stretch that ends the run.
Ship ==
  /\ \/ Launch("ship") /\ ships' = ships + 1
     \/ Skip("ship", "finish") /\ UNCHANGED ships
     \/ Ok("ship") /\ Goto("finish") /\ UNCHANGED ships
  /\ UNCHANGED <<request, verdictVars, planVars, ledgerVars, version>>

Finish ==
  /\ pc = "finish"
  /\ \E paused \in BOOLEAN : Return(TerminalStatus(paused))
  /\ UNCHANGED <<request, verdictVars, planVars, ledgerVars, work>>

(***************************************************************************)
(* Leaving early.                                                          *)
(***************************************************************************)
\* checkAbort, in front of every launch.
AbortBetweenPhases ==
  /\ pc \in Sites /\ ~busy /\ Due(pc)
  /\ Aborted
  /\ UNCHANGED <<request, verdictVars, planVars, ledgerVars, work>>

\* The awaited phase resolved with ok = FALSE: fatal, except for the README.
PhaseFails ==
  /\ pc \in Sites /\ busy
  /\ IF pc = "document" THEN Goto("ship") ELSE Fail
  /\ UNCHANGED <<request, verdictVars, planVars, ledgerVars, work>>

\* The await itself threw; runWorkflowCore's catch finalises the run.
Throws ==
  /\ busy /\ FinalizeError
  /\ UNCHANGED <<request, verdictVars, planVars, ledgerVars, work>>

(***************************************************************************)
(* What happens around the suspended function.                             *)
(***************************************************************************)
\* __piKillWorkflowProc: raise the signal, kill the children, clear running.
Cancel ==
  /\ busy /\ ~signal
  /\ signal' = TRUE /\ running' = FALSE
  /\ UNCHANGED <<pc, busy, lastStatus, request, verdictVars, planVars, ledgerVars, work>>

\* The planner or the refiner writes .agent/plan.md, whole or cut short.
AgentWritesPlan ==
  /\ pc \in {"plan", "refine"} /\ busy
  /\ planFile' \in {"valid", "invalid"} /\ planBy' = runs
  /\ UNCHANGED <<control, request, verdictVars, plan, draft, draftBy, planOf,
                 ledgerVars, work>>

\* The implementer ticks ledger rows, or reopens rows it has to redo.
AgentMarksLedger ==
  /\ pc \in ImplementerSites /\ busy /\ ledger
  /\ done' \in SUBSET Rows
  /\ UNCHANGED <<control, request, verdictVars, planVars, ledger, work>>

PhaseStep ==
  \/ Scout \/ Roadmap \/ Plan \/ Refine \/ PlanGate
  \/ Implement \/ FreshContextRetry \/ Review \/ ReviewFix
  \/ Validate \/ ReaskVerdict \/ ValidationFix
  \/ Settle \/ Document \/ Ship \/ Finish
  \/ AbortBetweenPhases \/ PhaseFails \/ Throws
  \/ \E allOk \in BOOLEAN : EndPing(allOk)

Next ==
  \/ \E r \in Rosters, long, missing \in BOOLEAN : Refuse(r, long, missing)
  \/ \E r \in Rosters, limit \in LoopLimits, long \in BOOLEAN : Begin(r, limit, long)
  \/ BeginPing
  \/ PhaseStep
  \/ Cancel \/ AgentWritesPlan \/ AgentMarksLedger

\* The function runs on whenever it can, and a sub-agent's process ends: the
\* stall watchdog of spawnAgentWithModel kills a silent one.
Spec == Init /\ [][Next]_vars /\ WF_vars(PhaseStep)

(***************************************************************************)
(* Properties.                                                             *)
(***************************************************************************)

\* Whatever a run hands to its shipper has passed every gate its team has: the
\* validator's PASS was given on exactly the code that ships, after the last
\* implementer session, and no REVISE BEFORE MERGE is outstanding.  At most one
\* shipper session is launched.
ShipGated ==
  /\ ships <= 1
  /\ ships = 1 => /\ ReviewOk
                  /\ Has("validator") => verdict = "pass" /\ validated = version

\* The status a run reports tells what happened: "shipped" and "shipped-local"
\* only of a run that launched its shipper, "needs-review" and
\* "failed-after-retries" only of one that did not.
StatusTellsTruth ==
  pc = "idle" =>
    /\ lastStatus \in {"shipped", "shipped-local"} => ships = 1
    /\ lastStatus \in {"needs-review", "failed-after-retries"} => ships = 0

\* No fix is left unjudged: when a team's loops are over, its last review read,
\* and its last validation ran on, what the last fix of that loop produced.
FixesRejudged ==
  maxLoops > 0 =>
    /\ Has("validator") /\ pc \in {"settle", "document", "ship", "finish"}
         => validated = version
    /\ Has("reviewer") /\ pc = "validate" /\ loop = 1 => reviewed = version

\* A run's cost is bounded by its loop limit: sub-agent sessions are launched at
\* most twice per round, and one corrective verdict re-ask per run.
WorkBudget ==
  /\ version <= IF maxLoops = 0 THEN 2 ELSE 2 * maxLoops
  /\ verdicts <= IF maxLoops = 0 THEN 0 ELSE maxLoops + 1

\* The implementer only ever works from a usable plan, and when the team has a
\* planner, from a plan written in this run: nothing an earlier run left under
\* .agent/ can pass for it.
ImplementsUsablePlan ==
  pc \in ImplementerSites /\ busy =>
    /\ plan = IF mode = "brief" THEN "brief" ELSE "valid"
    /\ mode = "plan" => planOf = runs

\* Once a run is cancelled it launches nothing more.
NoLaunchAfterCancel == [][signal /\ signal' /\ ~busy => ~busy']_vars

\* In a team with a validator, a ledger row turns [x] only in an implementer's
\* session or on a PASS for the code as it stands.
MarksNeedEvidence ==
  [][Has("validator") /\ ~(done' \subseteq done)
       => \/ busy /\ pc \in ImplementerSites
          \/ verdict = "pass" /\ validated = version]_vars

\* Every run ends, cancelled or not.
RunEnds == pc # "idle" ~> pc = "idle"

(***************************************************************************)
(* The pipeline implements ReleaseGate: launching the shipper is the       *)
(* release, the roster's reviewer and validator are the gates.             *)
(***************************************************************************)
GatesOf(r) ==
  (IF "reviewer" \in r THEN {"review"} ELSE {})
    \cup (IF "validator" \in r THEN {"validation"} ELSE {})

Objections ==
  (IF Has("reviewer") /\ reviewVerdict = "revise" THEN {"review"} ELSE {})
    \cup (IF Has("validator") /\ ~(verdict = "pass" /\ validated = version)
           THEN {"validation"} ELSE {})

Gate == INSTANCE ReleaseGate
          WITH gates <- GatesOf(roster), objections <- Objections, released <- ships > 0

\* Every step of the pipeline is a step of ReleaseGate or leaves it unchanged.
GateImplemented == Gate!Spec

\* The comment on the run-level verdict: "`shipped-local` is a PASS: the work is
\* built, reviewed, and committed".  A team with a reviewer ships only what its
\* reviewer has read.
ShippedIsReviewed ==
  pc = "idle" /\ lastStatus = "shipped-local" /\ Has("reviewer") => reviewed = version
=============================================================================
