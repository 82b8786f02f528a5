---------------------------- MODULE InlineBudget ----------------------------
(***************************************************************************)
(* The turn budget of an inline implementation.  On a small plan the       *)
(* dispatch of phase-implementers is refused; the refusal is lifted, and   *)
(* the implementer told so, once the run has spent its turns.  The count   *)
(* lives in .agent/inline-turns, because the implementers of a run are     *)
(* processes of their own, one after the other (extensions/dispatch.ts,    *)
(* utils/workflow/inline-budget.ts, workflow-core.ts).                     *)
(***************************************************************************)
EXTENDS Integers

CONSTANTS RunBudget,       \* PI_INLINE_MAX_TURNS, 0 switches the breaker off
          SessionBudget,   \* PI_INLINE_MAX_SESSION_TURNS
          Grace,           \* PI_INLINE_GRACE_TURNS
          MaxTurns,        \* bound: turns of a process
          MaxInstances,    \* bound: implementers of a run
          MaxBudgeted      \* bound: runs, resumed or new

ASSUME BudgetAssumption ==
  /\ {RunBudget, SessionBudget, Grace, MaxTurns, MaxInstances, MaxBudgeted} \subseteq Nat
  /\ RunBudget <= SessionBudget    \* so are the defaults; the environment may set others

VARIABLES
  budgeted,  \* the run: how many there were, is its plan small; and, counted here only,
             \* its implementers and the turns they took
  spent,     \* .agent/inline-turns
  coder,     \* the implementer: its turns, the count it found, what it was told
  worker     \* the phase-implementer it waits for

budgetVars == <<budgeted, spent, coder, worker>>

Unread == -1
NotStarted == [alive |-> FALSE, turns |-> 0, base |-> Unread, told |-> {}]
Fresh == [NotStarted EXCEPT !.alive = TRUE]

\* pi numbers the turns of a process from 0.
SessionTurns(p) == IF p.turns = 0 THEN 0 ELSE p.turns - 1
InlineTurns(p) == IF p.base = Unread THEN 0 ELSE p.base + SessionTurns(p)

BudgetSpent == RunBudget > 0 /\ InlineTurns(coder) >= RunBudget

\* Mutant: the budget of a session.
SessionSpent == RunBudget > 0 /\ SessionTurns(coder) >= RunBudget

\* Mutant.
RefusedAlone == budgeted.small /\ ~SessionSpent

\* inlineFloorRefusal.
Refused == budgeted.small /\ ~BudgetSpent

\* inlineHandoffKind: the notices due to the implementer, one at a time.
HandoffKind ==
  IF RunBudget = 0 THEN {}
  ELSE IF SessionTurns(coder) >= SessionBudget THEN {"session"}
  ELSE IF BudgetSpent /\ SessionTurns(coder) >= Grace THEN {"run"} ELSE {}

-----------------------------------------------------------------------------
BudgetInit ==
  /\ budgeted = [n |-> 0, small |-> FALSE, started |-> 0, taken |-> 0]
  /\ spent = 0 /\ coder = NotStarted /\ worker = NotStarted

\* A run reaches its implementer with a ledger seeded anew, and the count with it.
NewRun ==
  /\ budgeted.n < MaxBudgeted /\ ~coder.alive
  /\ \E small \in BOOLEAN : budgeted' = [n |-> budgeted.n + 1, small |-> small, started |-> 0, taken |-> 0]
  /\ spent' = 0 /\ UNCHANGED <<coder, worker>>

\* ... or resumes: ledger and count stay.
ResumeRun ==
  /\ budgeted.n \in 1..MaxBudgeted - 1 /\ ~coder.alive
  /\ budgeted' = [budgeted EXCEPT !.n = @ + 1] /\ UNCHANGED <<spent, coder, worker>>

\* The implementer's phase, a fix of it, or a retry.
Launch ==
  /\ budgeted.n > 0 /\ ~coder.alive /\ budgeted.started < MaxInstances
  /\ budgeted' = [budgeted EXCEPT !.started = @ + 1]
  /\ coder' = Fresh /\ UNCHANGED <<spent, worker>>

\* Mutant: the count of the process.
TurnAlone ==
  /\ coder.alive /\ ~worker.alive /\ coder.turns < MaxTurns
  /\ coder' = [coder EXCEPT !.turns = @ + 1, !.base = 0]
  /\ spent' = InlineTurns(coder')
  /\ budgeted' = [budgeted EXCEPT !.taken = @ + 1] /\ UNCHANGED worker

\* turn_start of the implementer.
Turn ==
  /\ coder.alive /\ ~worker.alive /\ coder.turns < MaxTurns
  /\ coder' = [coder EXCEPT !.turns = @ + 1, !.base = IF @ = Unread THEN spent ELSE @]
  /\ spent' = InlineTurns(coder')
  /\ budgeted' = [budgeted EXCEPT !.taken = @ + 1] /\ UNCHANGED worker

\* tool_result of the implementer carries the notice, once of each kind.
Tell ==
  /\ coder.alive /\ ~worker.alive /\ coder.turns > 0 /\ budgeted.small
  /\ ~(HandoffKind \subseteq coder.told)
  /\ coder' = [coder EXCEPT !.told = @ \cup HandoffKind] /\ UNCHANGED <<budgeted, spent, worker>>

\* dispatch_agent, dispatch_parallel: a worker has a process, and counts its own turns.
Delegate ==
  /\ coder.alive /\ ~worker.alive /\ coder.turns > 0 /\ ~Refused
  /\ worker' = Fresh /\ UNCHANGED <<budgeted, spent, coder>>

WorkerTurn ==
  /\ worker.alive /\ worker.turns < MaxTurns
  /\ worker' = [worker EXCEPT !.turns = @ + 1] /\ UNCHANGED <<budgeted, spent, coder>>

TellWorker ==
  /\ worker.alive /\ worker.told = {} /\ SessionTurns(worker) >= SessionBudget
  /\ worker' = [worker EXCEPT !.told = {"worker"}] /\ UNCHANGED <<budgeted, spent, coder>>

WorkerReports ==
  /\ worker.alive /\ worker' = NotStarted /\ UNCHANGED <<budgeted, spent, coder>>

\* The implementer ends, fails or is killed, and its worker with it.
CoderEnds ==
  /\ coder.alive /\ coder' = NotStarted /\ worker' = NotStarted /\ UNCHANGED <<budgeted, spent>>

BudgetNext ==
  \/ NewRun \/ ResumeRun \/ Launch \/ Turn \/ Tell \/ Delegate
  \/ WorkerTurn \/ TellWorker \/ WorkerReports \/ CoderEnds

BudgetSpec == BudgetInit /\ [][BudgetNext]_budgetVars

-----------------------------------------------------------------------------
(***************************************************************************)
(* The file holds the turns the run's implementers took, all of them, and  *)
(* no other run's: each process leaves out one turn at most.               *)
(***************************************************************************)
RunCounted == spent <= budgeted.taken /\ budgeted.taken <= spent + budgeted.started

(***************************************************************************)
(* An implementer that was told that the refusal is lifted can dispatch.   *)
(***************************************************************************)
LiftIsTrue == coder.told # {} => ~Refused

(***************************************************************************)
(* The count and what is told from it agree with the turns taken.          *)
(***************************************************************************)
TurnsTold == RunCounted /\ LiftIsTrue
=============================================================================
