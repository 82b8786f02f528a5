----------------------------- MODULE WorkBranch -----------------------------
(***************************************************************************)
(* What a run does to the user's repository: the checkpoint /revert goes   *)
(* back to, the branch the phases are committed on, and the ledger that    *)
(* tells a later run which phases are done (utils/workflow/checkpoint.ts,  *)
(* extensions/revert.ts, and the set-up of the implement phase in          *)
(* orchestrator-core.ts).                                                  *)
(*                                                                         *)
(* A commit is a position of `log`; a branch is the set of commits in its  *)
(* history, so the sha of its tip is that set and "is an ancestor of HEAD" *)
(* is membership.  The repository has a first commit, in every history and *)
(* not counted.  What a commit or the working tree holds is a set of       *)
(* items: the plan's phases and the user's pieces of work.                 *)
(***************************************************************************)
EXTENDS Naturals, FiniteSetsExt, Sequences

CONSTANTS
  Phases, UserWork,      \* the plan's phases; what the user may write
  Requests,              \* requests, told apart by their branch slug
  Main, Own, Detached,   \* the default branch, one of the user's, no branch
  None,
  Clashes,               \* <<x, y>>: x changes a file that y changes
  Keep,                  \* CHECKPOINT_STASH_KEEP
  MaxRuns, MaxCommits, MaxStash   \* bounds

ASSUME WorkBranchAssumption ==
  /\ Cardinality({Main, Own, Detached, None}) = 4
  /\ Keep \in Nat \ {0} /\ MaxRuns \in Nat /\ MaxCommits \in Nat /\ MaxStash \in Nat

VARIABLES
  log,       \* what each commit holds
  branches,  \* every branch's history; Detached is HEAD's when on no branch
  on,        \* the branch checked out
  edits,     \* uncommitted changes to tracked files
  files,     \* untracked files
  stash,     \* the stash list, newest first: what each holds, and of which run it is
  cp,        \* .agent/checkpoints/latest.json
  dialog,    \* the checkpoint an open /revert dialog asks about
  plan,      \* .agent/plan.md exists
  ledger,    \* .agent/progress.md
  run,       \* the run
  runs,      \* how many have been started
  strayed    \* history: the workspace was reverted since the run chose a branch

repo == <<log, branches, on, edits, files, stash>>
branchVars == <<repo, cp, dialog, plan, ledger, run, runs, strayed>>

Items == Phases \cup UserWork
Commits == 1..Len(log)
HEAD == branches[on]
Held(history) == UNION {log[c] : c \in history}

\* agent/<slug>-<base7>
AgentBranch(request, base) == [request |-> request, base |-> base]

ASSUME AgentBranchesApart ==
  \A request \in Requests, base \in SUBSET (1..MaxCommits) :
    AgentBranch(request, base) \notin {Main, Own, Detached, None}

IsAgentBranch(b) == b \notin {Main, Own, Detached}

Idle == [at |-> "idle", resuming |-> FALSE, request |-> None, committed |-> 0]

BranchInit ==
  /\ log = <<>> /\ branches = [b \in {Main, Own, Detached} |-> {}]
  /\ on \in {Main, Own, Detached}
  /\ edits = {} /\ files = {} /\ stash = <<>>
  /\ cp = None /\ dialog = None /\ plan = FALSE /\ ledger = None
  /\ run = Idle /\ runs = 0 /\ strayed = FALSE

-----------------------------------------------------------------------------
\* The user, in an editor and a terminal.

Tree == edits \cup files \cup Held(HEAD)
Written == Tree \cup UNION ({stash[i].holds : i \in DOMAIN stash}
                              \cup {Held(branches[b]) : b \in DOMAIN branches}
                              \cup {log[c] : c \in Commits})

UserWrites(x) ==
  /\ x \notin Written
  /\ \/ edits' = edits \cup {x} /\ UNCHANGED files
     \/ files' = files \cup {x} /\ UNCHANGED edits
  /\ UNCHANGED <<log, branches, on, stash, cp, dialog, plan, ledger, run, runs, strayed>>

UserSwitches(b) ==
  /\ run = Idle /\ edits \cup files = {} /\ b \in DOMAIN branches \ {on, Detached}
  /\ on' = b
  /\ UNCHANGED <<log, branches, edits, files, stash, cp, dialog, plan, ledger, run, runs, strayed>>

-----------------------------------------------------------------------------
\* The checkpoint before a run.

\* Of its own entries the newest stay, and all that are not its own.
StayInStash(st) ==
  {i \in DOMAIN st : st[i].kind = "checkpoint" =>
       Cardinality({j \in 1..i : st[j].kind = "checkpoint"}) <= Keep}

\* Dropping an entry renumbers those below it.
Nth(stay, k) == CHOOSE i \in stay : Cardinality({j \in stay : j <= i}) = k
Drop(st, stay) == [k \in 1..Cardinality(stay) |-> st[Nth(stay, k)]]

CreateCheckpoint ==
  /\ cp' = [head |-> HEAD, branch |-> on, snapshot |-> edits, takenAt |-> runs']
  /\ LET stored == <<[kind |-> "checkpoint", holds |-> edits, of |-> runs']>> \o stash IN
     stash' = IF edits = {} THEN stash ELSE Drop(stored, StayInStash(stored))

\* Starting a run takes the checkpoint, also when the core then refuses the run.
\* A team with a planner starts from nothing; one without goes on from the plan.
Begin(resuming, request) ==
  /\ run = Idle /\ runs < MaxRuns /\ runs' = runs + 1
  /\ CreateCheckpoint
  /\ \/ /\ resuming /\ plan
        /\ run' = [Idle EXCEPT !.at = "ready", !.resuming = TRUE, !.request = request]
        /\ UNCHANGED <<plan, ledger>>
     \/ /\ ~resuming
        /\ run' = [Idle EXCEPT !.at = "planning", !.request = request]
        /\ plan' = FALSE /\ ledger' = None
     \/ UNCHANGED <<plan, ledger, run>>
  /\ UNCHANGED <<log, branches, on, edits, files, dialog, strayed>>

PlanWritten ==
  /\ run.at = "planning"
  /\ plan' = TRUE /\ run' = [run EXCEPT !.at = "ready"]
  /\ UNCHANGED <<repo, cp, dialog, ledger, runs, strayed>>

-----------------------------------------------------------------------------
\* The implement phase: its branch and its ledger.

\* `git switch` refuses over uncommitted work in what the two histories differ in.
Refuses(from, to) ==
  \E x \in edits \cup files, y \in SymDiff(Held(branches[from]), Held(branches[to])) :
    x = y \/ <<x, y>> \in Clashes

\* The branch a run is cut from: the one it is on, or the default one when that is a
\* prior run's; None when it is to build where it is.
CutFrom ==
  CASE IsAgentBranch(on) -> IF Refuses(on, Main) THEN None ELSE Main
    [] on = Own -> None
    [] OTHER -> on

\* Mutant: a run that could not switch builds on the default branch.
ReuseWhatever(request, wb) ==
  IF CutFrom = None THEN wb = on /\ UNCHANGED <<branches, on>>
  ELSE LET new == AgentBranch(request, branches[CutFrom]) IN
       IF new \notin DOMAIN branches
       THEN /\ wb = new /\ on' = new
            /\ branches' = [b \in DOMAIN branches \cup {new} |->
                              IF b = new THEN branches[CutFrom] ELSE branches[b]]
       ELSE wb = CutFrom /\ on' = CutFrom /\ UNCHANGED branches

\* ensureWorkBranch: `wb` is its result, a branch, or None when it could not leave
\* the default branch.
EnsureWorkBranch(request, wb) ==
  IF CutFrom = None THEN wb = on /\ UNCHANGED <<branches, on>>
  ELSE LET new == AgentBranch(request, branches[CutFrom]) IN
       \/ /\ new \notin DOMAIN branches
          /\ wb = new /\ on' = new
          /\ branches' = [b \in DOMAIN branches \cup {new} |->
                            IF b = new THEN branches[CutFrom] ELSE branches[b]]
       \/ /\ new \in DOMAIN branches /\ ~Refuses(CutFrom, new)
          /\ wb = new /\ on' = new /\ UNCHANGED branches
       \/ /\ new \in DOMAIN branches /\ Refuses(CutFrom, new)
          /\ wb = None /\ on' = CutFrom /\ UNCHANGED branches

InitProgressLedger(wb) ==
  ledger' = [based |-> wb # None, branch |-> wb,
             rows |-> [p \in Phases |-> [done |-> FALSE, sha |-> 0]]]

Cited == {ledger.rows[p].sha : p \in {q \in Phases : ledger.rows[q].done}} \ {0}
LedgerCommitsPresent(history) == Cited # {} /\ Cited \subseteq history

Reopened == [p \in Phases |-> [done |-> FALSE, sha |-> 0]]

ReconcileLedgerBranch(wb) ==
  IF wb = None \/ ledger.branch \in {None, wb} THEN UNCHANGED ledger
  ELSE IF LedgerCommitsPresent(branches'[on']) THEN ledger' = [ledger EXCEPT !.branch = wb]
  ELSE IF \E p \in Phases : ledger.rows[p].done
       THEN ledger' = [ledger EXCEPT !.branch = wb, !.rows = Reopened]
       ELSE UNCHANGED ledger

StartImplement ==
  /\ run.at = "ready" /\ run' = [run EXCEPT !.at = "building"]
  /\ \E wb \in DOMAIN branches \cup {None}
                 \cup {AgentBranch(run.request, branches[b]) : b \in {on, Main}} :
       /\ EnsureWorkBranch(run.request, wb)
       /\ IF run.resuming /\ ledger # None THEN ReconcileLedgerBranch(wb)
                                           ELSE InitProgressLedger(wb)
  /\ strayed' = FALSE
  /\ UNCHANGED <<log, edits, files, stash, cp, dialog, plan, runs>>

\* The implementer commits a green phase with everything else in the tree, when the
\* ledger has a base, and marks its row after that.
CommitPhase(p) ==
  /\ run.at = "building" /\ ledger # None /\ ledger.based /\ run.committed = 0
  /\ ~ledger.rows[p].done /\ Len(log) < MaxCommits
  /\ log' = Append(log, {p} \cup edits \cup files)
  /\ branches' = [branches EXCEPT ![on] = @ \cup {Len(log) + 1}]
  /\ edits' = {} /\ files' = {}
  /\ run' = [run EXCEPT !.committed = Len(log) + 1]
  /\ UNCHANGED <<on, stash, cp, dialog, plan, ledger, runs, strayed>>

MarkPhase(p) ==
  /\ run.at = "building" /\ ledger # None /\ ~ledger.rows[p].done
  /\ IF ledger.based THEN /\ run.committed # 0 /\ p \in log[run.committed]
                          /\ UNCHANGED edits
                     ELSE edits' = edits \cup {p}
  /\ ledger' = [ledger EXCEPT !.rows[p] = [done |-> TRUE, sha |-> run.committed]]
  /\ run' = [run EXCEPT !.committed = 0]
  /\ UNCHANGED <<log, branches, on, files, stash, cp, dialog, plan, runs, strayed>>

\* markAllPhasesDone, on a run that passed.
Passed ==
  /\ run.at = "building" /\ run' = Idle /\ ledger # None
  /\ ledger' = [ledger EXCEPT !.rows = [p \in Phases |-> [@[p] EXCEPT !.done = TRUE]]]
  /\ UNCHANGED <<repo, cp, dialog, plan, runs, strayed>>

\* A failed phase, a cancel, a crash of the process: nothing is put back.
Stops ==
  /\ run # Idle /\ run' = Idle
  /\ UNCHANGED <<repo, cp, dialog, plan, ledger, runs, strayed>>

-----------------------------------------------------------------------------
\* /revert: the checkpoint is read before the dialog and used after it; a run that is
\* under way, or starts meanwhile, is not looked at.

OpenRevert ==
  /\ dialog = None /\ cp # None /\ dialog' = cp
  /\ UNCHANGED <<repo, cp, plan, ledger, run, runs, strayed>>

DeclineRevert ==
  /\ dialog # None /\ dialog' = None
  /\ UNCHANGED <<repo, cp, plan, ledger, run, runs, strayed>>

\* Mutant: what is only in the tree is not backed up.
NoBackup == stash

Backup ==
  IF edits = {} THEN stash ELSE <<[kind |-> "backup", holds |-> edits, of |-> runs]>> \o stash

\* Mutant: the reset comes before the switch.
ResetThenSwitch(c) ==
  /\ on' = IF c.branch = Detached THEN on ELSE c.branch
  /\ branches' = [branches EXCEPT ![on] = c.head]
  /\ edits' = c.snapshot

\* switch --force to the checkpoint's branch unless HEAD was detached, reset --hard
\* to its commit, stash apply its snapshot.
RevertCommands(c) ==
  /\ on' = IF c.branch = Detached THEN on ELSE c.branch
  /\ branches' = [branches EXCEPT ![on'] = c.head]
  /\ edits' = c.snapshot

Revert ==
  /\ dialog # None /\ dialog' = None
  /\ stash' = Backup /\ Len(stash') <= MaxStash
  /\ RevertCommands(dialog)
  /\ strayed' = TRUE
  /\ UNCHANGED <<log, files, cp, plan, ledger, run, runs>>

BranchNext ==
  \/ \E x \in UserWork : UserWrites(x)
  \/ \E b \in DOMAIN branches : UserSwitches(b)
  \/ \E resuming \in BOOLEAN, request \in Requests : Begin(resuming, request)
  \/ PlanWritten \/ StartImplement
  \/ \E p \in Phases : CommitPhase(p) \/ MarkPhase(p)
  \/ Passed \/ Stops
  \/ OpenRevert \/ DeclineRevert \/ Revert

BranchSpec == BranchInit /\ [][BranchNext]_branchVars

-----------------------------------------------------------------------------
(***************************************************************************)
(* A run that starts from a plan of its own never commits on the default   *)
(* branch.  The branch is chosen once, before the implementer, a process   *)
(* of its own, commits wherever HEAD is then: only a /revert confirmed     *)
(* meanwhile can take HEAD away.  (A resumed ledger keeps its base when no *)
(* work branch could be had, so a resumed run is not covered.)             *)
(***************************************************************************)
WorkLeavesDefaultBranch ==
  [][\A p \in Phases : CommitPhase(p) => on # Main \/ strayed \/ run.resuming]_branchVars

(***************************************************************************)
(* What the user wrote, in tracked files or new ones, and wherever it is   *)
(* by now (a phase's commit takes with it all that is in the tree), stays  *)
(* in the tree, on a branch or in a backup of the stash list, whatever     *)
(* checkpoints, commits, switches and /reverts follow, and however many    *)
(* checkpoints are stored and dropped after a backup.  With one exception, *)
(* which the code has: what a phase's commit swept up on the branch the    *)
(* checkpoint was taken on, and is nowhere else, goes with that commit     *)
(* when /revert resets the branch, since the backup is of the tree alone.  *)
(***************************************************************************)
OnSomeBranch == UNION {Held(branches[b]) : b \in DOMAIN branches}
BackedUp == UNION {stash[i].holds : i \in {j \in DOMAIN stash : stash[j].kind = "backup"}}
Safe == edits \cup files \cup OnSomeBranch \cup BackedUp

UserWorkKept ==
  [][\A x \in UserWork \cap Safe :
       \/ x \in Safe'
       \/ /\ Revert /\ x \in Held(branches[on'] \ dialog.head)
          /\ x \notin edits \cup files \cup BackedUp]_branchVars

(***************************************************************************)
(* The snapshot /revert would apply is in the stash list, where git does   *)
(* not collect it as garbage (createCheckpoint).                           *)
(***************************************************************************)
SnapshotStored ==
  cp # None /\ cp.snapshot # {} =>
    \E i \in DOMAIN stash :
      stash[i] = [kind |-> "checkpoint", holds |-> cp.snapshot, of |-> cp.takenAt]

(***************************************************************************)
(* /revert, confirmed at any time, moves no branch but the one its         *)
(* checkpoint was taken on: the branch of a finished run, and a pull       *)
(* request opened from it, stay as they are.                               *)
(***************************************************************************)
OtherBranchesKept ==
  [][Revert /\ dialog.branch # Detached =>
       \A b \in DOMAIN branches \ {dialog.branch} : branches'[b] = branches[b]]_branchVars

(***************************************************************************)
(* What is not the run's own, the user's work (but for what UserWorkKept   *)
(* excepts), the checkpoint and the other branches, is safe from the run   *)
(* and from /revert.                                                       *)
(***************************************************************************)
WorkSafe == UserWorkKept /\ []SnapshotStored /\ WorkLeavesDefaultBranch /\ OtherBranchesKept
=============================================================================
