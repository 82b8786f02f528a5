------------------------------- MODULE Catalog -------------------------------
(***************************************************************************)
(* What a run takes from files and from the environment: .env files, agent *)
(* definitions, the model each agent runs on and the notice about it       *)
(* (utils/workflow/workflow-core.ts, extensions/agent-workflow.ts,         *)
(* orchestrator-core.ts), and the sweep of session files before it.  One   *)
(* agent stands for all: it has part in a run or has not.  A value is      *)
(* known by where it came from.                                            *)
(***************************************************************************)
EXTENDS Integers, FiniteSets

CONSTANTS Dirs,    \* project directories
          MaxEdits \* bound: edits of .env files

ASSUME CatalogAssumption == {"repo", "shell", "top", "none"} \cap Dirs = {} /\ MaxEdits \in Nat

VARIABLES
  shell,        \* variables the shell exports
  dotenv,       \* variables each .env sets: the bundled one's, a directory's
  frontmatter,  \* of the agent's file in each directory and the bundled one: a model or none
  envEdits,     \* edits made
  proc,         \* the session and the child of an agent of its: [at, cwd, env, worker, def,
                \* override], listed: the agent is among `phases`; named: the preflight of the
                \* run that is under way named it
  sessions      \* session files [dir, kind, old]

catalogVars == <<shell, dotenv, frontmatter, envEdits, proc, sessions>>

\* PI_WORKFLOW_MODEL, PI_AGENT_<NAME>_MODEL, PI_AGENT_<NAME>={model}, and any other.
Keys == {"workflow", "agent", "config", "other"}
Procs == {"session", "child"}
EnvFiles == Dirs \cup {"repo"}
NoProc == [at |-> "gone", cwd |-> "none", env |-> [k \in Keys |-> "none"], worker |-> "none",
           def |-> "none", override |-> FALSE, listed |-> FALSE, named |-> FALSE]

\* isEnvAllowed.
Allowed == {"workflow", "agent"}

-----------------------------------------------------------------------------
\* loadEnvFile, of the bundled .env and then of the directory's.
Global(env) == [k \in Keys |-> IF env[k] = "none" /\ k \in dotenv["repo"] THEN "repo" ELSE env[k]]

Exported(env) == {k \in Keys : env[k] # "none"}

\* Mutants: what the shell exports is overridden too; so is a variable of any name.
LoadDotEnvOver(env, dir) ==
  [k \in Keys |-> IF k \in dotenv[dir] \cap Allowed THEN dir ELSE Global(env)[k]]

LoadDotEnvAny(env, dir) ==
  [k \in Keys |-> IF k \in dotenv[dir] \ Exported(env) THEN dir ELSE Global(env)[k]]

\* loadDotEnv: a project's .env sets what is allowed and was not set when the load began.
LoadDotEnv(env, dir) ==
  [k \in Keys |-> IF k \in (dotenv[dir] \cap Allowed) \ Exported(env) THEN dir ELSE Global(env)[k]]

\* loadAgents, parseAgentFile: the project's file before the bundled one; PI_AGENT_<NAME> over it.
Definition(env, dir) ==
  LET file == IF frontmatter[dir] # "none" THEN frontmatter[dir] ELSE frontmatter["repo"]
  IN IF env["config"] # "none" THEN "config" ELSE IF file = "model" THEN "file" ELSE "none"

DefinitionOf(p) == Definition(p.env, p.cwd)

\* resolveAgentModel, with the workflow model as it was when the extension was loaded.
Model(p) ==
  CASE p.override -> "override"
    [] ~p.override /\ p.env["agent"] # "none" -> "agent"
    [] ~p.override /\ p.env["agent"] = "none" /\ p.def # "none" -> p.def
    [] OTHER -> IF p.worker # "none" THEN "workflow" ELSE "fallback"

\* Mutant: an override does not pin.
UnpinnedHere(p) == p.env["workflow"] = "none" /\ p.env["agent"] = "none" /\ p.def = "none"

\* agentsWithNoPinnedModel, with the workflow model as it is now.
Unpinned(p) ==
  p.env["workflow"] = "none" /\ ~p.override /\ p.env["agent"] = "none" /\ p.def = "none"

-----------------------------------------------------------------------------
CatalogInit ==
  /\ shell \in SUBSET {"workflow"} /\ envEdits = 0
  /\ dotenv \in [EnvFiles -> {{}, Keys}]
  /\ frontmatter \in [EnvFiles -> {"none", "plain", "model"}] /\ frontmatter["repo"] # "none"
  /\ proc = [p \in Procs |-> NoProc]
  /\ sessions = {[dir |-> "top", kind |-> "pi", old |-> TRUE], [dir |-> "top", kind |-> "history", old |-> TRUE]}

AtWork == {"run", "dispatch"}
Put(p, r) == proc' = [proc EXCEPT ![p] = r]
FilesStay == UNCHANGED <<shell, dotenv, frontmatter, envEdits>>

\* pi loads the extension; a child, of an agent of a run, has its parent's environment.
Load(p, dir) ==
  LET given == IF p = "child" THEN proc["session"].env
               ELSE [k \in Keys |-> IF k \in shell THEN "shell" ELSE "none"]
      env == LoadDotEnv(given, dir)
  IN /\ proc[p].at = "gone" /\ (p = "child" => proc["session"].at = "run")
     /\ Put(p, [NoProc EXCEPT !.at = "loaded", !.cwd = dir, !.env = env, !.worker = env["workflow"]])
     /\ FilesStay /\ UNCHANGED sessions

\* session_start: the directory may be another one by now.
SessionStart(p, dir) ==
  LET env == LoadDotEnv(proc[p].env, dir)
  IN /\ proc[p].at \in {"loaded", "open"}
     /\ Put(p, [proc[p] EXCEPT !.at = "open", !.cwd = dir, !.env = env, !.override = FALSE,
                               !.def = Definition(env, dir), !.listed = FALSE])
     /\ FilesStay /\ UNCHANGED sessions

\* /agent-model <agent> <model>, and reset.
AgentModel(p, set) ==
  /\ proc[p].at = "open" /\ proc[p].override # set
  /\ Put(p, [proc[p] EXCEPT !.override = set, !.def = DefinitionOf(proc[p])])
  /\ FilesStay /\ UNCHANGED sessions

\* isWorkflowSessionFile, and its age.
Ours(f) == f.kind = "agent"
Expired(f) == Ours(f) /\ f.old

\* Mutants of SetupSessions: every project is wiped; everything in the directory is.
SetupSessionsAll(dir, wipe) == {f \in sessions : ~Expired(f) /\ ~(wipe /\ Ours(f))}
SetupSessionsEvery(dir, wipe) == {f \in sessions : ~(wipe /\ f.dir \in {"top", dir}) /\ ~Expired(f)}

\* setupSessions: what is too old goes, and with a run what this project left.
SetupSessions(dir, wipe) ==
  {f \in sessions : ~Expired(f) /\ ~(wipe /\ Ours(f) /\ f.dir \in {"top", dir})}

\* The definitions are read again: before a run, and by the first dispatch of a request.
Reread(p) == [proc[p] EXCEPT !.def = DefinitionOf(proc[p])]

\* What is swept, and the session files of the agents that now work.
Sweep(dir, wipe) ==
  sessions' = SetupSessions(dir, wipe) \cup {[dir |-> dir, kind |-> "agent", old |-> FALSE]}

\* A run: its preflight looks at the phases that were there before it sets its own, in
\* which the agent has part or not.  A run that is refused after the preflight sets none.
RunAgentWorkflow(p, has) ==
  LET p1 == Reread(p) IN
  /\ proc[p].at = "open"
  /\ Put(p, [p1 EXCEPT !.at = "run", !.listed = has, !.named = p1.listed /\ Unpinned(p1)])
  /\ Sweep(p1.cwd, TRUE) /\ FilesStay

TurnedAway(p) ==
  /\ proc[p].at = "open" /\ Put(p, Reread(p)) /\ FilesStay /\ UNCHANGED sessions

\* A ping is a run of every agent, without a preflight.
Ping(p) ==
  /\ proc[p].at = "open" /\ Put(p, [Reread(p) EXCEPT !.at = "run", !.listed = TRUE])
  /\ Sweep(proc[p].cwd, TRUE) /\ FilesStay

Asked(p, fresh) == IF fresh THEN Reread(p) ELSE proc[p]

\* A dispatch, of the agent or of another: in its phases are, unless it is a request's
\* first, also those that the dispatches before it have left there.
DispatchAgent(p, has, fresh) ==
  /\ proc[p].at = "open"
  /\ \E left \in BOOLEAN :
       Put(p, [Asked(p, fresh) EXCEPT !.at = "dispatch", !.listed = has \/ (left /\ ~fresh)])
  /\ Sweep(proc[p].cwd, FALSE) /\ FilesStay

\* select_agents queues the agent or leaves it out.
SelectAgents(p, has, fresh) ==
  /\ proc[p].at = "open" /\ Put(p, [Asked(p, fresh) EXCEPT !.listed = has])
  /\ sessions' = SetupSessions(proc[p].cwd, FALSE) /\ FilesStay

Done(p) ==
  /\ proc[p].at \in AtWork /\ (p = "session" => proc["child"].at = "gone")
  /\ Put(p, [proc[p] EXCEPT !.at = "open", !.named = FALSE]) /\ FilesStay /\ UNCHANGED sessions

Exit(p) ==
  /\ proc[p].at = "open" /\ (p = "session" => proc["child"].at = "gone")
  /\ Put(p, NoProc) /\ FilesStay /\ UNCHANGED sessions

EditEnv(f, keys) ==
  /\ envEdits < MaxEdits /\ envEdits' = envEdits + 1 /\ keys # dotenv[f]
  /\ dotenv' = [dotenv EXCEPT ![f] = keys] /\ UNCHANGED <<shell, frontmatter, proc, sessions>>

\* A week without a write.
Ages(f) ==
  /\ f \in sessions /\ ~f.old
  /\ \A p \in Procs : proc[p].at \in AtWork => proc[p].cwd # f.dir
  /\ sessions' = (sessions \ {f}) \cup {[f EXCEPT !.old = TRUE]}
  /\ FilesStay /\ UNCHANGED proc

CatalogNext ==
  \/ \E p \in Procs : \/ \E dir \in Dirs : Load(p, dir) \/ SessionStart(p, dir)
                      \/ \E b \in BOOLEAN : AgentModel(p, b) \/ RunAgentWorkflow(p, b)
                      \/ \E has, fresh \in BOOLEAN : DispatchAgent(p, has, fresh) \/ SelectAgents(p, has, fresh)
                      \/ TurnedAway(p) \/ Ping(p) \/ Done(p) \/ Exit(p)
  \/ \E f \in EnvFiles, keys \in {{}, Keys} : EditEnv(f, keys)
  \/ \E f \in sessions : Ages(f)

CatalogSpec == CatalogInit /\ [][CatalogNext]_catalogVars

-----------------------------------------------------------------------------
Here == {p \in Procs : proc[p].at # "gone"}

(***************************************************************************)
(* Of files edited and read again, in a session and in the processes under *)
(* it, what the shell exports is left alone, and no project sets a         *)
(* variable it may not.                                                    *)
(***************************************************************************)
EnvTrusted ==
  \A p \in Here, k \in Keys :
    /\ k \in shell => proc[p].env[k] = "shell"
    /\ proc[p].env[k] \in Dirs => k \in Allowed

(***************************************************************************)
(* An agent that a run's notice names as unpinned would run, in that run,  *)
(* on the model of the session.  (Whether it has part in it is another     *)
(* matter: named are agents of the run or dispatch before, since the       *)
(* preflight reads `phases` before the run sets them, and on the first run *)
(* nobody is.)                                                             *)
(***************************************************************************)
NoticeSound == \A p \in Here : proc[p].named => Model(proc[p]) = "fallback"

(***************************************************************************)
(* The sweep before a run deletes agents' sessions only, and one           *)
(* that is not a week old only in the directory of the process that sweeps *)
(* (or in the old place all shared): not what an agent of another project  *)
(* is writing.  What a dispatch sweeps is a week old.                      *)
(***************************************************************************)
Sweeps(p) == proc[p].at = "open" /\ proc'[p].at = "run"

OthersSessionsStay ==
  [][\A f \in sessions \ sessions' :
       \/ [f EXCEPT !.old = TRUE] \in sessions'
       \/ /\ f.kind = "agent"
          /\ f.old \/ \E p \in Procs : Sweeps(p) /\ f.dir \in {"top", proc[p].cwd}]_catalogVars

(***************************************************************************)
(* What a process takes from .env files and definitions is what it may,    *)
(* the notice about it is right, and its sweep takes its own files.        *)
(***************************************************************************)
ConfigSound == [](EnvTrusted /\ NoticeSound) /\ OthersSessionsStay
=============================================================================
