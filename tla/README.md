# Verification of the agentic-pi workflow

agentic-pi turns the `pi` coding agent into a team: an orchestrator drives
sub-agents, each a `pi` child process, through a pipeline of plan, build, review,
validation and shipping. This directory holds TLA+ models of the parts whose
correctness depends on the order of events, the TLC configurations that check small
instances of them, and the theorems that TLAPS proves for every instance.

Paths and line numbers refer to the repository root. `PROJECT.json` lists, for every
definition, the lines it models, and for every property, a change of the code that
would break it.

    tlc -workers 2 -config MCPipeline.cfg MCPipeline.tla     # check an instance
    tlapm PipelineProofs.tla                                 # check the proofs

## 1. The system

### 1.1 Components

| component | source | state | operations |
|---|---|---|---|
| workflow pipeline | `utils/workflow/orchestrator-core.ts` 478-1512 | the run's phases, verdicts, plan text, loop counters; `.agent/plan.md`, `.agent/plan.draft.md`, `.agent/progress.md` | start, one step per phase and retry, abort check, failure, terminal status |
| run control | `extensions/agent-workflow.ts` 1226-1377, 1549-1675, 1930-1945 | `st.running`, `st.activeTeamName`, `host.signal`, `runAbort` | `/agent-workflow` with picker and prompt, `run_agent_workflow`, escape-cancel, abort of a tool's turn |
| agent call | `utils/workflow/workflow-core.ts` 3441-3648, 4193-4225, 4396-4677 | the child process, its pipes, `liveProcs`, two watchdogs, the retry counters; its event stream and session file | spawn, exit, close, watchdog kill, cancellation, retry in place, fallback model, retry of an empty result, parsing, session repair |
| dispatch | `orchestrator-core.ts` 2397-3217, `extensions/dispatch.ts` | agent cards, `activeDispatches`, the limits of a turn | `dispatch_agent`, `dispatch_parallel`, `select_agents`, reset at `agent_start` |
| wave worktrees | `utils/workflow/worktree.ts` | one git worktree per agent of a parallel wave | create, collect the changes, merge, remove |
| memories and staged learnings | `utils/workflow/memory.ts`, `extensions/agent-memory.ts` | one staging file under `.agent/`, one memory file per agent | stage, fold on success, evict, clear |
| checkpoint, revert, work branch | `utils/workflow/checkpoint.ts`, `extensions/revert.ts` | git refs, the checkpoint file, the current branch, the stash | checkpoint, revert, create or reuse the work branch |
| progress ledger and roadmap | `orchestrator-core.ts` 1858-2120, `workflow-utils.ts` 423-514 | `.agent/progress.md`, `roadmap.md` | seed, reconcile, mark, tick a milestone |
| inline turn budget | `utils/workflow/inline-budget.ts` | a counter in a file shared by the processes of a run | count, notify, lift the refusal, reset |
| catalog and configuration | `workflow-core.ts`, `agent-workflow.ts` | `.env` files, agent definitions, session files of a directory | load, pin a model, wipe |
| obs events, sink | `obs/obs-events.ts`, `extensions/obs-live.ts`, `obs/obs-watch.ts` | append-only JSONL files | append, rotate, tail |
| run index | `obs/obs-run-index.ts` | runs and byte ranges with the offset scanned to | scan on, forget, read a run |
| obs server | `obs/obs-server.ts`, `obs-server-core.ts` | SSE clients, a ring of events, scores, slots for children | connect, broadcast, score, forward, spawn |
| chat and live control | `obs/obs-chat*.ts`, `obs/obs-dispatch.ts`, `extensions/obs-live.ts` | live sessions, sockets, heartbeats, captured turns | register, prompt, stream, approve, abort, expire |
| Telegram bridge | `obs/obs-bridge-*.ts` | the poller's lock, its offset, one busy turn | take over the lock, poll, answer |
| obs UI | `obs/ui` | a store fed by a stream and by polling; chats and their copy on the server | merge, sync, derive the trace |
| obs analysis | `obs/obs-otel.ts`, `obs-explain.ts`, `obs-reap.ts` | none; appended verdicts and lane ends | export spans, add up time, score, reap |
| edit repair | `utils/edit` | none | match an edit against a file's text, repair it |
| status panel, panes | `workflow-widgets.ts`, `pane-mux.ts` | a pending paint; panes and their viewers | repaint, clear; open, lock, close |
| language server skill | `skills/lsp/lsp.py` | requests in flight, published diagnostics | request, collect, apply edits, shut down |
| launcher | `run.sh`, `install.sh` | server and bridge processes, a pid file | start, attach, stop, install |
| guards; metrics; other skills | `utils/guards`, `obs/obs-metrics.ts` and others | none | classify a command; compute a sum; one request |

### 1.2 How they interact

The `/agent-workflow` command and the `run_agent_workflow` tool both call
`runWorkflowCore` on one shared state object. It awaits `runPhase` for each phase.
`runPhase` calls `runAgentWithFallback`, which spawns a `pi` child, waits for the
child's `close` event and may spawn another. The child loads the same extensions, so an
implementer dispatches further agents in its own process and shares files with its
parent: the plan, the ledger, the staged learnings, the turn budget, the obs sink.
Cancellation comes from outside all of these: a key handler (in an extension that is
not part of this repository) calls the `__piKillWorkflowProc` hook.

Every `pi` process appends its events to one sink. The obs server tails the sink into a
ring, an index and the pages; it steers a running agent through a socket the agent
publishes, and spawns `pi` for chats, dispatches and scores. The bridge is a client of
the same routes. `run.sh` starts and stops servers and bridges for several terminals.

Everything in one process is JavaScript: code between two `await`s is not interrupted.
The interleavings that exist are those at the `await`s (pickers, prompts, phases,
backoff sleeps, child events, timers) and those between processes through files,
sockets, pipes and git.

### 1.3 What is hard, and what would make each part correct

* Pipeline: seven phases, two loops and a re-ask lie between the start and the shipper.
  Whatever ships must have passed every gate of its team, on the code that ships; a fix
  must be judged again; the status must say what happened; files of an earlier run must
  not pass for this run's; cancelling must stop it.
* Run control: handlers suspend at a picker, a prompt and in a run, and share one flag,
  one team and one signal. No handler may take down what another has installed; a run
  must use its own team; the flag must be up exactly while a run is at work.
* Agent call: exit, close, two watchdogs, a cancellation and a retry timer race. The
  result must come once, after the child is gone, and hold the child's whole answer;
  killed children must not be retried, nor reported as successes; nothing may hang.
* Dispatch, learnings, worktrees, memories: agents of a wave end in any order and share
  limits, a staging file and a working tree; processes that end together rewrite one
  memory file. What one did must not be lost or attributed to another.
* Git: the user's own edits are in the tree a run commits from and `/revert` resets.
* Obs: writers append while readers follow, files rotate, pages reconnect and poll. No
  event may be lost or counted twice, and what is derived from them must be what happened.
* Live control, routes and bridge: sessions die without notice, clients leave, approvals
  come late. A risky call must wait for its own approval, children must be bounded, two of
  them must not write one session, and every captured turn must end.

`PROJECT.json` lists the hazards at their lines.

## 2. The models

| module | models | checked by | proofs |
|---|---|---|---|
| `Pipeline` | `runWorkflowCore` from its guard to the terminal status, run after run in one directory | `pipeline` | `PipelineProofs` |
| `ReleaseGate` | abstract: what the pipeline promises about releasing work | `pipeline`, as `Pipeline!Gate` | `PipelineProofs` |
| `RunControl` | the command, the tool and the cancel hook around the core | `extension` | `RunControlProofs` |
| `AgentRun` | one agent call: children, kills, watchdogs, retries | `extension` | `AgentRunProofs` |
| `Panes` | the viewer panes of dispatched agents | `extension` | `AgentRunProofs` |
| `Dispatch` | the tree of agents that dispatch agents, and the lessons they stage | `dispatch` | `DispatchProofs` |
| `LiveControl` | an agent steered from the dashboard, with approvals | `server` | `ServerProofs` |
| `RunScores` | the server's automatic verdicts and its forwarding of traces | `server` | `ServerProofs` |
| `InlineBudget` | the turn budget shared by a run's implementers | `implementer` | `ImplementerProofs` |
| `EditRepair` | the repair of an edit call against the file | `implementer` | |
| `Worktrees` | the worktrees of a wave and their merge | `implementer` | `ImplementerProofs` |
| `SpawnStream` | a child's event stream, its parser, its session file | `implementer` | `ImplementerProofs` |
| `WorkBranch` | the work branch, the checkpoint, `/revert`, resume | `implementer` | `ImplementerProofs` |
| `LspClient`, `LspEdits`, `Lsp` | the language server client, the edits of a rename, the two together | `implementer` | `ImplementerProofs` |
| `Catalog` | `.env` files, inherited environments, pinned models, session files | `implementer` | `ImplementerProofs` |
| `AgentMemory` | folding lessons into an agent's memory file | `implementer` | `ImplementerProofs` |
| `SpawnRoutes`, `Bridge` | the server's routes that spawn `pi`, and the Telegram bridge on them | `dashboard` | `BridgeProofs` |
| `EventFeed` | the sink, its tail, the server's ring, the page's stream and copy | `dashboard` | `DashboardProofs` |
| `RunIndex` | the incremental index of the sinks | `dashboard` | `DashboardProofs` |
| `RunTrace` | spans, tree and active time made of a run's events | `dashboard` | `DashboardProofs` |
| `Sinks` | the three above together | `dashboard` | `DashboardProofs` |
| `ChatSync` | chats in two browsers and their copy on the server | `dashboard` | `DashboardProofs` |
| `Launcher` | servers, bridges and installation from several terminals | `dashboard` | `BridgeProofs` |
| `StatusPanel` | when the widget is painted and what finds room in it | `extension` | `DashboardProofs` |

`Pipeline`, `RunControl` and `AgentRun` are layers of one program and each abstracts the
one below: `Pipeline` sees an agent call as a phase that comes back, well or badly;
`RunControl` sees a pipeline as a number of phases still to be launched. `Dispatch` is
the other way agents are started; it has the pipeline as a flag and the agent of its
current phase, and a call of `AgentRun` as a process that lands with a result or without.
`Bridge` extends `SpawnRoutes`: its turns are requests of those routes.

The other modules have no state in common with each other, so four modules gather them for
TLC: `MCExtension` (the runs, an agent call, the panes, the widget), `MCServer`,
`MCImplementer` and `MCDashboard`. A variable `part`, chosen in the initial state, says which
module a behaviour is of; the others stay in one initial state of theirs. Every behaviour of
each module's own specification is checked, and no product is built.

### 2.1 Pipeline

`pc` is the call site of `h.execution.runPhase` that the function has reached, and `busy`
says that it is suspended there. One action stands for each site and has up to three
disjuncts: `Skip` (the team has no such phase, or a gate in front of it is shut),
`Launch` (`checkAbort`, then the call) and `Ok` (the phase came back, and the code up to
the next site has run). Failures, exceptions and the abort check are the same at every
site, so they are actions of their own: `PhaseFails`, `Throws`, `AbortBetweenPhases`.
While the function is suspended the sub-agents write the plan file and the ledger
(`AgentWritesPlan`, `AgentMarksLedger`) and the hook may cancel (`Cancel`).

Plans are reduced to "none", "valid" and "invalid" (what `hasPlanStructure` decides),
reviews and verdicts to the values `detectCritique` and `detectVerdict` return. The
output of an agent is any of these. `Refused` gathers the pre-run validations; the model
chooses whether the request is long enough and whether an agent definition is missing.

History variables count the sessions launched and remember which version of the code a
review or validation has seen and which run wrote a plan. No guard reads them.

Not modelled here: task texts, the run report and metrics, the staged learnings, the
git side of a resume. `reconcile` on a resume is the choice between keeping the marks
and reopening every row.

### 2.2 RunControl

Each element of `Runs` is one invocation. `at` says where it is suspended: at the
picker, at the prompt for the request, or in a phase. From the last guard of a handler
to its first phase there is no `await`, so `Start` is one step: either the pipeline's
first phase is launched or the core turns the request down. A dialog has the keyboard,
so only one command is at a dialog at a time; the tool may run meanwhile, as the code's
own comments say (`agent-workflow.ts` 1284). `cancelled` holds the runs whose controller is
aborted. `overlap` is a history variable: the latest start happened while an earlier,
cancelled run was still suspended. That a run ends at all is `RunEnds`, of `Pipeline`, and
`CallReturns`, of `AgentRun`.

### 2.3 AgentRun

A child is the `pi` process and whatever it started that still holds its output pipes.
`exit` takes it off `liveProcs`; `close`, which resolves the promise, needs the pipes to
be free as well. A kill is recorded in `kill` by its target (the cancellation aims at
`pi`, a watchdog at the process group), and `Escalate` is the SIGKILL that follows. A
text is what `isModelFailure`, `isTransientError` and `looksEmpty` can tell apart. The
settings of a call (dispatched or a phase, a distinct fallback model, each watchdog on
or off) are chosen in the initial state and stay.

### 2.4 Dispatch

Every agent is a process with a state of its own (`OrchestratorState`), so `tree` is a
function from the live processes to theirs. A process is named by the cards that lead to
it: `<<>>` is the session, `<<2, 1>>` the dispatch in card 1 of the agent in card 2,
`<<0>>` the agent of the pipeline's phase. Two things bind the processes together: the
environment a child is started with (`SubagentEnv`: its ancestry, its depth, its
ceiling), and `staged`, the file `.agent/learnings.jsonl` of the working directory.

A call of `dispatch_agent` or `dispatch_parallel` runs without interruption up to its
first `await`: guards, cards, counters and the children's start are one action. Each
agent then comes back by itself (`Land`); the last of a call closes the call
(`FinishDispatchLearnings`). `Retry` is a second process on the same card: an empty
result, a transient failure or another model. A refused call changes nothing and is no
step. A card that is done or failed is `over`: nothing below reads which. `Claims` states
what the loop over a batch ends with; the loop itself takes the items in order.

Calls of one process may overlap. In pi they run one after another when a batch contains
a dispatch (`executionMode: "sequential"`, `dispatch.ts` 269-273), but the core counts
them as if they overlapped and its tests overlap them (`orchestrator-core.test.ts`
4583-4664), so the model lets them. `select_agents` is given to no agent, so only the
session selects, and it does so between dispatches.

A lesson is its author and a history flag `proven`: the dispatch it was staged in came
back with a result, and so did those above it up to a process that is still at work.

Not modelled: the inline floor (it may refuse `phase-implementer`; the model dispatches
with and without), worktrees, aliases (names are canonical; the mutant of `NoCycle` has
the alias), the cancellation of a call (`AgentRun`), the text given back.

### 2.5 What is left to itself: SpawnStream, Panes, Catalog

`SpawnStream` has the child's stdout as lines that arrive cut anywhere, the parser that
buffers them, and the answer, error and tokens taken from each attempt; and the session
file, which a crash may leave with a cut last line and `sanitizeSessionFile` repairs
before the next attempt. It abstracts a line to one or two halves. Kept as they are in the
code: a cut line stays if the last whole one before it is out of the 8192-byte window, and a
file over 10 MB, or one whose first line is cut, is deleted. Not modelled: a first line of
more than 2048 bytes, which counts as cut; a whole last line without a newline, which what
pi appends next is merged with; a multi-byte character split between two reads; and that
a phase is billed the tokens of its last attempt only.

`Panes` opens a viewer beside the terminal for a dispatch, has it lock the first session
of its agent that it sees, and closes it with the agent. An agent that was steered from
elsewhere may get panes for its own dispatches although `pane-mux.ts` 246-249 says that
only dispatches the human initiated do; a viewer that starts after `session_start` never
locks and stays blank; after the user closed a pane the inline log stays collapsed;
`obs-watch` never reads again after a truncation; zellij's panes cannot be closed by id.
Sub-agents' own steering is not modelled.

`Catalog` loads the `.env` files into a process, lets a child inherit the environment,
and pins a model by override, per-agent variable, definition or default. A second
`loadDotEnv` takes the global file's values for the shell's, so the session directory's
`.env` cannot override them; `WORKER_MODEL` is read at module load while the preflight
reads `process.env` (`orchestrator-core.ts` 679-684); a second `pi` that starts a run in a
directory wipes the live session files of the first. `OthersSessionsStay` ties the directory
to the process that sweeps, so it says nothing of two processes in one.

The preflight reads `phases` (679-691) before the run assigns its own (744): what it names as
unpinned are agents that the run or dispatch before has left there, and nobody when the session
has run nothing yet (`session_start` empties `phases`). `listed` is that the agent is among
them, so `NoticeSound` says that who is named would run on the session's model, and not that
everyone who will is named. One agent stands for all of them.

### 2.6 The user's repository: WorkBranch, Worktrees, AgentMemory, InlineBudget

In `WorkBranch` a commit is a position of a log and a branch the set of commits in its
history; a tree or a commit holds the plan's phases and the user's pieces of work.
`/revert` is two steps, the dialog and its confirmation, and a run may go on in between.
The properties are stated for what the code keeps, and their comments name what it does not:

* `/revert` to a checkpoint taken on a detached HEAD switches to no branch, so
  `reset --hard` moves the branch that is checked out.
* What the user wrote while a run was at work, in tracked or new files, is swept into a
  phase's commit by `git add -A`. When the checkpoint was taken on the branch the run commits
  on, `/revert` resets that branch, and such work is then on no branch and in no backup: the
  backup is of the tree alone. `UserWorkKept` follows every piece of user work wherever it
  goes and excepts this case, and no other, by name.
* On the user's own branch, `/revert` and then a resume keep the ledger's marks of phases
  whose commits are gone.
* `/revert` confirmed during a run switches to the default branch, and the implementer
  commits there; so does a resume whose `ensureWorkBranch` returns null, with the ledger's
  base kept. `WorkLeavesDefaultBranch` excludes both by name.
* The milestone tick falls back to the roadmap's next milestone; errors of the backup are
  swallowed (`revert.ts` 73-87); a resumed run on a second branch with no row to reopen
  keeps a ledger that names the first (`orchestrator-core.ts` 1973; the comment is at
  991-993).

`Worktrees` gives each worker of a wave a checkout or, if that fails, the shared tree. A
path's content is the set of workers whose writes it holds. When all have landed git may fail
to read any of the worktrees, and to write any path of the main tree; `git rm` refuses a path
that somebody edited there. All of these are passed over in silence and the worktree goes,
with the only copy of the work: that is the run `worktrees_lost`. `WholeOrHeldBack` says what
holds beside them, in the same merge: of a worker for whom git failed on nothing, all lands or
nothing does, and no path mixes two workers, whatever failed for the others. Kept as in the
code too: a worker that fell back is not seen by the overlap test, only `.agent` is left out,
the base is HEAD, and what a checkout overwrites in the main tree, uncommitted, is not always
told (`worktree.ts` 9-11). A removal that fails leaves a directory behind and is not modelled.

`AgentMemory` reads, folds and replaces one file by way of a sibling. The sibling has one
name for all processes: two commits at once can lose an update or publish a torn file
(`memory.ts` 287-290 thinks of crashes only), so both properties exclude overlapping
commits with the history variable `overlapped`. A lesson learned again keeps its old
place and may be evicted by the very commit that brought it; prose a user wrote into the
file is dropped although its header says "hand edits are preserved" (`memory.ts` 94); a
lesson remembered between `readStaged` and `clearStaged` is lost, and so are all staged
ones if the process dies between clearing and writing.

`InlineBudget` counts turns in a file. A process numbers its turns from 0 and reads the
file in the first, so each process leaves out one turn; `RunCounted` says exactly that.
`BudgetAssumption` has the run's budget not above the session's, as the defaults are; with
other settings a notice can come before the refusal is lifted. Parallel implementers,
which overwrite each other's count, a continued pi session, which restarts its count, and
a late child of an earlier run are not modelled.

### 2.7 The implementer's tools: EditRepair, LspClient, LspEdits

A text is a sequence of words, runs of blanks and newlines; `Squash` is what is left when
blanks do not count. `EditKeepsWords` compares the repaired call with the call as sent, on
squashed texts, and `IndentStays` the indentation; the inputs are all rewritings of one or
two lines of three files that a model is likely to send (`MCEditRepair`). Properties hold
for single edits and pairs. What the code does beside them: restoring carried whitespace
can turn a deliberate collapse of blanks into a no-op; one ambiguous edit makes the
message of a partial failure call fine edits that are not; the indentation repair may pick one
of several places; the hook reads the file before pi does; a padded line that was not
carried through is flattened. The window of `MAX_ANCHOR_CHARS` and the diff are left out.

`LspClient` is one command of `lsp.py` after the other: requests with ids, answers, asks
and published diagnostics in any order, deadlines, a server that dies or hangs, and
shutdown. `ReportedOnce` excludes a crash of the client on a broken pipe, which loses the
results. An early empty publish reads as clean; no file to wait for runs to the deadline;
file operations in `documentChanges` are dropped; columns are code points, not UTF-16.
`LspEdits` compares the bottom-up application of a rename's edits with the definition of
simultaneous replacement; insertions at one position land in reverse order, which
`EditsLand` leaves out.

### 2.8 The server: LiveControl, RunScores, SpawnRoutes, Bridge

`LiveControl` has an agent process with numbered sessions, the sidecar and socket each
publishes, `LiveChatControl`'s captured turn, tool calls waiting for an answer, and clients
with sockets whose frames are queues. What the code does that a reader may not expect, all
in the model: a prompt between `session_shutdown` and `session_start` is dropped with no
frame (`README.md` 692-693); a pruned sidecar of a live session is written again only by
the first run of a session; a prompt taken up by a run under way is bound to the next
unrelated run (`obs-live.ts` 133-134); a client that was refused as busy and leaves early
sends an abort that stops another client's turn (`obs-server.ts` 1286-1303); after an abort
a waiting approval still runs to its time-out. So `BoundIsAnswered` is claimed of prompts
that were bound to a run. The header of `obs-chat-control.ts` says that a socket's close
calls `fail()`; the agent's side has no close handler. A process ends by itself (`Exits`, in
the middle of a run too, where only the exit hook is left to close the lane) or is killed,
and then nothing is. Not modelled: a sink that cannot be written, which drops the events
after it, the `session_end` among them. That a killed process' lane is closed by
`obs-cli reap` is in `EventFeed`.

`RunScores` has the scoring and the forwarding loops over runs that begin, work, fall
silent and end, with verdicts by the workflow and by people. `obs-server.ts` 460-461 says
that each run's trace "is POSTed once when the run goes quiet". What was posted is only in the
server's memory: a server that starts takes the runs that are quiet then for done, and posts
one that still stirs again when it goes quiet, though the server before it may have. Two ticks
that overlap post a trace twice in one server. `PushedOnce` counts the endpoint's answers over
all servers, and says that these two are the only reasons: at most one answer and one more for
each start in the midst of the run (`stirred`), as long as no two ticks have overlapped. A post
whose answer was lost is not counted. A resumed run is not forwarded again; a run that was
silent when the server started is never forwarded; a run scored in a silence of more than 90 s
is not scored again; a manual
"open" is replaced by the server (`obs-server.ts` 384, although `obs-explain.ts` 93 says
that a manual score always overrides). One sink.

`SpawnRoutes` gives each request a slot, a child and its process group, and counts the slot
back. A one-shot request's time-out sends one SIGTERM and settles, so its child is counted
no longer (`Outlived`). Slots leak if `spawn` throws at once (`obs-server.ts` 628-630);
exit code 0 without `agent_end` leaves a stream without a terminal frame; children survive
a crash of the server; two explanations of one run at once spawn two.

`Bridge` polls, handles each update without waiting for the last, and edits one message as
the reply streams. The server has room for two chats at once and does not look at their
sessions: `OneWriter` holds because of the bridge's one busy turn, over all the children that
run and whose client has not left them. A child that a bridge left, because it crashed or its
stream broke, may still write beside the next until `killTree` has had its five seconds.
The last edit may be skipped as already sent (`lastSent` is set before the send), and a broken
stream leaves a partial message: `ReplyWhole` names these. `handled` counts by update and by
life of the bridge: once in each, and never again after Telegram was told. One person's chat;
`/do` always ends in a chat.

### 2.9 The dashboard: EventFeed, RunIndex, RunTrace, Sinks, ChatSync

`EventFeed` follows an event from the sink through the server's offset, ring and stream to
the page's `got` set and its copy of a run, which a poll may overtake. Excluded by name:
lines passed over because a file was emptied and grew past the offset between two reads
(`PassedOver`). Not excluded and in the model: the ring takes evicted events again; a stale
poll takes a streamed event off the page until the next poll. `obs-cli reap` closes the lane
of a running session that has no channel, with a number its next event will have
(`obs-cli.ts` 541, 508-509), so the sessions of the model publish channels. `/new` keeps
`PI_OBS_RUN`. The limit `MAX_SEQ_SESSIONS` is not modelled.

`RunIndex` has lines of two halves and a newline, read in chunks. A file emptied and grown
to the scanned length is passed over (`blind`); a torn line swallows the next event, for
the index and for the definition it is compared with.

`RunTrace` writes a run's events by sessions that turn, call tools side by side and
dispatch each other, and computes from them what `obs-otel.ts`, the trace tab and the two
computations of active time compute. `turnIndex` restarts with each prompt, so a later
prompt's turns replace the earlier ones in the export, and an unfinished one is paired
with the end of another, though `obs-otel.ts` 212 says "one per turn": `SpansTrue` asks
for one span per turn only of sessions prompted once. On a page that has only the last
events a `tool_end` without its start closes another call. Parents are linked by
agent name: if two agents dispatch each other, in two chains, a page without their first
events may take each for the other's parent, and the tree then has neither. `TreeTrue` asks
for every session with the whole run, where that cannot be, and with a part of it where the
names put the sessions in an order (`Ordered`). The index and the digest differ on an orchestrator's
turns before its first dispatch, so `WorkTrue` compares each with its own definition.
`Sinks` puts the three together: what is read of the sinks, and what is made of it.

`ChatSync` has two browsers edit, delete and answer chats, each with its local copy and
debounced writes to the server. In the model: a late answer to a load after a regenerate
or a clear brings back what was dropped; a deleted chat comes back from another browser;
of two copies the later wins whole; a failed write is not retried before the next edit;
a write at close over 64 KB fails; a page closed in mid-stream leaves a question unanswered.
`WordsKept`, `AnsweredOnce` and `RestingInStep` are what remains true beside these.

### 2.10 Around pi: StatusPanel, Launcher

`StatusPanel` has the 80 ms throttle with its trailing paint, `/agent-workflow-clear`, and
both layouts as sequences of rows, in a run and in the dispatches of a request. `flow` says
which; `reviewed` says whether the reviewer is among the phases, as it is in every run here
and may be in a dispatch: its checklist is built from the phases either way (`AW` 766-768).
`NothingHidden` is about the status lines. The card layout
is clamped (`AW` 818-820) and the status lines are not, so they can pass ten rows; a log is
cut at the newest lines, a full log fills one row more than the clamp leaves
(`workflow-widgets.ts` 390-393); the status lines never scan the review's marks; an update of
a dispatch uncovers a cleared panel. A refused start and `session_start` (`AW` 1925) do, too,
and are not modelled. (`AW` is `extensions/agent-workflow.ts`.)

`Launcher` has terminals that start, restart and stop servers and bridges. `OwnServerEnds`
and `OthersServersStay` are about servers; `--bg` and `--bridge` attach to another terminal's
server, which ends with that terminal (`README.md` 303-305). The stop of a bridge removes the
pid file by name, and its exit handler may remove a newcomer's (`obs-bridge-core.ts` 498-509
says that a fresh lock is never removed): `OneBridge` is claimed while no bridge is stopped
or killed from outside. It also leaves out `GaveUpOnLock`: a bridge that has lost the create
three times to bridges that came and went starts without the lock (`obs-bridge-core.ts` 526,
"best-effort start"). The proof turned this up. With the three bridges of the run nobody
gives up; five make two of them run at once. There is one port in the model, and so the
`pkill -f '... --port 761'` that matches port 7616 as well is not in it.

## 3. What is checked

| run | instance | distinct states | shows |
|---|---|---|---|
| `pipeline` | 8 teams, loop limits 0 to 2, a plan of two phases, 2 runs | 202,805 | all properties of `Pipeline`, the refinement of `ReleaseGate`, every run ends |
| `pipeline_review` | the full team, loop limit 2 | violation | shipped work its reviewer never read |
| `extension` | 3 invocations, 1 team, 2 phases; or one call with 2 retries per model and all settings; or 2 dispatches of one agent with panes; or the widget at 2 heights | 1,462,779 | all properties of `RunControl`, `AgentRun`, `Panes` and `StatusPanel`, every call returns |
| `control_cancel` | 2 invocations | violation | a cancelled run goes on once another has started |
| `control_team` | 2 invocations, 2 teams | violation | a run with another team than its user chose |
| `agent_cancel` | the same call | violation | a child started after the cancellation |
| `dispatch` | 2 agents that dispatch, ceilings 0 to 2, 3 processes, 2 dispatches a turn, 1 lesson | 1,095,580 | all properties of `Dispatch` |
| `dispatch_learnings` | the same | violation | lessons of a run committed before its verdict |
| `server` | 2 clients, 2 calls, 2 sessions; or 2 runs with 1 fault | 695,232 | all properties of `LiveControl` and `RunScores` |
| `implementer` | nine parts, one per module | 3,883,292 | what the modules around an implementer's work promise |
| `worktrees_lost` | a wave of 2 workers and one of 1 | violation | a worktree removed whose changes are not in the main tree |
| `dashboard` | six parts | 1,869,816 | what the modules around the dashboard promise |

What each property says is in the comment above it. A property that gathers several
(`SinksReadRight`, `PanelHolds`, `WorkSafe`, `RoutesHold` and the like) is the conjunction
named in its module; it is one question asked of one component.

### 3.1 Bounds, and why they are enough

* Two runs: what one run leaves in `.agent/` matters only to the next, and `resume`,
  `none` and `plan` runs follow each other in every combination. A third run starts from
  the same files a second one can start from.
* Loop limits: 0 is a `max_loops` below 1, which skips both loops; 1 is a loop without a
  fix; 2 has a fix that is judged again. Further rounds repeat the second.
* A plan of two phases is the smallest on which the fresh-context audit objects. All
  other plans behave as one of one phase or two.
* Teams: the presets of `agents/teams.yaml` and a team none of whose members has a phase.
* Three invocations: one that was cancelled, one that started beside it, and one that
  finds the flag cleared. Two phases leave one launch to be made after a cancellation.
  One team and "no team" are two values of the active team.
* Two retries per model: a counter and a flag differ. Two dispatches of one agent are what
  a viewer could confuse.
* `Dispatch`: three processes are a chain of two dispatches (the shortest in which an agent
  could meet itself), or a parent with a batch of two, or one dispatch beside a phase.
  Two dispatches a turn fill a batch and reach the limit; requests after the first start a
  turn on old cards. One lesson is enough: every property speaks of one at a time.
  Ceilings 0, 1 and 2 are dispatch switched off, the default and one level more.
  The runs use the symmetry of the two agents; their properties are safety properties.
* `LiveControl`: two clients (one captured, one refused), two tool calls, two sessions of a
  process, one run. The theorems hold for any numbers. Two clients are alike and two calls
  are, so the run has `ann` ask first and `bash` called first (`InOrder`).
* `RunScores`: two runs, two ticks that may overlap, one failed append, one failed post or one
  restart.
* `InlineBudget`: three implementers over three runs and budgets that are all reached;
  proved for any. `Worktrees`: a wave of two and one of one, on two paths; git may fail for
  any of the workers and on any of the paths.
* `SpawnStream`: three events, three spawns, lines within and beyond the window.
  `WorkBranch`: two runs, one piece of user work that clashes with one phase, three
  stash entries. `AgentMemory`: two writers, a cap of two, and a lesson that is part of another.
* `LspClient`: two files over two servers; `LspEdits`: every two disjoint edits of a text of
  three characters.
* `EventFeed`: a ring of two, so that events are evicted; two rotations; one restart.
  `RunIndex`: two sinks, two runs, three lines, chunks of two bytes, so that every line is
  cut. `RunTrace`: a root session and one it dispatches, nine events.
* `Bridge`: a dispatch, a `/do` and a chat, two slots for chats and one for dispatches, and
  one crash: a child that outlives the bridge streams beside the next turn's, and a second
  dispatch is refused. In a behaviour with a crash the last update never comes
  (`CrashBound`). `Launcher`: two terminals, three bridges, as the reclaiming of a lock needs.
* `ChatSync`: two browsers, one chat, two loads and two writes. `StatusPanel`: a terminal
  in which everything fits and one in which it does not.

Deadlock is checked in the runs of `Dispatch`, whose session can always start and end a
pipeline. In the others it is not: the number of runs, invocations, retries or events is
bounded, and when it is used up the system has nothing left to do.

### 3.2 Fairness

* `Pipeline` assumes weak fairness of `PhaseStep`: the function runs on when it can, and
  a phase that was launched comes back. The second half is what `AgentRun`'s
  `CallReturns` shows. Cancelling and what agents write is not forced.

* `AgentRun` assumes that timers fire (`Stalls`, `Escalate`, `WakesUp`), that Node reports
  a `close` (`Close`), and that a child some day ends or falls silent (`FallsSilent`).
  Nothing forces a child to exit. `CallReturns` is claimed for calls with the stall
  watchdog on, which is the default (20 minutes, `workflow-core.ts` 4251); with it off, a
  background process holding the pipes can keep a call waiting, as the comment at 4515
  says. A child that neither ends nor falls silent is stopped only by the wall-clock
  limit, which is off by default.
* `LiveControl` assumes that pi ends a run that waits for nothing (`AgentEnd`), that an
  approval's timer fires, and that the server relays frames and notices a closed socket.
  No human has to answer, no session to end.
* `RunScores` assumes that the two intervals fire, that requests to the endpoint are
  answered or fail, and that a run some day falls silent.
* `RunControl`, `Dispatch`, `Panes`, `StatusPanel` and all parts of `implementer` and
  `dashboard` have no fairness: their properties are safety properties.

### 3.3 Disagreements between the code and its comments

1. `ShippedIsReviewed` (`orchestrator-core.ts` 1236): a fix the validator asked for is not
   reviewed again; the comment at 1480-1482 calls `shipped-local` "built, reviewed, and
   committed".
2. `CancelHolds` (`orchestrator-core.ts` 459): `checkAbort` reads `h.signal`, which a run
   started after the cancellation has replaced. The cancelled run launches its next
   phase. The hook clears `running` at once, which lets the other run start; when the
   cancelled run returns, it clears the flag (522) and the team under the live one.
   `CancelHoldsAlone`, `RunningTruth` and `HandsOff` show that nothing of the kind
   happens as long as nobody starts a run before the cancelled one has returned.
3. `RunsItsTeam` (`agent-workflow.ts` 1296): the team is activated before the prompt for
   the request; a tool run that comes and goes meanwhile resets it, and the request runs
   with every agent.
4. `NoSpawnAfterCancel` (`workflow-core.ts` 3500): the abort is looked at before the
   backoff sleep and not after it. The child started then is not in the set the
   cancellation has killed.
5. `LessonsWaitForVerdict` (`orchestrator-core.ts` 2373): the staging file belongs to the
   working directory, the count that decides who commits it to one process. When the
   implementer of a running pipeline dispatches a worker and it returns, the lessons of the
   run's agents are committed at once, or dropped when the worker failed; `memory.ts` 5-6
   has them committed at finalize and only if the run passed. The comment at
   `dispatch.ts` 271 says of dispatches and runs that "they must never interleave"; a
   worker's dispatch does so by design.
6. `TornDownWhenSafe` (`orchestrator-core.ts` 3045): the worktrees of a wave are removed
   unless the note says "HELD BACK" or "FAILED". When git cannot list a worktree's changes,
   or cannot write or remove a path of the main tree, the note says neither
   (`worktree.ts` 231-242, 267-269), and the only copy of that work goes; the comment at 3043
   says "Only tear down once the work is safely in the main tree".

Others that no run shows, besides those named in section 2:

* The stall watchdog's kill is retried when the output reads transient
  (`workflow-utils.ts` 361; the comment at 360 says "never retry it").
* `extensions/README.md` 92-103 says that with the default depth of 1 the implementer falls
  back to working by itself unless `PI_DISPATCH_MAX_DEPTH=2`. `dispatchCeilingFor`
  (`workflow-core.ts` 3803) raises the ceiling for it; only 0 keeps it from dispatching.
* `PI_WORKTREE_ISOLATION` reads `h.setup.git`, which the host of `dispatch.ts` (214-244) does
  not provide: a wave is always told that no git runner is available. `Worktrees` models the
  core with a runner, as its tests use it.
* A server that restarts in the midst of a run posts its trace again (2.8); `/revert` can lose
  what the user wrote during a run (2.6), where `README.md` 322 and `extensions/README.md` 267
  say that the current state is stashed first; the warning of agents without a pinned model
  names those of the run before, and on a session's first run nobody (2.5).
* `select_agents` keeps the cards of agents that are done, although its answer
  (`orchestrator-core.ts` 3206) says that all are queued.
* The comment at `orchestrator-core.ts` 2105-2107 says
  `markAllPhasesDone` runs when "validation passed"; for a team without a validator
  `passed` is true as well (1260) and every ledger row is marked. `MarksNeedEvidence` is
  therefore claimed for teams with a validator.

## 4. What is proved

TLAPS checks the following for all values of the constants, from the assumption that each
module names. What the assumptions ask: teams are sets of roles and loop limits natural
numbers (`PipelineAssumption`); a natural retry limit (`AgentRunAssumption`); dispatchers
that are agents (`DispatchAssumption`); "no run" and "no team" outside the runs and teams
and at least one phase (`RunControlAssumption`); `None` that is no client
(`LiveControlAssumption`); a run's budget not above a session's (`BudgetAssumption`);
waves that are disjoint finite sets of workers (`WorktreesAssumption`); four different
names for the default branch, the user's, a detached HEAD and none, and agents' branches
that are none of them (`WorkBranchAssumption`, `AgentBranchesApart`); at least one agent and
one column (`PanelAssumption`); slots of at least one place of each kind (`SpawnRoutesAssumption`),
and of `Bridge` that the requests it makes are named by update and life of the bridge, a
stream and a selection each (`BridgeAssumption`); values that are no directory, terminal,
bridge or server for "the shell", "nobody", "missing" and the like (`CatalogAssumption`,
`LauncherAssumption`, `LspAssumption`); edits of one file that do not overlap, as the protocol
has it (`EditsAssumption`); a memory that holds a lesson at least (`AgentMemoryAssumption`);
session lines, a window and a limit of at least one byte (`StreamAssumption`); a store of at
least one event (`EventFeedAssumption`), and of `FeedIsRead` and `SinksAreRead` that every
session has published a channel, for `obs-cli reap` closes the lanes of others while they run;
finitely many sessions, the terminal's among them (`RunTraceAssumption`). Everywhere else the
bounds are natural numbers, and no more is known of them.

| theorem | says |
|---|---|
| `PipelineProofs!TypeCorrect` | types |
| `PipelineProofs!GateSafe` | `ShipGated` |
| `PipelineProofs!StatusTruthful` | `StatusTellsTruth` |
| `PipelineProofs!CancelStops` | `NoLaunchAfterCancel` |
| `PipelineProofs!GateRefinement` | `Pipeline` implements `ReleaseGate` |
| `PipelineProofs!BudgetHolds` | `WorkBudget` |
| `PipelineProofs!FixesAreRejudged` | `FixesRejudged` |
| `PipelineProofs!PlanUsable` | `ImplementsUsablePlan` |
| `PipelineProofs!MarksJustified` | `MarksNeedEvidence` |
| `RunControlProofs!FlagIsTrue` | `RunningTruth` |
| `RunControlProofs!HandsKeptOff` | `HandsOff`: types, `SignalReleased`, `TeamKept`, `DisarmsOnlyItself` |
| `RunControlProofs!CancelIsFinal` | `CancelHoldsAlone` |
| `AgentRunProofs!TypeCorrect` | types |
| `AgentRunProofs!BudgetHolds` | `SpawnBudget` |
| `AgentRunProofs!OkIsFinished` | `OkMeansFinished` |
| `AgentRunProofs!KilledIsFinal` | `KilledStaysDead` |
| `AgentRunProofs!ChildrenInTurn` | `OneChildAtATime` |
| `AgentRunProofs!PanesAreOwn` | `PanesHold` |
| `DispatchProofs!ChainsHaveNoCycle` | `NoCycle` |
| `DispatchProofs!CeilingIsKept` | `CeilingHolds` |
| `DispatchProofs!QueueIsSound` | `QueueSound` |
| `DispatchProofs!ProvenLessonsAreKept` | `ProvenLessonsKept` |
| `ServerProofs!LiveTypeCorrect` | types |
| `ServerProofs!ApprovedOnly` | `ApprovedBeforeRun` |
| `ServerProofs!LanesClosedOnce` | `LanesClosed` |
| `ServerProofs!ScoredAndPushedOnce` | `OncePerRun` |
| `ImplementerProofs!BudgetIsTrue` | `TurnsTold` |
| `ImplementerProofs!MergesAreWhole` | `WholeOrHeldBack` |
| `ImplementerProofs!WorkIsSafe` | `WorkSafe` |
| `DashboardProofs!ChatsAreKept` | `ChatsKept` |
| `DashboardProofs!FeedIsRead` | `FeedHolds`, the first part of `SinksReadRight` |
| `DashboardProofs!IndexIsTrue` | `IndexTrue`, the second part of `SinksReadRight` |
| `DashboardProofs!RunIsTold` | `RunTold`, the third part of `SinksReadRight` |
| `DashboardProofs!SinksAreRead` | `SinksReadRight` |
| `DashboardProofs!PanelTellsAll` | `PanelHolds` |
| `BridgeProofs!RoutesAreKept` | `RoutesHold` |
| `BridgeProofs!LaunchesHold` | `LaunchHolds` |
| `ImplementerProofs!ConfigIsSound` | `ConfigSound` |
| `ImplementerProofs!LspIsSound` | `LspSound` |
| `ImplementerProofs!MemoryIsKept` | `MemoryKept` |
| `ImplementerProofs!StreamIsKept` | `StreamKept` |

`ServerProofs`, `BridgeProofs`, `ImplementerProofs` and `DashboardProofs` hold one part per
component. A component has its own specification (`LiveSpec`, `TreesSpec`, `PanelSpec` ...); the
theorems are about that, and not about the module that gathers several for TLC.

### 4.1 The inductive invariants

None of the properties is inductive by itself, save the action properties that follow
from the types.

* `GateInv` adds to `ShipGated`: before validation has begun the verdict is open; a PASS
  that is on record was given on the current version, because every implementer session
  that follows it is followed by another validation before the pipeline moves on; past
  the gates both gates stand open; nothing ships twice. The refinement uses the same
  invariant: a step that launches the shipper finds no objection standing.
* `LoopInv` relates the counters of sessions to the loop counter: in round `loop` of a
  loop at most so many sessions have been launched, and a fix leads back to the judge.
* `PlanInv` says who wrote what is on disk: in a run with a planner the scratch files are
  empty or this run's own, from the reset to the end.
* `RunControlProofs` reduces the actions to four kinds of step (`StepKinds`): wait, start,
  return, cancel. `Handles` says that what the host holds belongs to a run in a phase that
  nobody has cancelled; `Solo` that without an overlap the run in a phase is the latest one
  and the hook holds its controller. So cancelling makes the flag true again, and what a
  cancelled run finds at its next phase is its own signal, aborted.
* `Spent` counts the children by where the loops are: a full set of attempts for each
  round and model left behind, and the tries of the current one. `Settled` says that
  between two children nothing of the last one is left.
* `PanesInv`: a process with a pane was allowed one when it started (`PaneAllowed`); a
  viewer's lane was started by the dispatch its pane is for (`LaneOwned`), which holds
  because every session that speaks in the sink exists (`SpeakersExist`).
* `Environments` is about the environments of the live processes only: what a child gets is
  computed from its parent's, so a launch preserves it, and every other step removes
  processes or leaves their environments alone.
* `QueueInv`: the processes form a tree (`Rooted`), and every one has its desk in order
  (`Manned`). `Desk` says that each running card belongs to an open call, that a call's
  `left` is the number of its running cards, and that a running card has exactly one child
  (`Kids`). The count of dispatches in flight is then a count of places: `Slots` gives every
  open call a block of as many places as it took, and the blocks of two calls are disjoint.
  `Owed` adds that the process that dispatched the author of a proven lesson is still at it,
  with a success noted, so the lesson's group is yet to be closed. The two action properties of `QueueSound` are
  `CardKept` and `Served`, which each step shows for every process that stays.
* `GatedAsked` says that a gated call has left "none", so it cannot be called, gated or run
  again by another way than its own answer. `Latched` says of every session, past, present
  and to come, whether it has emitted its end.
* `ScoresInv`: a run is scored as often as it was reopened and no more (`ScoresOwed`); of
  two ticks that hold one run, one has been counted as an overlap, and while there was none,
  a run this server has not done with was answered for at most once per start in its midst
  (`OneTickAtATime`); a post in flight has its attempt on the books (`TicksTidy`).
* `CountInv` says where the budget loses its one turn: a process that has not had its first
  turn owes it; from then on the file is what the process found and the turns it took since.
* `TreesInv`: the workers of later waves have touched nothing (`ToComeUnused`); what a
  worker at work has written is in its own tree, or in the shared one if it fell back
  (`TreesAtWork`); an isolated tree holds the marks of its own worker only (`Alone`).
  `WholeOrHeldBack` then compares the trees just before and just after a merge, and needs of
  a worker only that git failed on nothing of its own (`Smooth`).
* `BranchInv` follows the snapshot: the checkpoint names commits and stash entries that
  exist (`CheckpointOK`), and a run that builds, does so off the default branch unless the
  two named exceptions happened (`BuildsOffDefault`).
* `ChatInv` dates the messages (`Dated`) and says where a turn can be at all: once in a copy
  (`TurnsOnce`), in one stream (`StreamsApart`), and in none while its question waits
  (`Unanswered`). `OwnWords` follows what one browser alone wrote through the pending batch,
  the writes on their way and the server's copy; `InStep` says what a page at rest will show.
* `PanelInv` counts the runs and dispatches at work (`Worked`) and says what is painted
  while no paint is pending (`Painted`). The rest is about layout as a function: lemmas on
  how the rows of a card, a status block and a clamped log concatenate, and what their
  lengths are.

* `RoutesInv`: the slots of each kind are as many as the open requests of that kind, and a
  child that runs is of an open request or of a one-shot request that it outlived.
  `BridgeInv` says that updates not had yet have no turn (`Ahead`), that one turn is at work
  (`OneTurn`), whose client the server sees (`Streams`), that an update was handled once in
  each life of the bridge, and in the present one only below the offset (`Counted`), and of
  each turn where its message stands
  (`Message`): what was sent last is shown or flying, and a turn that finishes has sent its
  whole body or has an edit queued that will.
* `LaunchInv`: a terminal knows the pid of the one server it owns (`OwnersKnown`); while
  nobody is disturbed and nobody gives up on the lock, the pid file names the bridge that
  runs, and no bridge ever finds a dead holder (`LockTells`).
* `CatalogInv`: every environment holds what the shell exports and nothing of a project that
  is not allowed (`Trusted`), which loading a file and inheriting an environment both
  preserve; a process whose module-load worker model is set still has it in the
  environment; and one whose preflight named agents is at a run, and nothing pins theirs.
* `LspInv`: what is asked or answered is of a request that was made, and if of the last one,
  of the step the client is at (`Question`, `Letter`); a file has one report, or none while
  its server is to be started or is talked with before the diagnostics are collected
  (`Reported`).

* `EditsInv` is small; the work is in what `ApplyTextEdits` computes. After each splice there
  is a place (`PutInFrom`) from which on the text is as it is to be, and up to which it is as
  it was: the spans left end there, the others start there or later. `StretchStays` says that
  between the place and the end of the next span the text is only copied.
* `MemoryInv`: while no two commits overlap at most one writer is at work, what it read is
  still the memory, and the sibling's inode, which is not the memory's, holds what it wrote
  (`AtIt`). `DedupeGrows` says what the fold does text by text.
* `StreamInv` follows the output through the pipe: of the events written, some have been
  told, the next may have begun on the parser's line, and the rest is in the pipe
  (`Reading`). Each piece read leaves that so (`PieceRead`), and `Told` says what the fold is
  after so many events. Only the session's last line may be cut (`SessionOK`).

* `FeedInv`: what is still to be read of the sink, or to be written by a session that runs,
  has greater numbers than anything told (`Numbered`); what the store holds at or below the
  page's mark was passed on, and the rest is on its way to a page that is connected
  (`StoreTold`); and the last lines read are the end of the store (`Primed`), so that a server
  that starts finds what was told before it in what it reads back. `StoredIs` says that lines
  that come after all that is held are all new to the store.

* `IndexInv` says that the index of a file is what the file's first bytes make of it, up to
  where it was read (`ReadRight`), unless the file was emptied and is shorter, or had grown
  again unseen; in what chunks it was read makes no difference (`FeedIs`). The rest is about
  the bytes: after any number of them the index tells of each run what a plain scan finds
  (`Told`), because the halves of a file are in the order of writing (`Written`), and a scan
  that begins where a run's first line does finds all of the run (`RangeRead`).

* `TraceInv` relates the events to the sessions that said them: another than the root was
  dispatched by one that had spoken before it (`Born`); calls are numbered as they begin,
  after the one that makes them (`Called`), and end once (`Returned`); between a turn's start
  and its end its session has no other, and no call is open across the end of a turn
  (`Turned`). All of `RunTold` follows from that, state by state. A span of the tree is found
  by saying what is open after each event (`OpenIs`); the active time by what the stretches
  joined so far cover (`Counts`); the sessions of the tree by an order that goes down with
  the parents (`DownAll`).

The last six, and the folds in them, go by inductions over sequences. They are proved as
least counterexamples: a set of numbers that is not empty has a least element (`LeastOf`), so
what is true of 0 and passes from `n - 1` to `n` is true up to any bound (`UpTo`), and a
function that is defined by recursion has the values its definition says (`Iterates`). The set
of good numbers stands for the predicate, and no theorem needs an operator as its parameter.

`FiniteSetTheorems` supply the cardinalities. A few lemmas need a least or a last element
of a set of positions; they get it from `WellFoundedInduction` with the order given as a
set of pairs.

### 4.2 What is only model-checked, and why

* Liveness: `RunEnds`, `CallReturns`, `CancelReaps`, `BoundIsAnswered` and
  `NoRunForgotten`. The prover does not handle fairness or ENABLED.
* `RepairKeeps`. It compares what passes over a text compute (squashing blanks and finding a
  fuzzy match) with a definition of the result. The passes are folds of the community modules
  and recursive operators, whose values the provers do not get at.
* The instances in which the comments of the code are violated (section 3.3).


## 5. What is not modelled, and the plan

Not modelled, by choice:

* `obs-metrics.ts`, `obs-eval-core.ts` and the statistics of digests: sums and percentiles of
  recorded events, with no state that outlives a call; unit tests reach all of it.
* The guards: each classifies one command by patterns, without state.
* Wording of tasks, reports and prompts; layout of the pages, the footer and tool results;
  the search over sinks and the static files of the server.
* Skills that make one request and print the answer; containers and the `justfile`.
* The exit of the host `pi` process (the timer of the SIGKILL on quit is unref'd,
  `agent-workflow.ts` 2031), remotes and merge conflicts of git.

What further work would add, most useful first: the composition of `LiveControl` with
`EventFeed`, so that a turn's reply is read from the events that show it; continued sessions
and parallel implementers in `InlineBudget`; two people's chats in `Bridge`.
