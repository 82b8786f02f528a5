------------------------------ MODULE AgentRun ------------------------------
(***************************************************************************)
(* One agent, from the call of runAgentWithFallback (or, for a dispatch,   *)
(* of runAgentWithEmptyRetry) to its result: the child processes it is run *)
(* in one after the other, the watchdogs and the cancellation that kill    *)
(* them, the retries in place and the fallback model.                      *)
(*                                                                         *)
(* A child is a `pi` process leading a process group, and the processes it *)
(* starts.  Node reports "exit" when pi is gone and "close" when, besides, *)
(* nobody holds the ends of its output pipes any more; the caller's        *)
(* promise is resolved on "close".  A kill is a SIGTERM followed by a      *)
(* SIGKILL some seconds later; only the watchdogs aim at the whole group.  *)
(***************************************************************************)
EXTENDS Naturals

CONSTANT MaxTransient  \* transientRetryLimit(): retries in place, per model

ASSUME AgentRunAssumption == MaxTransient \in Nat

VARIABLES
  pc,          \* "await" a child, "sleep" before a retry, "done"
  dispatched,  \* called through runAgentWithEmptyRetry
  distinct,    \* there is a fallback model, and it is another one
  stallGuard,  \* agentStallMs > 0: a silent child is killed
  timeLimit,   \* agentTimeoutMs > 0: a child that lasts too long is killed
  round,       \* 1, or 2 once an empty result is being retried
  model,       \* the model being run
  tries,       \* retries in place on that model
  pi,          \* the child: "alive", "gone", or "none" if it could not be started
  held,        \* a process pi started still holds its output pipes
  silent,      \* nothing more comes out of the child
  listed,      \* the child is in liveProcs
  kill,        \* target of the SIGTERM sent: "none", "pi" or "group"
  timedOut,    \* the flags of the two watchdogs
  stalled,
  code,        \* exit status of pi; 1 also when its last turn ended in an error
  text,        \* what its output reads like
  aborted,     \* isAborted()
  result,      \* what the caller gets: "none", "ok", "empty" or "error"
  spawns       \* history: children started

caller == <<dispatched, distinct, stallGuard, timeLimit>>
retry == <<round, model, tries>>
child == <<pi, held, silent, listed, kill, timedOut, stalled, code, text>>
vars == <<pc, caller, retry, child, aborted, result, spawns>>

\* "model" is an error about the model, whatever else is said; "transient" reads
\* like a hiccup of the infrastructure; "empty" is nothing, and no tool was called.
Texts == {"answer", "transient", "model", "empty"}

CallType ==
  /\ pc \in {"await", "sleep", "done"}
  /\ dispatched \in BOOLEAN /\ distinct \in BOOLEAN /\ aborted \in BOOLEAN
  /\ stallGuard \in BOOLEAN /\ timeLimit \in BOOLEAN
  /\ round \in {1, 2} /\ model \in {"primary", "fallback"} /\ tries \in 0..MaxTransient
  /\ result \in {"none", "ok", "empty", "error"} /\ spawns \in Nat

FlagType ==
  /\ held \in BOOLEAN /\ silent \in BOOLEAN /\ listed \in BOOLEAN
  /\ timedOut \in BOOLEAN /\ stalled \in BOOLEAN

ChildType ==
  /\ pi \in {"alive", "gone", "none"} /\ kill \in {"none", "pi", "group"}
  /\ code \in {0, 1} /\ text \in Texts

TypeOK == CallType /\ FlagType /\ ChildType

Init ==
  /\ pc = "await" /\ dispatched \in BOOLEAN /\ distinct \in BOOLEAN
  /\ stallGuard \in BOOLEAN /\ timeLimit \in BOOLEAN
  /\ round = 1 /\ model = "primary" /\ tries = 0
  /\ pi \in {"alive", "none"} /\ listed = (pi = "alive") /\ silent = (pi = "none")
  /\ held = FALSE /\ kill = "none" /\ timedOut = FALSE /\ stalled = FALSE
  /\ code = 1 /\ text = "answer"
  /\ aborted = FALSE /\ result = "none" /\ spawns = 1

\* A new child: started, or refused by the system (the "error" event).
Spawn ==
  /\ pc' = "await" /\ spawns' = spawns + 1
  /\ pi' \in {"alive", "none"} /\ listed' = (pi' = "alive") /\ silent' = (pi' = "none")
  /\ held' = FALSE /\ kill' = "none" /\ timedOut' = FALSE /\ stalled' = FALSE
  /\ code' = 1 /\ text' = "answer"

(***************************************************************************)
(* What the child does.                                                    *)
(***************************************************************************)
\* A process of the child's holds its pipes: a tool in the background, a server.
StartsTool ==
  /\ pi = "alive" /\ ~held
  /\ held' = TRUE
  /\ UNCHANGED <<pc, caller, retry, pi, silent, listed, kill, timedOut, stalled,
                 code, text, aborted, result, spawns>>

FallsSilent ==
  /\ pc = "await" /\ pi # "none" /\ ~silent
  /\ silent' = TRUE
  /\ UNCHANGED <<pc, caller, retry, pi, held, listed, kill, timedOut, stalled,
                 code, text, aborted, result, spawns>>

ToolEnds ==
  /\ held
  /\ held' = FALSE
  /\ UNCHANGED <<pc, caller, retry, pi, silent, listed, kill, timedOut, stalled,
                 code, text, aborted, result, spawns>>

\* "exit": by itself or on a SIGTERM, with whatever it has written.
PiExits ==
  /\ pi = "alive"
  /\ pi' = "gone" /\ listed' = FALSE
  /\ code' \in {0, 1} /\ text' \in Texts
  /\ UNCHANGED <<pc, caller, retry, held, silent, kill, timedOut, stalled,
                 aborted, result, spawns>>

(***************************************************************************)
(* Killing it.                                                             *)
(***************************************************************************)
\* A watchdog sends SIGTERM to the group; the stall watchdog keeps doing so.
TimesOut ==
  /\ timeLimit /\ pc = "await" /\ pi # "none" /\ ~timedOut
  /\ timedOut' = TRUE /\ kill' = "group"
  /\ UNCHANGED <<pc, caller, retry, pi, held, silent, listed, stalled, code, text,
                 aborted, result, spawns>>

StallsPiOnly ==
  /\ stallGuard /\ pc = "await" /\ pi # "none" /\ silent /\ ~stalled
  /\ stalled' = TRUE /\ timedOut' = TRUE /\ kill' = "pi"
  /\ UNCHANGED <<pc, caller, retry, pi, held, silent, listed, code, text,
                 aborted, result, spawns>>

Stalls ==
  /\ stallGuard /\ pc = "await" /\ pi # "none" /\ silent /\ ~stalled
  /\ stalled' = TRUE /\ timedOut' = TRUE /\ kill' = "group"
  /\ UNCHANGED <<pc, caller, retry, pi, held, silent, listed, code, text,
                 aborted, result, spawns>>

\* killLiveProcs (killAllProcs for a dispatch), and the signal isAborted reads.
Cancel ==
  /\ pc # "done" /\ ~aborted
  /\ aborted' = TRUE /\ listed' = FALSE
  /\ kill' = IF listed /\ kill = "none" THEN "pi" ELSE kill
  /\ UNCHANGED <<pc, caller, retry, pi, held, silent, timedOut, stalled, code, text,
                 result, spawns>>

\* The SIGKILL that follows.  A process killed by it reports no exit status.
EscalateGroupOnly ==
  /\ kill = "group" /\ (pi = "alive" \/ held)
  /\ pi' = (IF pi = "alive" THEN "gone" ELSE pi) /\ listed' = FALSE /\ held' = FALSE
  /\ IF pi = "alive" THEN code' = 1 /\ text' \in Texts ELSE UNCHANGED <<code, text>>
  /\ UNCHANGED <<pc, caller, retry, silent, kill, timedOut, stalled, aborted, result,
                 spawns>>

Escalate ==
  /\ \/ kill = "pi" /\ pi = "alive"
     \/ kill = "group" /\ (pi = "alive" \/ held)
  /\ pi' = (IF pi = "alive" THEN "gone" ELSE pi) /\ listed' = FALSE
  /\ held' = (held /\ kill = "pi")
  /\ IF pi = "alive" THEN code' = 1 /\ text' \in Texts ELSE UNCHANGED <<code, text>>
  /\ UNCHANGED <<pc, caller, retry, silent, kill, timedOut, stalled, aborted, result,
                 spawns>>

(***************************************************************************)
(* The child is reported: computeSpawnResult, then the retry loops, in one *)
(* uninterrupted stretch up to the next await.                             *)
(***************************************************************************)
FailedByCode == code # 0
Failed == timedOut \/ code # 0

ModelFailure == Failed /\ text = "model"

\* isTransientError reads the output; of the two watchdogs' notices it knows one.
Transient == Failed /\ text = "transient" /\ (timedOut => stalled)

RetryPastLimit == Transient /\ ~aborted
RetryCancelled == Transient /\ tries < MaxTransient
RetryInPlace == Transient /\ tries < MaxTransient /\ ~aborted

FallBack == ModelFailure /\ model = "primary" /\ distinct /\ ~aborted

LooksEmpty == ~Failed /\ text = "empty"

EmptyRetry == dispatched /\ round = 1 /\ LooksEmpty

Result == IF Failed THEN "error" ELSE IF LooksEmpty THEN "empty" ELSE "ok"

Reported == pc = "await" /\ pi # "alive" /\ ~held

Close ==
  /\ Reported
  /\ \/ /\ RetryInPlace
        /\ pc' = "sleep" /\ tries' = tries + 1
        /\ UNCHANGED <<round, model, child, result, spawns>>
     \/ /\ FallBack
        /\ model' = "fallback" /\ tries' = 0
        /\ Spawn
        /\ UNCHANGED <<round, result>>
     \/ /\ EmptyRetry
        /\ round' = 2 /\ model' = "primary" /\ tries' = 0
        /\ Spawn
        /\ UNCHANGED result
     \/ /\ ~RetryInPlace /\ ~FallBack /\ ~EmptyRetry
        /\ pc' = "done" /\ result' = Result
        /\ UNCHANGED <<retry, child, spawns>>
  /\ UNCHANGED <<caller, aborted>>

\* The backoff is over: the next spawn, without another look at isAborted.
WakesUp ==
  /\ pc = "sleep"
  /\ Spawn
  /\ UNCHANGED <<caller, retry, aborted, result>>

Next ==
  \/ StartsTool \/ FallsSilent \/ ToolEnds \/ PiExits
  \/ TimesOut \/ Stalls \/ Cancel \/ Escalate
  \/ Close \/ WakesUp

\* Timers fire and reports arrive.  Of the child it is assumed only that it ends or
\* falls silent some day: this is what the stall watchdog is for.
Fairness ==
  /\ WF_vars(Close) /\ WF_vars(WakesUp) /\ WF_vars(Escalate) /\ WF_vars(Stalls)
  /\ WF_vars(FallsSilent)

Spec == Init /\ [][Next]_vars /\ Fairness

(***************************************************************************)
(* Properties.                                                             *)
(***************************************************************************)

\* A call costs a bounded number of children: the first attempt and its retries, for
\* each of the two models, and as many again when a dispatch came back empty.
Attempts == MaxTransient + 1

SpawnBudget ==
  spawns <= IF round = 1 THEN 2 * Attempts ELSE 4 * Attempts

\* The children of one call share a session file: a child is started, and a result
\* returned, only when the one before is gone and its pipes are closed.
OneChildAtATime ==
  [][spawns' # spawns \/ pc' # pc => pi # "alive" /\ ~held]_vars

\* The comment on the opts of runAgentWithFallback: a killed agent, "whose output can
\* look like a transient/model failure", "is never re-spawned".  (The retry of an
\* empty success is a dispatch's, and not a retry of a failure.)
KilledStaysDead ==
  [][aborted /\ pc = "await" /\ Failed => spawns' = spawns /\ pc' # "sleep"]_vars

\* A result is only good if the child ended by itself, with success, under neither
\* watchdog: killing a child never turns its partial output into a phase that passed.
OkMeansFinished == result = "ok" => ~timedOut /\ code = 0 /\ pi = "gone"

\* With the stall watchdog on, every call returns.
CallReturns == stallGuard => <>(pc = "done")

\* With the stall watchdog on or off, a cancelled child is dead in the end.
CancelReaps == aborted /\ pi = "alive" /\ kill # "none" ~> pi # "alive"

\* The same comment, of the run: "Checked before every retry".  After a cancellation a
\* phase of the pipeline starts no child.
NoSpawnAfterCancel == [][aborted /\ ~dispatched => spawns' = spawns]_vars
=============================================================================
