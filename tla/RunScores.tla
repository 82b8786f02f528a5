----------------------------- MODULE RunScores -----------------------------
(***************************************************************************)
(* What the server does of itself about the runs in the event sink         *)
(* (obs/obs-server.ts): it scores the runs that ended without a verdict,   *)
(* beside the workflow's own verdicts and those a person gives through the *)
(* API or the command line, and it forwards the trace of a run that went   *)
(* quiet to an OTLP endpoint.                                              *)
(*                                                                         *)
(* Runs are numbered in the order they began, and both loops take the      *)
(* newest first.  The index is brought up to the end of the sink before    *)
(* each use, so the model reads the sink itself.                           *)
(***************************************************************************)
EXTENDS Naturals, FiniteSets, FiniteSetsExt

CONSTANTS Ticks,       \* the OTLP ticks that may be in flight together
          MaxRuns, MaxEvents, MaxFaults   \* bounds

ASSUME RunScoresAssumption ==
  /\ MaxRuns \in Nat /\ MaxEvents \in Nat /\ MaxFaults \in Nat

Runs == 1..MaxRuns
MaxAttempts == 3       \* OTLP_MAX_ATTEMPTS

VARIABLES
  feature,   \* the loop that is configured: the two share no state
  held,      \* what the sink holds of each run
  verdict,   \* the last verdict of the whole run in the sink
  faults,    \* failed appends and restarts so far
  inspected, todo, listed,   \* autoInspected; the tick's runs, their lastTs in it
  autos, reopened,   \* history: verdicts of the server, and "open" ones of a person
  done, attempts, post,      \* otlpDone, otlpAttempts, the ticks in flight
  pushed,                    \* history: answers that a run's trace was taken
  overlapped,                \* history: have two ticks overlapped, in any server so far
  stirred                    \* history: starts of a server that found the run stirring

sink == <<held, verdict>>
scoring == <<inspected, todo, listed, autos, reopened>>
forwarding == <<done, attempts, post, pushed, overlapped, stirred>>
scoreVars == <<feature, sink, faults, scoring, forwarding>>

\* Pass or fail is one to the server: a decision.
Statuses == {"decided", "open"}
Unscored == [status |-> "none", source |-> "none"]
Verdict == {Unscored} \cup [status : Statuses, source : {"workflow", "auto", "person"}]
Idle == [runs |-> {}, at |-> 0, attempt |-> 0]

ScoresTypeOK ==
  /\ feature \in {"verdicts", "otlp"}
  /\ held \in [Runs -> [ts : 0..MaxEvents, worked : BOOLEAN, age : 0..2]]
  /\ verdict \in [Runs -> Verdict] /\ faults \in 0..MaxFaults
  /\ inspected \in [Runs -> 0..MaxEvents] /\ todo \subseteq Runs
  /\ listed \in [Runs -> 0..MaxEvents]
  /\ autos \in [Runs -> Nat] /\ reopened \in [Runs -> Nat]
  /\ done \subseteq Runs /\ attempts \in [Runs -> Nat] /\ pushed \in [Runs -> Nat]
  /\ post \in [Ticks -> [runs : SUBSET Runs, at : 0..MaxRuns, attempt : Nat]]
  /\ overlapped \in BOOLEAN /\ stirred \in [Runs -> Nat]

Zero == [r \in Runs |-> 0]

ScoresInit ==
  /\ feature \in {"verdicts", "otlp"}
  /\ held = [r \in Runs |-> [ts |-> 0, worked |-> FALSE, age |-> 0]]
  /\ verdict = [r \in Runs |-> Unscored] /\ faults = 0
  /\ inspected = Zero /\ todo = {} /\ listed = Zero /\ autos = Zero /\ reopened = Zero
  /\ done = {} /\ attempts = Zero /\ post = [t \in Ticks |-> Idle]
  /\ pushed = Zero /\ overlapped = FALSE /\ stirred = Zero

Begun(r) == held[r].ts > 0

-----------------------------------------------------------------------------
\* The writers of the sink.  Age 1: silent for OTLP_QUIET_MS; 2: for RUN_QUIET_MS.

AgentEvent(r) ==
  /\ held[r].ts < MaxEvents /\ (r > 1 => Begun(r - 1))
  /\ \E works \in BOOLEAN :
       /\ works => feature = "verdicts"    \* the forwarder does not tell
       /\ held' = [held EXCEPT ![r] = [ts |-> @.ts + 1, age |-> 0, worked |-> @.worked \/ works]]
  /\ UNCHANGED <<feature, verdict, faults, scoring, forwarding>>

Silence(r) ==
  /\ Begun(r) /\ held[r].age < 2 /\ held' = [held EXCEPT ![r].age = @ + 1]
  /\ feature = "otlp" => held[r].age = 0    \* nor how long it is quiet
  /\ UNCHANGED <<feature, verdict, faults, scoring, forwarding>>

\* Appending a verdict is no activity of the run.
Score(r, status, source) == verdict' = [verdict EXCEPT ![r] = [status |-> status, source |-> source]]

WorkflowVerdict(r) ==
  /\ feature = "verdicts" /\ Begun(r)
  /\ \E status \in Statuses : Score(r, status, "workflow")
  /\ UNCHANGED <<feature, held, faults, scoring, forwarding>>

\* POST /verdict: the server does one thing at a time.
ApiScore(r) ==
  /\ feature = "verdicts" /\ Begun(r) /\ todo = {}
  /\ \E status \in Statuses :
       /\ Score(r, status, "person")
       /\ reopened' = IF status = "open" THEN [reopened EXCEPT ![r] = @ + 1] ELSE reopened
       /\ status = "open" => reopened[r] < MaxFaults
  /\ UNCHANGED <<feature, held, faults, inspected, todo, listed, autos, forwarding>>

\* obs-cli score: a process of its own.
CliScore(r) ==
  /\ feature = "verdicts" /\ Begun(r)
  /\ Score(r, "decided", "person")
  /\ UNCHANGED <<feature, held, faults, scoring, forwarding>>

-----------------------------------------------------------------------------
\* backfillVerdicts.

\* Mutant: only the runs looked at since the start are left alone.
Uninspected(r) == held[r].age = 2 /\ inspected[r] # held[r].ts


Candidate(r) ==
  /\ verdict[r].status \in {"none", "open"} /\ verdict[r].source # "workflow"
  /\ held[r].age = 2 /\ inspected[r] # held[r].ts

BackfillTick ==
  /\ feature = "verdicts" /\ todo = {}
  /\ todo' = {r \in Runs : Candidate(r)} /\ todo' # {}
  /\ listed' = [r \in Runs |-> IF r \in todo' THEN held[r].ts ELSE 0]
  /\ UNCHANGED <<feature, sink, faults, inspected, autos, reopened, forwarding>>

\* On the events there are now.
RunAutoVerdict(r) == IF held[r].worked THEN "decided" ELSE "none"

\* Mutant: a run whose verdict could not be written counts as looked at.
AppendFailsUnseen(r) == inspected' = [inspected EXCEPT ![r] = listed[r]]

\* The sink cannot be written: the run is for the next tick to look at again.
AppendFails(r) == inspected' = [inspected EXCEPT ![r] = 0]

BackfillRun ==
  /\ todo # {}
  /\ LET r == Max(todo) IN
     /\ todo' = todo \ {r} /\ listed' = [listed EXCEPT ![r] = 0]
     /\ \/ /\ RunAutoVerdict(r) = "none" /\ inspected' = [inspected EXCEPT ![r] = listed[r]]
           /\ UNCHANGED <<verdict, autos, faults>>
        \/ /\ RunAutoVerdict(r) # "none" /\ inspected' = [inspected EXCEPT ![r] = listed[r]]
           /\ Score(r, RunAutoVerdict(r), "auto") /\ autos' = [autos EXCEPT ![r] = @ + 1]
           /\ UNCHANGED faults
        \/ /\ RunAutoVerdict(r) # "none" /\ faults < MaxFaults /\ faults' = faults + 1
           /\ AppendFails(r) /\ UNCHANGED <<verdict, autos>>
  /\ UNCHANGED <<feature, held, reopened, forwarding>>

-----------------------------------------------------------------------------
\* otlpTick.  The list of runs and how long they are silent are those of its start, and
\* the loop runs up to the next fetch at once.

Continue(t, runs, finished) ==
  LET left == runs \ finished IN
  IF left = {} THEN post' = [post EXCEPT ![t] = Idle] /\ UNCHANGED attempts
  ELSE LET r == Max(left) IN
       /\ attempts' = [attempts EXCEPT ![r] = @ + 1]
       /\ post' = [post EXCEPT ![t] =
                     [runs |-> {x \in left : x < r}, at |-> r, attempt |-> attempts[r] + 1]]

\* Mutant: the newest run only.
NewestQuiet == {r \in Runs : Begun(r) /\ held[r].age >= 1 /\ (r = MaxRuns \/ ~Begun(r + 1))}

Quiet == {r \in Runs : Begun(r) /\ held[r].age >= 1}

OtlpTick(t) ==
  /\ feature = "otlp" /\ post[t] = Idle /\ Quiet \ done # {}
  /\ Continue(t, Quiet, done)
  /\ overlapped' = (overlapped \/ \E u \in Ticks : post[u] # Idle)
  /\ UNCHANGED <<feature, sink, faults, scoring, done, pushed, stirred>>

\* Mutant: a trace that was taken may be sent again.
SettledOnFailure(t, ok) ==
  IF ~ok /\ post[t].attempt >= MaxAttempts THEN done \cup {post[t].at} ELSE done

Settled(t, ok) ==
  IF ok \/ post[t].attempt >= MaxAttempts THEN done \cup {post[t].at} ELSE done

OtlpReply(t, ok) ==
  /\ post[t].at # 0
  /\ done' = Settled(t, ok)
  /\ pushed' = IF ok THEN [pushed EXCEPT ![post[t].at] = @ + 1] ELSE pushed
  /\ Continue(t, post[t].runs, done')
  /\ UNCHANGED <<feature, sink, faults, scoring, overlapped, stirred>>

-----------------------------------------------------------------------------
\* The server is stopped and started.  What it had done is in its memory only: its first
\* OTLP tick takes the quiet runs for done, and no other.

\* Mutant: the first tick is like any other.
SeededNone == {}

Seeded == IF feature = "otlp" THEN Quiet ELSE {}
Stirring(r) == feature = "otlp" /\ Begun(r) /\ r \notin Quiet

Restart ==
  /\ faults < MaxFaults /\ faults' = faults + 1
  /\ inspected' = Zero /\ todo' = {} /\ listed' = Zero
  /\ done' = Seeded /\ attempts' = Zero /\ post' = [t \in Ticks |-> Idle]
  /\ stirred' = [r \in Runs |-> IF Stirring(r) THEN stirred[r] + 1 ELSE stirred[r]]
  /\ UNCHANGED <<feature, sink, autos, reopened, pushed, overlapped>>

ScoresNext ==
  \/ \E r \in Runs : \/ AgentEvent(r) \/ Silence(r)
                      \/ WorkflowVerdict(r) \/ ApiScore(r) \/ CliScore(r)
  \/ BackfillTick \/ BackfillRun \/ Restart
  \/ \E t \in Ticks : OtlpTick(t) \/ \E ok \in BOOLEAN : OtlpReply(t, ok)

ScoresFairness ==
  /\ \A r \in Runs : WF_scoreVars(Silence(r))
  /\ WF_scoreVars(BackfillTick) /\ WF_scoreVars(BackfillRun)
  /\ \A t \in Ticks : WF_scoreVars(OtlpTick(t)) /\ WF_scoreVars(\E ok \in BOOLEAN : OtlpReply(t, ok))

ScoresSpec == ScoresInit /\ [][ScoresNext]_scoreVars /\ ScoresFairness

-----------------------------------------------------------------------------
(***************************************************************************)
(* The server scores a run once, and once more each time a person opens it *)
(* again, whatever ticks, restarts and failed appends there are.           *)
(***************************************************************************)
ScoredOnce == \A r \in Runs : autos[r] <= 1 + reopened[r]

(***************************************************************************)
(* While no two ticks have overlapped, the endpoint's answers say once of  *)
(* each run that its trace was taken, and once more for each start of a    *)
(* server that finds the run still stirring: it does not know what the     *)
(* server before it forwarded.  In the life of one server a trace is sent  *)
(* at most OTLP_MAX_ATTEMPTS times.                                        *)
(***************************************************************************)
PushedOnce ==
  ~overlapped => \A r \in Runs : pushed[r] <= 1 + stirred[r] /\ attempts[r] <= MaxAttempts

(***************************************************************************)
(* No run is scored again unless a person opened it again, nor forwarded   *)
(* again unless a server started in its midst.                             *)
(***************************************************************************)
OncePerRun == ScoresTypeOK /\ ScoredOnce /\ PushedOnce

Owed(r) == IF feature = "verdicts" THEN held[r].worked /\ verdict[r] = Unscored
                                   ELSE Begun(r) /\ r \notin done

(***************************************************************************)
(* Every run that did any work gets a verdict, and every run is forwarded, *)
(* given up on or found quiet by a server that starts, though its first    *)
(* events may come too late for one tick or its append fail.               *)
(***************************************************************************)
NoRunForgotten == \A r \in Runs : Owed(r) ~> ~Owed(r)
=============================================================================
