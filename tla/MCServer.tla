------------------------------ MODULE MCServer ------------------------------
(***************************************************************************)
(* The server's work on the agents' runs: steering them and scoring them.  *)
(* The two parts share no state here, and a behaviour is one of either.    *)
(***************************************************************************)
EXTENDS LiveControl, RunScores

VARIABLE part

CONSTANTS ann, bob, bash, write, early, late

\* LiveControl.
MCClients == {ann, bob}
MCCalls == {bash, write}

\* RunScores.
MCTicks == {early, late}

\* Two clients are alike, and two calls are: ann asks and bash is called first.
InOrder ==
  /\ conn[bob].at # "idle" => conn[ann].at # "idle"
  /\ call[write] # "none" => call[bash] # "none"

MCInit ==
  /\ part \in {"live", "scores"}
  /\ LiveInit
  /\ ScoresInit /\ (part # "scores" => feature = "otlp")

MCNext ==
  /\ UNCHANGED part
  /\ \/ part = "live" /\ LiveNext /\ InOrder' /\ UNCHANGED scoreVars
     \/ part = "scores" /\ ScoresNext /\ UNCHANGED liveVars

\* The part that is not picked stays in its initial state, where nothing fair is enabled.
MCSpec ==
  /\ MCInit /\ [][MCNext]_<<part, liveVars, scoreVars>>
  /\ LiveFairness /\ ScoresFairness
=============================================================================
