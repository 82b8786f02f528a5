---------------------------- MODULE ReleaseGate ----------------------------
(***************************************************************************)
(* What the pipeline promises about releasing work, with no pipeline in    *)
(* it.  Work is produced in versions, gates raise and withdraw objections, *)
(* and work is released at most once, only while no objection stands.  A   *)
(* validation objects to every version until that very version passes; a   *)
(* review objects only once it has asked for changes.                      *)
(***************************************************************************)
EXTENDS Naturals

VARIABLES
  gates,       \* the gates of the current run
  objections,  \* those that object to releasing the current version
  version,     \* versions produced by the current run
  released     \* the current run has released its work

gateVars == <<gates, objections, version, released>>

Gates == {"review", "validation"}

\* A new version puts in question whatever validated the one before.
Unproven == gates \cap {"validation"}

Init ==
  /\ gates = {} /\ objections = {}
  /\ version = 0 /\ released = FALSE

NewRun(g) ==
  /\ gates' = g
  /\ objections' = g \cap {"validation"}
  /\ version' = 0 /\ released' = FALSE

Produce ==
  /\ ~released
  /\ version' = version + 1
  /\ objections' = objections \cup Unproven
  /\ UNCHANGED <<gates, released>>

Judge(gate) ==
  /\ ~released
  /\ gate \in gates
  /\ objections' \in {objections \cup {gate}, objections \ {gate}}
  /\ UNCHANGED <<gates, version, released>>

Release ==
  /\ ~released /\ objections = {}
  /\ released' = TRUE
  /\ UNCHANGED <<gates, objections, version>>

Next ==
  \/ \E g \in SUBSET Gates : NewRun(g)
  \/ Produce
  \/ \E gate \in Gates : Judge(gate)
  \/ Release

Spec == Init /\ [][Next]_gateVars
=============================================================================
