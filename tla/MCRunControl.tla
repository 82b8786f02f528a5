---------------------------- MODULE MCRunControl ----------------------------
(***************************************************************************)
(* Three invocations, which is what it takes for a run that a cancelled    *)
(* run has unflagged to be joined by a third; two phases, so that a run    *)
(* has a launch to make after its first phase.                             *)
(***************************************************************************)
EXTENDS RunControl

CONSTANTS r1, r2, r3

ThreeRuns == {r1, r2, r3}
TwoRuns == {r1, r2}
TwoTeams == {"spec", "build"}
OneTeam == {"build"}
=============================================================================
