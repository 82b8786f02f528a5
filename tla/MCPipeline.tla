----------------------------- MODULE MCPipeline -----------------------------
(***************************************************************************)
(* Small instances of Pipeline: the teams of agents/teams.yaml, loop       *)
(* limits of zero (a max_loops below 1), one and two, a plan of two        *)
(* phases, and two runs in a row, the second of which finds what the first *)
(* left behind.                                                            *)
(***************************************************************************)
EXTENDS Pipeline

PlanBuildTeam == {"scout", "planner", "refiner", "implementer", "reviewer",
                  "validator", "documenter", "shipper"}
RoadmapPlanBuildTeam == PlanBuildTeam \cup {"roadmapper"}
SoftPlanBuildTeam == PlanBuildTeam \ {"validator"}
RoadmapTeam == {"scout", "roadmapper"}
SpecTeam == {"scout", "planner", "refiner"}
BuildTeam == PlanBuildTeam \ SpecTeam
ReviewTeam == {"reviewer", "validator", "documenter"}

\* A team of specialists only: none of its members has a phase.
NoPhaseTeam == {}

AllTeams == {NoPhaseTeam, PlanBuildTeam, RoadmapPlanBuildTeam, SoftPlanBuildTeam, RoadmapTeam,
             SpecTeam, BuildTeam, ReviewTeam}
GatedTeams == {PlanBuildTeam}

TwoPhases == {"Phase 1", "Phase 2"}
=============================================================================
