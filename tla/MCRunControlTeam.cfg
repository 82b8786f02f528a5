SPECIFICATION ControlSpec
CONSTANTS
  r1 = r1
  r2 = r2
  r3 = r3
  Runs <- TwoRuns
  Teams <- TwoTeams
  Phases = 2
INVARIANTS RunsItsTeam
CHECK_DEADLOCK FALSE
