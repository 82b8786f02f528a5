SPECIFICATION ControlSpec
CONSTANTS
  r1 = r1
  r2 = r2
  r3 = r3
  Runs <- TwoRuns
  Teams <- OneTeam
  Phases = 2
PROPERTIES CancelHolds
CHECK_DEADLOCK FALSE
