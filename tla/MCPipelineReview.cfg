SPECIFICATION Spec
CONSTANTS
  Rosters <- GatedTeams
  LoopLimits = {2}
  PlanPhases <- TwoPhases
  MaxRuns = 1
INVARIANTS ShippedIsReviewed
CHECK_DEADLOCK FALSE
