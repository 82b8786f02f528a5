SPECIFICATION Spec
CONSTANTS
  Rosters <- AllTeams
  LoopLimits = {0, 1, 2}
  PlanPhases <- TwoPhases
  MaxRuns = 2
INVARIANTS ShipGated StatusTellsTruth FixesRejudged ImplementsUsablePlan
PROPERTIES NoLaunchAfterCancel MarksNeedEvidence GateImplemented RunEnds
CHECK_DEADLOCK FALSE
