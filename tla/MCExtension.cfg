SPECIFICATION MCSpec
CONSTANTS
  r1 = r1
  r2 = r2
  r3 = r3
  Runs <- ThreeRuns
  Teams <- OneTeam
  Phases = 2
  MaxTransient = 2
  DispatchIds <- MCDispatchIds
  AgentOf <- MCAgentOf
  PaneDepths = {0, 1}
  MaxSpawned = 2
  Agents <- MCAgents
  Heights = {24, 34}
  Columns = 2
  MaxTodos = 3
  Checks = 2
  MaxLog = 4
INVARIANTS RunningTruth SpawnBudget OkMeansFinished PanesHold PanelHolds
PROPERTIES HandsOff CancelHoldsAlone KilledStaysDead CallReturns CancelReaps
CHECK_DEADLOCK FALSE
