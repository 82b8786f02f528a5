CONSTANTS
  ann = ann
  bob = bob
  bash = bash
  write = write
  early = early
  late = late
  None = None
  Clients <- MCClients
  Calls <- MCCalls
  MaxSessions = 2
  MaxTurns = 1
  Ticks <- MCTicks
  MaxRuns = 2
  MaxEvents = 2
  MaxFaults = 1
SPECIFICATION MCSpec
INVARIANTS ApprovedBeforeRun LanesClosed OncePerRun
PROPERTIES BoundIsAnswered NoRunForgotten
CHECK_DEADLOCK FALSE
