SPECIFICATION Spec
CONSTANTS
  implementer = implementer
  coordinator = coordinator
  Agents <- MCAgents
  Dispatchers <- MCAgents
  MaxPerTurn = 2
  Ceilings = {0, 1, 2}
  Requests = 1
  Lessons = 1
  Processes = 3
SYMMETRY Symmetric
INVARIANTS NoCycle CeilingHolds
PROPERTIES QueueSound ProvenLessonsKept
