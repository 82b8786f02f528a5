CONSTANTS
  Texts <- MCFiles
  Edits <- MCEdits
  RunBudget = 2
  SessionBudget = 3
  Grace = 1
  MaxTurns = 5
  MaxInstances = 3
  MaxBudgeted = 3
  Paths = {p, q}
  Waves <- MCWaves
  MaxEvents = 3
  MaxSpawns = 3
  Lengths = {1, 3}
  Window = 4
  MaxSize = 9
  edit = edit
  first = first
  build = build
  again = again
  Main = Main
  Own = Own
  Detached = Detached
  None = None
  UserWork <- MCUserWork
  Phases <- MCPhases
  Requests <- MCRequests
  Clashes <- MCClashes
  Keep = 1
  MaxRuns = 2
  MaxCommits = 2
  MaxStash = 3
  Sources = {f, g}
  Servers = {s, t}
  Asks = 1
  Documents = {d}
  Before <- MCBefore
  EditLists <- MCEditLists
  Dirs = {"d", "e"}
  MaxEdits = 1
  Writers = {v, w}
  Lessons <- MCLessons
  Cap = 2
  MaxFolds = 2
  MaxBatch = 2
SPECIFICATION MCSpec
INVARIANTS TurnsTold LspSound
PROPERTIES RepairKeeps WholeOrHeldBack StreamKept  ConfigSound MemoryKept
CHECK_DEADLOCK FALSE
