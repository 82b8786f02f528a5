CONSTANTS
  Updates <- MCUpdates
  Sessions <- MCSessions
  Streaming <- MCStreaming
  Requests <- MCRequests
  Dispatching <- MCDispatching
  NoSession = "none"
  MaxLlm = 2
  MaxDispatch = 1
  MaxTokens = 1
  MaxCrashes = 1
  root = root
  Lanes <- MCLanes
  Steerable <- MCLanes
  Cap = 2
  PrimeTail = 1
  MaxSeq = 3
  MaxRotations = 2
  MaxRestarts = 1
  Sinks = {s, w}
  Runs = {r, q}
  Chunk = 2
  MaxLines = 3
  MaxEmptied = 1
  Logs <- MCLogs
  RoleOf <- MCRoleOf
  Terminal = root
  MaxHappened = 9
  MaxCallIds = 2
  Browsers = {a, b}
  Chats = {c}
  MaxTime = 3
  MaxLoads = 2
  MaxPuts = 2
  Terminals = {t, u}
  Bridges = {x, y, z}
  MaxServers = 2
SPECIFICATION MCSpec
INVARIANTS SinksReadRight ChatsKept
PROPERTIES RoutesHold LaunchHolds
CHECK_DEADLOCK FALSE
