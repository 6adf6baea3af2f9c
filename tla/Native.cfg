CONSTANTS
  Parts = {"restore", "start", "gate", "run", "import"}
  MaxStops = 4
  MaxCancels = 2
  Calls = {c1, c2, c3}
  MaxActive = 2
  StreamBytes = 5
  GlobalBytes = 10
  Attempts = 2
  MaxFaults = 2
  GateCalls = {r1, w1}
  GateReads = {r1}
  RestartAt = 1
  TruncateAt = 2
  MaxWalRuns = 2
  MaxFrames = 2
  Responses <- MCResponses
  MaxFrame = 8
  ChannelSize = 1
  Services = {1, 2}
  Ids = {1, 2}
  Batch = {1, 2}
  ImportFaults = 1
SPECIFICATION MCSpec
CHECK_DEADLOCK FALSE
INVARIANTS
  DataSafe
  SlotsAccounted
  GateSafe
  ImportSafe
PROPERTIES
  OldGivenUpLast
  RestoreResumes
  ContractKept
  GateSettles
  RunKeepsPromise
  ResidueReclaimed
