CONSTANTS
  Stories = {"faults"}
  Acker = {a1}
  MaxInFlight = 3
  MaxWire = 2
  MaxUsage = 0
  Retries = 0
  Commands = {}
  FaultOps <- RecoverableFaults
  MaxFaults = 1
SPECIFICATION MCFairSpec
CHECK_DEADLOCK FALSE
PROPERTIES
  RowSettles
  AckAnswered
