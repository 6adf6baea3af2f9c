CONSTANTS
  Stories = {"faults", "tokens", "cancel"}
  Acker = {a1}
  MaxInFlight = 2
  MaxWire = 3
  MaxUsage = 1
  Retries = 0
  Commands = {"cancel"}
  FaultOps <- AllFaults
  MaxFaults = 1
SPECIFICATION MCSpec
CHECK_DEADLOCK FALSE
INVARIANTS
  RecordsAgree
  StoredTextExact
  TerminalBackedByRow
