CONSTANTS
  Stories = {"reset", "destroy", "snapshot", "acks"}
  Acker = {a1, a2}
  MaxInFlight = 2
  MaxWire = 2
  MaxUsage = 0
  Retries = 1
  Commands = {"destroy", "reset", "snapshot"}
  FaultOps <- NoFaults
  MaxFaults = 0
SPECIFICATION MCSpec
CHECK_DEADLOCK FALSE
SYMMETRY Symmetry
INVARIANTS
  ClientSeesTruth
  StallIsWatched
  ReceivedEventIsAckable
