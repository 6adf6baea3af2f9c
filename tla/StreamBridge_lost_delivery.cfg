CONSTANTS
  Acker = {a1}
  MaxInFlight = 2
  MaxWire = 2
  MaxUsage = 0
  Retries = 0
  Commands = {}
  FaultOps <- DeliveryFaults
  MaxFaults = 1
SPECIFICATION FairSpec
CHECK_DEADLOCK FALSE
PROPERTIES
  RowSettles
