CONSTANTS
  MaxStops = 1
  MaxCancels = 1
SPECIFICATION FairSpec
CHECK_DEADLOCK FALSE
PROPERTY RestoreCompletes
