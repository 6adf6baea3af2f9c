CONSTANTS
  Views = {"preferences", "client", "page", "gesture"}
  MaxEdits = 2
  MaxForeign = 1
  PrefFaults = 1
  MaxQueued = 1
  Deltas = 2
  Window = 2
  MaxBuffered = 4
  MaxLost = 1
  Visits <- MCVisits
  OldTurns = 1
  PageTurns = 1
  MaxSends = 2
  PageFaults = 2
  MaxGestures = 3
  MaxToggles = 2
SPECIFICATION MCSpec
CHECK_DEADLOCK FALSE
INVARIANTS
  PreferencesKept
  ClientHonest
  PageWhole
  GestureClean
PROPERTY
  WebViewSettles
