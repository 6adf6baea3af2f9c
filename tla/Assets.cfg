CONSTANTS
  Hashes = {1, 2}
  Stray = Stray
  Size <- MCSize
  MaxTotalBytes = 2
  Handles = {a, b}
  a = a
  b = b
  Durable = {d}
  Importers = {1}
  Exports = {x1, x2}
  StagingNames = {n1, n2}
  QuarantineNames = {1}
  MaxSessions = 1
  Nil = Nil
SPECIFICATION Spec
CHECK_DEADLOCK FALSE
INVARIANTS AssetsAccounted
PROPERTIES SharingSafe ExportSafe
SYMMETRY Names
