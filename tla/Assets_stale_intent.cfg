CONSTANTS
  Hashes = {1}
  Stray = Stray
  Size <- MCSize
  MaxTotalBytes = 2
  Handles = {a, b}
  a = a
  b = b
  Durable = {d}
  Importers = {1}
  Exports = {x1, x2}
  StagingNames = {n1, n2, n3}
  QuarantineNames = {1, 2}
  MaxSessions = 1
  Nil = Nil
SPECIFICATION DamagedSpec
CHECK_DEADLOCK FALSE
PROPERTY OnlyCorruptQuarantined
