SPECIFICATION MetricsSpec
CONSTANTS
  requests = requests
  active = active
  flags = flags
  Declared <- MCDeclared
  Sorted <- MCSorted
  Kind <- MCKind
  Segs = {s1, s2, s3}
  Bases = {a1, a2}
  Half = 2
  Bound = 1
  Stored = {0, 3}
  NULL = NULL
SYMMETRY Symmetry
INVARIANTS
  MetricsTypeOK
  PointsExact
  ClientExact
  ValuesRight
CHECK_DEADLOCK FALSE
