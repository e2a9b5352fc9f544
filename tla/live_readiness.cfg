CONSTANTS
  p1 = p1
  p2 = p2
  p3 = p3
  c1 = c1
  c2 = c2
  q1 = q1
  q2 = q2
  s1 = s1
  s2 = s2
  Idle = Idle
  Scopes <- MCScopes
  Periods <- MCPeriods
  Closers <- MCClosers
  Qualifiers <- MCQualifiers
  MinPeriods = 2
  Life = 2
  MaxTime = 3
  MaxReceipts = 2
  MaxAlerts = 1
SYMMETRY MCSymmetry
SPECIFICATION Spec
PROPERTIES StartIsQualified DriftStopsAlerts
CHECK_DEADLOCK FALSE
