SPECIFICATION Spec
CONSTANTS
  a = a
  b = b
  CRs = {a, b}
  Workers = {w1, w2}
  Specs <- Shared
  Deletable = {a}
  Nil = Nil
  StatusAllowed = TRUE
  StatusKept = TRUE
  MaxEdits = 3
  MaxFaults = 0
  MaxCrashes = 0
PROPERTIES
  RoutesKept
CHECK_DEADLOCK FALSE
