SPECIFICATION FairSpec
CONSTANTS
  a = a
  b = b
  CRs = {a, b}
  Workers = {w1, w2}
  Specs <- Shared
  Deletable = {}
  Nil = Nil
  StatusAllowed = FALSE
  StatusKept = FALSE
  MaxEdits = 2
  MaxFaults = 0
  MaxCrashes = 0
INVARIANTS
  OneWorkerPerKey
  Routed
PROPERTIES
  RoutesKept
  Settles
CHECK_DEADLOCK FALSE
