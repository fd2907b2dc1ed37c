SPECIFICATION Spec
CONSTANTS
  a = a
  b = b
  CRs = {a}
  Workers = {w1}
  Specs <- Cleared
  Deletable = {}
  Nil = Nil
  StatusAllowed = TRUE
  StatusKept = TRUE
  MaxEdits = 2
  MaxFaults = 0
  MaxCrashes = 0
INVARIANTS
  NoOrphanRoute
CHECK_DEADLOCK FALSE
