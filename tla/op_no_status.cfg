SPECIFICATION Spec
CONSTANTS
  a = a
  b = b
  CRs = {a}
  Workers = {w1}
  Specs <- Varied
  Deletable = {}
  Nil = Nil
  StatusAllowed = FALSE
  StatusKept = FALSE
  MaxEdits = 1
  MaxFaults = 0
  MaxCrashes = 0
INVARIANTS
  StatusTold
CHECK_DEADLOCK FALSE
