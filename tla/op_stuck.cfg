SPECIFICATION FairSpec
CONSTANTS
  a = a
  b = b
  CRs = {a}
  Workers = {w1}
  Specs <- Varied
  Deletable = {a}
  Nil = Nil
  StatusAllowed = TRUE
  StatusKept = TRUE
  MaxEdits = 2
  MaxFaults = 1
  MaxCrashes = 0
PROPERTIES
  DeletionCompletes
CHECK_DEADLOCK FALSE
