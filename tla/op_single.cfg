SPECIFICATION FairSpec
CONSTANTS
  a = a
  b = b
  CRs = {a}
  Workers = {w1}
  Specs <- Varied
  Deletable = {a}
  Nil = Nil
  StatusAllowed = TRUE
  StatusKept = TRUE
  MaxEdits = 3
  MaxFaults = 0
  MaxCrashes = 1
INVARIANTS
  TypeOK
  Deployed
  Routed
  StatusTold
PROPERTIES
  NoLostEdit
  Settles
  DeletionCompletes
CHECK_DEADLOCK FALSE
