SPECIFICATION FairSpec
CONSTANTS
  Clients = {c1, c2}
  Numbers <- MCNumbers
  Loads <- MCLoads
  NaN = NaN
  None = None
  MULTIPLIER = 3
  HeapMB = 100
INVARIANTS TypeOK PrimesRight Graceful
PROPERTIES EveryRequestSettled ShutsDown
CHECK_DEADLOCK FALSE
