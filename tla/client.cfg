SPECIFICATION FairSpec
CONSTANTS
  maxHistory = 2
  Queues = {1, 2}
  Off = Off
  Conns = {1, 2}
  Tours <- MCTours
  Counts <- MCCounts
  Configs = {Off, c1}
  Names = {n1}
  None = None
  MaxEvents = 3
  MaxFaults = 1
  MaxVisits = 1
INVARIANTS TypeOK FromThisVisit BannerShown FormKept ProbesAsAsked HistoriesComplete
PROPERTIES Converges Quiet
CHECK_DEADLOCK FALSE
