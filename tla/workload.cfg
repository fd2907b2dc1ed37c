SPECIFICATION FairSpec
CONSTANTS
  Pods = {p1, p2}
  Handlers = {h1, h2}
  Configs <- MCConfigs
  FormStart <- MCOff
  JobStart <- MCJob
  Items = 3
  MaxFaults = 2
  Stories = {"form", "job", "early"}
  None = None
INVARIANTS OneLiveWorker RunsTheConfig StopsSoon Accounted NothingLeft
PROPERTIES JobCompletes
CHECK_DEADLOCK FALSE
