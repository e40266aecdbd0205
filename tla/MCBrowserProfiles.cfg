SPECIFICATION Spec
CONSTANTS
  b1 = b1  b2 = b2  p1 = p1  p2 = p2  p3 = p3  p4 = p4
  None = None
  Bots <- MCBots
  Requests <- MCRequests
  MaxBrowsers = 1
  Kinds = {"page", "stop", "reset", "idle", "closeAll"}
  Faults = {"launch", "wait", "browser", "page"}
  MaxMishaps = 1
INVARIANTS
  TableIsTrue
  OneBrowserPerBot
  StoppedIsClosed
  RunningIsCapped
SYMMETRY MCSymmetry
