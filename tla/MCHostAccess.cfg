SPECIFICATION FairSpec
CONSTANTS
  a1 = a1  c1 = c1  c2 = c2
  None = None
  Asks <- MCAsks
  Calls <- MCCalls
  MaxStops = 1
  Faults = {"poll", "result", "engine", "crash"}
  MaxMishaps = 1
INVARIANTS
  RunsOnce
  CanceledIsOver
PROPERTIES
  ImplementsLoan
  CancelArrives
