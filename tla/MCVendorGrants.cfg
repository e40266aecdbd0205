SPECIFICATION Spec
CONSTANTS
  p1 = p1  f1 = f1  f2 = f2  c1 = c1  c2 = c2  c3 = c3
  None = None
  People <- MCPeople
  Consents <- MCConsents
  Asker <- MCAsker
  Calls <- MCCalls
  Caller <- MCCaller
  MaxRotations = 2
  MaxClients = 2
SYMMETRY MCSymmetry
INVARIANTS
  SpentOnce
  LiveIsHeld
  RemovedIsOut
CHECK_DEADLOCK FALSE
