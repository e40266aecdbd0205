SPECIFICATION Spec
CONSTANTS
  l1 = l1  l2 = l2  a1 = a1  g1 = g1  s1 = s1  s2 = s2
  Looks <- MCLooks
  Acts <- MCActs
  Opens <- MCOpens
  Replicas <- MCReplicas
  Home <- MCHome
  Drills <- MCDrills
  MaxMoves = 1
  Faults = {"ensure", "answer", "trail"}
  MaxMishaps = 1
INVARIANTS
  JudgedIsActed
  FreshIsHonoured
  TrailIsWhole
CHECK_DEADLOCK FALSE
