SPECIFICATION FairSpec
CONSTANTS
  s1 = s1  s2 = s2  t1 = t1  t2 = t2
  Nothing = Nothing
  Sockets <- MCSockets
  Latecomers <- MCLatecomers
  Ticks <- MCTicks
  MaxTurns = 2
INVARIANTS
  OneScreen
  LoopEndsWithBrowser
PROPERTIES
  ScreenFollows
  WheelIsKept
